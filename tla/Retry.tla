-------------------------------- MODULE Retry --------------------------------
(***************************************************************************)
(* The Retry object of retry.py: an immutable record of counters and a     *)
(* history; increment() gives the next one or raises.  The operators are   *)
(* the class's methods; RetryBudget.tla and Redirect.tla use them.         *)
(*                                                                         *)
(* A counter is an integer, None (no limit of its own) or PyFalse (fail at   *)
(* the first error).  True counts as 1 in Python and is left out.          *)
(***************************************************************************)
EXTENDS Integers, Sequences

CONSTANTS None, PyFalse

ASSUME NotNumbers == None \notin Int /\ PyFalse \notin Int /\ None # PyFalse

Counters == {"total", "connect", "read", "redirect", "status", "other"}

\* The events increment() tells apart; a redirect is a response with a
\* location, a status any other response, "unknown" neither response nor error.
Errors == {"connect", "read", "other"}
Events == Errors \cup {"redirect", "status", "unknown"}

CounterValues == Int \cup {None, PyFalse}

\* What __init__ makes: redirect=False has become 0, and with total=False a
\* redirect is returned.
IsRetry(r) ==
  /\ r.counters \in [Counters -> CounterValues]
  /\ r.counters.redirect # PyFalse
  /\ r.counters.total = PyFalse => ~r.raiseOnRedirect
  /\ r.history \in Seq(Events)

\* Mutated: the history is lost.
NewRetryForgets(counters, raises, history) ==
  LET returns == counters.redirect = PyFalse \/ counters.total = PyFalse
  IN  [ counters |-> [c \in Counters |->
                       IF c = "redirect" /\ returns THEN 0 ELSE counters[c]],
        raiseOnRedirect |-> raises /\ ~returns,
        history |-> <<>> ]

\* __init__: redirect=False or total=False stands for "return the redirect".
NewRetry(counters, raises, history) ==
  LET returns == counters.redirect = PyFalse \/ counters.total = PyFalse
  IN  [ counters |-> [c \in Counters |->
                       IF c = "redirect" /\ returns THEN 0 ELSE counters[c]],
        raiseOnRedirect |-> raises /\ ~returns,
        history |-> history ]

\* Retry(total=n), and Retry.DEFAULT
RetryOf(n) ==
  NewRetry([c \in Counters |-> IF c = "total" THEN n ELSE None], TRUE, <<>>)
DEFAULT == RetryOf(3)

\* Python's x - 1, where False is 0.
Minus1(x) == IF x = PyFalse THEN -1 ELSE x - 1

\* Mutated: the total alone.
SpentTotal(counters, event) ==
  [c \in Counters |->
     IF c = "total" /\ counters[c] # None THEN Minus1(counters[c]) ELSE counters[c]]

\* The counters increment() takes 1 from, if they are not None: the total, and
\* the event's own.  (connect and read are not False here: see Reraises.)
Spent(counters, event) ==
  [c \in Counters |->
     IF c \in {"total", event} /\ counters[c] # None THEN Minus1(counters[c])
     ELSE counters[c]]

\* Mutated: off by one, either way.
IsExhaustedAtZero(retry) ==
  \E c \in Counters : retry.counters[c] \in Int /\ retry.counters[c] <= 0
IsExhaustedLate(retry) ==
  \E c \in Counters : retry.counters[c] \in Int /\ retry.counters[c] < -1

\* is_exhausted: the smallest of the counters that are not None, False or 0.
IsExhausted(retry) ==
  \E c \in Counters : retry.counters[c] \in Int /\ retry.counters[c] < 0

\* increment() raises the error it was given.
Reraises(retry, event, retryable) ==
  \/ event \in Errors /\ retry.counters.total = PyFalse
  \/ event = "connect" /\ retry.counters.connect = PyFalse
  \/ event = "read" /\ (retry.counters.read = PyFalse \/ ~retryable)

\* The Retry object increment() makes; it raises MaxRetryError if exhausted.
Incremented(retry, event) ==
  NewRetry(Spent(retry.counters, event), retry.raiseOnRedirect,
           Append(retry.history, event))

\* Mutated: redirects count as errors.
AllEvents(retry) == Len(retry.history)

\* get_backoff_time: errors since the last redirect, and the wait before the
\* next attempt, doubled from the second error on.
ConsecutiveErrors(retry) ==
  LET h == retry.history
      redirects == {i \in DOMAIN h : h[i] = "redirect"}
  IN  Len(h) - (CHOOSE last \in {0} \cup redirects : \A i \in redirects : i <= last)

\* 2 ** n
TwoTo(n) ==
  LET power[i \in 0..n] == IF i = 0 THEN 1 ELSE 2 * power[i - 1]
  IN  power[n]

BackoffTime(retry, factor, max) ==
  LET n == ConsecutiveErrors(retry)
      doubled == factor * TwoTo(n - 1)
  IN  IF n <= 1 THEN 0
      ELSE IF doubled > max THEN max ELSE doubled
=============================================================================
