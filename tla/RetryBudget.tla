----------------------------- MODULE RetryBudget -----------------------------
(***************************************************************************)
(* A client that drives one request with a Retry object: it reports each   *)
(* error or response to increment() and stops when increment() raises.     *)
(***************************************************************************)
EXTENDS Retry, FiniteSets

CONSTANTS
  Initials,       \* the Retry objects it may start from
  BackoffFactor,  \* backoff_factor, in some unit of time
  BackoffMax,     \* backoff_max
  MaxEvents       \* BOUND: events of one request (a None total has no end)

ASSUME BackoffAssumption == BackoffFactor \in Nat /\ BackoffMax \in Nat
ASSUME EventsAssumption  == MaxEvents \in Nat
ASSUME InitialsAssumption == \A r \in Initials : IsRetry(r) /\ r.history = <<>>

VARIABLES
  initial,   \* the Retry object the request started with (history)
  retry,     \* the one it has now
  outcome,   \* "going", "reraised" or "MaxRetryError"
  last       \* the event reported last (history)

vars == <<initial, retry, outcome, last>>

Init ==
  /\ initial \in Initials
  /\ retry = initial
  /\ outcome = "going"
  /\ last = "unknown"

Report(event, retryable) ==
  /\ outcome = "going"
  /\ Len(retry.history) < MaxEvents
  /\ last' = event
  /\ LET next == Incremented(retry, event)
     IN  \/ /\ Reraises(retry, event, retryable)
            /\ outcome' = "reraised"
            /\ UNCHANGED retry
         \/ /\ ~Reraises(retry, event, retryable)
            /\ IsExhausted(next)
            /\ outcome' = "MaxRetryError"
            /\ UNCHANGED retry
         \/ /\ ~Reraises(retry, event, retryable)
            /\ ~IsExhausted(next)
            /\ retry' = next
            /\ UNCHANGED outcome
  /\ UNCHANGED initial

Next == \E event \in Events, retryable \in BOOLEAN : Report(event, retryable)

Spec == Init /\ [][Next]_vars

------------------------------------------------------------------------------

\* How many events so far count against counter c.
Used(c) == Cardinality({i \in DOMAIN retry.history : c \in {"total", retry.history[i]}})

\* Each counter is what it started with less the events that count against it,
\* and none goes below zero: no counter is spent by another's events, lost or
\* restored by new().
CountersMatchHistory ==
  \A c \in Counters :
    initial.counters[c] \in Int =>
      /\ retry.counters[c] = initial.counters[c] - Used(c)
      /\ initial.counters[c] >= 0 => retry.counters[c] >= 0

\* increment() gives up only when a counter for the event is used up, or was
\* PyFalse where PyFalse is not "raise the error".
GivesUpOnlyWhenSpent ==
  outcome = "MaxRetryError" =>
    \E c \in {"total", last} \cap Counters : retry.counters[c] \in {0, PyFalse}

\* A counter that is used up stops the request at the next event it counts.
StopsWhenSpent ==
  [][\A c \in {"total", last'} \cap Counters :
       outcome = "going" /\ retry.counters[c] = 0 => outcome' # "going"]_vars

Backoff == BackoffTime(retry, BackoffFactor, BackoffMax)

\* The wait doubles with each error in a row until it reaches backoff_max,
\* starts with the second, and starts over after a redirect.
BackoffDoubles ==
  [][retry' # retry =>
       Backoff' = IF last' = "redirect" THEN 0
                  ELSE IF Backoff = 0
                       THEN IF ConsecutiveErrors(retry) = 0 THEN 0
                            ELSE IF 2 * BackoffFactor > BackoffMax THEN BackoffMax
                                 ELSE 2 * BackoffFactor
                       ELSE IF 2 * Backoff > BackoffMax THEN BackoffMax
                            ELSE 2 * Backoff]_vars
=============================================================================
