------------------------------ MODULE Timeout ------------------------------
(***************************************************************************)
(* The class Timeout of timeout.py, as operators on records.  The clock    *)
(* time.monotonic() appears as the time that has passed since              *)
(* start_connect: ran, or NotStarted while _start_connect is None.         *)
(***************************************************************************)
EXTENDS Integers

CONSTANTS
  NoLimit,    \* Python's None
  Default,    \* the sentinel DEFAULT_TIMEOUT
  NotStarted  \* _start_connect is None

ASSUME TimeoutAssumption ==
  /\ NoLimit \notin Int /\ Default \notin Int /\ NotStarted \notin Int
  /\ NoLimit # Default

\* What _check_timeout lets through.  total is the sentinel only if a caller
\* passes it explicitly, which nothing in src/ does.
Given    == (Nat \ {0}) \cup {NoLimit, Default}
Limits   == (Nat \ {0}) \cup {NoLimit}
Timeouts == [connect : Given, read : Given, total : Limits, ran : Nat \cup {NotStarted}]

TimerAt(t, ran) == [connect |-> t.connect, read |-> t.read, total |-> t.total, ran |-> ran]

NewTimeout(connect, read, total) ==
  [connect |-> connect, read |-> read, total |-> total, ran |-> NotStarted]

FromFloat(limit) == NewTimeout(limit, limit, NoLimit)

Clone(t) == NewTimeout(t.connect, t.read, t.total)

\* socket.getdefaulttimeout(): None unless the program has set one.
Resolved(limit) == IF limit = Default THEN NoLimit ELSE limit

Smaller(m, n) == IF m <= n THEN m ELSE n
AtLeast0(n)   == IF n <= 0 THEN 0 ELSE n

\* The property connect_timeout; the sentinel comes out as it went in.
ConnectTimeout(t) ==
  IF t.total = NoLimit THEN t.connect
  ELSE IF t.connect \in {NoLimit, Default} THEN t.total
  ELSE Smaller(t.connect, t.total)

\* Mutated: a total without a read timeout forgets the time that has passed.
ReadTimeoutFromTotal(t) ==
  IF t.total = NoLimit THEN Resolved(t.read)
  ELSE IF t.read \in {NoLimit, Default} THEN t.total
  ELSE AtLeast0(Smaller(t.total - t.ran, t.read))

\* The property read_timeout, once the timer runs.
ReadTimeout(t) ==
  IF t.total = NoLimit THEN Resolved(t.read)
  ELSE IF t.read \in {NoLimit, Default} THEN AtLeast0(t.total - t.ran)
  ELSE AtLeast0(Smaller(t.total - t.ran, t.read))

\* start_connect; it raises if the timer runs already, which callers rule out.
Started(t) == TimerAt(t, 0)

\* The timer of t after d units of time.
After(t, d) == IF t.ran = NotStarted THEN t ELSE TimerAt(t, t.ran + d)
=============================================================================
