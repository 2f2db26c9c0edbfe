-------------------------- MODULE RetryBudgetProofs --------------------------
(***************************************************************************)
(* For any Retry object to start with and any number of events: the        *)
(* counters and the history agree, a request ends exactly when a counter   *)
(* that applies is used up, and the wait doubles from error to error.      *)
(***************************************************************************)
EXTENDS RetryBudget, FiniteSetTheorems, WellFoundedInduction, TLAPS

Types ==
  /\ initial \in Initials
  /\ initial.counters \in [Counters -> CounterValues]
  /\ retry.history \in Seq(Events)
  /\ retry.counters \in [Counters -> CounterValues]
  /\ retry.counters.redirect # PyFalse
  /\ last \in Events

BInv == Types /\ CountersMatchHistory

\* The events of a history that count against c.
Counting(history, c) == {i \in DOMAIN history : c \in {"total", history[i]}}

\* One more event: one more use of the counters it counts against.
LEMMA OneMoreUse ==
  ASSUME NEW history \in Seq(Events), NEW event \in Events, NEW c \in Counters
  PROVE  /\ Cardinality(Counting(history, c)) \in Nat
         /\ Cardinality(Counting(Append(history, event), c)) =
              Cardinality(Counting(history, c)) + (IF c \in {"total", event} THEN 1 ELSE 0)
<1> DEFINE n == Len(history)
           old == Counting(history, c)
           new == Counting(Append(history, event), c)
<1>1. n \in Nat /\ DOMAIN history = 1..n
  OBVIOUS
<1>2. IsFiniteSet(old) /\ n + 1 \notin old
  <2>1. old \subseteq 1..n /\ IsFiniteSet(1..n)
    BY <1>1, FS_Interval DEF Counting
  <2> QED
    BY <1>1, <2>1, FS_Subset
<1>3. Cardinality(old) \in Nat
  BY <1>2, FS_CardinalityType
<1>4. new = IF c \in {"total", event} THEN old \cup {n + 1} ELSE old
  <2>1. /\ DOMAIN Append(history, event) = 1..(n + 1)
        /\ Append(history, event)[n + 1] = event
        /\ \A i \in 1..n : Append(history, event)[i] = history[i]
    OBVIOUS
  <2>2. \A i : i \in 1..(n + 1) <=> i \in 1..n \/ i = n + 1
    BY <1>1
  <2>3. \A i : i \in new <=> i \in old \/ (i = n + 1 /\ c \in {"total", event})
    BY <1>1, <2>1, <2>2 DEF Counting
  <2> QED
    BY <2>3
<1>5. Cardinality(old \cup {n + 1}) = Cardinality(old) + 1
  BY <1>2, FS_AddElement
<1> QED
  BY <1>3, <1>4, <1>5

\* What increment() makes of a Retry object whose redirect is not False: the
\* counters less 1 where the event counts; __init__ changes none of them.
LEMMA NextRetry ==
  ASSUME Types, NEW event \in Events
  PROVE  /\ Incremented(retry, event).history = Append(retry.history, event)
         /\ Incremented(retry, event).counters \in [Counters -> CounterValues]
         /\ \A c \in Counters :
              Incremented(retry, event).counters[c] =
                IF c \in {"total", event} /\ retry.counters[c] # None
                  THEN Minus1(retry.counters[c]) ELSE retry.counters[c]
         /\ Incremented(retry, event).counters.redirect # PyFalse
<1> USE NotNumbers
<1> DEFINE spent == Spent(retry.counters, event)
<1>1. /\ \A c \in Counters : spent[c] =
           IF c \in {"total", event} /\ retry.counters[c] # None
             THEN Minus1(retry.counters[c]) ELSE retry.counters[c]
      /\ DOMAIN spent = Counters
  BY DEF Spent
<1>2. \A x \in CounterValues : x # None => Minus1(x) \in Int
  BY DEF Minus1, CounterValues
<1>3. "redirect" \in Counters /\ "total" \in Counters
  BY DEF Counters
<1>4. \A c \in Counters : spent[c] \in CounterValues
  BY <1>1, <1>2 DEF Types, CounterValues
<1>5. spent["redirect"] # PyFalse /\ spent["total"] # PyFalse
  BY <1>1, <1>2, <1>3 DEF Types
<1> HIDE DEF spent
<1>6. /\ Incremented(retry, event).history = Append(retry.history, event)
      /\ Incremented(retry, event).counters = [c \in Counters |-> spent[c]]
  BY <1>5 DEF Incremented, NewRetry, spent
<1> QED
  BY <1>1, <1>3, <1>4, <1>5, <1>6

LEMMA Init_BInv == Init => BInv
<1> SUFFICES ASSUME Init PROVE BInv
  OBVIOUS
<1>1. /\ initial \in Initials /\ retry = initial /\ last = "unknown"
      /\ initial.history = <<>>
      /\ initial.counters \in [Counters -> CounterValues]
      /\ initial.counters.redirect # PyFalse
  BY InitialsAssumption DEF Init, IsRetry
<1>2. Types
  BY <1>1 DEF Types, Events
<1>3. ASSUME NEW c \in Counters PROVE Used(c) = 0
  BY <1>1, FS_EmptySet DEF Used
<1>4. CountersMatchHistory
  BY <1>1, <1>3 DEF CountersMatchHistory
<1> QED
  BY <1>2, <1>4 DEF BInv

LEMMA Next_BInv == BInv /\ [Next]_vars => BInv'
<1> SUFFICES ASSUME BInv, [Next]_vars PROVE BInv'
  OBVIOUS
<1>0. Types /\ CountersMatchHistory
  BY DEF BInv
<1>1. CASE UNCHANGED <<initial, retry>> /\ last' \in Events
  BY <1>0, <1>1 DEF BInv, Types, CountersMatchHistory, Used
<1>2. ASSUME NEW event \in Events, last' = event, UNCHANGED initial,
             retry' = Incremented(retry, event), ~IsExhausted(retry')
      PROVE  BInv'
  <2>1. /\ retry'.history = Append(retry.history, event)
        /\ retry'.counters \in [Counters -> CounterValues]
        /\ \A c \in Counters :
             retry'.counters[c] =
               IF c \in {"total", event} /\ retry.counters[c] # None
                 THEN Minus1(retry.counters[c]) ELSE retry.counters[c]
        /\ retry'.counters.redirect # PyFalse
    BY <1>0, <1>2, NextRetry
  <2>2. Types'
    BY <1>0, <1>2, <2>1 DEF Types
  <2>3. ASSUME NEW c \in Counters, initial.counters[c] \in Int
        PROVE  /\ retry'.counters[c] = initial.counters[c] - Used(c)'
               /\ retry'.counters[c] >= 0
    <3>1. retry.counters[c] = initial.counters[c] - Used(c)
      BY <1>0, <2>3 DEF CountersMatchHistory
    <3>2. /\ Used(c) \in Nat
          /\ Used(c)' = Used(c) + (IF c \in {"total", event} THEN 1 ELSE 0)
      <4>1. /\ Used(c) = Cardinality(Counting(retry.history, c))
            /\ Used(c)' = Cardinality(Counting(Append(retry.history, event), c))
        BY <2>1 DEF Used, Counting
      <4>2. retry.history \in Seq(Events)
        BY <1>0 DEF Types
      <4> QED
        BY <4>1, <4>2, OneMoreUse
    <3>3. retry.counters[c] \in Int
      BY <2>3, <3>1, <3>2
    <3>4. retry'.counters[c] =
            retry.counters[c] - (IF c \in {"total", event} THEN 1 ELSE 0)
      BY <2>1, <3>3, NotNumbers DEF Minus1
    <3>5. retry'.counters[c] >= 0
      BY <1>2, <3>3, <3>4 DEF IsExhausted
    <3> QED
      BY <2>3, <3>1, <3>2, <3>4, <3>5
  <2>4. CountersMatchHistory'
    BY <1>2, <2>3 DEF CountersMatchHistory
  <2> QED
    BY <2>2, <2>4 DEF BInv
<1>3. CASE Next
  <2>1. PICK event \in Events, retryable \in BOOLEAN : Report(event, retryable)
    BY <1>3 DEF Next
  <2>2. /\ last' = event /\ UNCHANGED initial
        /\ \/ UNCHANGED retry
           \/ retry' = Incremented(retry, event) /\ ~IsExhausted(retry')
    BY <2>1 DEF Report
  <2> QED
    BY <1>1, <1>2, <2>2
<1>4. CASE UNCHANGED vars
  BY <1>0, <1>1, <1>4 DEF vars, Types
<1> QED
  BY <1>3, <1>4

LEMMA Spec_BInv == Spec => []BInv
<1>1. Init => BInv
  BY Init_BInv
<1>2. BInv /\ [Next]_vars => BInv'
  BY Next_BInv
<1> QED
  BY <1>1, <1>2, PTL DEF Spec

\* increment() and new(): whatever happens to a request, each counter is what
\* it started with less the events of the history that count against it, and
\* one that started at zero or more is never below zero.
THEOREM CountersMatchHistoryHolds == Spec => []CountersMatchHistory
<1>1. BInv => CountersMatchHistory
  BY DEF BInv
<1> QED
  BY <1>1, Spec_BInv, PTL

\* No counter was negative from the start (such a Retry object is exhausted
\* before it is used).
NoneNegative ==
  \A r \in Initials, c \in Counters : r.counters[c] \in Int => r.counters[c] >= 0

\* While events are reported every counter that limits anything is left or 0.
NoneOverdrawn ==
  \A c \in Counters : retry.counters[c] \in Int => retry.counters[c] >= 0

\* increment(): MaxRetryError comes only when the total, or the counter of the
\* event itself, is used up or False.
THEOREM GivesUpOnlyWhenSpentHolds ==
  ASSUME NoneNegative
  PROVE  Spec => []GivesUpOnlyWhenSpent
<1> DEFINE GInv == BInv /\ NoneOverdrawn /\ GivesUpOnlyWhenSpent
<1>1. Init => GInv
  BY Init_BInv DEF Init, NoneNegative, NoneOverdrawn, GivesUpOnlyWhenSpent
<1>2. GInv /\ [Next]_vars => GInv'
  <2> SUFFICES ASSUME GInv, [Next]_vars PROVE GInv'
    OBVIOUS
  <2>1. BInv'
    BY Next_BInv
  <2>2. CASE UNCHANGED vars
    BY <2>1, <2>2 DEF vars, NoneOverdrawn, GivesUpOnlyWhenSpent
  <2>3. CASE Next
    <3>1. PICK event \in Events, retryable \in BOOLEAN : Report(event, retryable)
      BY <2>3 DEF Next
    <3> DEFINE next == Incremented(retry, event)
    <3>2. \/ retry' = next /\ ~IsExhausted(next) /\ outcome' = "going"
          \/ retry' = retry /\ outcome' = "reraised"
          \/ retry' = retry /\ outcome' = "MaxRetryError" /\ IsExhausted(next)
      BY <3>1 DEF Report
    <3> HIDE DEF next
    <3>3. CASE retry' = next /\ ~IsExhausted(next) /\ outcome' = "going"
      BY <2>1, <3>3 DEF IsExhausted, NoneOverdrawn, GivesUpOnlyWhenSpent
    <3>4. CASE retry' = retry /\ outcome' = "reraised"
      BY <2>1, <3>4 DEF NoneOverdrawn, GivesUpOnlyWhenSpent
    <3>5. CASE retry' = retry /\ outcome' = "MaxRetryError" /\ IsExhausted(next)
      <4>1. PICK c \in Counters : next.counters[c] \in Int /\ next.counters[c] < 0
        BY <3>5 DEF IsExhausted
      <4>2. next.counters[c] = IF c \in {"total", event} /\ retry.counters[c] # None
                                 THEN Minus1(retry.counters[c]) ELSE retry.counters[c]
        BY NextRetry DEF next, BInv
      <4>3. retry.counters[c] \in CounterValues
        BY DEF BInv, Types
      <4>4. c \in {"total", event} /\ retry.counters[c] \in {0, PyFalse}
        BY <4>1, <4>2, <4>3, NotNumbers DEF NoneOverdrawn, CounterValues, Minus1
      <4>5. last' = event
        BY <3>1 DEF Report
      <4>6. GivesUpOnlyWhenSpent'
        BY <3>5, <4>4, <4>5 DEF GivesUpOnlyWhenSpent
      <4> QED
        BY <2>1, <3>5, <4>6 DEF NoneOverdrawn
    <3> QED
      BY <3>2, <3>3, <3>4, <3>5
  <2> QED
    BY <2>2, <2>3
<1> HIDE DEF GInv
<1>3. GInv => GivesUpOnlyWhenSpent
  BY DEF GInv
<1> QED
  BY <1>1, <1>2, <1>3, PTL DEF Spec

\* increment() and is_exhausted: the event that meets a used-up counter of its
\* own, or a used-up total, is the last.
THEOREM StopsWhenSpentHolds == Spec => StopsWhenSpent
<1> DEFINE Stops ==
      \A c \in {"total", last'} \cap Counters :
        outcome = "going" /\ retry.counters[c] = 0 => outcome' # "going"
<1>1. BInv /\ [Next]_vars => [Stops]_vars
  <2> SUFFICES ASSUME BInv, Next, NEW c \in {"total", last'} \cap Counters,
                      outcome = "going", retry.counters[c] = 0
               PROVE  outcome' # "going"
    OBVIOUS
  <2>1. PICK event \in Events, retryable \in BOOLEAN : Report(event, retryable)
    BY DEF Next
  <2>2. Incremented(retry, event).counters[c] = -1
    <3>1. last' = event
      BY <2>1 DEF Report
    <3>2. Incremented(retry, event).counters[c] = Minus1(0)
      BY <3>1, NextRetry, NotNumbers DEF BInv
    <3> QED
      BY <3>2, NotNumbers DEF Minus1
  <2>3. IsExhausted(Incremented(retry, event))
    BY <2>2 DEF IsExhausted
  <2> QED
    BY <2>1, <2>3 DEF Report
<1> QED
  BY <1>1, Spec_BInv, PTL DEF Spec, StopsWhenSpent

------------------------------------------------------------------------------
(* The wait before the next attempt *)

\* Induction over the natural numbers, for a set.
LEMMA InductionOverNat ==
  ASSUME NEW S, 0 \in S, \A n \in Nat : n \in S => n + 1 \in S
  PROVE  Nat \subseteq S
<1> SUFFICES ASSUME Nat \ S # {} PROVE FALSE
  OBVIOUS
<1> DEFINE R == OpToRel(<, Nat)
<1>1. IsWellFoundedOn(R, Nat)
  BY NatLessThanWellFounded, Zenon
<1>2. Nat \ S \subseteq Nat
  OBVIOUS
<1> HIDE DEF R
<1>3. PICK x \in Nat \ S : \A y \in Nat \ S : ~(<<y, x>> \in R)
  BY <1>1, <1>2, WFMin
<1>4. x # 0 /\ x - 1 \in Nat /\ x - 1 < x
  OBVIOUS
<1>5. x - 1 \in S
  BY <1>3, <1>4 DEF OpToRel, R
<1>6. (x - 1) + 1 \in S
  BY <1>4, <1>5
<1> QED
  BY <1>3, <1>6

\* p is the recursive function of TwoTo(n).
Powers(p, n) == p = [i \in 0..n |-> IF i = 0 THEN 1 ELSE 2 * p[i - 1]]

LEMMA PowersExist ==
  ASSUME NEW m \in Nat
  PROVE  \E p : Powers(p, m)
<1> DEFINE T == {n \in Nat : \E p : Powers(p, n)}
<1>1. 0 \in T
  <2> DEFINE p == [i \in 0..0 |-> 1]
  <2>1. Powers(p, 0)
    BY DEF Powers
  <2> QED
    BY <2>1
<1>2. ASSUME NEW n \in Nat, n \in T PROVE n + 1 \in T
  <2>1. PICK p : Powers(p, n)
    BY <1>2
  <2> DEFINE q == [i \in 0..n+1 |-> IF i \in 0..n THEN p[i] ELSE 2 * p[i - 1]]
  <2>2. \A i \in 0..n : p[i] = IF i = 0 THEN 1 ELSE 2 * p[i - 1]
    BY <2>1 DEF Powers
  <2>3. ASSUME NEW i \in 0..n+1
        PROVE  q[i] = IF i = 0 THEN 1 ELSE 2 * q[i - 1]
    <3>1. CASE i = 0
      BY <2>2, <3>1
    <3>2. CASE i # 0
      <4>1. i - 1 \in 0..n
        BY <3>2
      <4>2. q[i - 1] = p[i - 1]
        BY <4>1
      <4>3. q[i] = 2 * p[i - 1]
        BY <2>2, <3>2
      <4> QED
        BY <3>2, <4>2, <4>3
    <3> QED
      BY <3>1, <3>2
  <2>4. q = [i \in 0..n+1 |-> q[i]]
    OBVIOUS
  <2> HIDE DEF q
  <2>5. Powers(q, n + 1)
    BY <2>3, <2>4 DEF Powers
  <2> QED
    BY <2>5
<1>3. m \in T
  <2> HIDE DEF T
  <2> QED
    BY <1>1, <1>2, InductionOverNat
<1> QED
  BY <1>3

LEMMA TwoToIsPower ==
  ASSUME NEW n \in Nat
  PROVE  \E p : Powers(p, n) /\ TwoTo(n) = p[n]
<1> DEFINE f == CHOOSE power : power = [i \in 0..n |-> IF i = 0 THEN 1 ELSE 2 * power[i - 1]]
<1>1. f = [i \in 0..n |-> IF i = 0 THEN 1 ELSE 2 * f[i - 1]]
  <2>1. \E p : Powers(p, n)
    BY PowersExist
  <2> QED
    BY <2>1, Zenon DEF Powers
<1>2. TwoTo(n) = f[n]
  BY DEF TwoTo
<1> HIDE DEF f
<1> QED
  BY <1>1, <1>2 DEF Powers

\* Each power is twice the one before it, and 1 at least.
LEMMA TwoToDoubles ==
  /\ TwoTo(0) = 1
  /\ \A n \in Nat : TwoTo(n + 1) = 2 * TwoTo(n)
  /\ \A n \in Nat : TwoTo(n) \in Nat /\ TwoTo(n) >= 1
<1>1. TwoTo(0) = 1
  <2>1. PICK p : Powers(p, 0) /\ TwoTo(0) = p[0]
    BY TwoToIsPower
  <2>2. \A i \in 0..0 : p[i] = IF i = 0 THEN 1 ELSE 2 * p[i - 1]
    BY <2>1 DEF Powers
  <2> QED
    BY <2>1, <2>2
<1>2. ASSUME NEW n \in Nat PROVE TwoTo(n + 1) = 2 * TwoTo(n)
  <2>1. PICK p : Powers(p, n) /\ TwoTo(n) = p[n]
    BY TwoToIsPower
  <2>2. PICK q : Powers(q, n + 1) /\ TwoTo(n + 1) = q[n + 1]
    BY TwoToIsPower
  <2>3. \A i \in 0..n : p[i] = IF i = 0 THEN 1 ELSE 2 * p[i - 1]
    BY <2>1 DEF Powers
  <2>4. \A i \in 0..n+1 : q[i] = IF i = 0 THEN 1 ELSE 2 * q[i - 1]
    BY <2>2 DEF Powers
  <2> DEFINE T == {i \in Nat : i <= n => p[i] = q[i]}
  <2>5. 0 \in T
    BY <2>3, <2>4
  <2>6. ASSUME NEW i \in Nat, i \in T PROVE i + 1 \in T
    <3> SUFFICES ASSUME i + 1 <= n PROVE p[i + 1] = q[i + 1]
      OBVIOUS
    <3>1. p[i] = q[i]
      BY <2>6
    <3>2. p[i + 1] = 2 * p[(i + 1) - 1]
      BY <2>3
    <3>3. q[i + 1] = 2 * q[(i + 1) - 1]
      BY <2>4
    <3>4. (i + 1) - 1 = i
      OBVIOUS
    <3> QED
      BY <3>1, <3>2, <3>3, <3>4
  <2>7. n \in T
    <3> HIDE DEF T
    <3> QED
      BY <2>5, <2>6, InductionOverNat
  <2>8. q[n + 1] = 2 * q[(n + 1) - 1] /\ (n + 1) - 1 = n
    BY <2>4
  <2> QED
    BY <2>1, <2>2, <2>7, <2>8
<1>3. \A n \in Nat : TwoTo(n) \in Nat /\ TwoTo(n) >= 1
  <2> DEFINE T == {n \in Nat : TwoTo(n) \in Nat /\ TwoTo(n) >= 1}
  <2>1. 0 \in T
    BY <1>1
  <2>2. ASSUME NEW n \in Nat, n \in T PROVE n + 1 \in T
    BY <1>2, <2>2
  <2> HIDE DEF T
  <2>3. Nat \subseteq T
    BY <2>1, <2>2, InductionOverNat
  <2> USE DEF T
  <2> QED
    BY <2>3
<1> QED
  BY <1>1, <1>2, <1>3

Redirects(h) == {i \in DOMAIN h : h[i] = "redirect"}
LastRedirect(h, k) ==
  k \in {0} \cup Redirects(h) /\ \A i \in Redirects(h) : i <= k

LEMMA LastRedirectExists ==
  ASSUME NEW h \in Seq(Events)
  PROVE  \E k : LastRedirect(h, k)
<1> DEFINE S == {n \in Nat : Len(h) - n \in {0} \cup Redirects(h)}
           R == OpToRel(<, Nat)
<1>0. Len(h) \in Nat /\ Redirects(h) \subseteq 1..Len(h)
  BY DEF Redirects
<1>1. IsWellFoundedOn(R, Nat)
  BY NatLessThanWellFounded, Zenon
<1>2. Len(h) \in S /\ S \subseteq Nat
  BY <1>0
<1> HIDE DEF S, R
<1>3. PICK x \in S : \A y \in S : ~(<<y, x>> \in R)
  BY <1>1, <1>2, WFMin
<1>4. ASSUME NEW i \in Redirects(h) PROVE i <= Len(h) - x
  <2>1. i \in 1..Len(h) /\ Len(h) - i \in Nat /\ Len(h) - (Len(h) - i) = i
    BY <1>0
  <2>2. Len(h) - i \in S
    BY <2>1 DEF S
  <2>3. ~(Len(h) - i < x)
    BY <1>2, <1>3, <2>2 DEF OpToRel, R
  <2> QED
    BY <1>0, <1>2, <2>1, <2>3
<1>5. LastRedirect(h, Len(h) - x)
  BY <1>4 DEF LastRedirect, S
<1> QED
  BY <1>5

LEMMA ConsecutiveErrorsCount ==
  ASSUME NEW r, r.history \in Seq(Events)
  PROVE  \E k : /\ LastRedirect(r.history, k)
                /\ ConsecutiveErrors(r) = Len(r.history) - k
<1> DEFINE l == CHOOSE k \in {0} \cup Redirects(r.history) :
                     \A i \in Redirects(r.history) : i <= k
<1>1. \E k \in {0} \cup Redirects(r.history) : \A i \in Redirects(r.history) : i <= k
  BY LastRedirectExists DEF LastRedirect
<1>2. LastRedirect(r.history, l)
  BY <1>1, Zenon DEF LastRedirect
<1>3. ConsecutiveErrors(r) = Len(r.history) - l
  BY Zenon DEF ConsecutiveErrors, Redirects
<1> HIDE DEF l
<1> QED
  BY <1>2, <1>3

\* One more event: one more error in a row, or none after a redirect.
LEMMA OneMoreError ==
  ASSUME NEW r, NEW s, NEW event \in Events,
         r.history \in Seq(Events), s.history = Append(r.history, event)
  PROVE  /\ ConsecutiveErrors(r) \in Nat
         /\ ConsecutiveErrors(s) = IF event = "redirect" THEN 0
                                   ELSE ConsecutiveErrors(r) + 1
<1> DEFINE h == r.history
           g == s.history
           n == Len(h)
<1>1. h \in Seq(Events) /\ g \in Seq(Events) /\ n \in Nat /\ Len(g) = n + 1
  OBVIOUS
<1>2. PICK a : LastRedirect(h, a) /\ ConsecutiveErrors(r) = n - a
  BY ConsecutiveErrorsCount
<1>3. PICK b : LastRedirect(g, b) /\ ConsecutiveErrors(s) = Len(g) - b
  BY <1>1, ConsecutiveErrorsCount
<1>4. \A i : i \in Redirects(g) <=> i \in Redirects(h) \/ (i = n + 1 /\ event = "redirect")
  <2>1. /\ DOMAIN h = 1..n /\ DOMAIN g = 1..(n + 1) /\ g[n + 1] = event
        /\ \A i \in 1..n : g[i] = h[i]
    OBVIOUS
  <2>2. \A i : i \in 1..(n + 1) <=> i \in 1..n \/ i = n + 1
    BY <1>1
  <2>3. n + 1 \notin 1..n
    BY <1>1
  <2> QED
    BY <2>1, <2>2, <2>3 DEF Redirects
<1>5. Redirects(h) \subseteq 1..n
  BY DEF Redirects
<1> HIDE DEF h, g, n
<1>6. a \in 0..n /\ n - a \in Nat
  BY <1>1, <1>2, <1>5 DEF LastRedirect
<1>7. CASE event = "redirect"
  <2>1. n + 1 \in Redirects(g) /\ \A i \in Redirects(g) : i \in Int /\ i <= n + 1
    BY <1>1, <1>4, <1>5, <1>7
  <2>2. b \in Int /\ b >= n + 1 /\ b <= n + 1
    BY <1>1, <1>3, <2>1 DEF LastRedirect
  <2>3. b = n + 1
    BY <1>1, <2>2
  <2> QED
    BY <1>1, <1>2, <1>3, <1>6, <1>7, <2>3
<1>8. CASE event # "redirect"
  <2>1. Redirects(g) = Redirects(h)
    BY <1>4, <1>8
  <2>2. b \in 0..n /\ b = a
    BY <1>1, <1>2, <1>3, <1>5, <1>6, <2>1 DEF LastRedirect
  <2> QED
    BY <1>1, <1>2, <1>3, <1>6, <1>8, <2>2
<1> QED
  BY <1>7, <1>8

\* get_backoff_time: for any factor and any maximum, the wait is nothing after
\* a first error or a redirect, twice the factor after the second error, and
\* from there twice the wait before it, until it reaches backoff_max.
THEOREM BackoffDoublesHolds == Spec => BackoffDoubles
<1> DEFINE Doubles ==
      retry' # retry =>
        Backoff' = IF last' = "redirect" THEN 0
                   ELSE IF Backoff = 0
                        THEN IF ConsecutiveErrors(retry) = 0 THEN 0
                             ELSE IF 2 * BackoffFactor > BackoffMax THEN BackoffMax
                                  ELSE 2 * BackoffFactor
                        ELSE IF 2 * Backoff > BackoffMax THEN BackoffMax
                             ELSE 2 * Backoff
<1>1. BInv /\ [Next]_vars => [Doubles]_vars
  <2> SUFFICES ASSUME BInv, Next, retry' # retry PROVE Doubles
    BY DEF vars
  <2>1. PICK event \in Events, retryable \in BOOLEAN : Report(event, retryable)
    BY DEF Next
  <2>2. last' = event /\ retry' = Incremented(retry, event)
    BY <2>1 DEF Report
  <2>3. retry'.history = Append(retry.history, event) /\ retry.history \in Seq(Events)
    BY <2>2, NextRetry DEF BInv, Types
  <2> DEFINE n == ConsecutiveErrors(retry)
             m == ConsecutiveErrors(retry')
             f == BackoffFactor
  <2>4. n \in Nat /\ m = IF event = "redirect" THEN 0 ELSE n + 1
    BY <2>3, OneMoreError
  <2>5. Backoff = IF n <= 1 THEN 0
                  ELSE IF f * TwoTo(n - 1) > BackoffMax THEN BackoffMax ELSE f * TwoTo(n - 1)
    BY DEF Backoff, BackoffTime
  <2>6. Backoff' = IF m <= 1 THEN 0
                   ELSE IF f * TwoTo(m - 1) > BackoffMax THEN BackoffMax ELSE f * TwoTo(m - 1)
    BY DEF Backoff, BackoffTime
  <2>7. f \in Nat /\ BackoffMax \in Nat
    BY BackoffAssumption
  <2> SUFFICES Doubles
    OBVIOUS
  <2>8. CASE event = "redirect"
    BY <2>2, <2>4, <2>6, <2>8
  <2>9. CASE event # "redirect" /\ n = 0
    BY <2>2, <2>4, <2>5, <2>6, <2>9
  <2>10. CASE event # "redirect" /\ n = 1
    <3>1. m - 1 = 0 + 1 /\ TwoTo(0 + 1) = 2 * TwoTo(0) /\ TwoTo(0) = 1
      BY <2>4, <2>10, TwoToDoubles
    <3>2. f * TwoTo(m - 1) = 2 * f
      BY <2>7, <3>1
    <3> QED
      BY <2>2, <2>4, <2>5, <2>6, <2>7, <2>10, <3>2
  <2>11. CASE event # "redirect" /\ n > 1
    <3>1. n - 1 \in Nat /\ m - 1 = (n - 1) + 1
      BY <2>4, <2>11
    <3>2. TwoTo(m - 1) = 2 * TwoTo(n - 1) /\ TwoTo(n - 1) \in Nat
      BY <3>1, TwoToDoubles
    <3> DEFINE w == f * TwoTo(n - 1)
    <3>3. w \in Nat /\ (w = 0 <=> f = 0)
      <4>1. TwoTo(n - 1) >= 1
        BY <3>1, TwoToDoubles
      <4> QED
        BY <2>7, <3>2, <4>1
    <3>4. f * TwoTo(m - 1) = 2 * w
      BY <2>7, <3>2
    <3> HIDE DEF w
    <3>5. Backoff = (IF w > BackoffMax THEN BackoffMax ELSE w)
      BY <2>4, <2>5, <2>11 DEF w
    <3>6. Backoff' = (IF 2 * w > BackoffMax THEN BackoffMax ELSE 2 * w)
      BY <2>4, <2>6, <2>11, <3>4
    <3>7. last' # "redirect" /\ n # 0
      BY <2>2, <2>11
    <3> HIDE DEF n, m, f
    <3>8. CASE Backoff = 0
      <4>1. (w = 0 /\ BackoffFactor = 0) \/ BackoffMax = 0
        BY <2>7, <3>3, <3>5, <3>8 DEF f
      <4>2. Backoff' = 0
        BY <2>7, <3>3, <3>6, <4>1 DEF f
      <4> QED
        BY <2>7, <3>7, <3>8, <4>1, <4>2 DEF f, n
    <3>9. CASE Backoff # 0
      BY <2>7, <3>3, <3>5, <3>6, <3>7, <3>9 DEF f
    <3> QED
      BY <3>8, <3>9
  <2> QED
    BY <2>4, <2>8, <2>9, <2>10, <2>11
<1> QED
  BY <1>1, Spec_BInv, PTL DEF Spec, BackoffDoubles
=============================================================================
