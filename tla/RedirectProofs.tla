--------------------------- MODULE RedirectProofs ---------------------------
(***************************************************************************)
(* For any URLs, methods, bodies, limits and number of hops: redirects are *)
(* followed as far as the given Retry object goes and no further, and a    *)
(* 303 stays in force.                                                     *)
(***************************************************************************)
EXTENDS Redirect, SequenceTheorems, TLAPS

Hops == {"total", "redirect"}

------------------------------------------------------------------------------
(* The Retry object of a redirect *)

\* What the user passes stands for a Retry object.
LEMMA GivenIsRetry ==
  ASSUME NEW x \in RetryArgs
  PROVE  IsRetry(FromInt(x))
<1>1. ASSUME NEW n \in CounterValues PROVE IsRetry(RetryOf(n))
  BY NotNumbers DEF RetryOf, NewRetry, IsRetry, Counters, CounterValues, Events, Errors
<1>2. IsRetry(DEFAULT)
  BY <1>1 DEF DEFAULT, CounterValues
<1> QED
  BY <1>1, <1>2, RedirectAssumption DEF FromInt

\* A redirect takes 1 from the total and from the redirects, if they are not
\* None; the new object is one that __init__ makes.
LEMMA NextRetry ==
  ASSUME NEW r, IsRetry(r)
  PROVE  LET next == Incremented(r, "redirect")
         IN  /\ IsRetry(next)
             /\ next.history = Append(r.history, "redirect")
             /\ next.raiseOnRedirect <=> r.raiseOnRedirect
             /\ \A c \in Counters :
                  next.counters[c] = IF c \in Hops /\ r.counters[c] # None
                                     THEN Minus1(r.counters[c]) ELSE r.counters[c]
<1> USE NotNumbers
<1> DEFINE spent == Spent(r.counters, "redirect")
           next  == Incremented(r, "redirect")
<1>1. /\ \A c \in Counters : spent[c] =
           IF c \in Hops /\ r.counters[c] # None THEN Minus1(r.counters[c]) ELSE r.counters[c]
  BY DEF Spent, Hops
<1>2. \A x \in CounterValues : x # None => Minus1(x) \in Int
  BY DEF Minus1, CounterValues
<1>3. "redirect" \in Counters /\ "total" \in Counters
  BY DEF Counters
<1>4. \A c \in Counters : spent[c] \in CounterValues
  BY <1>1, <1>2 DEF IsRetry, CounterValues
<1>5. spent["redirect"] # PyFalse /\ spent["total"] # PyFalse
  BY <1>1, <1>2, <1>3 DEF IsRetry, Hops
<1> HIDE DEF spent
<1>6. /\ next.history = Append(r.history, "redirect")
      /\ next.counters = [c \in Counters |-> spent[c]]
      /\ next.raiseOnRedirect <=> r.raiseOnRedirect
  BY <1>5 DEF Incremented, NewRetry, spent
<1>7. IsRetry(next)
  <2>1. next.history \in Seq(Events)
    <3>1. "redirect" \in Events /\ r.history \in Seq(Events)
      BY DEF IsRetry, Events
    <3>2. Append(r.history, "redirect") \in Seq(Events)
      BY <3>1
    <3> QED
      BY <1>6, <3>2
  <2> QED
    BY <1>3, <1>4, <1>5, <1>6, <2>1 DEF IsRetry
<1> QED
  BY <1>1, <1>6, <1>7

------------------------------------------------------------------------------
(* The budget *)

\* Redirects followed so far.
Followed == IF outcome \in {"going", "error"} THEN Len(sent) ELSE Len(sent) - 1

Current == FromInt(retries)

\* The Retry object is the one the call was given, less a hop for each redirect
\* that was followed.
Budget ==
  /\ asked.retries \in RetryArgs
  /\ Len(sent) \in Nat /\ Followed \in Nat
  /\ IsRetry(Current)
  /\ Len(Current.history) = Len(Given.history) + Followed
  /\ Current.raiseOnRedirect <=> Given.raiseOnRedirect
  /\ \A c \in Counters :
       IF c \in Hops /\ Given.counters[c] \in Int
         THEN /\ Current.counters[c] = Given.counters[c] - Followed
              /\ Followed > 0 => Current.counters[c] >= 0
         ELSE Current.counters[c] = Given.counters[c]

LEMMA InitBudget == Init => Budget
<1> SUFFICES ASSUME Init PROVE Budget
  OBVIOUS
<1>1. /\ asked.retries \in RetryArgs /\ retries = asked.retries
      /\ Len(sent) = 0 /\ outcome = "going"
  BY DEF Init
<1>2. Current = Given /\ IsRetry(Given) /\ Followed = 0
  BY <1>1, GivenIsRetry DEF Current, Given, Followed
<1>3. \A c \in Counters : Given.counters[c] \in Int => Given.counters[c] - 0 = Given.counters[c]
  OBVIOUS
<1>4. Len(Given.history) \in Nat
  BY <1>2 DEF IsRetry
<1> QED
  BY <1>1, <1>2, <1>3, <1>4 DEF Budget

LEMMA StepBudget == Budget /\ [Next]_vars => Budget'
<1> SUFFICES ASSUME Budget, [Next]_vars PROVE Budget'
  OBVIOUS
\* Nothing about the budget changes.
<1>1. ASSUME UNCHANGED <<asked, retries>>, Len(sent') \in Nat, Followed' = Followed
      PROVE  Budget'
  BY <1>1 DEF Budget, Current, Given
<1>2. CASE SendHop
  <2>1. Len(sent') = Len(sent) + 1
    BY <1>2 DEF SendHop
  <2>2. Followed' = Followed
    BY <1>2, <2>1 DEF SendHop, Followed, Budget
  <2> QED
    BY <1>1, <1>2, <2>1, <2>2 DEF SendHop, Budget
<1>3. CASE FailHop \/ ReturnResponse
  BY <1>1, <1>3 DEF FailHop, ReturnResponse, Followed, Budget
<1>4. CASE FollowRedirect
  <2> DEFINE next == Incremented(Current, "redirect")
  <2>0. UNCHANGED <<asked, sent>> /\ outcome = "answered"
    BY <1>4 DEF FollowRedirect
  <2>1. CASE retries' = retries /\ outcome' \in {"MaxRetryError", "returned"}
    BY <1>1, <2>0, <2>1 DEF Followed, Budget
  <2>2. CASE retries' = Object(next) /\ outcome' = "going" /\ ~IsExhausted(next)
    <3>1. Current' = next
      BY <2>2 DEF Current, FromInt, Object
    <3>2. Followed' = Followed + 1 /\ Given' = Given
      BY <2>0, <2>2 DEF Followed, Budget, Given
    <3>3. /\ IsRetry(next) /\ next.history = Append(Current.history, "redirect")
          /\ next.raiseOnRedirect <=> Current.raiseOnRedirect
          /\ \A c \in Counters :
               next.counters[c] = IF c \in Hops /\ Current.counters[c] # None
                                  THEN Minus1(Current.counters[c]) ELSE Current.counters[c]
      BY NextRetry DEF Budget
    <3>4. Len(next.history) = Len(Current.history) + 1
      BY <3>3 DEF Budget, IsRetry
    <3>5. IsRetry(Given)
      BY GivenIsRetry DEF Budget, Given
    <3> HIDE DEF next
    <3>6. ASSUME NEW c \in Counters
          PROVE  IF c \in Hops /\ Given.counters[c] \in Int
                   THEN /\ next.counters[c] = Given.counters[c] - (Followed + 1)
                        /\ next.counters[c] >= 0
                   ELSE next.counters[c] = Given.counters[c]
      <4>1. CASE c \in Hops /\ Given.counters[c] \in Int
        <5>1. Current.counters[c] \in Int
              /\ Current.counters[c] = Given.counters[c] - Followed
          BY <4>1 DEF Budget
        <5>2. next.counters[c] = Current.counters[c] - 1
          BY <3>3, <4>1, <5>1, NotNumbers DEF Minus1
        <5>3. next.counters[c] >= 0
          BY <2>2, <5>1, <5>2 DEF IsExhausted
        <5> QED
          BY <4>1, <5>1, <5>2, <5>3 DEF Budget
      <4>2. CASE c \notin Hops
        BY <3>3, <4>2 DEF Budget
      <4>3. CASE c \in Hops /\ Given.counters[c] \notin Int
        <5>1. Current.counters[c] = Given.counters[c] /\ Given.counters[c] \in {None, PyFalse}
          BY <3>5, <4>3 DEF Budget, IsRetry, CounterValues
        <5>2. CASE Given.counters[c] = None
          BY <3>3, <4>3, <5>1, <5>2
        <5>3. CASE Given.counters[c] = PyFalse
          <6>1. next.counters[c] = -1
            BY <3>3, <4>3, <5>1, <5>3, NotNumbers DEF Minus1
          <6> QED
            BY <2>2, <6>1 DEF IsExhausted
        <5> QED
          BY <5>1, <5>2, <5>3
      <4> QED
        BY <4>1, <4>2, <4>3
    <3>7. Len(Current.history) = Len(Given.history) + Followed /\ Followed \in Nat
          /\ Len(Given.history) \in Nat /\ asked.retries \in RetryArgs /\ Len(sent) \in Nat
      BY <3>5 DEF Budget, IsRetry
    <3>8. asked'.retries \in RetryArgs /\ Len(sent') \in Nat /\ Followed' \in Nat
      BY <2>0, <3>2, <3>7
    <3>9. Len(Current'.history) = Len(Given'.history) + Followed'
      <4>1. \A m, n \in Nat : m + n + 1 = m + (n + 1)
        OBVIOUS
      <4>2. Len(next.history) = Len(Given.history) + (Followed + 1)
        BY <3>4, <3>7, <4>1
      <4> QED
        BY <3>1, <3>2, <4>2
    <3>10. Current'.raiseOnRedirect <=> Given'.raiseOnRedirect
      BY <3>1, <3>2, <3>3 DEF Budget
    <3>11. IsRetry(Current')
      BY <3>1, <3>3
    <3>12. ASSUME NEW c \in Counters
           PROVE  IF c \in Hops /\ Given'.counters[c] \in Int
                    THEN /\ Current'.counters[c] = Given'.counters[c] - Followed'
                         /\ Followed' > 0 => Current'.counters[c] >= 0
                    ELSE Current'.counters[c] = Given'.counters[c]
      BY <3>1, <3>2, <3>6
    <3> QED
      BY <3>8, <3>9, <3>10, <3>11, <3>12 DEF Budget
  <2> QED
    BY <1>4, <2>1, <2>2 DEF FollowRedirect, Current
<1>5. CASE UNCHANGED vars
  BY <1>1, <1>5 DEF vars, Followed, Budget
<1> QED
  BY <1>2, <1>3, <1>4, <1>5 DEF Next

LEMMA SpecBudget == Spec => []Budget
BY InitBudget, StepBudget, PTL DEF Spec

\* urlopen and increment(): a call sends one request more than the smaller of
\* its limits at most, however long the server redirects.
THEOREM HopsWithinBudgetHolds == Spec => []HopsWithinBudget
<1>1. Budget => HopsWithinBudget
  <2> SUFFICES ASSUME Budget, NEW c \in {"total", "redirect"}, Given.counters[c] \in Nat
               PROVE  Len(sent) <= Given.counters[c] + 1
    BY DEF HopsWithinBudget
  <2>1. /\ Current.counters[c] = Given.counters[c] - Followed
        /\ Followed > 0 => Current.counters[c] >= 0
    BY DEF Budget, Hops, Counters
  <2>2. Followed \in Nat /\ Len(sent) \in Nat /\ Len(sent) <= Followed + 1
    BY DEF Budget, Followed
  <2> QED
    BY <2>1, <2>2
<1> QED
  BY <1>1, SpecBudget, PTL

\* The recursive call gets the new Retry object: its history has grown by the
\* redirects followed, no more and no fewer.
THEOREM HistoryRecordsRedirectsHolds == Spec => []HistoryRecordsRedirects
<1>1. Budget => HistoryRecordsRedirects
  <2> SUFFICES ASSUME Budget, retries.isRetry
               PROVE  Len(retries.value.history) - Len(Given.history) = Followed
    <3>1. Budget => Followed = Len(sent) - (IF outcome \in {"going", "error"} THEN 0 ELSE 1)
      BY DEF Followed, Budget
    <3> QED
      BY <3>1 DEF HistoryRecordsRedirects
  <2>1. Current = retries.value
    BY DEF Current, FromInt
  <2>2. IsRetry(Given)
    BY GivenIsRetry DEF Budget, Given
  <2>3. Len(Given.history) \in Nat /\ Followed \in Nat
    BY <2>2 DEF IsRetry, Budget
  <2>4. Len(retries.value.history) = Len(Given.history) + Followed
    BY <2>1 DEF Budget
  <2> QED
    BY <2>3, <2>4
<1> QED
  BY <1>1, SpecBudget, PTL

\* No counter was negative from the start (such a Retry object is exhausted
\* before it is used).
NoneNegative ==
  \A x \in RetryArgs, c \in Counters :
    FromInt(x).counters[c] \in Int => FromInt(x).counters[c] >= 0

\* urlopen gives up (raises, or returns the redirect if raise_on_redirect is
\* off) after the last hop its limits allow, not before.
THEOREM GivesUpAfterBudgetHolds ==
  ASSUME NoneNegative
  PROVE  Spec => []GivesUpAfterBudget
<1> DEFINE GInv == Budget /\ GivesUpAfterBudget
<1>1. Init => GInv
  BY InitBudget DEF Init, GivesUpAfterBudget
<1>2. GInv /\ [Next]_vars => GInv'
  <2> SUFFICES ASSUME GInv, [Next]_vars PROVE GivesUpAfterBudget'
    BY StepBudget
  <2>1. CASE UNCHANGED vars
    BY <2>1 DEF vars, GivesUpAfterBudget, Given, Follows
  <2>2. CASE SendHop \/ FailHop
    BY <2>2 DEF SendHop, FailHop, GivesUpAfterBudget
  <2>3. CASE ReturnResponse
    BY <2>3 DEF ReturnResponse, GivesUpAfterBudget, Follows
  <2>4. CASE FollowRedirect
    <3> DEFINE next == Incremented(Current, "redirect")
    <3>1. UNCHANGED <<asked, sent, answers>> /\ outcome = "answered"
      BY <2>4 DEF FollowRedirect
    <3>2. CASE outcome' = "going"
      BY <3>2 DEF GivesUpAfterBudget
    <3>3. CASE IsExhausted(next)
               /\ outcome' = IF Current.raiseOnRedirect THEN "MaxRetryError" ELSE "returned"
      <4>1. PICK c \in Counters : next.counters[c] \in Int /\ next.counters[c] < 0
        BY <3>3 DEF IsExhausted
      <4>2. next.counters[c] = IF c \in Hops /\ Current.counters[c] # None
                               THEN Minus1(Current.counters[c]) ELSE Current.counters[c]
        BY NextRetry DEF Budget
      <4> HIDE DEF next
      <4>3. IsRetry(Given) /\ Given.counters[c] \in CounterValues
        BY GivenIsRetry DEF Budget, Given, IsRetry
      <4>4. Given.counters[c] \in Int => Given.counters[c] >= 0
        BY DEF Budget, Given, NoneNegative
      <4>5. /\ c \in Hops
            /\ Given.counters[c] = PyFalse \/ Given.counters[c] = Followed
        <5>1. CASE Given.counters[c] \in Int /\ c \in Hops
          <6>1. Current.counters[c] = Given.counters[c] - Followed /\ Followed \in Nat
                /\ (Followed > 0 => Current.counters[c] >= 0)
            BY <5>1 DEF Budget
          <6>2. next.counters[c] = Current.counters[c] - 1
            BY <4>2, <5>1, <6>1, NotNumbers DEF Minus1
          <6> QED
            BY <4>1, <4>4, <5>1, <6>1, <6>2
        <5>2. CASE ~(Given.counters[c] \in Int /\ c \in Hops)
          <6>1. Current.counters[c] = Given.counters[c]
            BY <5>2 DEF Budget
          <6> QED
            BY <4>1, <4>2, <4>3, <4>4, <5>2, <6>1, NotNumbers DEF CounterValues
        <5> QED
          BY <5>1, <5>2
      <4>6. CASE Given.counters[c] = PyFalse
        <5>1. c = "total" /\ ~Given.raiseOnRedirect
          BY <4>3, <4>5, <4>6 DEF Hops, IsRetry
        <5>2. outcome' = "returned" /\ Given' = Given
          BY <3>1, <3>3, <5>1 DEF Budget, Given
        <5> QED
          BY <4>6, <5>1, <5>2 DEF GivesUpAfterBudget
      <4>7. CASE Given.counters[c] = Followed
        <5>1. Followed = Len(sent') - 1 /\ Given' = Given
          BY <3>1 DEF Followed, Given
        <5> QED
          BY <4>5, <4>7, <5>1 DEF GivesUpAfterBudget, Hops
      <4> QED
        BY <4>5, <4>6, <4>7
    <3> QED
      BY <2>4, <3>2, <3>3 DEF FollowRedirect, Current
  <2> QED
    BY <2>1, <2>2, <2>3, <2>4 DEF Next
<1> HIDE DEF GInv
<1>3. GInv => GivesUpAfterBudget
  BY DEF GInv
<1> QED
  BY <1>1, <1>2, <1>3, PTL DEF Spec

------------------------------------------------------------------------------
(* The rewriting *)

\* One of the first n answers was a 303.
SawSeeOther(n) == \E j \in 1..n : answers[j].status = 303

MethodAfter(n) == IF SawSeeOther(n) THEN "GET" ELSE asked.method
BodyAfter(n)   == IF SawSeeOther(n) THEN "none" ELSE asked.body
UrlAfter(n)    == IF n = 0 THEN asked.url ELSE answers[n].location

Sent(n) ==
  /\ sent[n].method = MethodAfter(n - 1)
  /\ sent[n].body = BodyAfter(n - 1)
  /\ sent[n].url = UrlAfter(n - 1)

Hosts == {u.netloc : u \in Urls} \cup {None}

Typed ==
  /\ asked.url \in Urls
  /\ method \in Methods \cup {"GET"} /\ url \in Urls /\ body \in Bodies \cup {"none"}
  /\ host \in Hosts
  /\ sent \in Seq([ method : Methods \cup {"GET"}, url : Urls, host : Hosts,
                    body : Bodies \cup {"none"} ])
  /\ answers \in Seq(Answers)

\* The next request, or the one just answered, is what the answers make it.
Rewriting ==
  /\ Typed
  /\ Len(answers) = Len(sent)
  /\ \A n \in 1..Len(sent) : Sent(n)
  /\ outcome = "going" =>
       /\ method = MethodAfter(Len(sent))
       /\ body = BodyAfter(Len(sent))
       /\ url = UrlAfter(Len(sent))
  /\ outcome = "answered" =>
       /\ Len(sent) > 0
       /\ method = MethodAfter(Len(sent) - 1)
       /\ body = BodyAfter(Len(sent) - 1)

LEMMA InitRewriting == Init => Rewriting
<1> SUFFICES ASSUME Init PROVE Rewriting
  OBVIOUS
<1>1. Typed /\ Len(sent) = 0 /\ Len(answers) = 0 /\ outcome = "going"
  <2>1. asked.url \in Urls /\ asked.method \in Methods /\ asked.body \in Bodies
    BY DEF Init
  <2>2. host \in Hosts
    BY DEF Init, Hosts
  <2>3. \A S : sent \in Seq(S) /\ answers \in Seq(S)
    BY DEF Init
  <2> QED
    BY <2>1, <2>2, <2>3 DEF Init, Typed
<1>2. ~SawSeeOther(0)
  BY DEF SawSeeOther
<1>3. method = MethodAfter(0) /\ body = BodyAfter(0) /\ url = UrlAfter(0)
  BY <1>2 DEF Init, MethodAfter, BodyAfter, UrlAfter
<1> QED
  BY <1>1, <1>3 DEF Rewriting

LEMMA StepRewriting == Rewriting /\ [Next]_vars => Rewriting'
<1> SUFFICES ASSUME Rewriting, [Next]_vars PROVE Rewriting'
  OBVIOUS
<1>0. Len(sent) \in Nat /\ Len(answers) = Len(sent)
  BY DEF Rewriting, Typed
<1>1. CASE SendHop
  <2> DEFINE hop == Append(sent, [ method |-> method, url |-> url,
                       host |-> IF ProxyHost = None THEN url.netloc ELSE ProxyHost,
                       body |-> body ])
  <2>1. PICK a \in Answers : answers' = Append(answers, a)
    BY <1>1 DEF SendHop
  <2>2. /\ UNCHANGED <<asked, method, url, body>>
        /\ host' = ProxyHost /\ outcome = "going" /\ outcome' = "answered"
        /\ sent' = hop
    BY <1>1 DEF SendHop
  <2>3. Typed'
    <3>1. ProxyHost \in Hosts
      BY DEF ProxyHost, Hosts, Rewriting, Typed
    <3>2. (IF ProxyHost = None THEN url.netloc ELSE ProxyHost) \in Hosts
      BY <3>1 DEF Hosts, Rewriting, Typed
    <3> QED
      BY <2>1, <2>2, <3>1, <3>2 DEF Typed, Rewriting
  <2>4. /\ Len(sent') = Len(sent) + 1 /\ Len(answers') = Len(sent')
        /\ \A n \in 1..Len(sent) : sent'[n] = sent[n] /\ answers'[n] = answers[n]
    BY <1>0, <2>1, <2>2 DEF Rewriting, Typed
  <2>5. /\ sent'[Len(sent')].method = method /\ sent'[Len(sent')].url = url
        /\ sent'[Len(sent')].body = body
    BY <1>0, <2>2 DEF Rewriting, Typed
  <2> HIDE DEF hop
  <2>6. \A n \in 0..Len(sent) : SawSeeOther(n)' <=> SawSeeOther(n)
    BY <1>0, <2>4 DEF SawSeeOther
  <2>7. ASSUME NEW n \in 0..Len(sent)
        PROVE  /\ MethodAfter(n)' = MethodAfter(n) /\ BodyAfter(n)' = BodyAfter(n)
               /\ UrlAfter(n)' = UrlAfter(n)
    BY <1>0, <2>2, <2>4, <2>6 DEF MethodAfter, BodyAfter, UrlAfter
  <2>8. ASSUME NEW n \in 1..Len(sent') PROVE Sent(n)'
    <3>1. n - 1 \in 0..Len(sent)
      BY <1>0, <2>4
    <3>2. CASE n \in 1..Len(sent)
      BY <2>4, <2>7, <3>1, <3>2 DEF Rewriting, Sent
    <3>3. CASE n = Len(sent')
      <4>1. n - 1 = Len(sent)
        BY <1>0, <2>4, <3>3
      <4> QED
        BY <2>2, <2>5, <2>7, <3>1, <3>3, <4>1 DEF Rewriting, Sent
    <3> QED
      BY <1>0, <2>4, <3>2, <3>3
  <2>9. PICK m \in 0..Len(sent) : m = Len(sent) /\ Len(sent') - 1 = m /\ Len(sent') > 0
    BY <1>0, <2>4
  <2>10. method' = MethodAfter(m)' /\ body' = BodyAfter(m)'
    BY <2>2, <2>7, <2>9 DEF Rewriting
  <2> QED
    BY <2>2, <2>3, <2>4, <2>8, <2>9, <2>10 DEF Rewriting
\* The requests and the answers stay as they are.
<1>2. ASSUME UNCHANGED <<asked, sent, answers>>
      PROVE  /\ \A n : MethodAfter(n)' = MethodAfter(n) /\ BodyAfter(n)' = BodyAfter(n)
                        /\ UrlAfter(n)' = UrlAfter(n)
             /\ \A n \in 1..Len(sent) : Sent(n)'
  BY <1>2 DEF MethodAfter, BodyAfter, UrlAfter, SawSeeOther, Sent, Rewriting
<1>3. CASE FailHop \/ ReturnResponse
  <2>1. UNCHANGED <<asked, method, url, body, host, sent, answers>>
        /\ outcome' \notin {"going", "answered"}
    BY <1>3 DEF FailHop, ReturnResponse
  <2> QED
    BY <1>2, <2>1 DEF Rewriting, Typed
<1>4. CASE FollowRedirect
  <2>1. /\ UNCHANGED <<asked, host, sent, answers>> /\ outcome = "answered"
        /\ method' = IF SeeOther THEN "GET" ELSE method
        /\ body' = IF SeeOther THEN "none" ELSE body
        /\ Follows
        /\ \/ outcome' \in {"MaxRetryError", "returned"} /\ url' = url
           \/ outcome' = "going" /\ url' = LastOf(answers).location
    BY <1>4 DEF FollowRedirect
  <2>2. /\ Len(sent) > 0 /\ LastOf(answers) = answers[Len(sent)]
        /\ answers[Len(sent)] \in Answers
    BY <1>0, <2>1 DEF Rewriting, Typed, LastOf
  <2>3. SawSeeOther(Len(sent)) <=> SeeOther \/ SawSeeOther(Len(sent) - 1)
    BY <1>0, <2>2 DEF SawSeeOther, SeeOther
  <2>4. method' = MethodAfter(Len(sent)) /\ body' = BodyAfter(Len(sent))
    BY <2>1, <2>3 DEF MethodAfter, BodyAfter, Rewriting
  <2>5. LastOf(answers).location \in Urls
    <3>1. LastOf(answers).location # None
      BY <2>1 DEF Follows
    <3> QED
      BY <2>2, <3>1 DEF Answers
  <2>6. Typed'
    BY <2>1, <2>5 DEF Rewriting, Typed
  <2>7. outcome' = "going" => url' = UrlAfter(Len(sent))
    BY <1>0, <2>1, <2>2 DEF UrlAfter
  <2> QED
    BY <1>2, <2>1, <2>4, <2>6, <2>7 DEF Rewriting
<1>5. CASE UNCHANGED vars
  BY <1>2, <1>5 DEF vars, Rewriting, Typed
<1> QED
  BY <1>1, <1>3, <1>4, <1>5 DEF Next

\* The recursive call of urlopen and the 303 branch before it: every request of
\* a call is what the answers before it make of the user's.
THEOREM HopsRewrittenHolds == Spec => []HopsRewritten
<1>1. Rewriting => HopsRewritten
  <2> SUFFICES ASSUME Rewriting, NEW i \in DOMAIN sent
               PROVE  LET seeOther == \E j \in 1..(i - 1) : answers[j].status = 303
                      IN  /\ sent[i].method = IF seeOther THEN "GET" ELSE asked.method
                          /\ sent[i].body   = IF seeOther THEN "none" ELSE asked.body
                          /\ sent[i].url = IF i = 1 THEN asked.url ELSE answers[i - 1].location
    BY DEF HopsRewritten
  <2>1. i \in 1..Len(sent) /\ i \in Int
    BY DEF Rewriting, Typed
  <2>2. Sent(i)
    BY <2>1 DEF Rewriting
  <2> QED
    BY <2>1, <2>2 DEF Sent, MethodAfter, BodyAfter, UrlAfter, SawSeeOther
<1> QED
  BY <1>1, InitRewriting, StepRewriting, PTL DEF Spec
=============================================================================
