------------------------ MODULE ConnectionPoolProofs ------------------------
(***************************************************************************)
(* Theorems about ConnectionPool, for any callers, closers, sizes, mixes   *)
(* of outcomes and bounds: type correctness, exclusive use, the slot bound *)
(* of a blocking pool, that a blocking pool implements BoundedPool, and    *)
(* who may close a socket, who gets one, and that none is left behind.     *)
(***************************************************************************)
EXTENDS ConnectionPool, FiniteSetTheorems, SequenceTheorems, TLAPS

Entries == Conns \cup {NoConn}

------------------------------------------------------------------------------
(* The two ends of a queue *)

LEMMA FrontOfQueue ==
  ASSUME NEW S, NEW q \in Seq(S), q # <<>>
  PROVE  /\ Len(q) \in Nat \ {0}
         /\ Front(q) \in Seq(S)
         /\ Len(Front(q)) = Len(q) - 1
         /\ \A i \in 1..(Len(q) - 1) : Front(q)[i] = q[i]
         /\ Last(q) = q[Len(q)]
         /\ Last(q) \in S
<1> DEFINE n == Len(q) - 1
<1>1. /\ Len(q) \in Nat \ {0}
      /\ n \in Nat /\ n <= Len(q)
  OBVIOUS
<1>2. Last(q) = q[Len(q)] /\ q[Len(q)] \in S
  BY <1>1 DEF Last
<1>3. Front(q) = SubSeq(q, 1, n)
  BY DEF Front
<1>4. \A i \in 1..n : q[i] \in S
  BY <1>1
<1> HIDE DEF n
<1>5. /\ SubSeq(q, 1, n) \in Seq(S)
      /\ Len(SubSeq(q, 1, n)) = n
      /\ \A i \in 1..n : SubSeq(q, 1, n)[i] = q[i]
  BY <1>1, <1>4
<1> QED
  BY <1>1, <1>2, <1>3, <1>5 DEF n

LEMMA AppendToQueue ==
  ASSUME NEW S, NEW q \in Seq(S), NEW e \in S
  PROVE  /\ Len(q) \in Nat
         /\ Append(q, e) \in Seq(S)
         /\ Len(Append(q, e)) = Len(q) + 1
         /\ \A i \in 1..Len(q) : Append(q, e)[i] = q[i]
         /\ Append(q, e)[Len(q) + 1] = e
  OBVIOUS

------------------------------------------------------------------------------
(* Type correctness *)

LEMMA InitTypeOK == Init => TypeOK
<1> SUFFICES ASSUME Init PROVE TypeOK
  OBVIOUS
<1>1. queue \in Seq(Conns \cup {NoConn}) /\ Len(queue) = MaxSize
  BY SizeAssumption DEF Init
<1> QED
  BY <1>1, BoundAssumption, SizeAssumption
  DEF Init, TypeOK, SockStates, CallerSteps, CloserSteps, Results

LEMMA FrontFits ==
  ASSUME TypeOK, queue # <<>>, queue' = Front(queue)
  PROVE  /\ queue' \in Seq(Conns \cup {NoConn})
         /\ Last(queue) \in Conns \cup {NoConn}
         /\ MaxSize > 0 => Len(queue') <= MaxSize
<1>1. queue \in Seq(Conns \cup {NoConn}) /\ (MaxSize > 0 => Len(queue) <= MaxSize)
  BY DEF TypeOK
<1>2. /\ Len(queue) \in Nat \ {0}
      /\ queue' \in Seq(Conns \cup {NoConn})
      /\ Len(queue') = Len(queue) - 1
      /\ Last(queue) \in Conns \cup {NoConn}
  BY <1>1, FrontOfQueue
<1> QED
  BY <1>1, <1>2, SizeAssumption

\* A constructor that raises leaves the queue as it is, or shorter by its top.
LEMMA QueueAfterNewConnFails ==
  ASSUME NEW t \in Callers, NewConnFails(t)
  PROVE  \/ UNCHANGED queue
         \/ queue # <<>> /\ ~Reusable(Last(queue)) /\ queue' = Front(queue)
BY DEF NewConnFails

LEMMA FailuresCounted == TypeOK /\ [Next]_vars => failures' \in Nat
<1> SUFFICES ASSUME TypeOK, [Next]_vars PROVE failures' \in Nat
  OBVIOUS
<1>1. failures' = failures \/ failures' = failures + 1
  BY DEF Next, Begin, GetConn, Pop, PopEmpty, NewConnFails, TimeOut, Exchange, Send,
         Receive, Preload, Fail, ReturnConn, Return, Put, Close, CloseCheck, CloseLoad,
         CloseStore, Drain, PeerClose, Terminated, End, vars
<1> QED
  BY <1>1 DEF TypeOK

LEMMA StepTypeOK == TypeOK /\ [Next]_vars => TypeOK'
<1> SUFFICES ASSUME TypeOK, [Next]_vars PROVE TypeOK'
  OBVIOUS
<1> USE DEF TypeOK, Goto, End, SockStates, CallerSteps, CloserSteps, Results
<1>0. failures' \in Nat
  BY FailuresCounted
<1>1. ASSUME NEW t \in Callers, Begin(t) PROVE TypeOK'
  <2>1. calls' \in [Callers -> 0..MaxCalls]
    <3>1. calls[t] + 1 \in 0..MaxCalls
      BY <1>1, BoundAssumption DEF Begin
    <3> QED
      BY <1>1, <3>1 DEF Begin
  <2>2. CASE pool = "open"
    BY <1>0, <1>1, <2>1, <2>2 DEF Begin
  <2>3. CASE pool = "closed"
    BY <1>0, <1>1, <2>1, <2>3 DEF Begin
  <2> QED
    BY <2>2, <2>3
<1>2. ASSUME NEW t \in Callers, Pop(t) PROVE TypeOK'
  <2>1. /\ queue' \in Seq(Conns \cup {NoConn})
        /\ Last(queue) \in Conns \cup {NoConn}
        /\ MaxSize > 0 => Len(queue') <= MaxSize
    <3>1. queue # <<>> /\ queue' = Front(queue)
      BY <1>2 DEF Pop
    <3> QED
      BY <3>1, FrontFits
  <2>2. held' \in [Callers -> Conns \cup {NoConn}]
    BY <1>2, <2>1 DEF Pop, HoldNew, Fresh
  <2> QED
    BY <1>2, <2>1, <2>2 DEF Pop
<1>3. ASSUME NEW t \in Callers, PopEmpty(t) PROVE TypeOK'
  BY <1>3 DEF PopEmpty, HoldNew, Fresh
<1>4. ASSUME NEW t \in Callers, TimeOut(t) PROVE TypeOK'
  BY <1>0, <1>4 DEF TimeOut
<1>5. ASSUME NEW t \in Callers, Send(t) PROVE TypeOK'
  BY <1>5 DEF Send
<1>6. ASSUME NEW t \in Callers, Receive(t) PROVE TypeOK'
  BY <1>6 DEF Receive
<1>7. ASSUME NEW t \in Callers, Preload(t) PROVE TypeOK'
  BY <1>7 DEF Preload
<1>8. ASSUME NEW t \in Callers, Fail(t) PROVE TypeOK'
  <2>1. /\ sock' = [sock EXCEPT ![held[t]] = "none"]
        /\ held' = [held EXCEPT ![t] = NoConn]
        /\ pc' = [pc EXCEPT ![t] = "idle"]
        /\ result' = [result EXCEPT ![t] = "error"]
        /\ failures' \in Nat
        /\ UNCHANGED <<pool, queue, calls>>
    BY <1>0, <1>8 DEF Fail, Discard
  <2> QED
    BY <2>1
<1>9. ASSUME NEW t \in Callers, Return(t) PROVE TypeOK'
  <2>1. CASE pool = "open"
    BY <1>9, <2>1 DEF Return
  <2>2. CASE pool = "closed"
    BY <1>0, <1>9, <2>2 DEF Return, Discard
  <2> QED
    BY <2>1, <2>2
<1>10. ASSUME NEW t \in Callers, Put(t) PROVE TypeOK'
  <2>1. CASE IsFull
    BY <1>0, <1>10, <2>1 DEF Put, Discard
  <2>2. CASE ~IsFull
    <3>1. held[t] \in Conns \cup {NoConn}
      OBVIOUS
    <3>2. queue' \in Seq(Conns \cup {NoConn}) /\ (MaxSize > 0 => Len(queue') <= MaxSize)
      <4>1. queue' = Append(queue, held[t])
        BY <1>10, <2>2 DEF Put
      <4>2. queue' \in Seq(Conns \cup {NoConn}) /\ Len(queue') = Len(queue) + 1
        BY <3>1, <4>1, AppendToQueue
      <4> QED
        BY <2>2, <4>2, SizeAssumption DEF IsFull
    <3>3. /\ held' = [held EXCEPT ![t] = NoConn]
          /\ pc' = [pc EXCEPT ![t] = "idle"]
          /\ result' = [result EXCEPT ![t] = "ok"]
          /\ failures' \in Nat
          /\ UNCHANGED <<pool, sock, calls>>
      BY <1>0, <1>10, <2>2 DEF Put
    <3> QED
      BY <3>2, <3>3
  <2> QED
    BY <2>1, <2>2
<1>11. ASSUME NEW x \in Closers, CloseCheck(x) \/ CloseLoad(x) \/ CloseStore(x)
       PROVE TypeOK'
  BY <1>0, <1>11 DEF CloseCheck, CloseLoad, CloseStore
<1>12. ASSUME NEW x \in Closers, Drain(x) PROVE TypeOK'
  <2>1. CASE queue = <<>>
    <3>1. /\ pc' = [pc EXCEPT ![x] = "done"]
          /\ result' = [result EXCEPT ![x] = "ok"]
          /\ failures' \in Nat
          /\ UNCHANGED <<pool, queue, sock, held, calls>>
      BY <1>0, <1>12, <2>1 DEF Drain
    <3> QED
      BY <3>1
  <2>2. CASE queue # <<>>
    <3>1. queue' \in Seq(Conns \cup {NoConn}) /\ (MaxSize > 0 => Len(queue') <= MaxSize)
      <4>1. queue' = Front(queue)
        BY <1>12, <2>2 DEF Drain
      <4> QED
        BY <2>2, <4>1, FrontFits
    <3>2. sock' \in [Conns -> SockStates]
      BY <1>12, <2>2 DEF Drain
    <3> QED
      BY <1>12, <2>2, <3>1, <3>2 DEF Drain
  <2> QED
    BY <2>1, <2>2
<1>13. ASSUME NEW c \in Conns, PeerClose(c) PROVE TypeOK'
  BY <1>13 DEF PeerClose
<1>14. ASSUME NEW t \in Callers, NewConnFails(t) PROVE TypeOK'
  <2>1. /\ pc' = [pc EXCEPT ![t] = "idle"]
        /\ result' = [result EXCEPT ![t] = "error"]
        /\ failures' \in Nat
        /\ UNCHANGED <<pool, sock, held, calls>>
    BY <1>0, <1>14 DEF NewConnFails
  <2>2. queue' \in Seq(Conns \cup {NoConn}) /\ (MaxSize > 0 => Len(queue') <= MaxSize)
    <3>1. CASE UNCHANGED queue
      BY <3>1
    <3>2. CASE queue # <<>> /\ queue' = Front(queue)
      BY <3>2, FrontFits
    <3> QED
      BY <1>14, <3>1, <3>2, QueueAfterNewConnFails
  <2> QED
    BY <2>1, <2>2
<1>15. ASSUME UNCHANGED vars PROVE TypeOK'
  BY <1>15 DEF vars
<1> QED
  BY <1>1, <1>2, <1>3, <1>4, <1>5, <1>6, <1>7, <1>8, <1>9, <1>10, <1>11, <1>12,
     <1>13, <1>14, <1>15
  DEF Next, GetConn, Exchange, ReturnConn, Close, Terminated

\* Every variable keeps its type, in every state of every instance.
THEOREM TypeCorrect == Spec => []TypeOK
<1>1. Init => TypeOK
  BY InitTypeOK
<1>2. TypeOK /\ [Next]_vars => TypeOK'
  BY StepTypeOK
<1> QED
  BY <1>1, <1>2, PTL DEF Spec

------------------------------------------------------------------------------
(* Exclusive use *)

\* A caller's conn is set exactly between its get and its return.
HoldsWhileUsing == \A t \in Callers : held[t] # NoConn <=> pc[t] \in Using

\* The inductive invariant: ExclusiveUse alone does not say that the caller
\* that takes a connection held none, nor that the one returning it holds one.
Ownership == TypeOK /\ HoldsWhileUsing /\ ExclusiveUse

LEMMA InitOwnership == Init => Ownership
<1> SUFFICES ASSUME Init PROVE Ownership
  OBVIOUS
<1>1. TypeOK
  BY InitTypeOK
<1>2. HoldsWhileUsing
  BY DEF Init, HoldsWhileUsing, Using
<1>3. Queued = {}
  BY SizeAssumption DEF Init, Queued
<1>4. ExclusiveUse
  BY <1>3 DEF Init, ExclusiveUse
<1> QED
  BY <1>1, <1>2, <1>4 DEF Ownership

\* A caller that holds nothing takes c, which nobody else refers to.
LEMMA TakeKeepsExclusive ==
  ASSUME TypeOK, ExclusiveUse, NEW t \in Callers, held[t] = NoConn,
         NEW c \in Conns,
         \A u \in Callers : held[u] # c,
         held' = [held EXCEPT ![t] = c],
         Queued' \subseteq Queued,
         \A i \in Queued' : queue'[i] = queue[i] /\ queue[i] # c
  PROVE  ExclusiveUse'
BY NoConnAssumption DEF TypeOK, ExclusiveUse

\* Callers may drop their connections as long as nothing enters the queue.
LEMMA DropKeepsExclusive ==
  ASSUME TypeOK, ExclusiveUse,
         \A u \in Callers : held'[u] = held[u] \/ held'[u] = NoConn,
         Queued' \subseteq Queued,
         \A i \in Queued' : queue'[i] = queue[i]
  PROVE  ExclusiveUse'
<1>2. \A u, v \in Callers : u # v /\ held'[u] # NoConn => held'[u] # held'[v]
  BY DEF ExclusiveUse
<1>3. \A i, j \in Queued' : i # j => queue'[i] # queue'[j]
  BY DEF ExclusiveUse
<1>4. \A u \in Callers, i \in Queued' : held'[u] # queue'[i]
  BY DEF ExclusiveUse, Queued
<1> QED
  BY <1>2, <1>3, <1>4 DEF ExclusiveUse

\* What a queue loses its top still holds in the places it had.
LEMMA FrontQueued ==
  ASSUME TypeOK, queue # <<>>, queue' = Front(queue)
  PROVE  /\ Queued' \subseteq Queued
         /\ \A i \in Queued' : queue'[i] = queue[i] /\ i # Len(queue)
         /\ Len(queue) \in 1..Len(queue)
         /\ Len(queue') = Len(queue) - 1
         /\ Last(queue) = queue[Len(queue)]
         /\ Last(queue) \in Conns \cup {NoConn}
<1>1. /\ Len(queue) \in Nat \ {0}
      /\ Len(queue') = Len(queue) - 1
      /\ \A i \in 1..(Len(queue) - 1) : queue'[i] = queue[i]
      /\ Last(queue) = queue[Len(queue)]
      /\ Last(queue) \in Conns \cup {NoConn}
  BY FrontOfQueue DEF TypeOK
<1> QED
  BY <1>1 DEF Queued

LEMMA StepOwnership == Ownership /\ [Next]_vars => Ownership'
<1> SUFFICES ASSUME Ownership, [Next]_vars PROVE Ownership'
  OBVIOUS
<1>0. TypeOK /\ HoldsWhileUsing /\ ExclusiveUse /\ TypeOK'
  BY StepTypeOK DEF Ownership
<1> SUFFICES HoldsWhileUsing' /\ ExclusiveUse'
  BY <1>0 DEF Ownership
<1>a. ASSUME UNCHANGED <<queue, held>> PROVE ExclusiveUse'
  BY <1>0, <1>a DEF ExclusiveUse, Queued
<1>1. ASSUME NEW t \in Callers, Begin(t) \/ TimeOut(t)
      PROVE  HoldsWhileUsing' /\ ExclusiveUse'
  <2>1. HoldsWhileUsing'
    BY <1>0, <1>1 DEF Begin, TimeOut, Goto, End, HoldsWhileUsing, Using, TypeOK
  <2>2. UNCHANGED <<queue, held>>
    BY <1>1 DEF Begin, TimeOut
  <2> QED
    BY <1>a, <2>1, <2>2
<1>2. ASSUME NEW t \in Callers, Pop(t) PROVE HoldsWhileUsing' /\ ExclusiveUse'
  <2>1. held[t] = NoConn
    BY <1>0, <1>2 DEF Pop, HoldsWhileUsing, Using
  <2>2. /\ queue # <<>> /\ queue' = Front(queue)
        /\ pc' = [pc EXCEPT ![t] = "ready"]
    BY <1>2 DEF Pop, Goto
  <2>3. PICK c \in Conns : /\ held' = [held EXCEPT ![t] = c]
                           /\ Reusable(Last(queue)) => c = Last(queue)
                           /\ ~Reusable(Last(queue)) => c \in Fresh
    <3>1. CASE Reusable(Last(queue))
      BY <1>0, <1>2, <2>2, <3>1, FrontQueued DEF Pop, Reusable
    <3>2. CASE ~Reusable(Last(queue))
      BY <1>2, <3>2 DEF Pop, HoldNew, Fresh
    <3> QED
      BY <3>1, <3>2
  <2>4. HoldsWhileUsing'
    BY <1>0, <2>2, <2>3, NoConnAssumption DEF HoldsWhileUsing, Using, TypeOK
  <2>5. /\ \A u \in Callers : held[u] # c
        /\ \A i \in Queued' : queue[i] # c
    <3>1. CASE Reusable(Last(queue))
      <4>1. Len(queue) \in Queued /\ c = queue[Len(queue)]
        BY <1>0, <2>2, <2>3, <3>1, FrontQueued, NoConnAssumption DEF Queued
      <4> QED
        BY <1>0, <2>2, <4>1, FrontQueued DEF ExclusiveUse
    <3>2. CASE ~Reusable(Last(queue))
      BY <1>0, <2>2, <2>3, <3>2, FrontQueued DEF Fresh, Queued
    <3> QED
      BY <3>1, <3>2
  <2>6. ExclusiveUse'
    BY <1>0, <2>1, <2>2, <2>3, <2>5, FrontQueued, TakeKeepsExclusive
  <2> QED
    BY <2>4, <2>6
<1>3. ASSUME NEW t \in Callers, PopEmpty(t)
      PROVE  HoldsWhileUsing' /\ ExclusiveUse'
  <2>1. held[t] = NoConn
    BY <1>0, <1>3 DEF PopEmpty, HoldsWhileUsing, Using
  <2>2. PICK c \in Fresh : held' = [held EXCEPT ![t] = c]
    BY <1>3 DEF PopEmpty, HoldNew
  <2>3. /\ c \in Conns
        /\ \A u \in Callers : held[u] # c
        /\ \A i \in 1..Len(queue) : queue[i] # c
    BY <2>2 DEF Fresh
  <2>4. Queued' = Queued /\ queue' = queue
    BY <1>3 DEF PopEmpty, Queued
  <2>5. HoldsWhileUsing'
    BY <1>0, <1>3, <2>2, <2>3, NoConnAssumption
    DEF PopEmpty, Goto, HoldsWhileUsing, Using, TypeOK
  <2>6. \A i \in Queued' : queue'[i] = queue[i] /\ queue[i] # c
    BY <2>3, <2>4 DEF Queued
  <2>7. ExclusiveUse'
    BY <1>0, <2>1, <2>2, <2>3, <2>4, <2>6, TakeKeepsExclusive
  <2> QED
    BY <2>5, <2>7
<1>4. ASSUME NEW t \in Callers, Send(t) \/ Receive(t) \/ Preload(t)
      PROVE  HoldsWhileUsing' /\ ExclusiveUse'
  <2>1. HoldsWhileUsing'
    BY <1>0, <1>4 DEF Send, Receive, Preload, Goto, HoldsWhileUsing, Using, TypeOK
  <2>2. UNCHANGED <<queue, held>>
    BY <1>4 DEF Send, Receive, Preload
  <2> QED
    BY <1>a, <2>1, <2>2
<1>5. ASSUME NEW t \in Callers, UNCHANGED queue,
             held' = [held EXCEPT ![t] = NoConn], pc' = [pc EXCEPT ![t] = "idle"]
      PROVE  HoldsWhileUsing' /\ ExclusiveUse'
  <2>1. HoldsWhileUsing'
    BY <1>0, <1>5 DEF HoldsWhileUsing, Using, TypeOK
  <2>2. Queued' = Queued
    BY <1>5 DEF Queued
  <2>3. \A u \in Callers : held'[u] = held[u] \/ held'[u] = NoConn
    BY <1>0, <1>5 DEF TypeOK
  <2> QED
    BY <1>0, <1>5, <2>1, <2>2, <2>3, DropKeepsExclusive
<1>6. ASSUME NEW t \in Callers, Fail(t) PROVE HoldsWhileUsing' /\ ExclusiveUse'
  BY <1>5, <1>6 DEF Fail, Discard, End, Goto
<1>7. ASSUME NEW t \in Callers, Return(t) PROVE HoldsWhileUsing' /\ ExclusiveUse'
  <2>1. CASE pool = "open"
    <3>1. UNCHANGED <<queue, held>> /\ pc[t] = "returning"
          /\ pc' = [pc EXCEPT ![t] = "putting"]
      BY <1>7, <2>1 DEF Return, Goto
    <3>2. HoldsWhileUsing'
      BY <1>0, <3>1 DEF HoldsWhileUsing, Using, TypeOK
    <3> QED
      BY <1>a, <3>1, <3>2
  <2>2. CASE pool = "closed"
    BY <1>5, <1>7, <2>2 DEF Return, Discard, End, Goto
  <2> QED
    BY <1>0, <2>1, <2>2 DEF TypeOK
<1>8. ASSUME NEW t \in Callers, Put(t) PROVE HoldsWhileUsing' /\ ExclusiveUse'
  <2>1. CASE IsFull
    BY <1>5, <1>8, <2>1 DEF Put, Discard, End, Goto
  <2>2. CASE ~IsFull
    <3>1. /\ queue' = Append(queue, held[t])
          /\ held' = [held EXCEPT ![t] = NoConn]
          /\ pc' = [pc EXCEPT ![t] = "idle"]
      BY <1>8, <2>2 DEF Put, End, Goto
    <3>2. held[t] \in Conns
      BY <1>0, <1>8 DEF Put, HoldsWhileUsing, Using, TypeOK
    <3>3. /\ Len(queue) \in Nat
          /\ Len(queue') = Len(queue) + 1
          /\ \A i \in 1..Len(queue) : queue'[i] = queue[i]
          /\ queue'[Len(queue) + 1] = held[t]
      BY <1>0, <3>1, <3>2, AppendToQueue DEF TypeOK
    <3>4. /\ Queued' = Queued \cup {Len(queue) + 1}
          /\ Len(queue) + 1 \notin Queued
          /\ \A i \in Queued : queue'[i] = queue[i]
      BY <3>2, <3>3, NoConnAssumption DEF Queued
    <3>5. HoldsWhileUsing'
      BY <1>0, <3>1 DEF HoldsWhileUsing, Using, TypeOK
    <3>6. /\ held'[t] = NoConn
          /\ \A u \in Callers : u # t => held'[u] = held[u]
      BY <1>0, <3>1 DEF TypeOK
    <3>7. \A u, v \in Callers : u # v /\ held'[u] # NoConn => held'[u] # held'[v]
      BY <1>0, <3>6 DEF ExclusiveUse
    <3>8. \A i, j \in Queued' : i # j => queue'[i] # queue'[j]
      BY <1>0, <3>3, <3>4 DEF ExclusiveUse
    <3>9. \A u \in Callers, i \in Queued' : held'[u] # queue'[i]
      BY <1>0, <3>2, <3>3, <3>4, <3>6, NoConnAssumption DEF ExclusiveUse, Queued
    <3> QED
      BY <3>5, <3>7, <3>8, <3>9 DEF ExclusiveUse
  <2> QED
    BY <2>1, <2>2
<1>9. ASSUME NEW x \in Closers, Close(x) PROVE HoldsWhileUsing' /\ ExclusiveUse'
  <2>1. UNCHANGED held /\ \A t \in Callers : pc'[t] = pc[t]
    <3>1. x \notin Callers
      BY ThreadAssumption
    <3>2. UNCHANGED held /\ (UNCHANGED pc \/ \E s : pc' = [pc EXCEPT ![x] = s])
      BY <1>9 DEF Close, CloseCheck, CloseLoad, CloseStore, Drain, Goto, End
    <3> QED
      BY <1>0, <3>1, <3>2 DEF TypeOK
  <2>2. HoldsWhileUsing'
    BY <1>0, <2>1 DEF HoldsWhileUsing
  <2>3. CASE UNCHANGED queue
    BY <1>a, <2>1, <2>2, <2>3
  <2>4. CASE queue # <<>> /\ queue' = Front(queue)
    BY <1>0, <2>1, <2>2, <2>4, FrontQueued, DropKeepsExclusive
  <2> QED
    BY <1>9, <2>3, <2>4 DEF Close, CloseCheck, CloseLoad, CloseStore, Drain
<1>10. ASSUME NEW c \in Conns, PeerClose(c)
       PROVE  HoldsWhileUsing' /\ ExclusiveUse'
  BY <1>0, <1>a, <1>10 DEF PeerClose, HoldsWhileUsing
<1>11. ASSUME NEW t \in Callers, NewConnFails(t)
       PROVE  HoldsWhileUsing' /\ ExclusiveUse'
  <2>1. HoldsWhileUsing'
    BY <1>0, <1>11 DEF NewConnFails, End, Goto, HoldsWhileUsing, Using, TypeOK
  <2>2. UNCHANGED held
    BY <1>11 DEF NewConnFails
  <2>3. CASE UNCHANGED queue
    BY <1>a, <2>1, <2>2, <2>3
  <2>4. CASE queue # <<>> /\ queue' = Front(queue)
    BY <1>0, <2>1, <2>2, <2>4, FrontQueued, DropKeepsExclusive
  <2> QED
    BY <1>11, <2>3, <2>4, QueueAfterNewConnFails
<1>12. ASSUME UNCHANGED vars PROVE HoldsWhileUsing' /\ ExclusiveUse'
  BY <1>0, <1>a, <1>12 DEF vars, HoldsWhileUsing
<1> QED
  BY <1>1, <1>2, <1>3, <1>4, <1>6, <1>7, <1>8, <1>9, <1>10, <1>11, <1>12
  DEF Next, GetConn, Exchange, ReturnConn, Terminated

\* No two callers ever share a connection, and none is in the queue while a
\* caller uses it: whatever the interleaving of gets, returns, failures,
\* overflows and closes.
THEOREM ExclusiveUseHolds == Spec => []ExclusiveUse
<1>1. Init => Ownership
  BY InitOwnership
<1>2. Ownership /\ [Next]_vars => Ownership'
  BY StepOwnership
<1>3. Ownership => ExclusiveUse
  BY DEF Ownership
<1> QED
  BY <1>1, <1>2, <1>3, PTL DEF Spec

------------------------------------------------------------------------------
(* The slots *)

\* A closer drains the queue only after it has closed the pool.
ClosedWhileDraining ==
  \A x \in Closers : pc[x] = "draining" => pool = "closed"

SlotInv == Ownership /\ ClosedWhileDraining

LEMMA InitSlotInv == Init => SlotInv
BY InitOwnership DEF Init, SlotInv, ClosedWhileDraining

LEMMA StepSlotInv == SlotInv /\ [Next]_vars => SlotInv'
<1> SUFFICES ASSUME SlotInv, [Next]_vars PROVE SlotInv'
  OBVIOUS
<1>0. Ownership' /\ TypeOK /\ ClosedWhileDraining
  BY StepOwnership DEF SlotInv, Ownership
<1> SUFFICES ClosedWhileDraining'
  BY <1>0 DEF SlotInv
<1>1. ASSUME NEW t \in Callers, UNCHANGED pool, \E s : pc' = [pc EXCEPT ![t] = s]
      PROVE  ClosedWhileDraining'
  BY <1>0, <1>1, ThreadAssumption DEF TypeOK, ClosedWhileDraining
<1>2. ASSUME NEW t \in Callers, Begin(t) \/ GetConn(t) PROVE ClosedWhileDraining'
  BY <1>1, <1>2 DEF Begin, GetConn, Pop, PopEmpty, NewConnFails, TimeOut, End, Goto
<1>3. ASSUME NEW t \in Callers, Exchange(t) PROVE ClosedWhileDraining'
  BY <1>1, <1>3 DEF Exchange, Send, Receive, Preload, Fail, End, Goto
<1>4. ASSUME NEW t \in Callers, ReturnConn(t) PROVE ClosedWhileDraining'
  BY <1>1, <1>4 DEF ReturnConn, Return, Put, End, Goto
<1>5. ASSUME NEW x \in Closers, Close(x) PROVE ClosedWhileDraining'
  BY <1>0, <1>5
  DEF Close, CloseCheck, CloseLoad, CloseStore, Drain, End, Goto, TypeOK,
      ClosedWhileDraining
<1>6. ASSUME NEW c \in Conns, PeerClose(c) PROVE ClosedWhileDraining'
  BY <1>0, <1>6 DEF PeerClose, ClosedWhileDraining
<1>7. ASSUME UNCHANGED vars PROVE ClosedWhileDraining'
  BY <1>0, <1>7 DEF vars, ClosedWhileDraining
<1> QED
  BY <1>2, <1>3, <1>4, <1>5, <1>6, <1>7 DEF Next, Terminated

LEMMA LenQueue == TypeOK => Len(queue) \in Nat
BY DEF TypeOK

\* A caller that gets a connection becomes a user, one that loses it is none.
LEMMA UsersAfterTake ==
  ASSUME TypeOK, NEW t \in Callers, NEW c \in Conns, held[t] = NoConn,
         held' = [held EXCEPT ![t] = c]
  PROVE  t \notin Users /\ Users' = Users \cup {t}
BY NoConnAssumption DEF TypeOK, Users

LEMMA UsersAfterDrop ==
  ASSUME TypeOK, NEW t \in Callers, held[t] # NoConn,
         held' = [held EXCEPT ![t] = NoConn]
  PROVE  t \in Users /\ Users' = Users \ {t}
BY DEF TypeOK, Users

\* What only a pool that does not block does: with its queue empty it makes a
\* connection or fails to, and with its queue full it drops one.
BeyondSlots ==
  /\ ~Block
  /\ \/ \E t \in Callers : PopEmpty(t)
     \/ UNCHANGED queue /\ Users' \subseteq Users

\* Every other step is a step of the abstract pool, or none.
LEMMA StepOfSlots ==
  ASSUME SlotInv, [Next]_vars
  PROVE  [Slots!Next]_(Slots!slots) \/ BeyondSlots
<1>0. /\ TypeOK /\ HoldsWhileUsing /\ ClosedWhileDraining
      /\ Len(queue) \in Nat
      /\ pool \in {"open", "closed"}
  <2>1. TypeOK /\ HoldsWhileUsing /\ ClosedWhileDraining
    BY DEF SlotInv, Ownership
  <2> QED
    BY <2>1, LenQueue DEF TypeOK
<1> DEFINE Goal == [Slots!Next]_(Slots!slots) \/ BeyondSlots
<1> HIDE DEF Goal
<1>a. ASSUME UNCHANGED <<queue, held, failures, pool>> PROVE Goal
  <2>1. UNCHANGED Users /\ UNCHANGED Len(queue)
    BY <1>a DEF Users
  <2> QED
    BY <1>a, <2>1 DEF Goal, Slots!slots
\* A user lets go of its connection and the queue gets nothing.
<1>b. ASSUME NEW t \in Callers, held[t] # NoConn, UNCHANGED <<queue, pool>>,
             held' = [held EXCEPT ![t] = NoConn],
             \/ failures' = failures + 1
             \/ UNCHANGED failures /\ (pool = "closed" \/ ~Block)
      PROVE  Goal
  <2>1. t \in Users /\ Users' = Users \ {t}
    BY <1>0, <1>b, UsersAfterDrop
  <2>2. CASE failures' = failures + 1
    <3>1. Slots!Forfeit(t)
      BY <1>b, <2>1, <2>2 DEF Slots!Forfeit
    <3> QED
      BY <3>1 DEF Goal, Slots!Next
  <2>3. CASE UNCHANGED failures /\ pool = "closed"
    <3>1. Slots!Retire(t)
      BY <1>b, <2>1, <2>3 DEF Slots!Retire
    <3> QED
      BY <3>1 DEF Goal, Slots!Next
  <2>4. CASE ~Block
    BY <1>b, <2>1, <2>4 DEF Goal, BeyondSlots
  <2> QED
    BY <1>b, <2>2, <2>3, <2>4
<1>1. ASSUME NEW t \in Callers, Begin(t) \/ TimeOut(t) PROVE Goal
  BY <1>a, <1>1 DEF Begin, TimeOut, End, Failed
<1>2. ASSUME NEW t \in Callers, Pop(t) PROVE Goal
  <2>1. held[t] = NoConn
    BY <1>0, <1>2 DEF Pop, HoldsWhileUsing, Using
  <2>2. /\ queue # <<>> /\ queue' = Front(queue) /\ UNCHANGED <<pool, failures>>
        /\ Len(queue) > 0 /\ Len(queue') = Len(queue) - 1
        /\ Last(queue) \in Conns \cup {NoConn}
    <3>1. queue # <<>> /\ queue' = Front(queue) /\ UNCHANGED <<pool, failures>>
      BY <1>2 DEF Pop
    <3> QED
      BY <1>0, <3>1, FrontQueued
  <2>3. PICK c \in Conns : held' = [held EXCEPT ![t] = c]
    <3>1. CASE Reusable(Last(queue))
      BY <1>2, <2>2, <3>1 DEF Pop, Reusable
    <3>2. CASE ~Reusable(Last(queue))
      BY <1>2, <3>2 DEF Pop, HoldNew, Fresh
    <3> QED
      BY <3>1, <3>2
  <2>4. t \notin Users /\ Users' = Users \cup {t}
    BY <1>0, <2>1, <2>3, UsersAfterTake
  <2>5. Slots!Acquire(t)
    BY <2>2, <2>4 DEF Slots!Acquire
  <2> QED
    BY <2>5 DEF Goal, Slots!Next
<1>3. ASSUME NEW t \in Callers, PopEmpty(t) PROVE Goal
  <2>1. ~Block
    BY <1>3 DEF PopEmpty
  <2> QED
    BY <1>3, <2>1 DEF Goal, BeyondSlots
<1>4. ASSUME NEW t \in Callers, Send(t) \/ Receive(t) \/ Preload(t) PROVE Goal
  BY <1>a, <1>4 DEF Send, Receive, Preload
<1>5. ASSUME NEW t \in Callers, Fail(t) PROVE Goal
  <2>1. held[t] # NoConn
    BY <1>0, <1>5 DEF Fail, HoldsWhileUsing, Using
  <2> QED
    BY <1>b, <1>5, <2>1 DEF Fail, Discard, End, Failed
<1>6. ASSUME NEW t \in Callers, Return(t) PROVE Goal
  <2>1. held[t] # NoConn
    BY <1>0, <1>6 DEF Return, HoldsWhileUsing, Using
  <2>2. CASE pool = "open"
    BY <1>a, <1>6, <2>2 DEF Return
  <2>3. CASE pool = "closed"
    BY <1>b, <1>6, <2>1, <2>3 DEF Return, Discard, End, Failed
  <2> QED
    BY <1>0, <2>2, <2>3
<1>7. ASSUME NEW t \in Callers, Put(t) PROVE Goal
  <2>1. held[t] # NoConn /\ held[t] \in Conns \cup {NoConn}
    BY <1>0, <1>7 DEF Put, HoldsWhileUsing, Using, TypeOK
  <2>2. CASE IsFull
    <3>1. /\ UNCHANGED <<queue, pool>> /\ held' = [held EXCEPT ![t] = NoConn]
          /\ End(t, IF Block THEN "FullPoolError" ELSE "ok", "idle")
      BY <1>7, <2>2 DEF Put, Discard
    <3>2. CASE Block
      BY <1>b, <2>1, <3>1, <3>2 DEF End, Failed
    <3>3. CASE ~Block
      BY <1>b, <2>1, <3>1, <3>3 DEF End, Failed
    <3> QED
      BY <3>2, <3>3
  <2>3. CASE ~IsFull
    <3>1. /\ queue' = Append(queue, held[t])
          /\ held' = [held EXCEPT ![t] = NoConn]
          /\ UNCHANGED <<pool, failures>>
      BY <1>7, <2>3 DEF Put, End, Failed
    <3>2. Len(queue') = Len(queue) + 1
      BY <1>0, <2>1, <3>1, AppendToQueue DEF TypeOK
    <3>3. t \in Users /\ Users' = Users \ {t}
      BY <1>0, <2>1, <3>1, UsersAfterDrop
    <3>4. Slots!Release(t)
      BY <3>1, <3>2, <3>3 DEF Slots!Release
    <3> QED
      BY <3>4 DEF Goal, Slots!Next
  <2> QED
    BY <2>2, <2>3
<1>8. ASSUME NEW x \in Closers, CloseCheck(x) \/ CloseLoad(x) PROVE Goal
  BY <1>a, <1>8 DEF CloseCheck, CloseLoad, End, Failed
<1>9. ASSUME NEW x \in Closers, CloseStore(x) PROVE Goal
  <2>1. Slots!Shut
    BY <1>9 DEF CloseStore, Slots!Shut, Users
  <2> QED
    BY <2>1 DEF Goal, Slots!Next
<1>10. ASSUME NEW x \in Closers, Drain(x) PROVE Goal
  <2>1. CASE queue = <<>>
    BY <1>a, <1>10, <2>1 DEF Drain, End, Failed
  <2>2. CASE queue # <<>>
    <3>1. /\ queue' = Front(queue) /\ UNCHANGED <<pool, held, failures>>
          /\ pool = "closed"
      BY <1>0, <1>10, <2>2 DEF Drain, ClosedWhileDraining
    <3>2. Len(queue) > 0 /\ Len(queue') = Len(queue) - 1
      BY <1>0, <2>2, <3>1, FrontQueued
    <3>3. UNCHANGED Users
      BY <3>1 DEF Users
    <3>4. Slots!Scrap
      BY <3>1, <3>2, <3>3 DEF Slots!Scrap
    <3> QED
      BY <3>4 DEF Goal, Slots!Next
  <2> QED
    BY <2>1, <2>2
<1>11. ASSUME NEW c \in Conns, PeerClose(c) PROVE Goal
  BY <1>a, <1>11 DEF PeerClose
<1>12. ASSUME NEW t \in Callers, NewConnFails(t) PROVE Goal
  <2>1. /\ held[t] = NoConn /\ UNCHANGED Users
        /\ failures' = failures + 1 /\ UNCHANGED pool
    BY <1>0, <1>12 DEF NewConnFails, End, Failed, HoldsWhileUsing, Using, Users
  <2>2. CASE queue = <<>>
    BY <1>12, <2>1, <2>2 DEF NewConnFails, Goal, BeyondSlots
  <2>3. CASE queue # <<>>
    <3>1. queue' = Front(queue)
      BY <1>12, <2>3 DEF NewConnFails
    <3>2. Len(queue) > 0 /\ Len(queue') = Len(queue) - 1
      BY <1>0, <2>3, <3>1, FrontQueued
    <3>3. Slots!Spoil(t)
      BY <2>1, <3>2 DEF Slots!Spoil, Users
    <3> QED
      BY <3>3 DEF Goal, Slots!Next
  <2> QED
    BY <2>2, <2>3
<1>13. ASSUME UNCHANGED vars PROVE Goal
  BY <1>a, <1>13 DEF vars
<1> QED
  BY <1>1, <1>2, <1>3, <1>4, <1>5, <1>6, <1>7, <1>8, <1>9, <1>10, <1>11, <1>12, <1>13
  DEF Next, GetConn, Exchange, ReturnConn, Close, Terminated, Goal

\* A pool with block=True implements the bounded pool: a slot is lost with the
\* call that fails, during its exchange or before it when the connection cannot
\* be made, and in no other way while the pool is open.
THEOREM BlockingPoolImplementsBoundedPool ==
  ASSUME Block = TRUE
  PROVE  Spec => ImplementsBoundedPool
<1>1. Init => Slots!Init
  <2> SUFFICES ASSUME Init PROVE Slots!Init
    OBVIOUS
  <2>1. Len(queue) = MaxSize
    BY SizeAssumption DEF Init
  <2> QED
    BY <2>1 DEF Init, Slots!Init, Users
<1>2. SlotInv /\ [Next]_vars => [Slots!Next]_(Slots!slots)
  BY StepOfSlots DEF BeyondSlots
<1>3. Init => SlotInv
  BY InitSlotInv
<1>4. SlotInv /\ [Next]_vars => SlotInv'
  BY StepSlotInv
<1> QED
  BY <1>1, <1>2, <1>3, <1>4, PTL DEF Spec, ImplementsBoundedPool, Slots!Spec

------------------------------------------------------------------------------
(* The bounds *)

LEMMA UsersFinite ==
  /\ IsFiniteSet(Users)
  /\ Cardinality(Users) \in Nat
  /\ Cardinality(Users) <= Cardinality(Callers)
  /\ Cardinality(Callers) \in Nat
<1>1. Users \in SUBSET Callers
  BY DEF Users
<1> QED
  BY <1>1, FiniteAssumption, FS_Subset, FS_CardinalityType

\* What one abstract step does to the number of slots and of users: their sum
\* never grows, and in an open pool it shrinks by what is lost.
LEMMA SlotStepCounts ==
  ASSUME Len(queue) \in Nat, failures \in Nat, [Slots!Next]_(Slots!slots)
  PROVE  /\ Len(queue') + Cardinality(Users') <= Len(queue) + Cardinality(Users)
         /\ pool' = "open" =>
              /\ pool = "open"
              /\ Len(queue') + Cardinality(Users') + failures'
                   = Len(queue) + Cardinality(Users) + failures
<1> DEFINE Goal ==
      /\ Len(queue') + Cardinality(Users') <= Len(queue) + Cardinality(Users)
      /\ pool' = "open" =>
           /\ pool = "open"
           /\ Len(queue') + Cardinality(Users') + failures'
                = Len(queue) + Cardinality(Users) + failures
<1>0. IsFiniteSet(Users) /\ Cardinality(Users) \in Nat
  BY UsersFinite
<1>1. ASSUME NEW t \in Callers, Slots!Acquire(t) PROVE Goal
  <2>1. Cardinality(Users \cup {t}) = Cardinality(Users) + 1
    BY <1>0, <1>1, FS_AddElement DEF Slots!Acquire
  <2> QED
    BY <1>0, <1>1, <2>1 DEF Slots!Acquire
<1>2. ASSUME NEW t \in Callers, Slots!Release(t) \/ Slots!Forfeit(t) \/ Slots!Retire(t)
      PROVE  Goal
  <2>1. Cardinality(Users \ {t}) = Cardinality(Users) - 1
    BY <1>0, <1>2, FS_RemoveElement DEF Slots!Release, Slots!Forfeit, Slots!Retire
  <2>2. CASE Slots!Release(t)
    BY <1>0, <2>1, <2>2 DEF Slots!Release
  <2>3. CASE Slots!Forfeit(t)
    BY <1>0, <2>1, <2>3 DEF Slots!Forfeit
  <2>4. CASE Slots!Retire(t)
    BY <1>0, <2>1, <2>4 DEF Slots!Retire
  <2> QED
    BY <1>2, <2>2, <2>3, <2>4
<1>3. ASSUME NEW t \in Callers, Slots!Spoil(t) PROVE Goal
  BY <1>0, <1>3 DEF Slots!Spoil
<1>4. CASE Slots!Shut \/ Slots!Scrap \/ UNCHANGED Slots!slots
  BY <1>0, <1>4 DEF Slots!Shut, Slots!Scrap, Slots!slots
<1> QED
  BY <1>1, <1>2, <1>3, <1>4 DEF Slots!Next

BoundInv ==
  /\ SlotInv
  /\ SlotBound
  /\ ConnectionsBounded
  /\ SlotsAccounted
  /\ NeverFullPoolError

LEMMA InitBoundInv == Init => BoundInv
<1> SUFFICES ASSUME Init PROVE BoundInv
  OBVIOUS
<1>1. Len(queue) = MaxSize /\ Users = {}
  BY SizeAssumption DEF Init, Users
<1>2. SlotBound /\ ConnectionsBounded /\ SlotsAccounted
  BY <1>1, SizeAssumption, FS_EmptySet
  DEF Init, SlotBound, ConnectionsBounded, SlotsAccounted
<1>3. NeverFullPoolError
  BY DEF Init, NeverFullPoolError
<1> QED
  BY <1>2, <1>3, InitSlotInv DEF BoundInv

\* A caller of a blocking pool returns into a queue with room: its own slot.
LEMMA RoomToReturn ==
  ASSUME BoundInv, Block, NEW t \in Callers, held[t] # NoConn
  PROVE  ~IsFull
<1>1. Len(queue) \in Nat
  BY LenQueue DEF BoundInv, SlotInv, Ownership
<1>2. Cardinality(Users) \in Nat /\ Cardinality(Users) # 0
  <2>1. Users # {}
    BY DEF Users
  <2> QED
    BY <2>1, UsersFinite, FS_EmptySet
<1> QED
  BY <1>1, <1>2, SizeAssumption DEF BoundInv, SlotBound, IsFull

LEMMA StepBoundInv == BoundInv /\ [Next]_vars => BoundInv'
<1> SUFFICES ASSUME BoundInv, [Next]_vars PROVE BoundInv'
  OBVIOUS
<1>0. /\ SlotInv /\ SlotInv' /\ TypeOK /\ HoldsWhileUsing
      /\ SlotBound /\ ConnectionsBounded /\ SlotsAccounted /\ NeverFullPoolError
      /\ Len(queue) \in Nat /\ Len(queue') \in Nat /\ failures \in Nat
  <2>1. SlotInv' /\ TypeOK /\ TypeOK'
    BY StepSlotInv DEF BoundInv, SlotInv, Ownership
  <2> QED
    BY <2>1, LenQueue DEF BoundInv, SlotInv, Ownership, TypeOK
<1>1. /\ Cardinality(Users) \in Nat
      /\ Cardinality(Callers) \in Nat
      /\ Users' \in SUBSET Callers
      /\ Cardinality(Users') \in Nat
      /\ Cardinality(Users') <= Cardinality(Callers)
  <2>1. Users' \in SUBSET Callers
    BY DEF Users
  <2> QED
    BY <2>1, UsersFinite, FiniteAssumption, FS_Subset, FS_CardinalityType
<1>2. SlotBound' /\ ConnectionsBounded' /\ SlotsAccounted'
  <2>1. CASE [Slots!Next]_(Slots!slots)
    <3>1. /\ Len(queue') + Cardinality(Users') <= Len(queue) + Cardinality(Users)
          /\ pool' = "open" =>
               /\ pool = "open"
               /\ Len(queue') + Cardinality(Users') + failures'
                    = Len(queue) + Cardinality(Users) + failures
      BY <1>0, <2>1, SlotStepCounts
    <3>2. SlotBound' /\ ConnectionsBounded'
      BY <1>0, <1>1, <3>1, SizeAssumption DEF SlotBound, ConnectionsBounded
    <3>3. SlotsAccounted'
      BY <1>0, <3>1 DEF SlotsAccounted
    <3> QED
      BY <3>2, <3>3
  <2>2. CASE BeyondSlots
    <3>1. SlotBound' /\ SlotsAccounted'
      BY <2>2 DEF BeyondSlots, SlotBound, SlotsAccounted
    <3>2. CASE \E t \in Callers : PopEmpty(t)
      <4>1. Len(queue') = 0
        BY <3>2 DEF PopEmpty
      <4> QED
        BY <1>1, <3>1, <4>1 DEF ConnectionsBounded
    <3>3. CASE UNCHANGED queue /\ Users' \subseteq Users
      <4>1. Cardinality(Users') <= Cardinality(Users)
        BY <3>3, UsersFinite, FS_Subset
      <4> QED
        BY <1>0, <1>1, <3>1, <3>3, <4>1, SizeAssumption DEF ConnectionsBounded
    <3> QED
      BY <2>2, <3>2, <3>3 DEF BeyondSlots
  <2> QED
    BY <1>0, <2>1, <2>2, StepOfSlots
<1>3. NeverFullPoolError'
  <2>1. ASSUME NEW t \in Callers, Put(t) PROVE NeverFullPoolError'
    <3>1. held[t] # NoConn
      BY <1>0, <2>1 DEF Put, HoldsWhileUsing, Using
    <3>2. \E r : r # "FullPoolError" /\ result' = [result EXCEPT ![t] = r]
      BY <2>1, <3>1, RoomToReturn DEF Put, End
    <3> QED
      BY <1>0, <3>2 DEF NeverFullPoolError, TypeOK
  <2>2. ASSUME ~ \E t \in Callers : Put(t) PROVE NeverFullPoolError'
    <3>1. \A t \in Callers : result'[t] = result[t] \/ result'[t] # "FullPoolError"
      BY <1>0, <2>2
      DEF Next, Begin, GetConn, Pop, PopEmpty, NewConnFails, TimeOut, Exchange, Send,
          Receive, Preload, Fail, ReturnConn, Return, Close, CloseCheck, CloseLoad,
          CloseStore, Drain, PeerClose, Terminated, End, vars, TypeOK
    <3> QED
      BY <1>0, <3>1 DEF NeverFullPoolError
  <2> QED
    BY <2>1, <2>2
<1> QED
  BY <1>0, <1>2, <1>3 DEF BoundInv

LEMMA BoundInvHolds == Spec => []BoundInv
BY InitBoundInv, StepBoundInv, PTL DEF Spec

\* With block=True, at most maxsize connections are pooled or in use.
THEOREM SlotBoundHolds == Spec => []SlotBound
<1>1. BoundInv => SlotBound
  BY DEF BoundInv
<1> QED
  BY <1>1, BoundInvHolds, PTL

\* While a pool with block=True is open, the entries of the queue, the users and
\* the calls that failed after their get add up to maxsize.
THEOREM SlotsAccountedHolds == Spec => []SlotsAccounted
<1>1. BoundInv => SlotsAccounted
  BY DEF BoundInv
<1> QED
  BY <1>1, BoundInvHolds, PTL

\* Pooled and used connections never outnumber maxsize and the callers both,
\* whatever block and maxsize are: an unbounded queue stays small.
THEOREM ConnectionsBoundedHolds == Spec => []ConnectionsBounded
<1>1. BoundInv => ConnectionsBounded
  BY DEF BoundInv
<1> QED
  BY <1>1, BoundInvHolds, PTL

\* urlopen never ends in FullPoolError.
THEOREM NeverFullPoolErrorHolds == Spec => []NeverFullPoolError
<1>1. BoundInv => NeverFullPoolError
  BY DEF BoundInv
<1> QED
  BY <1>1, BoundInvHolds, PTL

------------------------------------------------------------------------------
(* Sockets in order *)

\* Where a caller must not meet an unread response.
Calm == \A t \in Callers :
          pc[t] \in {"ready", "returning", "putting"} => sock[held[t]] # "busy"

QueueCalm == \A i \in Queued : sock[queue[i]] # "busy"

SockInv == Ownership /\ Calm /\ QueueCalm /\ NoOrphanedSocket

LEMMA InitSockInv == Init => SockInv
<1> SUFFICES ASSUME Init PROVE SockInv
  OBVIOUS
<1>1. Queued = {}
  BY SizeAssumption DEF Init, Queued
<1> QED
  BY <1>1, InitOwnership DEF Init, SockInv, Calm, QueueCalm, NoOrphanedSocket

\* A step of caller t that leaves the queue alone and changes at most its own
\* connection's socket.
LEMMA OwnSocketOnly ==
  ASSUME SockInv, NEW t \in Callers, held[t] # NoConn,
         UNCHANGED <<queue, held>>,
         \A c \in Conns \ {held[t]} : sock'[c] = sock[c],
         \A u \in Callers \ {t} : pc'[u] = pc[u],
         pc'[t] \in {"ready", "returning", "putting"} => sock'[held[t]] # "busy"
  PROVE  Calm' /\ QueueCalm' /\ NoOrphanedSocket'
<1>0. TypeOK /\ HoldsWhileUsing /\ ExclusiveUse /\ Calm /\ QueueCalm /\ NoOrphanedSocket
  BY DEF SockInv, Ownership
<1>1. Queued' = Queued
  BY DEF Queued
<1>2. Calm'
  <2>1. ASSUME NEW u \in Callers \ {t}, pc[u] \in {"ready", "returning", "putting"}
        PROVE  sock'[held[u]] = sock[held[u]]
    <3>1. held[u] \in Conns
      BY <1>0, <2>1 DEF HoldsWhileUsing, Using, TypeOK
    <3>2. held[u] # held[t]
      BY <1>0, <2>1, <3>1, NoConnAssumption DEF ExclusiveUse
    <3> QED
      BY <3>1, <3>2
  <2> QED
    BY <1>0, <2>1 DEF Calm
<1>3. QueueCalm'
  <2>1. ASSUME NEW i \in Queued PROVE queue[i] \in Conns \ {held[t]}
    BY <1>0, <2>1 DEF ExclusiveUse, Queued, TypeOK
  <2> QED
    BY <1>0, <1>1, <2>1 DEF QueueCalm
<1>4. NoOrphanedSocket'
  BY <1>0, <1>1 DEF NoOrphanedSocket
<1> QED
  BY <1>2, <1>3, <1>4

\* A caller closes its connection and lets go of it.
LEMMA DiscardInOrder ==
  ASSUME SockInv, NEW t \in Callers, held[t] # NoConn, UNCHANGED queue, Discard(t),
         pc' = [pc EXCEPT ![t] = "idle"]
  PROVE  Calm' /\ QueueCalm' /\ NoOrphanedSocket'
<1>0. TypeOK /\ HoldsWhileUsing /\ ExclusiveUse /\ Calm /\ QueueCalm /\ NoOrphanedSocket
  BY DEF SockInv, Ownership
<1>1. Queued' = Queued
  BY DEF Queued
<1>2. /\ sock'[held[t]] = "none"
      /\ \A c \in Conns \ {held[t]} : sock'[c] = sock[c]
      /\ \A u \in Callers \ {t} : pc'[u] = pc[u] /\ held'[u] = held[u]
      /\ pc'[t] = "idle"
  BY <1>0 DEF Discard, TypeOK
<1>3. Calm'
  <2>1. ASSUME NEW u \in Callers \ {t}, pc[u] \in {"ready", "returning", "putting"}
        PROVE  sock'[held[u]] = sock[held[u]]
    <3>1. held[u] \in Conns
      BY <1>0, <2>1 DEF HoldsWhileUsing, Using, TypeOK
    <3>2. held[u] # held[t]
      BY <1>0, <2>1, <3>1, NoConnAssumption DEF ExclusiveUse
    <3> QED
      BY <1>2, <3>1, <3>2
  <2> QED
    BY <1>0, <1>2, <2>1 DEF Calm
<1>4. QueueCalm'
  <2>1. ASSUME NEW i \in Queued PROVE queue[i] \in Conns \ {held[t]}
    BY <1>0, <2>1 DEF ExclusiveUse, Queued, TypeOK
  <2> QED
    BY <1>0, <1>1, <1>2, <2>1 DEF QueueCalm
<1>5. NoOrphanedSocket'
  BY <1>0, <1>1, <1>2 DEF NoOrphanedSocket
<1> QED
  BY <1>3, <1>4, <1>5

LEMMA StepSockInv == SockInv /\ [Next]_vars => SockInv'
<1> SUFFICES ASSUME SockInv, [Next]_vars PROVE SockInv'
  OBVIOUS
<1>0. /\ TypeOK /\ HoldsWhileUsing /\ ExclusiveUse
      /\ Calm /\ QueueCalm /\ NoOrphanedSocket /\ Ownership'
  BY StepOwnership DEF SockInv, Ownership
<1> DEFINE Goal == Calm' /\ QueueCalm' /\ NoOrphanedSocket'
<1> SUFFICES Goal
  BY <1>0 DEF SockInv
<1> HIDE DEF Goal
\* Steps that move neither connections nor sockets, nor bring a caller to a
\* place where it must be calm.
<1>a. ASSUME UNCHANGED <<queue, held, sock>>,
             \A t \in Callers : pc'[t] \in {"ready", "returning", "putting"} =>
               pc[t] \in {"ready", "returning", "putting"}
      PROVE  Goal
  BY <1>0, <1>a DEF Goal, Calm, QueueCalm, NoOrphanedSocket, Queued
<1>1. ASSUME NEW t \in Callers, Begin(t) \/ TimeOut(t) PROVE Goal
  <2>1. pc' = [pc EXCEPT ![t] = "popping"] \/ pc' = [pc EXCEPT ![t] = "idle"]
    BY <1>1 DEF Begin, TimeOut, End, Goto
  <2>2. UNCHANGED <<queue, held, sock>>
    BY <1>1 DEF Begin, TimeOut
  <2> QED
    BY <1>0, <1>a, <2>1, <2>2 DEF TypeOK
<1>2. ASSUME NEW t \in Callers, Pop(t) PROVE Goal
  <2>1. /\ queue # <<>> /\ queue' = Front(queue) /\ UNCHANGED sock
        /\ pc' = [pc EXCEPT ![t] = "ready"] /\ held[t] = NoConn
    BY <1>0, <1>2 DEF Pop, Goto, HoldsWhileUsing, Using
  <2>2. PICK c \in Conns : /\ held' = [held EXCEPT ![t] = c]
                           /\ \/ c = Last(queue)
                              \/ c \in Fresh /\ ~Reusable(Last(queue))
    <3>1. CASE Reusable(Last(queue))
      BY <1>0, <1>2, <2>1, <3>1, FrontQueued DEF Pop, Reusable
    <3>2. CASE ~Reusable(Last(queue))
      BY <1>2, <3>2 DEF Pop, HoldNew, Fresh
    <3> QED
      BY <3>1, <3>2
  <2>3. /\ Queued' \subseteq Queued
        /\ \A i \in Queued' : queue'[i] = queue[i]
        /\ Len(queue) \in 1..Len(queue) /\ Last(queue) = queue[Len(queue)]
        /\ \A i \in Queued \ {Len(queue)} : i \in Queued'
    <3>1. /\ Queued' \subseteq Queued
          /\ \A i \in Queued' : queue'[i] = queue[i]
          /\ Len(queue) \in 1..Len(queue) /\ Last(queue) = queue[Len(queue)]
      BY <1>0, <2>1, FrontQueued
    <3>2. \A i \in Queued \ {Len(queue)} : i \in Queued'
      <4>1. /\ Len(queue) \in Nat /\ Len(queue') = Len(queue) - 1
            /\ \A i \in 1..(Len(queue) - 1) : queue'[i] = queue[i]
        BY <1>0, <2>1, FrontOfQueue DEF TypeOK
      <4> QED
        BY <4>1 DEF Queued
    <3> QED
      BY <3>1, <3>2
  <2>4. sock[c] # "busy"
    <3>1. CASE c = Last(queue)
      BY <1>0, <2>3, <3>1, NoConnAssumption DEF QueueCalm, Queued
    <3>2. CASE c \in Fresh
      BY <3>2 DEF Fresh
    <3> QED
      BY <2>2, <3>1, <3>2
  <2>5. /\ held'[t] = c /\ pc'[t] = "ready"
        /\ \A u \in Callers \ {t} : held'[u] = held[u] /\ pc'[u] = pc[u]
    BY <1>0, <2>1, <2>2 DEF TypeOK
  <2>6. Calm'
    BY <1>0, <2>1, <2>4, <2>5 DEF Calm
  <2>7. QueueCalm'
    BY <1>0, <2>1, <2>3 DEF QueueCalm
  <2>8. ASSUME NEW d \in Conns, sock'[d] # "none"
        PROVE  (\E u \in Callers : held'[u] = d) \/ (\E i \in Queued' : queue'[i] = d)
    <3>1. CASE \E u \in Callers : held[u] = d
      BY <2>1, <2>5, <3>1, NoConnAssumption
    <3>2. ASSUME NEW i \in Queued, queue[i] = d
          PROVE  (\E u \in Callers : held'[u] = d) \/ (\E j \in Queued' : queue'[j] = d)
      <4>1. CASE i # Len(queue)
        BY <2>3, <3>2, <4>1
      <4>2. CASE i = Len(queue)
        <5>1. d = Last(queue) /\ Reusable(Last(queue))
          BY <2>1, <2>3, <2>8, <3>2, <4>2, NoConnAssumption DEF Reusable
        <5>2. held'[t] = d
          BY <2>2, <2>5, <5>1
        <5> QED
          BY <5>2
      <4> QED
        BY <4>1, <4>2
    <3> QED
      BY <1>0, <2>1, <2>8, <3>1, <3>2 DEF NoOrphanedSocket
  <2> QED
    BY <2>6, <2>7, <2>8 DEF Goal, NoOrphanedSocket
<1>3. ASSUME NEW t \in Callers, PopEmpty(t) PROVE Goal
  <2>1. PICK c \in Fresh : held' = [held EXCEPT ![t] = c]
    BY <1>3 DEF PopEmpty, HoldNew
  <2>2. /\ UNCHANGED <<queue, sock>> /\ pc' = [pc EXCEPT ![t] = "ready"]
        /\ held[t] = NoConn
    BY <1>0, <1>3 DEF PopEmpty, Goto, HoldsWhileUsing, Using
  <2>3. c \in Conns /\ sock[c] = "none"
    BY DEF Fresh
  <2>4. /\ held'[t] = c /\ pc'[t] = "ready"
        /\ \A u \in Callers \ {t} : held'[u] = held[u] /\ pc'[u] = pc[u]
    BY <1>0, <2>1, <2>2 DEF TypeOK
  <2>5. Calm'
    BY <1>0, <2>2, <2>3, <2>4 DEF Calm
  <2>6. QueueCalm'
    BY <1>0, <2>2 DEF QueueCalm, Queued
  <2>7. NoOrphanedSocket'
    BY <1>0, <2>2, <2>4, NoConnAssumption DEF NoOrphanedSocket, Queued
  <2> QED
    BY <2>5, <2>6, <2>7 DEF Goal
<1>4. ASSUME NEW t \in Callers, Send(t) \/ Receive(t) \/ Preload(t) PROVE Goal
  <2>1. pc[t] \in {"ready", "sent", "reading"} /\ held[t] \in Conns
    BY <1>0, <1>4 DEF Send, Receive, Preload, HoldsWhileUsing, Using, TypeOK
  <2>2. /\ UNCHANGED <<queue, held>>
        /\ \A u \in Callers \ {t} : pc'[u] = pc[u]
        /\ \A c \in Conns \ {held[t]} : sock'[c] = sock[c]
    BY <1>0, <1>4 DEF Send, Receive, Preload, Goto, TypeOK
  <2>3. pc'[t] \in {"ready", "returning", "putting"} => sock'[held[t]] # "busy"
    BY <1>0, <1>4, <2>1 DEF Send, Receive, Preload, Goto, TypeOK
  <2> QED
    BY <2>1, <2>2, <2>3, OwnSocketOnly, NoConnAssumption DEF Goal
<1>5. ASSUME NEW t \in Callers, Fail(t) PROVE Goal
  <2>1. held[t] # NoConn
    BY <1>0, <1>5 DEF Fail, HoldsWhileUsing, Using
  <2> QED
    BY <1>5, <2>1, DiscardInOrder DEF Fail, End, Goto, Goal
<1>6. ASSUME NEW t \in Callers, Return(t) PROVE Goal
  <2>1. held[t] # NoConn /\ pc[t] = "returning"
    BY <1>0, <1>6 DEF Return, HoldsWhileUsing, Using
  <2>2. CASE pool = "open"
    <3>1. UNCHANGED <<queue, held, sock>> /\ pc' = [pc EXCEPT ![t] = "putting"]
      BY <1>6, <2>2 DEF Return, Goto
    <3> QED
      BY <1>0, <1>a, <2>1, <3>1 DEF TypeOK
  <2>3. CASE pool # "open"
    BY <1>6, <2>1, <2>3, DiscardInOrder DEF Return, End, Goto, Goal
  <2> QED
    BY <2>2, <2>3
<1>7. ASSUME NEW t \in Callers, Put(t) PROVE Goal
  <2>1. held[t] \in Conns /\ pc[t] = "putting"
    BY <1>0, <1>7 DEF Put, HoldsWhileUsing, Using, TypeOK
  <2>2. CASE IsFull
    BY <1>7, <2>1, <2>2, DiscardInOrder, NoConnAssumption DEF Put, End, Goto, Goal
  <2>3. CASE ~IsFull
    <3>1. /\ queue' = Append(queue, held[t]) /\ UNCHANGED sock
          /\ held' = [held EXCEPT ![t] = NoConn]
          /\ pc' = [pc EXCEPT ![t] = "idle"]
      BY <1>7, <2>3 DEF Put, End, Goto
    <3>2. /\ Queued' = Queued \cup {Len(queue) + 1}
          /\ queue'[Len(queue) + 1] = held[t]
          /\ \A i \in Queued : queue'[i] = queue[i]
      <4>1. /\ Len(queue) \in Nat
            /\ Len(queue') = Len(queue) + 1
            /\ \A i \in 1..Len(queue) : queue'[i] = queue[i]
            /\ queue'[Len(queue) + 1] = held[t]
        BY <1>0, <2>1, <3>1, AppendToQueue DEF TypeOK
      <4> QED
        BY <2>1, <4>1, NoConnAssumption DEF Queued
    <3>3. /\ \A u \in Callers \ {t} : held'[u] = held[u] /\ pc'[u] = pc[u]
          /\ pc'[t] = "idle"
      BY <1>0, <3>1 DEF TypeOK
    <3>4. Calm'
      BY <1>0, <3>1, <3>3 DEF Calm
    <3>5. QueueCalm'
      <4>1. sock[held[t]] # "busy"
        BY <1>0, <2>1 DEF Calm
      <4>2. ASSUME NEW i \in Queued' PROVE sock'[queue'[i]] # "busy"
        BY <1>0, <3>1, <3>2, <4>1 DEF QueueCalm
      <4> QED
        BY <4>2 DEF QueueCalm
    <3>6. NoOrphanedSocket'
      <4>1. ASSUME NEW c \in Conns, sock'[c] # "none"
            PROVE  (\E u \in Callers : held'[u] = c) \/ (\E i \in Queued' : queue'[i] = c)
        <5>1. CASE c = held[t]
          <6>1. Len(queue) + 1 \in Queued' /\ queue'[Len(queue) + 1] = c
            BY <3>2, <5>1
          <6> QED
            BY <6>1
        <5>2. ASSUME NEW u \in Callers, held[u] = c, c # held[t]
              PROVE  held'[u] = c
          BY <3>3, <5>2
        <5>3. ASSUME NEW i \in Queued, queue[i] = c
              PROVE  i \in Queued' /\ queue'[i] = c
          BY <3>2, <5>3
        <5>4. sock[c] # "none"
          BY <3>1, <4>1
        <5>5. (\E u \in Callers : held[u] = c) \/ (\E i \in Queued : queue[i] = c)
          BY <1>0, <5>4 DEF NoOrphanedSocket
        <5> QED
          BY <5>1, <5>2, <5>3, <5>5
      <4> QED
        BY <4>1 DEF NoOrphanedSocket
    <3> QED
      BY <3>4, <3>5, <3>6 DEF Goal
  <2> QED
    BY <2>2, <2>3
<1>8. ASSUME NEW x \in Closers, Close(x) PROVE Goal
  <2>1. UNCHANGED held /\ \A t \in Callers : pc'[t] = pc[t]
    <3>1. UNCHANGED held /\ (UNCHANGED pc \/ \E s : pc' = [pc EXCEPT ![x] = s])
      BY <1>8 DEF Close, CloseCheck, CloseLoad, CloseStore, Drain, Goto, End
    <3> QED
      BY <1>0, <3>1, ThreadAssumption DEF TypeOK
  <2>2. CASE UNCHANGED <<queue, sock>>
    BY <1>a, <2>1, <2>2
  <2>3. CASE /\ queue # <<>> /\ queue' = Front(queue)
             /\ sock' = [c \in Conns |-> IF c = Last(queue) THEN "none" ELSE sock[c]]
    <3>1. /\ Queued' \subseteq Queued
          /\ \A i \in Queued' : queue'[i] = queue[i]
          /\ Last(queue) = queue[Len(queue)]
          /\ \A i \in Queued \ {Len(queue)} : i \in Queued'
      <4>1. /\ Len(queue) \in Nat /\ Len(queue') = Len(queue) - 1
            /\ \A i \in 1..(Len(queue) - 1) : queue'[i] = queue[i]
            /\ Last(queue) = queue[Len(queue)]
        BY <1>0, <2>3, FrontOfQueue DEF TypeOK
      <4> QED
        BY <4>1 DEF Queued
    <3>2. \A c \in Conns : sock'[c] \in {sock[c], "none"}
      BY <2>3
    <3>3. Calm'
      <4>1. ASSUME NEW t \in Callers, pc[t] \in {"ready", "returning", "putting"}
            PROVE  held[t] \in Conns
        BY <1>0, <4>1 DEF HoldsWhileUsing, Using, TypeOK
      <4> QED
        BY <1>0, <2>1, <3>2, <4>1 DEF Calm
    <3>4. QueueCalm'
      <4>1. \A i \in Queued : queue[i] \in Conns
        BY <1>0 DEF Queued, TypeOK
      <4> QED
        BY <1>0, <3>1, <3>2, <4>1 DEF QueueCalm
    <3>5. NoOrphanedSocket'
      BY <1>0, <2>1, <2>3, <3>1 DEF NoOrphanedSocket
    <3> QED
      BY <3>3, <3>4, <3>5 DEF Goal
  <2> QED
    BY <1>8, <2>2, <2>3 DEF Close, CloseCheck, CloseLoad, CloseStore, Drain
<1>9. ASSUME NEW c \in Conns, PeerClose(c) PROVE Goal
  <2>1. /\ UNCHANGED <<queue, held, pc>> /\ sock' = [sock EXCEPT ![c] = "stale"]
        /\ sock[c] = "idle"
    BY <1>9 DEF PeerClose
  <2>2. Calm'
    <3>1. ASSUME NEW t \in Callers, pc[t] \in {"ready", "returning", "putting"}
          PROVE  held[t] \in Conns
      BY <1>0, <3>1 DEF HoldsWhileUsing, Using, TypeOK
    <3> QED
      BY <1>0, <2>1, <3>1 DEF Calm, TypeOK
  <2>3. QueueCalm'
    <3>1. \A i \in Queued : queue[i] \in Conns
      BY <1>0 DEF Queued, TypeOK
    <3> QED
      BY <1>0, <2>1, <3>1 DEF QueueCalm, Queued, TypeOK
  <2>4. NoOrphanedSocket'
    BY <1>0, <2>1 DEF NoOrphanedSocket, Queued, TypeOK
  <2> QED
    BY <2>2, <2>3, <2>4 DEF Goal
<1>10. ASSUME NEW t \in Callers, NewConnFails(t) PROVE Goal
  <2>1. /\ UNCHANGED <<sock, held>> /\ pc' = [pc EXCEPT ![t] = "idle"]
        /\ \/ UNCHANGED queue
           \/ queue # <<>> /\ ~Reusable(Last(queue)) /\ queue' = Front(queue)
    BY <1>10 DEF NewConnFails, End, Goto
  <2>2. \A u \in Callers : pc'[u] = pc[u] \/ pc'[u] = "idle"
    BY <1>0, <2>1 DEF TypeOK
  <2>3. CASE UNCHANGED queue
    BY <1>a, <2>1, <2>2, <2>3
  <2>4. CASE queue # <<>> /\ ~Reusable(Last(queue)) /\ queue' = Front(queue)
    <3>1. /\ Queued' \subseteq Queued
          /\ \A i \in Queued' : queue'[i] = queue[i]
          /\ Last(queue) = queue[Len(queue)]
      BY <1>0, <2>4, FrontQueued
    <3>2. \A i \in Queued \ {Len(queue)} : i \in Queued'
      <4>1. /\ Len(queue) \in Nat /\ Len(queue') = Len(queue) - 1
            /\ \A i \in 1..(Len(queue) - 1) : queue'[i] = queue[i]
        BY <1>0, <2>4, FrontOfQueue DEF TypeOK
      <4> QED
        BY <4>1 DEF Queued
    <3>3. Calm'
      BY <1>0, <2>1, <2>2 DEF Calm
    <3>4. QueueCalm'
      BY <1>0, <2>1, <3>1 DEF QueueCalm
    <3>5. ASSUME NEW c \in Conns, sock[c] # "none"
          PROVE  (\E u \in Callers : held[u] = c) \/ (\E i \in Queued' : queue'[i] = c)
      <4>1. ASSUME NEW i \in Queued, queue[i] = c PROVE i \in Queued' /\ queue'[i] = c
        <5>1. i # Len(queue)
          BY <2>4, <3>1, <3>5, <4>1, NoConnAssumption DEF Reusable
        <5> QED
          BY <3>1, <3>2, <4>1, <5>1
      <4> QED
        BY <1>0, <3>5, <4>1 DEF NoOrphanedSocket
    <3>6. NoOrphanedSocket'
      BY <2>1, <3>5 DEF NoOrphanedSocket
    <3> QED
      BY <3>3, <3>4, <3>6 DEF Goal
  <2> QED
    BY <2>1, <2>3, <2>4
<1>11. ASSUME UNCHANGED vars PROVE Goal
  BY <1>a, <1>11 DEF vars
<1> QED
  BY <1>1, <1>2, <1>3, <1>4, <1>5, <1>6, <1>7, <1>8, <1>9, <1>10, <1>11
  DEF Next, GetConn, Exchange, ReturnConn, Terminated

LEMMA SockInvHolds == Spec => []SockInv
BY InitSockInv, StepSockInv, PTL DEF Spec

\* A connection in the queue, and one just taken from it, has no response
\* outstanding, for any mix of outcomes and of servers that close.
THEOREM HandedOutIdleHolds == Spec => []HandedOutIdle
<1>1. SockInv => HandedOutIdle
  BY DEF SockInv, Calm, QueueCalm, HandedOutIdle
<1> QED
  BY <1>1, SockInvHolds, PTL

\* Every open socket belongs to a caller or lies in the queue: _return_conn,
\* close and the except clause of urlopen close what they let go of.
THEOREM NoOrphanedSocketHolds == Spec => []NoOrphanedSocket
<1>1. SockInv => NoOrphanedSocket
  BY DEF SockInv
<1> QED
  BY <1>1, SockInvHolds, PTL

------------------------------------------------------------------------------
(* What a step may do to a connection in use *)

\* Closing belongs to the user: close() and the other callers only ever close
\* what ExclusiveUse says is not in use.
THEOREM InUseUntouchedHolds == Spec => InUseUntouched
<1> DEFINE Untouched ==
      \A t \in Callers :
        held[t] # NoConn /\ pc'[t] = pc[t] =>
          /\ held'[t] = held[t]
          /\ sock[held[t]] # "none" => sock'[held[t]] # "none"
<1>1. ASSUME Ownership, [Next]_vars PROVE [Untouched]_vars
  <2> SUFFICES ASSUME NEW t \in Callers, held[t] # NoConn, pc'[t] = pc[t]
               PROVE  /\ held'[t] = held[t]
                      /\ sock[held[t]] # "none" => sock'[held[t]] # "none"
    OBVIOUS
  <2>0. /\ TypeOK /\ HoldsWhileUsing /\ ExclusiveUse
        /\ held[t] \in Conns /\ pc[t] \in Using
    BY <1>1 DEF Ownership, TypeOK, HoldsWhileUsing
  <2>1. ASSUME NEW u \in Callers, Begin(u) \/ GetConn(u) \/ Exchange(u) \/ ReturnConn(u)
        PROVE  /\ held'[t] = held[t]
               /\ sock[held[t]] # "none" => sock'[held[t]] # "none"
    <3>1. u # t
      <4>1. ~Begin(t) /\ ~GetConn(t)
        BY <2>0 DEF Begin, GetConn, Pop, PopEmpty, NewConnFails, TimeOut, Using
      <4>2. Exchange(t) \/ ReturnConn(t) => pc'[t] # pc[t]
        BY <2>0 DEF Exchange, Send, Receive, Preload, Fail, ReturnConn, Return, Put,
                    End, Goto, TypeOK
      <4> QED
        BY <1>1, <2>1, <4>1, <4>2
    <3>2. \A c \in Conns : c # held[u] => sock'[c] = sock[c]
      BY <2>0, <2>1 DEF Begin, GetConn, Pop, PopEmpty, NewConnFails, TimeOut, Exchange,
                        Send, Receive, Preload, Fail, ReturnConn, Return, Put, Discard, TypeOK
    <3>3. held'[t] = held[t]
      BY <2>0, <2>1, <3>1 DEF Begin, GetConn, Pop, PopEmpty, HoldNew, NewConnFails,
                  TimeOut, Exchange, Send, Receive, Preload, Fail, ReturnConn, Return, Put, Discard, TypeOK
    <3>4. held[t] # held[u]
      BY <2>0, <3>1 DEF ExclusiveUse
    <3> QED
      BY <2>0, <3>2, <3>3, <3>4
  <2>2. ASSUME NEW x \in Closers, Close(x)
        PROVE  /\ held'[t] = held[t]
               /\ sock[held[t]] # "none" => sock'[held[t]] # "none"
    <3>1. UNCHANGED held
      BY <2>2 DEF Close, CloseCheck, CloseLoad, CloseStore, Drain
    <3>2. CASE UNCHANGED sock
      BY <3>1, <3>2
    <3>3. CASE queue # <<>> /\ sock' = [c \in Conns |-> IF c = Last(queue) THEN "none"
                                                        ELSE sock[c]]
      <4>1. held[t] # Last(queue)
        <5>1. Len(queue) \in 1..Len(queue) /\ Last(queue) = queue[Len(queue)]
          <6>1. queue \in Seq(Conns \cup {NoConn}) /\ queue # <<>>
            BY <2>0, <3>3 DEF TypeOK
          <6>2. Len(queue) \in Nat \ {0} /\ Last(queue) = queue[Len(queue)]
            BY <6>1, FrontOfQueue
          <6> QED
            BY <6>2
        <5>2. Last(queue) # NoConn => Len(queue) \in Queued
          BY <5>1 DEF Queued
        <5> HIDE DEF Queued
        <5> QED
          BY <2>0, <5>1, <5>2 DEF ExclusiveUse
      <4> QED
        BY <2>0, <3>1, <3>3, <4>1
    <3> QED
      BY <2>2, <3>2, <3>3 DEF Close, CloseCheck, CloseLoad, CloseStore, Drain
  <2>3. ASSUME NEW c \in Conns, PeerClose(c)
        PROVE  /\ held'[t] = held[t]
               /\ sock[held[t]] # "none" => sock'[held[t]] # "none"
    BY <2>0, <2>3 DEF PeerClose, TypeOK
  <2> QED
    BY <1>1, <2>1, <2>2, <2>3 DEF Next, Terminated, vars
<1>2. Spec => []Ownership
  BY InitOwnership, StepOwnership, PTL DEF Spec
<1> QED
  BY <1>1, <1>2, PTL DEF Spec, InUseUntouched

------------------------------------------------------------------------------
(* Reuse *)

\* Connections lie above placeholders: what is put is on top of them.
PlaceholdersBelow ==
  \A i, j \in 1..Len(queue) : i < j /\ queue[i] # NoConn => queue[j] # NoConn

LEMMA InitPlaceholders == Init => PlaceholdersBelow
BY SizeAssumption DEF Init, PlaceholdersBelow

LEMMA StepPlaceholders ==
  Ownership /\ PlaceholdersBelow /\ [Next]_vars => PlaceholdersBelow'
<1> SUFFICES ASSUME Ownership, PlaceholdersBelow, [Next]_vars PROVE PlaceholdersBelow'
  OBVIOUS
<1>0. TypeOK /\ HoldsWhileUsing /\ Len(queue) \in Nat
  BY LenQueue DEF Ownership
<1>1. CASE UNCHANGED queue
  BY <1>1 DEF PlaceholdersBelow
<1>2. CASE queue # <<>> /\ queue' = Front(queue)
  <2>1. /\ Len(queue') = Len(queue) - 1
        /\ \A i \in 1..(Len(queue) - 1) : queue'[i] = queue[i]
    BY <1>0, <1>2, FrontOfQueue DEF TypeOK
  <2> QED
    BY <1>0, <2>1 DEF PlaceholdersBelow
<1>3. ASSUME NEW t \in Callers, pc[t] = "putting", queue' = Append(queue, held[t])
      PROVE  PlaceholdersBelow'
  <2>1. held[t] \in Conns
    BY <1>0, <1>3 DEF HoldsWhileUsing, Using, TypeOK
  <2>2. /\ Len(queue') = Len(queue) + 1
        /\ \A i \in 1..Len(queue) : queue'[i] = queue[i]
        /\ queue'[Len(queue) + 1] = held[t]
    BY <1>0, <1>3, <2>1, AppendToQueue DEF TypeOK
  <2> QED
    BY <1>0, <2>1, <2>2, NoConnAssumption DEF PlaceholdersBelow
<1>4. \/ UNCHANGED queue
      \/ queue # <<>> /\ queue' = Front(queue)
      \/ \E t \in Callers : pc[t] = "putting" /\ queue' = Append(queue, held[t])
  BY DEF Next, Begin, GetConn, Pop, PopEmpty, NewConnFails, TimeOut, Exchange, Send,
         Receive, Preload, Fail, ReturnConn, Return, Put, Close, CloseCheck, CloseLoad, CloseStore, Drain,
         PeerClose, Terminated, vars
<1> QED
  BY <1>1, <1>2, <1>3, <1>4

\* A new connection is made only when the queue has no live one above its first
\* placeholder or dropped connection: in first out last, and the placeholders
\* that __init__ puts in stay at the bottom.
THEOREM ReuseFirstHolds == Spec => ReuseFirst
<1> DEFINE Reuse ==
      \A t \in Callers :
        pc[t] = "popping" /\ pc'[t] = "ready" /\ sock[held'[t]] = "none" =>
          \/ queue # <<>> /\ Last(queue) # NoConn
          \/ Queued = {}
<1>1. ASSUME Ownership, PlaceholdersBelow PROVE Reuse
  <2> SUFFICES ASSUME queue = <<>> \/ Last(queue) = NoConn PROVE Queued = {}
    OBVIOUS
  <2>1. CASE queue = <<>>
    BY <2>1 DEF Queued
  <2>2. CASE queue # <<>>
    <3>1. /\ Len(queue) \in Nat \ {0} /\ queue[Len(queue)] = NoConn
      BY <1>1, <2>2, FrontOfQueue DEF Ownership, TypeOK
    <3>2. ASSUME NEW i \in Queued PROVE FALSE
      <4>1. i \in 1..Len(queue) /\ queue[i] # NoConn /\ Len(queue) \in 1..Len(queue)
        BY <3>1, <3>2 DEF Queued
      <4>2. i < Len(queue)
        BY <3>1, <4>1
      <4> QED
        BY <1>1, <3>1, <4>1, <4>2 DEF PlaceholdersBelow
    <3> QED
      BY <3>2
  <2> QED
    BY <2>1, <2>2
<1>2. Spec => [](Ownership /\ PlaceholdersBelow)
  BY InitOwnership, StepOwnership, InitPlaceholders, StepPlaceholders, PTL DEF Spec
<1> QED
  BY <1>1, <1>2, PTL DEF ReuseFirst
=============================================================================
