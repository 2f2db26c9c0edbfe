-------------------------- MODULE PoolManagerProofs --------------------------
(***************************************************************************)
(* For any number of threads, requests and cached pools: a key never has   *)
(* two pools alive, and who asks is handed a pool for his server.          *)
(***************************************************************************)
EXTENDS PoolManager, OrderedDictProofs

Keys  == {PoolKey(Target(r)) : r \in Requests}
Servers == {NewPool(Target(r)) : r \in Requests}
Steps == {"idle", "asking", "locked", "creating", "storing"}

Types ==
  /\ proxy \in Proxies
  /\ made \in Seq(Servers)
  /\ cache \in Dict(Keys, 1..Len(made))
  /\ lock \in Threads \cup {NoOne}
  /\ pc \in [Threads -> Steps]
  /\ req \in [Threads -> Requests]
  /\ got \in [Threads -> 0..Len(made)]
  /\ gone \subseteq 1..Len(made)
  /\ asks \in 0..MaxAsks

Bounded == Len(cache) <= NumPools

\* The lock is held over lookup, creation and store, and nowhere else.
LockHeld == \A t \in Threads : pc[t] \in {"locked", "creating", "storing"} <=> lock = t

\* What a thread missed is still missing when it stores.
StillMissing ==
  \A t \in Threads : pc[t] \in {"creating", "storing"} => ~Has(cache, Key(t))

\* The key of the server that a pool was made for, and under which it belongs.
KeyOf(p) == <<p.scheme, p.host, p.port>>

\* A pool is cached under the key of its server.
Labelled == \A e \in Items(cache) : KeyOf(made[e.val]) = e.key

\* A live pool is in the cache or about to be stored.
Kept ==
  \A p \in (1..Len(made)) \ gone :
    \/ \E e \in Items(cache) : e.val = p
    \/ \E t \in Threads : pc[t] = "storing" /\ got[t] = p

\* What a thread got was made for the request it asked with.
GotRight ==
  \A t \in Threads :
    /\ got[t] # 0 => KeyOf(made[got[t]]) = Key(t) /\ pc[t] \in {"idle", "storing"}
    /\ pc[t] = "storing" => got[t] # 0

\* Past Ask the scheme has a pool class.
SchemeKnown ==
  \A t \in Threads :
    pc[t] # "idle" \/ got[t] # 0 => Lower(Target(req[t]).scheme) \in Schemes

MInv == /\ Types /\ Bounded /\ LockHeld /\ StillMissing
        /\ Labelled /\ Kept /\ GotRight /\ SchemeKnown

LEMMA Init_MInv == Init => MInv
<1> SUFFICES ASSUME Init PROVE MInv
  OBVIOUS
<1> USE ManagerAssumption
<1>1. cache \in Dict(Keys, 1..Len(made)) /\ Items(cache) = {} /\ Len(made) = 0
      /\ Len(cache) = 0 /\ made \in Seq(Servers)
  BY DEF Init, Dict, Items
<1>2. Types
  BY <1>1 DEF Init, Types, Steps
<1>3. Bounded /\ LockHeld /\ StillMissing
  BY <1>1 DEF Init, Bounded, LockHeld, StillMissing
<1>4. Labelled /\ Kept /\ GotRight /\ SchemeKnown
  BY <1>1 DEF Init, Labelled, Kept, GotRight, SchemeKnown
<1> QED
  BY <1>2, <1>3, <1>4 DEF MInv

\* A request that is not asked anew keeps its key and its server.
LEMMA SameKey ==
  ASSUME UNCHANGED proxy
  PROVE  /\ Keys' = Keys /\ Servers' = Servers
         /\ \A t \in Threads : req'[t] = req[t] =>
              /\ Key(t)' = Key(t)
              /\ Lower(Target(req[t]).scheme)' = Lower(Target(req[t]).scheme)
BY DEF Keys, Servers, NewPool, Key, Target, PoolKey, Port, Lower

LEMMA Ask_MInv ==
  ASSUME MInv, NEW t \in Threads, Ask(t) PROVE MInv'
<1> USE ManagerAssumption
<1>0. Types /\ pc[t] = "idle" /\ UNCHANGED <<proxy, cache, lock, made, gone>>
  BY DEF MInv, Ask
<1>1. PICK r \in Requests :
        /\ req' = [req EXCEPT ![t] = r]
        /\ \/ pc' = pc
           \/ /\ pc' = [pc EXCEPT ![t] = "asking"]
              /\ Lower(Target(r).scheme) \in Schemes
  BY DEF Ask, Goto
<1>2. got' = [got EXCEPT ![t] = 0] /\ asks' \in 0..MaxAsks
  BY <1>0 DEF Ask, Gets, Types
<1>3. /\ req'[t] = r /\ got'[t] = 0 /\ pc'[t] \in {"idle", "asking"}
      /\ \A u \in Threads \ {t} : req'[u] = req[u] /\ got'[u] = got[u] /\ pc'[u] = pc[u]
  BY <1>0, <1>1, <1>2 DEF Types
<1>4. Keys' = Keys /\ Servers' = Servers /\ \A u \in Threads \ {t} :
        /\ Key(u)' = Key(u)
        /\ Lower(Target(req[u]).scheme)' = Lower(Target(req[u]).scheme)
  BY <1>0, <1>3, SameKey
<1>5. Types'
  BY <1>0, <1>1, <1>2, <1>4 DEF Types, Steps
<1>6. Bounded' /\ LockHeld'
  BY <1>0, <1>3 DEF MInv, Bounded, LockHeld
<1>7. StillMissing'
  BY <1>0, <1>3, <1>4 DEF MInv, StillMissing
<1>8. Labelled' /\ Kept'
  BY <1>0, <1>3 DEF MInv, Labelled, Kept
<1>9. GotRight'
  BY <1>0, <1>3, <1>4 DEF MInv, GotRight
<1>10. SchemeKnown'
  <2> SUFFICES ASSUME NEW u \in Threads, (pc[u] # "idle" \/ got[u] # 0)'
               PROVE  (Lower(Target(req[u]).scheme) \in Schemes)'
    BY DEF SchemeKnown
  <2>1. CASE u # t
    BY <1>3, <1>4, <2>1 DEF MInv, SchemeKnown, Schemes
  <2>2. CASE u = t
    <3>1. Lower(Target(r).scheme) \in Schemes
      BY <1>0, <1>1, <1>3, <2>2
    <3>2. Target(req[u])' = Target(r)
      BY <1>0, <1>3, <2>2 DEF Target
    <3> QED
      BY <3>1, <3>2 DEF Schemes, Lower
  <2> QED
    BY <2>1, <2>2
<1> QED
  BY <1>5, <1>6, <1>7, <1>8, <1>9, <1>10 DEF MInv

LEMMA Acquire_MInv ==
  ASSUME MInv, NEW t \in Threads, Acquire(t) PROVE MInv'
<1> USE ManagerAssumption
<1>0. /\ Types /\ pc[t] = "asking" /\ lock = NoOne /\ lock' = t
      /\ pc' = [pc EXCEPT ![t] = "locked"]
      /\ UNCHANGED <<proxy, cache, made, req, got, gone, asks>>
  BY DEF MInv, Acquire, Goto
<1>1. pc'[t] = "locked" /\ \A u \in Threads \ {t} : pc'[u] = pc[u]
  BY <1>0 DEF Types
<1>2. Keys' = Keys /\ Servers' = Servers /\ \A u \in Threads :
        /\ Key(u)' = Key(u)
        /\ Lower(Target(req[u]).scheme)' = Lower(Target(req[u]).scheme)
  BY <1>0, SameKey
<1>3. Types'
  BY <1>0, <1>2 DEF Types, Steps
<1>4. Bounded' /\ LockHeld'
  BY <1>0, <1>1 DEF MInv, Bounded, LockHeld
<1>5. StillMissing' /\ GotRight'
  BY <1>0, <1>1, <1>2 DEF MInv, StillMissing, GotRight
<1>6. Labelled' /\ Kept'
  BY <1>0, <1>1 DEF MInv, Labelled, Kept
<1>7. SchemeKnown'
  BY <1>0, <1>1, <1>2 DEF MInv, SchemeKnown, Schemes
<1> QED
  BY <1>3, <1>4, <1>5, <1>6, <1>7 DEF MInv

LEMMA Lookup_MInv ==
  ASSUME MInv, NEW t \in Threads, Lookup(t) PROVE MInv'
<1> USE ManagerAssumption
<1>0. /\ Types /\ pc[t] = "locked" /\ lock = t /\ UNCHANGED <<proxy, made, req, gone, asks>>
  BY DEF MInv, Lookup, LockHeld
<1>1. Keys' = Keys /\ Servers' = Servers /\ Key(t) \in Keys /\ \A u \in Threads :
        /\ Key(u)' = Key(u)
        /\ Lower(Target(req[u]).scheme)' = Lower(Target(req[u]).scheme)
  <2>1. Key(t) \in Keys
    BY <1>0 DEF Types, Key, Keys
  <2> QED
    BY <1>0, <2>1, SameKey
<1>2. \A u \in Threads \ {t} : pc[u] \notin {"locked", "creating", "storing"}
  BY <1>0 DEF MInv, LockHeld
<1>3. CASE Has(cache, Key(t)) /\ got' = [got EXCEPT ![t] = At(cache, Key(t))]
           /\ cache' = Touched(cache, Key(t)) /\ lock' = NoOne
           /\ pc' = [pc EXCEPT ![t] = "idle"]
  <2> DEFINE e == [key |-> Key(t), val |-> At(cache, Key(t))]
  <2>1. /\ cache' \in Dict(Keys, 1..Len(made)) /\ Items(cache') = Items(cache)
        /\ Len(cache') = Len(cache) /\ e \in Items(cache)
    BY <1>0, <1>1, <1>3, TouchedItems DEF Types
  <2>2. At(cache, Key(t)) \in 1..Len(made) /\ KeyOf(made[At(cache, Key(t))]) = Key(t)
    <3>1. KeyOf(made[e.val]) = e.key
      BY <2>1 DEF MInv, Labelled
    <3>2. e \in Entry(Keys, 1..Len(made))
      BY <1>0, <2>1 DEF Types, Dict, Items
    <3> QED
      BY <3>1, <3>2 DEF Entry
  <2>3. /\ pc'[t] = "idle" /\ got'[t] = At(cache, Key(t))
        /\ \A u \in Threads \ {t} : pc'[u] = pc[u] /\ got'[u] = got[u]
    BY <1>0, <1>3 DEF Types
  <2>4. Types'
    BY <1>0, <1>1, <1>3, <2>1, <2>2 DEF Types, Steps
  <2>5. Bounded' /\ LockHeld'
    BY <1>0, <1>2, <1>3, <2>1, <2>3 DEF MInv, Bounded, LockHeld
  <2>6. StillMissing'
    BY <1>2, <2>3 DEF StillMissing
  <2>7. Labelled' /\ Kept'
    BY <1>0, <2>1, <2>3 DEF MInv, Labelled, Kept
  <2>8. GotRight'
    BY <1>0, <1>1, <1>2, <2>2, <2>3 DEF MInv, GotRight
  <2>9. SchemeKnown'
    BY <1>0, <1>1, <2>3 DEF MInv, SchemeKnown, Schemes
  <2> QED
    BY <2>4, <2>5, <2>6, <2>7, <2>8, <2>9 DEF MInv
<1>4. CASE ~Has(cache, Key(t)) /\ pc' = [pc EXCEPT ![t] = "creating"]
           /\ UNCHANGED <<cache, lock, got>>
  <2>1. pc'[t] = "creating" /\ \A u \in Threads \ {t} : pc'[u] = pc[u]
    BY <1>0, <1>4 DEF Types
  <2>2. Types'
    BY <1>0, <1>1, <1>4 DEF Types, Steps
  <2>3. Bounded' /\ LockHeld'
    BY <1>0, <1>4, <2>1 DEF MInv, Bounded, LockHeld
  <2>4. StillMissing' /\ GotRight'
    BY <1>0, <1>1, <1>2, <1>4, <2>1 DEF MInv, StillMissing, GotRight
  <2>5. Labelled' /\ Kept'
    BY <1>0, <1>4, <2>1 DEF MInv, Labelled, Kept
  <2>6. SchemeKnown'
    BY <1>0, <1>1, <1>4, <2>1 DEF MInv, SchemeKnown, Schemes
  <2> QED
    BY <2>2, <2>3, <2>4, <2>5, <2>6 DEF MInv
<1> QED
  BY <1>3, <1>4 DEF Lookup, Gets, Goto

LEMMA Create_MInv ==
  ASSUME MInv, NEW t \in Threads, Create(t) PROVE MInv'
<1> USE ManagerAssumption
<1>0. /\ Types /\ pc[t] = "creating" /\ lock = t
      /\ UNCHANGED <<proxy, cache, req, gone, asks>>
  BY DEF MInv, Create, LockHeld
<1>1. Keys' = Keys /\ Servers' = Servers /\ Key(t) \in Keys /\ \A u \in Threads :
        /\ Key(u)' = Key(u)
        /\ Lower(Target(req[u]).scheme)' = Lower(Target(req[u]).scheme)
  <2>1. Key(t) \in Keys
    BY <1>0 DEF Types, Key, Keys
  <2> QED
    BY <1>0, <2>1, SameKey
<1>2. \A u \in Threads \ {t} : pc[u] \notin {"locked", "creating", "storing"}
  BY <1>0 DEF MInv, LockHeld
<1> DEFINE new == NewPool(Target(req[t]))
<1>a. new \in Servers /\ KeyOf(new) = Key(t)
  BY <1>0 DEF Types, Servers, KeyOf, NewPool, Key, PoolKey
<1> HIDE DEF new
<1>3. CASE made' = Append(made, new) /\ got' = [got EXCEPT ![t] = Len(made')]
           /\ pc' = [pc EXCEPT ![t] = "storing"] /\ UNCHANGED lock
  <2>1. /\ made' \in Seq(Servers) /\ Len(made') = Len(made) + 1 /\ Len(made) \in Nat
        /\ made'[Len(made) + 1] = new
        /\ \A i \in 1..Len(made) : made'[i] = made[i]
    BY <1>0, <1>a, <1>3 DEF Types
  <2>2. /\ pc'[t] = "storing" /\ got'[t] = Len(made) + 1
        /\ \A u \in Threads \ {t} : pc'[u] = pc[u] /\ got'[u] = got[u]
    BY <1>0, <1>3, <2>1 DEF Types
  <2>3. cache \in Dict(Keys, 1..Len(made'))
    BY <1>0, <2>1, WiderValues DEF Types
  <2>4. \A e \in Items(cache) : e.val \in 1..Len(made)
    <3>1. \A e \in Items(cache) : e \in Entry(Keys, 1..Len(made))
      BY <1>0 DEF Types, Dict, Items
    <3> QED
      BY <3>1 DEF Entry
  <2>5. Types'
    <3>1. got' \in [Threads -> 0..Len(made')] /\ gone' \subseteq 1..Len(made')
      BY <1>0, <1>3, <2>1 DEF Types
    <3> QED
      BY <1>0, <1>1, <1>3, <2>1, <2>3, <3>1 DEF Types, Steps
  <2>6. Bounded' /\ LockHeld'
    BY <1>0, <1>3, <2>2 DEF MInv, Bounded, LockHeld
  <2>7. StillMissing'
    BY <1>0, <1>1, <1>2, <2>2 DEF MInv, StillMissing
  <2>8. Labelled'
    BY <1>0, <2>1, <2>4 DEF MInv, Labelled
  <2>9. Kept'
    <3> SUFFICES ASSUME NEW p \in ((1..Len(made)) \ gone)'
                 PROVE  \/ \E e \in Items(cache') : e.val = p
                        \/ \E u \in Threads : pc'[u] = "storing" /\ got'[u] = p
      BY DEF Kept
    <3>1. CASE p = Len(made) + 1
      BY <2>2, <3>1
    <3>2. CASE p # Len(made) + 1
      <4>1. p \in (1..Len(made)) \ gone
        BY <1>0, <2>1, <3>2
      <4>2. \E e \in Items(cache) : e.val = p
        BY <1>0, <1>2, <4>1 DEF MInv, Kept
      <4> QED
        BY <1>0, <4>2
    <3> QED
      BY <3>1, <3>2
  <2>10. GotRight'
    <3> SUFFICES ASSUME NEW u \in Threads
                 PROVE  /\ got'[u] # 0 => KeyOf(made'[got'[u]]) = Key(u)' /\ pc'[u] \in {"idle", "storing"}
                        /\ pc'[u] = "storing" => got'[u] # 0
      BY DEF GotRight
    <3>1. CASE u = t
      BY <1>1, <1>a, <2>1, <2>2, <3>1
    <3>2. CASE u # t
      <4>1. got[u] \in 0..Len(made)
        BY <1>0 DEF Types
      <4> QED
        BY <1>1, <2>1, <2>2, <3>2, <4>1 DEF MInv, GotRight
    <3> QED
      BY <3>1, <3>2
  <2>11. SchemeKnown'
    BY <1>0, <1>1, <2>2 DEF MInv, SchemeKnown, Schemes
  <2> QED
    BY <2>5, <2>6, <2>7, <2>8, <2>9, <2>10, <2>11 DEF MInv
<1>4. CASE lock' = NoOne /\ pc' = [pc EXCEPT ![t] = "idle"] /\ UNCHANGED <<made, got>>
  <2>1. pc'[t] = "idle" /\ \A u \in Threads \ {t} : pc'[u] = pc[u]
    BY <1>0, <1>4 DEF Types
  <2>2. Types'
    BY <1>0, <1>1, <1>4 DEF Types, Steps
  <2>3. Bounded' /\ LockHeld'
    BY <1>0, <1>2, <1>4, <2>1 DEF MInv, Bounded, LockHeld
  <2>4. StillMissing' /\ GotRight'
    BY <1>0, <1>1, <1>2, <1>4, <2>1 DEF MInv, StillMissing, GotRight
  <2>5. Labelled' /\ Kept'
    BY <1>0, <1>4, <2>1 DEF MInv, Labelled, Kept
  <2>6. SchemeKnown'
    BY <1>0, <1>1, <1>4, <2>1 DEF MInv, SchemeKnown, Schemes
  <2> QED
    BY <2>2, <2>3, <2>4, <2>5, <2>6 DEF MInv
<1> QED
  BY <1>3, <1>4 DEF Create, Gets, Goto, new

LEMMA Store_MInv ==
  ASSUME MInv, NEW t \in Threads, Store(t) PROVE MInv'
<1> USE ManagerAssumption
<1>0. /\ Types /\ pc[t] = "storing" /\ lock = t /\ lock' = NoOne
      /\ pc' = [pc EXCEPT ![t] = "idle"]
      /\ UNCHANGED <<proxy, made, req, got, asks>>
  BY DEF MInv, Store, LockHeld, Goto
<1>1. Keys' = Keys /\ Servers' = Servers /\ Key(t) \in Keys /\ \A u \in Threads :
        /\ Key(u)' = Key(u)
        /\ Lower(Target(req[u]).scheme)' = Lower(Target(req[u]).scheme)
  <2>1. Key(t) \in Keys
    BY <1>0 DEF Types, Key, Keys
  <2> QED
    BY <1>0, <2>1, SameKey
<1>2. \A u \in Threads \ {t} : pc[u] \notin {"locked", "creating", "storing"}
  BY <1>0 DEF MInv, LockHeld
<1>3. ~Has(cache, Key(t)) /\ got[t] \in 1..Len(made) /\ KeyOf(made[got[t]]) = Key(t)
  BY <1>0 DEF MInv, StillMissing, GotRight, Types
<1> DEFINE after == AfterSet(cache, Key(t), got[t], NumPools)
           taken == TakenBySet(cache, Key(t), got[t], NumPools)
           e == [key |-> Key(t), val |-> got[t]]
<1>4. cache' = after /\ gone' = gone \cup taken
  BY <1>3 DEF Store
<1>5. /\ after \in Dict(Keys, 1..Len(made)) /\ Len(after) <= NumPools
      /\ Items(after) \subseteq Items(cache) \cup {e}
      /\ taken \subseteq 1..Len(made)
      /\ \A x \in Items(cache) \cup {e} : x \in Items(after) \/ x.val \in taken
  <2>1. cache \in Dict(Keys, 1..Len(made)) /\ NumPools \in Nat /\ Len(cache) <= NumPools
    BY <1>0 DEF MInv, Types, Bounded
  <2>2. e \notin Items(cache)
    BY <1>3, KeyOfItem
  <2>3. \A x \in Items(cache) \cup {e} : x.val \in 1..Len(made)
    <3>1. \A x \in Items(cache) : x \in Entry(Keys, 1..Len(made))
      BY <2>1 DEF Dict, Items
    <3> QED
      BY <1>3, <3>1 DEF Entry
  <2>4. /\ after \in Dict(Keys, 1..Len(made)) /\ Len(after) <= NumPools
        /\ \/ Items(after) = Items(cache) \cup {e} /\ taken = {}
           \/ \E out \in Items(cache) \cup {e} :
                Items(after) = (Items(cache) \cup {e}) \ {out} /\ taken = {out.val}
    BY <1>1, <1>3, <2>1, <2>2, SetEntries
  <2> HIDE DEF after, taken, e
  <2> QED
    BY <2>3, <2>4
<1>6. e.key = Key(t) /\ e.val = got[t]
  OBVIOUS
<1> HIDE DEF after, taken, e
<1>7. pc'[t] = "idle" /\ \A u \in Threads \ {t} : pc'[u] = pc[u]
  BY <1>0 DEF Types
<1>8. Types'
  BY <1>0, <1>1, <1>4, <1>5 DEF Types, Steps
<1>9. Bounded' /\ LockHeld'
  BY <1>0, <1>2, <1>4, <1>5, <1>7 DEF MInv, Bounded, LockHeld
<1>10. StillMissing' /\ GotRight'
  BY <1>0, <1>1, <1>2, <1>7 DEF MInv, StillMissing, GotRight
<1>11. Labelled'
  BY <1>0, <1>3, <1>4, <1>5, <1>6 DEF MInv, Labelled
<1>12. Kept'
  <2> SUFFICES ASSUME NEW p \in (1..Len(made)) \ gone'
               PROVE  \E x \in Items(after) : x.val = p
    BY <1>0, <1>4 DEF Kept
  <2>1. p \in (1..Len(made)) \ gone /\ p \notin taken
    BY <1>4
  <2>2. \E x \in Items(cache) \cup {e} : x.val = p
    BY <1>2, <1>6, <2>1 DEF MInv, Kept
  <2> QED
    BY <1>5, <2>1, <2>2
<1>13. SchemeKnown'
  BY <1>0, <1>1, <1>7 DEF MInv, SchemeKnown, Schemes
<1> QED
  BY <1>8, <1>9, <1>10, <1>11, <1>12, <1>13 DEF MInv

LEMMA Clear_MInv ==
  ASSUME MInv, NEW t \in Threads, Clear(t) PROVE MInv'
<1> USE ManagerAssumption
<1>0. /\ Types /\ lock = NoOne /\ cache' = <<>> /\ gone' = gone \cup ValuesOf(cache)
      /\ UNCHANGED <<proxy, lock, made, pc, req, got, asks>>
  BY DEF MInv, Clear
<1>1. Keys' = Keys /\ Servers' = Servers /\ \A u \in Threads :
        /\ Key(u)' = Key(u)
        /\ Lower(Target(req[u]).scheme)' = Lower(Target(req[u]).scheme)
  BY <1>0, SameKey
<1>2. \A u \in Threads : pc[u] \notin {"locked", "creating", "storing"}
  BY <1>0 DEF MInv, LockHeld
<1>3. /\ cache' \in Dict(Keys, 1..Len(made)) /\ Items(cache') = {} /\ Len(cache') = 0
  BY <1>0 DEF Dict, Items
<1>4. ValuesOf(cache) \subseteq 1..Len(made) /\ \A e \in Items(cache) : e.val \in ValuesOf(cache)
  <2>1. \A i \in 1..Len(cache) : cache[i] \in Entry(Keys, 1..Len(made))
    BY <1>0 DEF Types, Dict
  <2> QED
    BY <2>1 DEF ValuesOf, Items, Entry
<1>5. Types'
  BY <1>0, <1>1, <1>3, <1>4 DEF Types
<1>6. Bounded' /\ LockHeld'
  BY <1>0, <1>3 DEF MInv, Bounded, LockHeld
<1>7. StillMissing' /\ GotRight'
  BY <1>0, <1>1, <1>2 DEF MInv, StillMissing, GotRight
<1>8. Labelled' /\ Kept'
  BY <1>0, <1>2, <1>3, <1>4 DEF MInv, Labelled, Kept
<1>9. SchemeKnown'
  BY <1>0, <1>1 DEF MInv, SchemeKnown, Schemes
<1> QED
  BY <1>5, <1>6, <1>7, <1>8, <1>9 DEF MInv

LEMMA Next_MInv == MInv /\ [Next]_vars => MInv'
<1> SUFFICES ASSUME MInv, [Next]_vars PROVE MInv'
  OBVIOUS
<1>1. CASE UNCHANGED vars
  <2>1. Keys' = Keys /\ Servers' = Servers /\ \A u \in Threads :
          /\ Key(u)' = Key(u)
          /\ Lower(Target(req[u]).scheme)' = Lower(Target(req[u]).scheme)
    BY <1>1, SameKey DEF vars
  <2>2. Types' /\ Bounded' /\ LockHeld' /\ Labelled' /\ Kept'
    BY <1>1, <2>1 DEF MInv, vars, Types, Bounded, LockHeld, Labelled, Kept
  <2>3. StillMissing' /\ GotRight' /\ SchemeKnown'
    BY <1>1, <2>1 DEF MInv, vars, StillMissing, GotRight, SchemeKnown, Schemes
  <2> QED
    BY <2>2, <2>3 DEF MInv
<1>2. CASE \E t \in Threads :
             Ask(t) \/ Acquire(t) \/ Lookup(t) \/ Create(t) \/ Store(t) \/ Clear(t)
  BY <1>2, Ask_MInv, Acquire_MInv, Lookup_MInv, Create_MInv, Store_MInv, Clear_MInv
<1> QED
  BY <1>1, <1>2 DEF Next

LEMMA Spec_MInv == Spec => []MInv
<1>1. Init => MInv
  BY Init_MInv
<1>2. MInv /\ [Next]_vars => MInv'
  BY Next_MInv
<1> QED
  BY <1>1, <1>2, PTL DEF Spec

\* Whatever the threads ask and clear: the variables keep their types, and the
\* cache never holds more than num_pools pools, no key twice.
THEOREM ManagerTypeCorrect == Spec => []TypeOK
<1>1. MInv => TypeOK
  <2> SUFFICES ASSUME MInv PROVE TypeOK
    OBVIOUS
  <2>1. Types /\ Bounded /\ DOMAIN made = 1..Len(made)
    BY DEF MInv, Types
  <2>2. cache \in Seq([key : Keys, val : DOMAIN made])
    BY <2>1 DEF Types, Dict, Entry
  <2> QED
    BY <2>1, <2>2 DEF Types, Bounded, TypeOK, Keys, Servers, Steps, Dict
<1> QED
  BY <1>1, Spec_MInv, PTL

\* connection_from_host shares: of all the pools ever made for a key, one at
\* most has not been evicted or cleared.
THEOREM OneLivePoolPerKeyHolds == Spec => []OneLivePoolPerKey
<1>1. MInv => OneLivePoolPerKey
  <2> SUFFICES ASSUME MInv, NEW p \in DOMAIN made \ gone, NEW q \in DOMAIN made \ gone,
                      made[p] = made[q]
               PROVE  p = q
    BY DEF OneLivePoolPerKey
  <2>1. p \in (1..Len(made)) \ gone /\ q \in (1..Len(made)) \ gone
    BY DEF MInv, Types
  <2>2. ASSUME NEW x \in (1..Len(made)) \ gone, NEW e \in Items(cache), e.val = x,
               NEW y \in (1..Len(made)) \ gone, NEW t \in Threads,
               pc[t] = "storing", got[t] = y, made[x] = made[y]
        PROVE  FALSE
    <3>1. e.key = Key(t)
      BY <2>2 DEF MInv, Labelled, GotRight
    <3> QED
      BY <2>2, <3>1, KeyOfItem DEF MInv, StillMissing
  <2>3. CASE (\E e \in Items(cache) : e.val = p) /\ (\E f \in Items(cache) : f.val = q)
    <3>1. PICK e \in Items(cache), f \in Items(cache) : e.val = p /\ f.val = q
      BY <2>3
    <3>2. e.key = f.key
      BY <3>1 DEF MInv, Labelled
    <3> QED
      BY <3>1, <3>2, OneItemPerKey DEF MInv, Types
  <2>4. CASE \E t \in Threads, u \in Threads :
               pc[t] = "storing" /\ got[t] = p /\ pc[u] = "storing" /\ got[u] = q
    BY <2>4 DEF MInv, LockHeld
  <2> QED
    BY <2>1, <2>2, <2>3, <2>4 DEF MInv, Kept
<1> QED
  BY <1>1, Spec_MInv, PTL

\* connection_from_host, _pool_key and ProxyManager's override: the pool a
\* thread leaves with was made for the server, or the proxy, of its request.
THEOREM HandedPoolServesHolds == Spec => []HandedPoolServes
<1>1. MInv => HandedPoolServes
  <2> SUFFICES ASSUME MInv, NEW t \in Threads, got[t] # 0
               PROVE  Serves(made[got[t]], req[t])
    BY DEF HandedPoolServes
  <2>1. KeyOf(made[got[t]]) = PoolKey(Target(req[t]))
    BY DEF MInv, GotRight, Key
  <2>2. Lower(Target(req[t]).scheme) \in Schemes
    BY DEF MInv, SchemeKnown
  <2> QED
    BY <2>1, <2>2 DEF Serves, KeyOf, PoolKey, Port, Target, SchemePort, Schemes
<1> QED
  BY <1>1, Spec_MInv, PTL
=============================================================================
