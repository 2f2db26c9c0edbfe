--------------------- MODULE RecentlyUsedContainerProofs ---------------------
(***************************************************************************)
(* For any number of threads, keys and values and any size: what is stored *)
(* is disposed of once, after it has left, and the container throws out    *)
(* the least recently used key.                                            *)
(***************************************************************************)
EXTENDS RecentlyUsedContainer, OrderedDictProofs, FiniteSetTheorems

Types ==
  /\ container \in Dict(Keys, Values) /\ Len(container) <= MaxSize
  /\ pending \in [Threads -> Seq(Values)]
  /\ \A t \in Threads : Len(pending[t]) <= MaxSize + 1
  /\ disposed \in [Values -> Nat]
  /\ stored \subseteq Values

Clocks ==
  /\ clock \in 0..MaxOps
  /\ lastUse \in [Keys -> 0..clock]

Cached(v) == \E e \in Items(container) : e.val = v

\* Thread t still has to dispose of v, as the i-th.
Due(t, i, v) == i \in 1..Len(pending[t]) /\ pending[t][i] = v

IsDue(v) == \E t \in Threads, i \in Nat : Due(t, i, v)

\* No value is in two places of the container, or due twice.
CachedOnce == \A e, f \in Items(container) : e.val = f.val => e = f
DueOnce ==
  \A t, u \in Threads, i, j \in Nat, v \in Values :
    Due(t, i, v) /\ Due(u, j, v) => t = u /\ i = j

\* A value goes from unknown to cached to due to disposed of.
Unknown(v)  == v \notin stored /\ ~Cached(v) /\ ~IsDue(v) /\ disposed[v] = 0
Inside(v)   == v \in stored /\ Cached(v) /\ ~IsDue(v) /\ disposed[v] = 0
Waiting(v)  == v \in stored /\ ~Cached(v) /\ IsDue(v) /\ disposed[v] = 0
Disposed(v) == v \in stored /\ ~Cached(v) /\ ~IsDue(v) /\ disposed[v] = 1

OnePlace == \A v \in Values : Unknown(v) \/ Inside(v) \/ Waiting(v) \/ Disposed(v)

DInv == Types /\ CachedOnce /\ DueOnce /\ OnePlace

LEMMA Init_DInv == Init => DInv
<1> SUFFICES ASSUME Init PROVE DInv
  OBVIOUS
<1>1. /\ container \in Dict(Keys, Values) /\ Items(container) = {} /\ Len(container) = 0
      /\ \A t \in Threads : pending[t] \in Seq(Values) /\ Len(pending[t]) = 0
      /\ \A t \in Threads : 1..Len(pending[t]) = {}
  BY DEF Init, Dict, Items
<1>2. Types
  BY <1>1, ContainerAssumption DEF Init, Types
<1>3. CachedOnce /\ DueOnce
  BY <1>1 DEF CachedOnce, DueOnce, Due
<1>4. OnePlace
  BY <1>1 DEF Init, OnePlace, Unknown, Cached, IsDue, Due
<1> QED
  BY <1>2, <1>3, <1>4 DEF DInv

\* The values thread t has taken out and now has to dispose of.
Took(t, v) == \E i \in 1..Len(pending[t]) : pending[t][i] = v

\* What every operation does to the values: thread t, which had none to
\* dispose of, stores those of stored' \ stored and takes out others, each
\* once; every value of the container or stored is in one of the two places.
Moves(t) ==
  /\ pending[t] = <<>>
  /\ pending' \in [Threads -> Seq(Values)]
  /\ \A u \in Threads \ {t} : pending'[u] = pending[u]
  /\ Len(pending'[t]) <= MaxSize + 1
  /\ \A i, j \in 1..Len(pending'[t]) : pending'[t][i] = pending'[t][j] => i = j
  /\ container' \in Dict(Keys, Values) /\ Len(container') <= MaxSize
  /\ CachedOnce'
  /\ stored \subseteq stored' /\ stored' \subseteq Values /\ disposed' = disposed
  /\ \A v \in Values :
       /\ Cached(v) \/ v \in stored' \ stored <=> Cached(v)' \/ Took(t, v)'
       /\ ~(Cached(v)' /\ Took(t, v)')

LEMMA MoveKeepsDInv ==
  ASSUME DInv, NEW t \in Threads, Moves(t) PROVE DInv'
<1> DEFINE q == pending'[t]
<1>1. Types /\ DueOnce /\ OnePlace
  BY DEF DInv
<1>2. \A u \in Threads \ {t} : pending'[u] = pending[u]
  BY DEF Moves
<1>3. Types'
  <2>1. \A u \in Threads : Len(pending'[u]) <= MaxSize + 1
    BY <1>1 DEF Moves, Types
  <2> QED
    BY <1>1, <2>1 DEF Moves, Types
<1>4. \A u \in Threads, i \in Nat, v \in Values :
        Due(u, i, v)' <=> IF u = t THEN i \in 1..Len(q) /\ q[i] = v ELSE Due(u, i, v)
  BY <1>2 DEF Due
<1>5. \A i \in Nat, v \in Values : ~Due(t, i, v)
  BY DEF Due, Moves
<1>6. \A v \in Values : IsDue(v)' <=> IsDue(v) \/ Took(t, v)'
  <2> SUFFICES ASSUME NEW v \in Values
               PROVE  IsDue(v)' <=> IsDue(v) \/ Took(t, v)'
    OBVIOUS
  <2>1. IsDue(v)' <=> \E u \in Threads, i \in Nat : Due(u, i, v)'
    BY DEF IsDue
  <2>2. \A i \in 1..Len(q) : i \in Nat
    OBVIOUS
  <2>3. Took(t, v)' <=> \E i \in 1..Len(q) : q[i] = v
    BY DEF Took
  <2> QED
    BY <1>4, <1>5, <2>1, <2>2, <2>3 DEF IsDue
<1>7. DueOnce'
  <2> SUFFICES ASSUME NEW u \in Threads, NEW w \in Threads, NEW i \in Nat, NEW j \in Nat,
                      NEW v \in Values, Due(u, i, v)', Due(w, j, v)'
               PROVE  u = w /\ i = j
    BY DEF DueOnce
  <2>1. CASE u = t /\ w = t
    BY <1>4, <2>1 DEF Moves
  <2>2. CASE u # t /\ w # t
    BY <1>1, <1>4, <2>2 DEF DueOnce
  <2>3. ASSUME NEW x \in Threads \ {t}, NEW n \in Nat, NEW m \in 1..Len(q),
               Due(x, n, v), q[m] = v
        PROVE  FALSE
    <3>1. Waiting(v)
      BY <1>1, <2>3 DEF OnePlace, Unknown, Inside, Waiting, Disposed, IsDue
    <3>2. Took(t, v)'
      BY <2>3 DEF Took
    <3> QED
      BY <3>1, <3>2 DEF Waiting, Moves
  <2> QED
    BY <1>4, <2>1, <2>2, <2>3
<1>8. OnePlace'
  <2> SUFFICES ASSUME NEW v \in Values
               PROVE  (Unknown(v) \/ Inside(v) \/ Waiting(v) \/ Disposed(v))'
    BY DEF OnePlace
  <2>1. /\ (Cached(v) \/ v \in stored' \ stored) <=> (Cached(v)' \/ Took(t, v)')
        /\ ~(Cached(v)' /\ Took(t, v)')
        /\ stored \subseteq stored' /\ disposed' = disposed
    BY DEF Moves
  <2>2. IsDue(v)' <=> (IsDue(v) \/ Took(t, v)')
    BY <1>6
  <2>3. Unknown(v) \/ Inside(v) \/ Waiting(v) \/ Disposed(v)
    BY <1>1 DEF OnePlace
  <2> QED
    BY <2>1, <2>2, <2>3 DEF Unknown, Inside, Waiting, Disposed
<1> QED
  BY <1>3, <1>7, <1>8 DEF DInv, Moves

LEMMA GetItem_DInv ==
  ASSUME DInv, NEW t \in Threads, NEW k \in Keys, GetItem(t, k) PROVE DInv'
<1>1. /\ Types /\ pending[t] = <<>> /\ Has(container, k)
      /\ container' = Touched(container, k)
      /\ UNCHANGED <<pending, disposed, stored>>
  BY DEF DInv, GetItem, Operate
<1>2. /\ container' \in Dict(Keys, Values) /\ Len(container') = Len(container)
      /\ Items(container') = Items(container)
  <2>1. container \in Dict(Keys, Values)
    BY <1>1 DEF Types
  <2> QED
    BY <1>1, <2>1, TouchedItems, ZenonT(60)
<1>3. CachedOnce' /\ \A v \in Values : Cached(v)' <=> Cached(v)
  BY <1>2 DEF DInv, CachedOnce, Cached
<1>4. Len(pending'[t]) = 0 /\ \A v \in Values : ~Took(t, v)'
  BY <1>1 DEF Took
<1>5. Len(container') <= MaxSize
  BY <1>1, <1>2 DEF Types
<1>6. Moves(t)
  BY <1>1, <1>2, <1>3, <1>4, <1>5, ContainerAssumption DEF Moves, Types
<1> QED
  BY <1>6, MoveKeepsDInv

\* The sequence of a set of at most one value.
LEMMA SequenceOfOne ==
  /\ SetToSeq({}) = <<>>
  /\ \A x : SetToSeq({x}) = <<x>>
<1>1. SetToSeq({}) = <<>>
  <2>1. Cardinality({}) = 0
    BY FS_EmptySet
  <2>2. \A f \in [1..0 -> {}] : f = <<>>
    <3>1. 1..0 = {}
      OBVIOUS
    <3> QED
      BY <3>1
  <2>3. <<>> \in [1..0 -> {}] /\ IsInjective(<<>>)
    BY DEF IsInjective
  <2> QED
    BY <2>1, <2>2, <2>3 DEF SetToSeq
<1>2. ASSUME NEW x PROVE SetToSeq({x}) = <<x>>
  <2>1. Cardinality({x}) = 1
    BY FS_Singleton
  <2>2. \A f : f \in [1..1 -> {x}] <=> f = <<x>>
    OBVIOUS
  <2>3. IsInjective(<<x>>)
    BY DEF IsInjective
  <2> QED
    BY <2>1, <2>2, <2>3 DEF SetToSeq
<1> QED
  BY <1>1, <1>2

LEMMA SetItem_DInv ==
  ASSUME DInv, NEW t \in Threads, NEW k \in Keys, SetItem(t, k) PROVE DInv'
<1> USE ContainerAssumption
<1>1. Types /\ pending[t] = <<>> /\ disposed' = disposed
  BY DEF DInv, SetItem, Operate
<1>2. PICK v \in Values \ stored :
        /\ container' = AfterSet(container, k, v, MaxSize)
        /\ pending' = [pending EXCEPT ![t] = SetToSeq(TakenBySet(container, k, v, MaxSize))]
        /\ stored' = stored \cup {v}
  BY DEF SetItem
<1> DEFINE e   == [key |-> k, val |-> v]
           all == Items(container) \cup {e}
           q   == SetToSeq(TakenBySet(container, k, v, MaxSize))
<1>3. e.key = k /\ e.val = v
  OBVIOUS
<1>4. ~Cached(v)
  BY DEF DInv, OnePlace, Unknown, Inside, Waiting, Disposed
<1>5. e \notin Items(container)
  BY <1>3, <1>4 DEF Cached
<1>6. \A x, y \in all : x.val = y.val => x = y
  <2> HIDE DEF e
  <2> QED
    BY <1>3, <1>4 DEF DInv, CachedOnce, Cached
<1>7. \A x \in all : x.val \in Values
  <2>1. \A x \in Items(container) : x \in Entry(Keys, Values)
    BY <1>1 DEF Types, Dict, Items
  <2> HIDE DEF e
  <2> QED
    BY <1>3, <2>1 DEF Entry
<1>8. /\ container' \in Dict(Keys, Values) /\ Len(container') <= MaxSize
      /\ \/ Items(container') = all /\ q = <<>>
         \/ \E out \in all : Items(container') = all \ {out} /\ q = <<out.val>>
  <2> DEFINE taken == TakenBySet(container, k, v, MaxSize)
  <2>1. container \in Dict(Keys, Values) /\ Len(container) <= MaxSize /\ MaxSize \in Nat
    BY <1>1 DEF Types
  <2>2. /\ container' \in Dict(Keys, Values) /\ Len(container') <= MaxSize
        /\ \/ Items(container') = all /\ taken = {}
           \/ \E out \in all : Items(container') = all \ {out} /\ taken = {out.val}
    BY <1>2, <1>5, <2>1, SetEntries
  <2>3. q = SetToSeq(taken)
    OBVIOUS
  <2> HIDE DEF taken, q, e, all
  <2> QED
    BY <2>2, <2>3, SequenceOfOne
<1> HIDE DEF e, all, q
<1>9. CachedOnce'
  BY <1>6, <1>8 DEF CachedOnce
<1>10. \A w \in Values : (Cached(w) \/ w \in {v}) <=> \E x \in all : x.val = w
  BY <1>3 DEF Cached, all
<1>11. \A w \in Values : Cached(w)' <=> \E x \in Items(container') : x.val = w
  BY DEF Cached
<1>12. /\ q \in Seq(Values) /\ Len(q) <= MaxSize + 1
       /\ \A i, j \in 1..Len(q) : q[i] = q[j] => i = j
       /\ \A w \in Values :
            (Cached(w) \/ w \in {v}) <=> Cached(w)' \/ \E i \in 1..Len(q) : q[i] = w
       /\ \A w \in Values : ~(Cached(w)' /\ \E i \in 1..Len(q) : q[i] = w)
  <2>1. CASE Items(container') = all /\ q = <<>>
    BY <1>10, <1>11, <2>1
  <2>2. ASSUME NEW out \in all, Items(container') = all \ {out}, q = <<out.val>>
        PROVE  <1>12!:
    <3>1. q \in Seq(Values) /\ Len(q) = 1 /\ q[1] = out.val
      BY <1>7, <2>2
    <3>2. \A w : (\E i \in 1..Len(q) : q[i] = w) <=> w = out.val
      BY <3>1
    <3>3. \A w \in Values : Cached(w)' <=> (\E x \in all : x.val = w) /\ w # out.val
      BY <1>6, <1>11, <2>2
    <3> QED
      BY <1>10, <3>1, <3>2, <3>3
  <2> QED
    BY <1>8, <2>1, <2>2
<1>13. /\ pending' = [pending EXCEPT ![t] = q]
       /\ stored' \ stored = {v} /\ stored \subseteq stored' /\ stored' \subseteq Values
  BY <1>1, <1>2 DEF q, Types
<1>14. Moves(t)
  BY <1>1, <1>8, <1>9, <1>12, <1>13 DEF Moves, Types, Took
<1> QED
  BY <1>14, MoveKeepsDInv

LEMMA DelItem_DInv ==
  ASSUME DInv, NEW t \in Threads, NEW k \in Keys, DelItem(t, k) PROVE DInv'
<1> USE ContainerAssumption
<1>1. /\ Types /\ pending[t] = <<>> /\ Has(container, k)
      /\ container' = Without(container, k)
      /\ pending' = [pending EXCEPT ![t] = <<At(container, k)>>]
      /\ UNCHANGED <<disposed, stored>>
  BY DEF DInv, DelItem, Operate
<1> DEFINE old == container[Position(container, k)]
           q   == <<At(container, k)>>
<1>2. old \in Items(container) /\ old.key = k /\ At(container, k) = old.val
  BY <1>1, KeyHasPlace DEF Items
<1> HIDE DEF old
<1>3. \A x \in Items(container) : x.key = k <=> x = old
  BY <1>1, <1>2, OneItemPerKey DEF Types
<1>4. /\ container' \in Dict(Keys, Values) /\ Len(container') = Len(container) - 1
      /\ Items(container') = Items(container) \ {old} /\ Len(container) \in Nat
  <2>1. /\ container' \in Dict(Keys, Values) /\ Len(container') = Len(container) - 1
        /\ Items(container') = {x \in Items(container) : x.key # k}
    BY <1>1, WithoutKey DEF Types
  <2> QED
    BY <1>1, <1>3, <2>1 DEF Types, Dict
<1>5. Len(container') <= MaxSize
  BY <1>1, <1>4 DEF Types
<1>6. old.val \in Values
  <2>1. old \in Entry(Keys, Values)
    BY <1>1, <1>2 DEF Types, Dict, Items
  <2> QED
    BY <2>1 DEF Entry
<1>7. /\ q \in Seq(Values) /\ Len(q) = 1 /\ Len(q) <= MaxSize + 1
      /\ \A i, j \in 1..Len(q) : q[i] = q[j] => i = j
      /\ \A v : (\E i \in 1..Len(q) : q[i] = v) <=> v = old.val
  BY <1>2, <1>6
<1>8. CachedOnce /\ CachedOnce'
  BY <1>4 DEF DInv, CachedOnce
<1>9. \A v \in Values : /\ Cached(v) <=> Cached(v)' \/ v = old.val
                        /\ ~(Cached(v)' /\ v = old.val)
  BY <1>2, <1>4, <1>8 DEF CachedOnce, Cached
<1>10. pending' = [pending EXCEPT ![t] = q]
  BY <1>1
<1> HIDE DEF q
<1>11. Moves(t)
  BY <1>1, <1>4, <1>5, <1>7, <1>8, <1>9, <1>10, ZenonT(60) DEF Moves, Types, Took
<1> QED
  BY <1>11, MoveKeepsDInv

LEMMA Clear_DInv ==
  ASSUME DInv, NEW t \in Threads, Clear(t) PROVE DInv'
<1> USE ContainerAssumption
<1> DEFINE q == [i \in DOMAIN container |-> container[i].val]
<1>1. /\ Types /\ pending[t] = <<>> /\ container' = <<>>
      /\ pending' = [pending EXCEPT ![t] = q]
      /\ UNCHANGED <<disposed, stored>>
  BY DEF DInv, Clear, Operate
<1>2. /\ container \in Seq(Entry(Keys, Values)) /\ Len(container) \in Nat
      /\ Len(container) <= MaxSize
      /\ \A i, j \in 1..Len(container) : container[i].key = container[j].key => i = j
  BY <1>1 DEF Types, Dict
<1>3. \A i \in 1..Len(container) : container[i].val \in Values
  <2>1. \A i \in 1..Len(container) : container[i] \in Entry(Keys, Values)
    BY <1>2
  <2> QED
    BY <2>1 DEF Entry
<1>4. q \in Seq(Values) /\ Len(q) = Len(container)
      /\ \A i \in 1..Len(container) : q[i] = container[i].val
  <2>1. q = [i \in 1..Len(container) |-> container[i].val]
    BY <1>2
  <2> QED
    BY <1>2, <1>3, <2>1
<1> HIDE DEF q
<1>5. \A i, j \in 1..Len(q) : q[i] = q[j] => i = j
  <2> SUFFICES ASSUME NEW i \in 1..Len(q), NEW j \in 1..Len(q), q[i] = q[j]
               PROVE  i = j
    OBVIOUS
  <2>1. container[i] \in Items(container) /\ container[j] \in Items(container)
    BY <1>4 DEF Items
  <2>2. container[i] = container[j]
    BY <1>4, <2>1 DEF DInv, CachedOnce
  <2> QED
    BY <1>2, <1>4, <2>2
<1>6. \A v \in Values : Cached(v) <=> \E i \in 1..Len(q) : q[i] = v
  BY <1>4 DEF Cached, Items
<1>7. /\ container' \in Dict(Keys, Values) /\ Items(container') = {}
      /\ Len(container') <= MaxSize
  BY <1>1 DEF Dict, Items
<1>8. CachedOnce' /\ \A v \in Values : ~Cached(v)'
  BY <1>7 DEF CachedOnce, Cached
<1>9. Len(q) <= MaxSize + 1
  BY <1>2, <1>4
<1>10. Moves(t)
  BY <1>1, <1>4, <1>5, <1>6, <1>7, <1>8, <1>9 DEF Moves, Types, Took
<1> QED
  BY <1>10, MoveKeepsDInv

LEMMA Dispose_DInv ==
  ASSUME DInv, NEW t \in Threads, Dispose(t) PROVE DInv'
<1>0. PICK x : x = Head(pending[t])
  OBVIOUS
<1>1. /\ Types /\ pending[t] \in Seq(Values) /\ pending[t] # <<>>
      /\ disposed' = [disposed EXCEPT ![x] = @ + 1]
      /\ pending' = [pending EXCEPT ![t] = Tail(@)]
      /\ UNCHANGED <<container, stored>>
  BY <1>0 DEF DInv, Dispose, Types
<1>2. /\ Len(pending[t]) \in Nat \ {0} /\ pending[t][1] = x /\ x \in Values
      /\ Tail(pending[t]) \in Seq(Values)
      /\ Len(Tail(pending[t])) = Len(pending[t]) - 1
      /\ \A i \in 1..(Len(pending[t]) - 1) : Tail(pending[t])[i] = pending[t][i + 1]
  BY <1>0, <1>1
<1>3. /\ pending'[t] = Tail(pending[t])
      /\ \A u \in Threads \ {t} : pending'[u] = pending[u]
  BY <1>1 DEF Types
<1>4. Due(t, 1, x) /\ Waiting(x)
  <2>1. Due(t, 1, x)
    BY <1>2 DEF Due
  <2>2. IsDue(x)
    BY <2>1 DEF IsDue
  <2> QED
    BY <1>2, <2>1, <2>2 DEF DInv, OnePlace, Unknown, Inside, Waiting, Disposed
<1>5. disposed'[x] = disposed[x] + 1 /\ \A v \in Values \ {x} : disposed'[v] = disposed[v]
  BY <1>1, <1>2 DEF Types
<1>6. \A i \in Nat, v \in Values : Due(t, i, v)' <=> Due(t, i + 1, v) /\ i # 0
  <2> SUFFICES ASSUME NEW i \in Nat, NEW v \in Values
               PROVE  Due(t, i, v)' <=> Due(t, i + 1, v) /\ i # 0
    OBVIOUS
  <2>1. i \in 1..(Len(pending[t]) - 1) <=> i + 1 \in 1..Len(pending[t]) /\ i # 0
    BY <1>2
  <2> QED
    BY <1>2, <1>3, <2>1 DEF Due
<1>7. \A u \in Threads \ {t}, i \in Nat, v \in Values : Due(u, i, v)' <=> Due(u, i, v)
  BY <1>3 DEF Due
<1>8. DueOnce'
  <2> SUFFICES ASSUME NEW u \in Threads, NEW w \in Threads, NEW i \in Nat, NEW j \in Nat,
                      NEW v \in Values, Due(u, i, v)', Due(w, j, v)'
               PROVE  u = w /\ i = j
    BY DEF DueOnce
  <2> DEFINE a == IF u = t THEN i + 1 ELSE i
             b == IF w = t THEN j + 1 ELSE j
  <2>1. a \in Nat /\ b \in Nat /\ Due(u, a, v) /\ Due(w, b, v)
    BY <1>6, <1>7
  <2>2. u = w /\ a = b
    BY <2>1 DEF DInv, DueOnce
  <2> QED
    BY <2>2
<1>9. \A v \in Values \ {x} : IsDue(v)' <=> IsDue(v)
  <2> SUFFICES ASSUME NEW v \in Values \ {x} PROVE IsDue(v)' <=> IsDue(v)
    OBVIOUS
  <2>0. IsDue(v)' <=> \E u \in Threads, i \in Nat : Due(u, i, v)'
    BY DEF IsDue
  <2>1. ASSUME NEW u \in Threads, NEW i \in Nat, Due(u, i, v)' PROVE IsDue(v)
    BY <1>6, <1>7, <2>1 DEF IsDue
  <2>2. ASSUME NEW u \in Threads, NEW i \in Nat, Due(u, i, v)
        PROVE  \E j \in Nat : Due(u, j, v)'
    <3>1. CASE u # t
      BY <1>7, <2>2, <3>1
    <3>2. CASE u = t
      <4>1. i # 1 /\ i # 0
        BY <1>2, <2>2, <3>2 DEF Due
      <4>2. i - 1 \in Nat /\ (i - 1) + 1 = i /\ i - 1 # 0
        BY <4>1
      <4> QED
        BY <1>6, <2>2, <3>2, <4>2
    <3> QED
      BY <3>1, <3>2
  <2> QED
    BY <2>0, <2>1, <2>2 DEF IsDue
<1>10. ~IsDue(x)'
  <2> SUFFICES ASSUME NEW u \in Threads, NEW i \in Nat, Due(u, i, x)' PROVE FALSE
    BY DEF IsDue
  <2>1. \A w \in Threads, n \in Nat : Due(w, n, x) => w = t /\ n = 1
    BY <1>2, <1>4 DEF DInv, DueOnce
  <2>2. CASE u = t
    <3>1. Due(t, i + 1, x) /\ i # 0 /\ i + 1 \in Nat
      BY <1>2, <1>6, <2>2
    <3> QED
      BY <2>1, <3>1
  <2>3. CASE u # t
    BY <1>2, <1>7, <2>1, <2>3
  <2> QED
    BY <2>2, <2>3
<1>11. Types'
  <2>1. disposed' \in [Values -> Nat]
    BY <1>1, <1>2 DEF Types
  <2>2. pending' \in [Threads -> Seq(Values)]
    BY <1>1, <1>2 DEF Types
  <2>3. \A u \in Threads : Len(pending'[u]) <= MaxSize + 1
    BY <1>1, <1>2, <1>3, ContainerAssumption DEF Types
  <2> QED
    BY <1>1, <2>1, <2>2, <2>3 DEF Types
<1>12. CachedOnce' /\ \A v \in Values : Cached(v)' <=> Cached(v)
  BY <1>1 DEF DInv, CachedOnce, Cached
<1>13. OnePlace'
  <2> SUFFICES ASSUME NEW v \in Values
               PROVE  (Unknown(v) \/ Inside(v) \/ Waiting(v) \/ Disposed(v))'
    BY DEF OnePlace
  <2>1. CASE v = x
    <3>1. ~Cached(x)' /\ x \in stored' /\ disposed'[x] = 1
      BY <1>1, <1>2, <1>4, <1>5, <1>12 DEF Waiting
    <3> QED
      BY <1>10, <2>1, <3>1 DEF Disposed
  <2>2. CASE v # x
    <3>1. Unknown(v) \/ Inside(v) \/ Waiting(v) \/ Disposed(v)
      BY DEF DInv, OnePlace
    <3> QED
      BY <1>1, <1>5, <1>9, <1>12, <2>2, <3>1 DEF Unknown, Inside, Waiting, Disposed
  <2> QED
    BY <2>1, <2>2
<1> QED
  BY <1>8, <1>11, <1>12, <1>13 DEF DInv

LEMMA Next_DInv == DInv /\ [Next]_vars => DInv'
<1> SUFFICES ASSUME DInv, [Next]_vars PROVE DInv'
  OBVIOUS
<1>1. CASE UNCHANGED vars
  <2>1. UNCHANGED <<container, pending, disposed, stored>>
    BY <1>1 DEF vars
  <2> QED
    BY <2>1 DEF DInv, Types, CachedOnce, DueOnce, OnePlace, Unknown, Inside, Waiting,
                Disposed, Cached, IsDue, Due
<1>2. CASE Next
  BY <1>2, GetItem_DInv, SetItem_DInv, DelItem_DInv, Clear_DInv, Dispose_DInv DEF Next
<1> QED
  BY <1>1, <1>2

LEMMA Spec_DInv == Spec => []DInv
<1>1. Init => DInv
  BY Init_DInv
<1>2. DInv /\ [Next]_vars => DInv'
  BY Next_DInv
<1> QED
  BY <1>1, <1>2, PTL DEF Spec

LEMMA Clocks_Inductive == (Init => Clocks) /\ (Clocks /\ [Next]_vars => Clocks')
<1> USE ContainerAssumption
<1>1. Init => Clocks
  BY DEF Init, Clocks
<1>2. ASSUME Clocks, [Next]_vars PROVE Clocks'
  <2>1. CASE UNCHANGED <<clock, lastUse>>
    BY <1>2, <2>1 DEF Clocks
  <2>2. ASSUME NEW t \in Threads, Operate(t), UNCHANGED lastUse PROVE Clocks'
    BY <1>2, <2>2 DEF Clocks, Operate
  <2>3. ASSUME NEW t \in Threads, NEW k \in Keys, Operate(t), Uses(k) PROVE Clocks'
    BY <1>2, <2>3 DEF Clocks, Operate, Uses
  <2> QED
    BY <1>2, <2>1, <2>2, <2>3 DEF Next, vars, GetItem, SetItem, DelItem, Clear, Dispose
<1> QED
  BY <1>1, <1>2

\* Whatever the threads do: the variables keep their types, and the container
\* never holds more than maxsize entries.
THEOREM ContainerTypeCorrect == Spec => []TypeOK
<1>1. DInv /\ Clocks => TypeOK
  <2> SUFFICES ASSUME DInv, Clocks PROVE TypeOK
    OBVIOUS
  <2>1. container \in Seq([key : Keys, val : Values]) /\ Len(container) <= MaxSize
    BY DEF DInv, Types, Dict, Entry
  <2>2. lastUse \in [Keys -> 0..MaxOps]
    BY ContainerAssumption DEF Clocks
  <2> QED
    BY <2>1, <2>2 DEF DInv, Types, Clocks, TypeOK
<1>2. Init => DInv /\ Clocks
  BY Init_DInv, Clocks_Inductive
<1>3. DInv /\ Clocks /\ [Next]_vars => DInv' /\ Clocks'
  BY Next_DInv, Clocks_Inductive
<1> QED
  BY <1>1, <1>2, <1>3, PTL DEF Spec

\* The places of a value, as DisposedExactlyOnce counts them.
PlacesInside(v)  == {i \in DOMAIN container : container[i].val = v}
PlacesWaiting(v) == {at \in Threads \X (1..MaxSize + 1) :
                       /\ at[2] <= Len(pending[at[1]])
                       /\ pending[at[1]][at[2]] = v}

LEMMA CountPlaces ==
  ASSUME DInv, NEW v \in Values
  PROVE  /\ Cardinality(PlacesInside(v)) = IF Cached(v) THEN 1 ELSE 0
         /\ Cardinality(PlacesWaiting(v)) = IF IsDue(v) THEN 1 ELSE 0
<1>1. Types /\ CachedOnce /\ DueOnce
  BY DEF DInv
<1>2. DOMAIN container = 1..Len(container)
  BY <1>1 DEF Types, Dict
<1>3. IF Cached(v) THEN \E i : PlacesInside(v) = {i} ELSE PlacesInside(v) = {}
  <2>1. CASE Cached(v)
    <3>1. PICK i \in 1..Len(container) : container[i].val = v
      BY <2>1 DEF Cached, Items
    <3>2. ASSUME NEW j \in 1..Len(container), container[j].val = v PROVE j = i
      <4>1. container[j] = container[i]
        BY <1>1, <3>1, <3>2 DEF CachedOnce, Items
      <4> QED
        BY <1>1, <4>1 DEF Types, Dict
    <3>3. PlacesInside(v) = {i}
      BY <1>2, <3>1, <3>2 DEF PlacesInside
    <3> QED
      BY <2>1, <3>3
  <2>2. CASE ~Cached(v)
    BY <1>2, <2>2 DEF PlacesInside, Cached, Items
  <2> QED
    BY <2>1, <2>2
<1>4. \A t, i : <<t, i>> \in PlacesWaiting(v) <=> t \in Threads /\ i \in Nat /\ Due(t, i, v)
  <2> SUFFICES ASSUME NEW t \in Threads, NEW i
               PROVE  <<t, i>> \in PlacesWaiting(v) <=> i \in Nat /\ Due(t, i, v)
    BY DEF PlacesWaiting
  <2>1. Len(pending[t]) \in Nat /\ Len(pending[t]) <= MaxSize + 1
    BY <1>1 DEF Types
  <2>2. /\ i \in 1..MaxSize + 1 /\ i <= Len(pending[t]) <=> i \in 1..Len(pending[t])
        /\ i \in 1..Len(pending[t]) => i \in Nat
    BY <2>1, ContainerAssumption
  <2> QED
    BY <2>2 DEF PlacesWaiting, Due
<1>5. IF IsDue(v) THEN \E at : PlacesWaiting(v) = {at} ELSE PlacesWaiting(v) = {}
  <2>1. \A at \in PlacesWaiting(v) : at = <<at[1], at[2]>>
    BY DEF PlacesWaiting
  <2>2. CASE IsDue(v)
    <3>1. PICK t \in Threads, i \in Nat : Due(t, i, v)
      BY <2>2 DEF IsDue
    <3>2. \A at \in PlacesWaiting(v) : at = <<t, i>>
      BY <1>1, <1>4, <2>1, <3>1 DEF DueOnce
    <3>3. PlacesWaiting(v) = {<<t, i>>}
      BY <1>4, <3>1, <3>2
    <3> QED
      BY <2>2, <3>3
  <2>3. CASE ~IsDue(v)
    <3>1. \A at : at \notin PlacesWaiting(v)
      BY <1>4, <2>1, <2>3 DEF IsDue
    <3> QED
      BY <2>3, <3>1
  <2> QED
    BY <2>2, <2>3
<1>6. Cardinality({}) = 0 /\ \A x : Cardinality({x}) = 1
  BY FS_EmptySet, FS_Singleton
<1> QED
  BY <1>3, <1>5, <1>6

\* __setitem__, __delitem__, clear and dispose_func: a value that was stored is
\* in the container, due, or disposed of once, and never in two of these.
THEOREM DisposedExactlyOnceHolds == Spec => []DisposedExactlyOnce
<1>1. DInv => DisposedExactlyOnce
  <2> SUFFICES ASSUME DInv, NEW v \in stored
               PROVE  Cardinality(PlacesInside(v)) + Cardinality(PlacesWaiting(v))
                        + disposed[v] = 1
    BY DEF DisposedExactlyOnce, PlacesInside, PlacesWaiting
  <2>1. v \in Values
    BY DEF DInv, Types
  <2>2. Inside(v) \/ Waiting(v) \/ Disposed(v)
    BY <2>1 DEF DInv, OnePlace, Unknown
  <2> QED
    BY <2>1, <2>2, CountPlaces DEF Inside, Waiting, Disposed
<1> QED
  BY <1>1, Spec_DInv, PTL

\* The container is in the order of use.
UseOrder == DInv /\ Clocks /\ Ordered(container, lastUse)

\* The key just used, put last, leaves the others in order.
LEMMA UsedLast ==
  ASSUME UseOrder, NEW k \in Keys, NEW v \in Values, clock' = clock + 1, Uses(k)
  PROVE  LET s == WithLast(Without(container, k), k, v)
         IN  s \in Dict(Keys, Values) /\ s # <<>> /\ Ordered(s, lastUse')
<1> DEFINE w == Without(container, k)
           s == WithLast(w, k, v)
<1>1. container \in Dict(Keys, Values) /\ Ordered(container, lastUse)
  BY DEF UseOrder, DInv, Types
<1>2. /\ w \in Dict(Keys, Values)
      /\ \A e \in Items(w) : e \in Items(container) /\ e.key # k
  BY <1>1, WithoutKey
<1>3. Ordered(w, lastUse)
  BY <1>1, OrderedWithout
<1>4. ~Has(w, k)
  BY <1>2, KeyOfItem
<1> HIDE DEF w
<1>5. s \in Dict(Keys, Values) /\ Len(s) = Len(w) + 1 /\ Len(w) \in Nat
  BY <1>2, <1>4, NewKey DEF Dict
<1>6. /\ lastUse'[k] = clock + 1 /\ clock \in Nat
      /\ \A x \in Keys \ {k} : lastUse'[x] = lastUse[x] /\ lastUse[x] \in 0..clock
  BY DEF UseOrder, Clocks, Uses
<1>7. \A e \in Items(w) : e.key \in Keys \ {k}
  <2>1. \A e \in Items(w) : e \in Entry(Keys, Values)
    BY <1>2 DEF Dict, Items
  <2> QED
    BY <1>2, <2>1 DEF Entry
<1>8. \A e \in Items(w) : lastUse'[e.key] <= lastUse'[k]
  BY <1>6, <1>7
<1>9. Ordered(w, lastUse')
  <2>1. \A i \in 1..Len(w) : lastUse'[w[i].key] = lastUse[w[i].key]
    BY <1>6, <1>7 DEF Items
  <2> QED
    BY <1>3, <2>1 DEF Ordered
<1>10. Ordered(s, lastUse')
  <2> DEFINE g == lastUse'
  <2>1. Ordered(w, g) /\ \A e \in Items(w) : g[e.key] <= g[k]
    BY <1>8, <1>9
  <2> HIDE DEF g
  <2>2. Ordered(WithLast(w, k, v), g)
    BY <1>2, <2>1, OrderedWithLast
  <2> QED
    BY <2>2 DEF g
<1>11. s # <<>>
  <2>1. Len(<<>>) = 0
    OBVIOUS
  <2> HIDE DEF s
  <2> QED
    BY <1>5, <2>1
<1> QED
  BY <1>5, <1>10, <1>11 DEF w

LEMMA UseOrder_Inductive == (Init => UseOrder) /\ (UseOrder /\ [Next]_vars => UseOrder')
<1>1. Init => UseOrder
  <2> SUFFICES ASSUME Init PROVE Ordered(container, lastUse)
    BY Init_DInv, Clocks_Inductive DEF UseOrder
  <2>1. Len(container) = 0
    BY DEF Init
  <2> QED
    BY <2>1 DEF Ordered
<1>2. ASSUME UseOrder, [Next]_vars PROVE UseOrder'
  <2>0. DInv' /\ Clocks' /\ DInv
    BY <1>2, Next_DInv, Clocks_Inductive DEF UseOrder
  <2>1. CASE UNCHANGED <<container, lastUse>>
    BY <1>2, <2>0, <2>1 DEF UseOrder, Ordered
  <2>2. ASSUME NEW t \in Threads, NEW k \in Keys, GetItem(t, k) PROVE UseOrder'
    <3>1. At(container, k) \in Values
      <4>1. /\ Position(container, k) \in 1..Len(container)
            /\ At(container, k) = container[Position(container, k)].val
        BY <2>2, KeyHasPlace DEF GetItem
      <4>2. container[Position(container, k)] \in Entry(Keys, Values)
        BY <2>0, <4>1 DEF DInv, Types, Dict
      <4> QED
        BY <4>1, <4>2 DEF Entry
    <3>2. Ordered(container', lastUse')
      BY <1>2, <2>2, <3>1, UsedLast DEF GetItem, Operate, Touched
    <3> QED
      BY <2>0, <3>2 DEF UseOrder, Ordered
  <2>3. ASSUME NEW t \in Threads, NEW k \in Keys, SetItem(t, k) PROVE UseOrder'
    <3>1. PICK v \in Values : container' = AfterSet(container, k, v, MaxSize)
      BY <2>3 DEF SetItem
    <3> DEFINE s == Stored(container, k, v)
    <3>2. s \in Dict(Keys, Values) /\ s # <<>> /\ Ordered(s, lastUse')
      BY <1>2, <2>3, UsedLast DEF SetItem, Operate, Stored
    <3> DEFINE g == lastUse'
    <3>3. Ordered(Tail(s), g)
      <4> HIDE DEF s, g
      <4>1. Ordered(s, g)
        BY <3>2 DEF g
      <4> QED
        BY <3>2, <4>1, OrderedTail
    <3>4. Ordered(container', lastUse')
      BY <3>1, <3>2, <3>3 DEF AfterSet
    <3> QED
      BY <2>0, <3>4 DEF UseOrder, Ordered
  <2>4. ASSUME NEW t \in Threads, NEW k \in Keys, DelItem(t, k) PROVE UseOrder'
    <3>1. Ordered(Without(container, k), lastUse)
      BY <1>2, <2>0, OrderedWithout DEF UseOrder, DInv, Types
    <3>2. container' = Without(container, k) /\ lastUse' = lastUse
      BY <2>4 DEF DelItem
    <3> QED
      BY <2>0, <3>1, <3>2 DEF UseOrder, Ordered
  <2>5. ASSUME NEW t \in Threads, Clear(t) PROVE UseOrder'
    <3>1. container' = <<>> /\ 1..Len(container') = {}
      BY <2>5 DEF Clear
    <3> QED
      BY <2>0, <3>1 DEF UseOrder, Ordered
  <2> QED
    BY <1>2, <2>1, <2>2, <2>3, <2>4, <2>5 DEF Next, vars, Dispose
<1> QED
  BY <1>1, <1>2

\* __setitem__: a key that leaves to make room is the one used longest ago.
THEOREM EvictsLeastRecentlyUsedHolds == Spec => EvictsLeastRecentlyUsed
<1> DEFINE EvictsOldest ==
      \A k \in KeysOf(container) :
         /\ k \notin KeysOf(container')
         /\ stored' # stored
         => \A other \in KeysOf(container) : lastUse[k] <= lastUse[other]
<1>1. UseOrder /\ [Next]_vars => [EvictsOldest]_vars
  <2> SUFFICES ASSUME UseOrder, Next, NEW k \in KeysOf(container),
                      k \notin KeysOf(container'), stored' # stored,
                      NEW other \in KeysOf(container)
               PROVE  lastUse[k] <= lastUse[other]
    OBVIOUS
  <2>1. PICK t \in Threads, n \in Keys : SetItem(t, n)
    BY DEF Next, GetItem, DelItem, Clear, Dispose
  <2>2. PICK v \in Values : container' = AfterSet(container, n, v, MaxSize)
    BY <2>1 DEF SetItem
  <2>3. /\ container \in Seq(Entry(Keys, Values)) /\ Len(container) \in Nat
        /\ Ordered(container, lastUse)
        /\ container \in Dict(Keys, Values)
    BY DEF UseOrder, DInv, Types, Dict
  <2> DEFINE e == [key |-> n, val |-> v]
             w == Without(container, n)
             s == WithLast(w, n, v)
  <2>4. PICK i \in 1..Len(container) : container[i].key = k
    BY DEF KeysOf
  <2>5. PICK j \in 1..Len(container) : container[j].key = other
    BY DEF KeysOf
  <2>6. /\ w \in Dict(Keys, Values)
        /\ Items(w) = {x \in Items(container) : x.key # n}
    BY <2>3, WithoutKey
  <2>7. Items(s) = Items(w) \cup {e} /\ e.key = n
    <3>1. ~Has(w, n)
      BY <2>6, KeyOfItem
    <3> QED
      BY <2>6, <3>1, NewKey
  <2> HIDE DEF e, w, s
  <2>8. Has(s, k)
    <3>1. container[i] \in Items(container)
      BY DEF Items
    <3> QED
      BY <2>4, <2>6, <2>7, <3>1, KeyOfItem
  <2>9. Overflows(container, n, MaxSize) /\ container' = Tail(s)
    BY <2>2, <2>8 DEF AfterSet, Stored, Has, s, w
  <2>10. s = Append(container, [key |-> n, val |-> v])
    BY <2>9 DEF Overflows, Without, WithLast, s, w
  <2>11. CASE i = 1
    <3>1. CASE j = 1
      <4>1. k \in Keys
        <5>1. container[i] \in Entry(Keys, Values)
          BY <2>3
        <5> QED
          BY <2>4, <5>1 DEF Entry
      <4>2. lastUse[k] \in Int
        BY <4>1 DEF UseOrder, Clocks
      <4> QED
        BY <2>4, <2>5, <2>11, <3>1, <4>2
    <3>2. CASE j # 1
      BY <2>3, <2>4, <2>5, <2>11, <3>2 DEF Ordered
    <3> QED
      BY <3>1, <3>2
  <2>12. CASE i # 1
    <3>1. /\ Len(s) = Len(container) + 1 /\ s[i] = container[i]
          /\ Len(Tail(s)) = Len(s) - 1 /\ i - 1 \in 1..Len(Tail(s))
          /\ Tail(s)[i - 1] = s[i]
      BY <2>3, <2>10, <2>12
    <3> QED
      BY <2>4, <2>9, <3>1 DEF KeysOf
  <2> QED
    BY <2>11, <2>12
<1> QED
  BY <1>1, UseOrder_Inductive, PTL DEF Spec, EvictsLeastRecentlyUsed
=============================================================================
