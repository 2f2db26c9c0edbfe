-------------------------- MODULE OrderedDictProofs --------------------------
(* What the operations of OrderedDict do to the entries of a dictionary.     *)
EXTENDS OrderedDict, SequenceTheorems, TLAPS

Entry(K, V) == [key : K, val : V]

\* A dictionary with keys in K and values in V has no key twice.
Dict(K, V) == {d \in Seq(Entry(K, V)) :
                 \A i, j \in 1..Len(d) : d[i].key = d[j].key => i = j}

\* Its entries, in no order.
Items(d) == {d[i] : i \in 1..Len(d)}

\* A key that is there has a place and a value.
LEMMA KeyHasPlace ==
  ASSUME NEW d, NEW k, Has(d, k)
  PROVE  /\ Position(d, k) \in 1..Len(d)
         /\ d[Position(d, k)].key = k
         /\ At(d, k) = d[Position(d, k)].val
<1>1. \E i \in 1..Len(d) : d[i].key = k
  BY DEF Has, KeysOf
<1> QED
  BY <1>1 DEF Position, At

LEMMA KeyOfItem ==
  ASSUME NEW d, NEW k
  PROVE  Has(d, k) <=> \E e \in Items(d) : e.key = k
BY DEF Has, KeysOf, Items

\* No two entries of a dictionary have the same key.
LEMMA OneItemPerKey ==
  ASSUME NEW K, NEW V, NEW d \in Dict(K, V), NEW e \in Items(d), NEW f \in Items(d),
         e.key = f.key
  PROVE  e = f
BY DEF Dict, Items

\* A dictionary stays one when its values may be more.
LEMMA WiderValues ==
  ASSUME NEW K, NEW V, NEW W, V \subseteq W, NEW d \in Dict(K, V)
  PROVE  d \in Dict(K, W)
<1>1. Entry(K, V) \subseteq Entry(K, W)
  BY DEF Entry
<1>2. d \in Seq(Entry(K, W))
  BY <1>1, SeqMonotonic DEF Dict
<1> QED
  BY <1>2 DEF Dict

\* The shape of a sequence without its entry at p.
LEMMA RemovedAt ==
  ASSUME NEW S, NEW d \in Seq(S), NEW p \in 1..Len(d)
  PROVE  /\ RemoveAt(d, p) \in Seq(S)
         /\ Len(RemoveAt(d, p)) = Len(d) - 1
         /\ \A i \in 1..(Len(d) - 1) : RemoveAt(d, p)[i] = IF i < p THEN d[i] ELSE d[i + 1]
<1> DEFINE below == SubSeq(d, 1, p - 1)
           above == SubSeq(d, p + 1, Len(d))
<1>0. Len(d) \in Nat /\ p \in Nat /\ 1 <= p /\ p <= Len(d)
  OBVIOUS
<1>1. /\ below \in Seq(S) /\ Len(below) = p - 1
      /\ \A i \in 1..(p - 1) : below[i] = d[i]
  <2>1. \A i \in 1..(p - 1) : d[i] \in S
    BY <1>0
  <2> QED
    BY <1>0, <2>1, SubSeqProperties
<1>2. /\ above \in Seq(S) /\ Len(above) = Len(d) - p
      /\ \A i \in 1..(Len(d) - p) : above[i] = d[p + i]
  <2>1. \A i \in (p + 1)..Len(d) : d[i] \in S
    BY <1>0
  <2> QED
    BY <1>0, <2>1, SubSeqProperties
<1> HIDE DEF below, above
<1>3. /\ below \o above \in Seq(S)
      /\ Len(below \o above) = Len(d) - 1
      /\ \A i \in 1..(Len(d) - 1) :
           (below \o above)[i] = IF i <= p - 1 THEN below[i] ELSE above[i - (p - 1)]
  <2>1. below \o above \in Seq(S)
    BY <1>1, <1>2, ConcatProperties
  <2>2. Len(below \o above) = Len(below) + Len(above)
    BY <1>1, <1>2, ConcatProperties
  <2>3. \A i \in 1..(Len(below) + Len(above)) :
          (below \o above)[i] = IF i <= Len(below) THEN below[i] ELSE above[i - Len(below)]
    BY <1>1, <1>2, ConcatProperties
  <2>4. Len(below) + Len(above) = Len(d) - 1 /\ Len(below) = p - 1
    BY <1>0, <1>1, <1>2
  <2> QED
    BY <2>1, <2>2, <2>3, <2>4
<1>4. ASSUME NEW i \in 1..(Len(d) - 1)
      PROVE  (below \o above)[i] = IF i < p THEN d[i] ELSE d[i + 1]
  <2>1. CASE i < p
    BY <1>0, <1>1, <1>3, <2>1
  <2>2. CASE ~(i < p)
    <3>1. i - (p - 1) \in 1..(Len(d) - p) /\ p + (i - (p - 1)) = i + 1
      BY <1>0, <2>2
    <3> QED
      BY <1>0, <1>2, <1>3, <2>2, <3>1
  <2> QED
    BY <2>1, <2>2
<1>5. RemoveAt(d, p) = below \o above
  BY DEF RemoveAt, below, above
<1> QED
  BY <1>3, <1>4, <1>5

\* pop takes one entry out and leaves the others.
LEMMA WithoutKey ==
  ASSUME NEW K, NEW V, NEW d \in Dict(K, V), NEW k
  PROVE  /\ Without(d, k) \in Dict(K, V)
         /\ Items(Without(d, k)) = {e \in Items(d) : e.key # k}
         /\ Len(Without(d, k)) = IF Has(d, k) THEN Len(d) - 1 ELSE Len(d)
         /\ Has(d, k) => Len(d) > 0
<1>1. d \in Seq(Entry(K, V)) /\ Len(d) \in Nat
  BY DEF Dict
<1>2. CASE ~Has(d, k)
  BY <1>1, <1>2, KeyOfItem DEF Without
<1>3. CASE Has(d, k)
  <2> DEFINE p == Position(d, k)
             w == RemoveAt(d, p)
  <2>1. p \in 1..Len(d) /\ d[p].key = k
    BY <1>3, KeyHasPlace
  <2>2. \A i \in 1..Len(d) : d[i].key = k <=> i = p
    BY <2>1 DEF Dict
  <2>3. /\ w \in Seq(Entry(K, V)) /\ Len(w) = Len(d) - 1
        /\ \A i \in 1..(Len(d) - 1) : w[i] = IF i < p THEN d[i] ELSE d[i + 1]
    BY <1>1, <2>1, RemovedAt
  <2> HIDE DEF p, w
  <2>4. w \in Dict(K, V)
    <3> SUFFICES ASSUME NEW i \in 1..Len(w), NEW j \in 1..Len(w), w[i].key = w[j].key
                 PROVE  i = j
      BY <2>3 DEF Dict
    <3> DEFINE a == IF i < p THEN i ELSE i + 1
               b == IF j < p THEN j ELSE j + 1
    <3>1. a \in 1..Len(d) /\ b \in 1..Len(d) /\ w[i] = d[a] /\ w[j] = d[b]
      BY <1>1, <2>1, <2>3
    <3>2. a = b
      BY <3>1 DEF Dict
    <3> QED
      BY <1>1, <2>1, <2>3, <3>2
  <2>5. ASSUME NEW e \in Items(w) PROVE e \in Items(d) /\ e.key # k
    <3>1. PICK i \in 1..Len(w) : e = w[i]
      BY DEF Items
    <3> DEFINE a == IF i < p THEN i ELSE i + 1
    <3>2. a \in 1..Len(d) /\ w[i] = d[a] /\ a # p
      BY <1>1, <2>1, <2>3
    <3> QED
      BY <2>2, <3>1, <3>2 DEF Items
  <2>6. ASSUME NEW e \in Items(d), e.key # k PROVE e \in Items(w)
    <3>1. PICK i \in 1..Len(d) : e = d[i]
      BY DEF Items
    <3>2. i # p
      BY <2>1, <2>6, <3>1
    <3> DEFINE a == IF i < p THEN i ELSE i - 1
    <3>3. a \in 1..Len(w) /\ w[a] = d[i]
      BY <1>1, <2>1, <2>3, <3>2
    <3> QED
      BY <3>1, <3>3 DEF Items
  <2>7. Without(d, k) = w
    BY <1>3 DEF Without, w, p
  <2> QED
    BY <1>1, <1>3, <2>1, <2>3, <2>4, <2>5, <2>6, <2>7
<1> QED
  BY <1>2, <1>3

\* A key that is not there goes on top.
LEMMA NewKey ==
  ASSUME NEW K, NEW V, NEW d \in Dict(K, V), NEW k \in K, NEW v \in V, ~Has(d, k)
  PROVE  /\ WithLast(d, k, v) \in Dict(K, V)
         /\ Items(WithLast(d, k, v)) = Items(d) \cup {[key |-> k, val |-> v]}
         /\ Len(WithLast(d, k, v)) = Len(d) + 1
<1> DEFINE e == [key |-> k, val |-> v]
           w == Append(d, e)
<1>1. d \in Seq(Entry(K, V)) /\ Len(d) \in Nat /\ e \in Entry(K, V) /\ e.key = k
  BY DEF Dict, Entry
<1> HIDE DEF e
<1>2. /\ w \in Seq(Entry(K, V)) /\ Len(w) = Len(d) + 1
      /\ \A i \in 1..Len(d) : w[i] = d[i]
      /\ w[Len(d) + 1] = e
  BY <1>1
<1> HIDE DEF w
<1>3. \A i \in 1..Len(d) : d[i].key # k
  BY DEF Has, KeysOf
<1>4. w \in Dict(K, V)
  BY <1>1, <1>2, <1>3 DEF Dict
<1>5. Items(w) = Items(d) \cup {e}
  <2>1. ASSUME NEW x \in Items(w) PROVE x \in Items(d) \cup {e}
    BY <1>1, <1>2 DEF Items
  <2>2. ASSUME NEW x \in Items(d) \cup {e} PROVE x \in Items(w)
    <3>1. CASE x = e
      <4>1. Len(d) + 1 \in 1..Len(w)
        BY <1>1, <1>2
      <4> QED
        BY <1>2, <3>1, <4>1 DEF Items
    <3>2. CASE x \in Items(d)
      BY <1>1, <1>2, <3>2 DEF Items
    <3> QED
      BY <3>1, <3>2
  <2> QED
    BY <2>1, <2>2
<1> QED
  <2>1. WithLast(d, k, v) = w
    BY DEF WithLast, w, e
  <2> QED
    BY <1>2, <1>4, <1>5, <2>1 DEF e

\* A lookup changes the order alone.
LEMMA TouchedItems ==
  ASSUME NEW K, NEW V, NEW d \in Dict(K, V), NEW k \in K, Has(d, k)
  PROVE  /\ Touched(d, k) \in Dict(K, V)
         /\ Items(Touched(d, k)) = Items(d)
         /\ Len(Touched(d, k)) = Len(d)
         /\ [key |-> k, val |-> At(d, k)] \in Items(d)
<1> DEFINE p == Position(d, k)
           w == Without(d, k)
           e == [key |-> k, val |-> At(d, k)]
<1>1. p \in 1..Len(d) /\ d[p].key = k /\ At(d, k) = d[p].val
  BY KeyHasPlace
<1>2. d[p] = e /\ At(d, k) \in V
  <2>1. d[p] \in Entry(K, V)
    BY <1>1 DEF Dict
  <2> QED
    BY <1>1, <2>1 DEF Entry
<1>3. e \in Items(d)
  BY <1>1, <1>2 DEF Items
<1>4. /\ w \in Dict(K, V) /\ Items(w) = {x \in Items(d) : x.key # k}
      /\ Len(w) = Len(d) - 1
  BY WithoutKey
<1>5. ~Has(w, k)
  BY <1>4, KeyOfItem
<1>6. /\ Touched(d, k) \in Dict(K, V)
      /\ Items(Touched(d, k)) = Items(w) \cup {e}
      /\ Len(Touched(d, k)) = Len(w) + 1
  BY <1>2, <1>4, <1>5, NewKey DEF Touched
<1>7. \A x \in Items(d) : x.key = k => x = e
  BY <1>3, OneItemPerKey
<1>8. Len(d) \in Nat
  BY DEF Dict
<1> QED
  BY <1>3, <1>4, <1>6, <1>7, <1>8

\* The oldest entry goes, the others stay.
LEMMA TailItems ==
  ASSUME NEW K, NEW V, NEW d \in Dict(K, V), d # <<>>
  PROVE  /\ Tail(d) \in Dict(K, V)
         /\ Head(d) \in Items(d)
         /\ Items(Tail(d)) = Items(d) \ {Head(d)}
         /\ Len(Tail(d)) = Len(d) - 1
<1>1. d \in Seq(Entry(K, V)) /\ Len(d) \in Nat \ {0}
  BY DEF Dict
<1>2. /\ Tail(d) \in Seq(Entry(K, V)) /\ Len(Tail(d)) = Len(d) - 1
      /\ \A i \in 1..(Len(d) - 1) : Tail(d)[i] = d[i + 1]
      /\ Head(d) = d[1]
  BY <1>1
<1> DEFINE w == Tail(d)
<1> HIDE DEF w
<1>3. /\ w \in Seq(Entry(K, V)) /\ Len(w) = Len(d) - 1
      /\ \A i \in 1..(Len(d) - 1) : w[i] = d[i + 1]
  BY <1>2 DEF w
<1>4. w \in Dict(K, V)
  BY <1>1, <1>3 DEF Dict
<1>5. ASSUME NEW x \in Items(w) PROVE x \in Items(d) /\ x # d[1]
  <2>1. PICK i \in 1..Len(w) : x = w[i]
    BY DEF Items
  <2>2. i + 1 \in 1..Len(d) /\ x = d[i + 1] /\ 1 \in 1..Len(d) /\ i + 1 # 1
    BY <1>1, <1>3, <2>1
  <2> QED
    BY <2>2 DEF Items, Dict
<1>6. ASSUME NEW x \in Items(d), x # d[1] PROVE x \in Items(w)
  <2>1. PICK i \in 1..Len(d) : x = d[i]
    BY DEF Items
  <2>2. i - 1 \in 1..Len(w) /\ w[i - 1] = d[i]
    BY <1>1, <1>3, <1>6, <2>1
  <2> QED
    BY <2>1, <2>2 DEF Items
<1>7. d[1] \in Items(d)
  BY <1>1 DEF Items
<1>8. Items(w) = Items(d) \ {d[1]}
  BY <1>5, <1>6
<1>9. w = Tail(d) /\ Head(d) = d[1]
  BY <1>2 DEF w
<1> QED
  BY <1>3, <1>4, <1>7, <1>8, <1>9

\* What __setitem__ leaves and takes out: the new entry is there, and at most
\* one entry is not, whose value is what it takes.
LEMMA SetEntries ==
  ASSUME NEW K, NEW V, NEW d \in Dict(K, V), NEW k \in K, NEW v \in V,
         [key |-> k, val |-> v] \notin Items(d),
         NEW max \in Nat, Len(d) <= max
  PROVE  LET all   == Items(d) \cup {[key |-> k, val |-> v]}
             after == AfterSet(d, k, v, max)
             taken == TakenBySet(d, k, v, max)
         IN  /\ after \in Dict(K, V) /\ Len(after) <= max
             /\ \/ Items(after) = all /\ taken = {}
                \/ \E out \in all : Items(after) = all \ {out} /\ taken = {out.val}
<1> DEFINE e == [key |-> k, val |-> v]
           w == Without(d, k)
           s == WithLast(w, k, v)
<1>1. /\ w \in Dict(K, V) /\ Items(w) = {x \in Items(d) : x.key # k}
      /\ Len(w) = IF Has(d, k) THEN Len(d) - 1 ELSE Len(d)
      /\ Len(d) \in Nat
  BY WithoutKey DEF Dict
<1>2. ~Has(w, k)
  BY <1>1, KeyOfItem
<1>3. s \in Dict(K, V) /\ Items(s) = Items(w) \cup {e} /\ Len(s) = Len(w) + 1
  BY <1>1, <1>2, NewKey
<1>4. Stored(d, k, v) = s
  BY DEF Stored
<1> HIDE DEF e, w, s
<1>5. CASE Has(d, k)
  <2> DEFINE old == d[Position(d, k)]
  <2>1. old \in Items(d) /\ old.key = k /\ At(d, k) = old.val
    BY <1>5, KeyHasPlace DEF Items
  <2>2. \A x \in Items(d) : x.key = k <=> x = old
    BY <2>1, OneItemPerKey
  <2> HIDE DEF old
  <2>3. AfterSet(d, k, v, max) = s /\ TakenBySet(d, k, v, max) = {old.val}
    BY <1>4, <1>5, <2>1 DEF AfterSet, TakenBySet, Overflows
  <2>4. Items(s) = (Items(d) \cup {e}) \ {old}
    BY <1>1, <1>3, <2>1, <2>2 DEF e
  <2>5. Len(s) <= max
    BY <1>1, <1>3, <1>5
  <2> QED
    BY <1>3, <2>1, <2>3, <2>4, <2>5 DEF e
<1>6. CASE ~Has(d, k)
  <2>1. w = d /\ s # <<>>
    BY <1>1, <1>3, <1>6 DEF w, Without
  <2>2. CASE Len(d) + 1 > max
    <3>1. AfterSet(d, k, v, max) = Tail(s) /\ TakenBySet(d, k, v, max) = {Head(s).val}
      BY <1>4, <1>6, <2>2 DEF AfterSet, TakenBySet, Overflows
    <3>2. /\ Tail(s) \in Dict(K, V) /\ Head(s) \in Items(s)
          /\ Items(Tail(s)) = Items(s) \ {Head(s)} /\ Len(Tail(s)) = Len(s) - 1
      BY <1>3, <2>1, TailItems
    <3>3. Len(Tail(s)) <= max
      BY <1>1, <1>3, <1>6, <3>2
    <3> QED
      BY <1>3, <2>1, <3>1, <3>2, <3>3 DEF e
  <2>3. CASE ~(Len(d) + 1 > max)
    <3>1. AfterSet(d, k, v, max) = s /\ TakenBySet(d, k, v, max) = {}
      BY <1>4, <1>6, <2>3 DEF AfterSet, TakenBySet, Overflows
    <3>2. Len(s) <= max
      BY <1>1, <1>3, <2>1, <2>3
    <3> QED
      BY <1>3, <2>1, <3>1, <3>2 DEF e
  <2> QED
    BY <2>2, <2>3
<1> QED
  BY <1>5, <1>6

\* The keys of d come in the order of the numbers f gives them.
Ordered(d, f) == \A i, j \in 1..Len(d) : i < j => f[d[i].key] <= f[d[j].key]

LEMMA OrderedWithout ==
  ASSUME NEW K, NEW V, NEW d \in Dict(K, V), NEW f, Ordered(d, f), NEW k
  PROVE  Ordered(Without(d, k), f)
<1> DEFINE p == Position(d, k)
           w == RemoveAt(d, p)
<1>1. CASE ~Has(d, k)
  BY <1>1 DEF Without
<1>2. CASE Has(d, k)
  <2>1. p \in 1..Len(d) /\ d \in Seq(Entry(K, V)) /\ Len(d) \in Nat
    BY <1>2, KeyHasPlace DEF Dict
  <2>2. /\ Len(w) = Len(d) - 1
        /\ \A i \in 1..(Len(d) - 1) : w[i] = IF i < p THEN d[i] ELSE d[i + 1]
    BY <2>1, RemovedAt
  <2> HIDE DEF p, w
  <2>3. ASSUME NEW i \in 1..Len(w), NEW j \in 1..Len(w), i < j
        PROVE  f[w[i].key] <= f[w[j].key]
    <3> DEFINE a == IF i < p THEN i ELSE i + 1
               b == IF j < p THEN j ELSE j + 1
    <3>1. a \in 1..Len(d) /\ b \in 1..Len(d) /\ a < b
      BY <2>1, <2>2, <2>3
    <3>2. w[i] = d[a] /\ w[j] = d[b]
      BY <2>1, <2>2, <2>3
    <3> HIDE DEF a, b
    <3> QED
      BY <3>1, <3>2 DEF Ordered
  <2>4. Without(d, k) = w
    BY <1>2 DEF Without, w, p
  <2> QED
    BY <2>3, <2>4 DEF Ordered
<1> QED
  BY <1>1, <1>2

LEMMA OrderedTail ==
  ASSUME NEW K, NEW V, NEW d \in Dict(K, V), NEW f, Ordered(d, f), d # <<>>
  PROVE  Ordered(Tail(d), f)
<1>1. d \in Seq(Entry(K, V)) /\ Len(d) \in Nat \ {0}
  BY DEF Dict
<1>2. /\ Len(Tail(d)) = Len(d) - 1
      /\ \A i \in 1..(Len(d) - 1) : Tail(d)[i] = d[i + 1]
  BY <1>1
<1>3. ASSUME NEW i \in 1..(Len(d) - 1), NEW j \in 1..(Len(d) - 1), i < j
      PROVE  f[d[i + 1].key] <= f[d[j + 1].key]
  <2>1. i + 1 \in 1..Len(d) /\ j + 1 \in 1..Len(d) /\ i + 1 < j + 1
    BY <1>1, <1>3
  <2> QED
    BY <2>1 DEF Ordered
<1> QED
  BY <1>2, <1>3 DEF Ordered

LEMMA OrderedWithLast ==
  ASSUME NEW K, NEW V, NEW d \in Dict(K, V), NEW f, Ordered(d, f), NEW k, NEW v,
         \A e \in Items(d) : f[e.key] <= f[k]
  PROVE  Ordered(WithLast(d, k, v), f)
<1> DEFINE x == [key |-> k, val |-> v]
<1>1. d \in Seq(Entry(K, V)) /\ Len(d) \in Nat
  BY DEF Dict
<1>2. /\ Len(Append(d, x)) = Len(d) + 1
      /\ \A i \in 1..Len(d) : Append(d, x)[i] = d[i]
      /\ Append(d, x)[Len(d) + 1] = x
  BY <1>1
<1>3. x.key = k
  OBVIOUS
<1> DEFINE w == Append(d, x)
<1> HIDE DEF x, w
<1>4. ASSUME NEW i \in 1..Len(w), NEW j \in 1..Len(w), i < j
      PROVE  f[w[i].key] <= f[w[j].key]
  <2>1. i \in 1..Len(d) /\ w[i] = d[i]
    BY <1>1, <1>2, <1>4 DEF w
  <2>2. CASE j = Len(d) + 1
    <3>1. w[j].key = k
      BY <1>2, <1>3, <2>2 DEF w
    <3>2. d[i] \in Items(d)
      BY <2>1 DEF Items
    <3> QED
      BY <2>1, <3>1, <3>2
  <2>3. CASE j # Len(d) + 1
    <3>1. j \in 1..Len(d) /\ w[j] = d[j]
      BY <1>1, <1>2, <2>3 DEF w
    <3> QED
      BY <1>4, <2>1, <3>1 DEF Ordered
  <2> QED
    BY <2>2, <2>3
<1>5. WithLast(d, k, v) = w
  BY DEF WithLast, w, x
<1> QED
  BY <1>4, <1>5 DEF Ordered
=============================================================================
