--------------------------- MODULE ResponseProofs ---------------------------
(***************************************************************************)
(* Theorems about Response: its types, the order of the bytes, when they   *)
(* are decoded, what a short read means, and when the connection goes back *)
(* to its pool.                                                            *)
(*                                                                         *)
(* First the operators of Decoders and BytesQueueBuffer: sequences, units  *)
(* and bytes, the buffer, zlib's object, and the two decoders with the     *)
(* loop over gzip members.  Then the inductive invariants of Response, the *)
(* file, and for every action what it does to them.                        *)
(***************************************************************************)
EXTENDS Response, SequenceTheorems, WellFoundedInduction, TLAPS

------------------------------------------------------------------------------
(* Sequences of sequences *)

\* Induction over the natural numbers, for a set.
LEMMA NatSetInduction ==
  ASSUME NEW S, 0 \in S, \A n \in Nat : n \in S => n + 1 \in S
  PROVE  Nat \subseteq S
<1> SUFFICES ASSUME Nat \ S # {} PROVE FALSE
  OBVIOUS
<1> DEFINE R == OpToRel(<, Nat)
<1>1. IsWellFoundedOn(R, Nat)
  BY NatLessThanWellFounded, Zenon
<1>2. Nat \ S \subseteq Nat
  OBVIOUS
<1> HIDE DEF R
<1>3. PICK x \in Nat \ S : \A y \in Nat \ S : ~(<<y, x>> \in R)
  BY <1>1, <1>2, WFMin
<1>4. x # 0 /\ x - 1 \in Nat /\ x - 1 < x
  OBVIOUS
<1>5. x - 1 \in S
  BY <1>3, <1>4 DEF OpToRel, R
<1>6. (x - 1) + 1 \in S
  BY <1>4, <1>5
<1> QED
  BY <1>3, <1>6

\* f joins the first sequences of s, one more at a time.
Joins(f, s, n) ==
  /\ n > 0 => f[1] = s[1]
  /\ \A i \in 1..n-1 : f[i + 1] = f[i] \o s[i + 1]

LEMMA JoinsExist ==
  ASSUME NEW S, NEW s \in Seq(Seq(S))
  PROVE  \E f : f = [i \in 1..Len(s) |-> IF i = 1 THEN s[i] ELSE f[i - 1] \o s[i]]
<1> DEFINE Rec(f, n) == f = [i \in 1..n |-> IF i = 1 THEN s[i] ELSE f[i - 1] \o s[i]]
           T == {n \in Nat : \E f : Rec(f, n)}
<1>1. 0 \in T
  <2>1. Rec([i \in {} |-> 0], 0)
    OBVIOUS
  <2> QED
    BY <2>1
<1>2. ASSUME NEW n \in Nat, n \in T PROVE n + 1 \in T
  <2>1. PICK f : Rec(f, n)
    BY <1>2
  <2> DEFINE g == [i \in 1..n+1 |-> IF i \in 1..n THEN f[i]
                                  ELSE IF i = 1 THEN s[i] ELSE f[i - 1] \o s[i]]
  <2>2. \A i \in 1..n : f[i] = IF i = 1 THEN s[i] ELSE f[i - 1] \o s[i]
    BY <2>1
  <2> HIDE DEF Rec
  <2>3. \A i \in 1..n+1 : g[i] = IF i = 1 THEN s[i] ELSE g[i - 1] \o s[i]
    <3> SUFFICES ASSUME NEW i \in 1..n+1 PROVE g[i] = IF i = 1 THEN s[i] ELSE g[i - 1] \o s[i]
      OBVIOUS
    <3>1. CASE i = 1
      BY <2>2, <3>1
    <3>2. CASE i # 1
      <4>1. i - 1 \in 1..n
        BY <3>2
      <4>2. g[i - 1] = f[i - 1]
        BY <4>1
      <4>3. g[i] = f[i - 1] \o s[i]
        BY <2>2, <3>2
      <4> QED
        BY <3>2, <4>2, <4>3
    <3> QED
      BY <3>1, <3>2
  <2>4. g = [i \in 1..n+1 |-> g[i]]
    OBVIOUS
  <2> HIDE DEF g
  <2>5. Rec(g, n + 1)
    BY <2>3, <2>4 DEF Rec
  <2> QED
    BY <2>5
<1> HIDE DEF Rec
<1>3. Len(s) \in T
  <2>1. Len(s) \in Nat
    OBVIOUS
  <2> HIDE DEF T
  <2> QED
    BY <1>1, <1>2, <2>1, NatSetInduction
<1> QED
  BY <1>3 DEF Rec

LEMMA FlattenJoins ==
  ASSUME NEW S, NEW s \in Seq(Seq(S)), s # <<>>
  PROVE  \E f : Joins(f, s, Len(s)) /\ FlattenSeq(s) = f[Len(s)]
<1> DEFINE f == CHOOSE f : f = [i \in 1..Len(s) |-> IF i = 1 THEN s[i] ELSE f[i - 1] \o s[i]]
<1>1. f = [i \in 1..Len(s) |-> IF i = 1 THEN s[i] ELSE f[i - 1] \o s[i]]
  BY JoinsExist
<1>2. Len(s) # 0
  OBVIOUS
<1>3. FlattenSeq(s) = f[Len(s)]
  BY <1>2 DEF FlattenSeq
<1> HIDE DEF f
<1>4. \A i \in 1..Len(s) : f[i] = IF i = 1 THEN s[i] ELSE f[i - 1] \o s[i]
  BY <1>1
<1>5. \A i \in 1..Len(s)-1 : f[i + 1] = f[i] \o s[i + 1]
  <2> SUFFICES ASSUME NEW i \in 1..Len(s)-1 PROVE f[i + 1] = f[i] \o s[i + 1]
    OBVIOUS
  <2>1. i + 1 \in 1..Len(s) /\ i + 1 # 1 /\ (i + 1) - 1 = i
    OBVIOUS
  <2>2. f[i + 1] = f[(i + 1) - 1] \o s[i + 1]
    BY <1>4, <2>1
  <2> QED
    BY <2>1, <2>2
<1>6. f[1] = s[1]
  BY <1>2, <1>4
<1> QED
  BY <1>3, <1>5, <1>6 DEF Joins

\* The first n sequences joined are a sequence, and depend on those alone.
LEMMA JoinsTyped ==
  ASSUME NEW S, NEW s \in Seq(Seq(S)), NEW f, Joins(f, s, Len(s))
  PROVE  \A i \in 1..Len(s) : f[i] \in Seq(S)
<1> DEFINE T == {n \in Nat : n \in 1..Len(s) => f[n] \in Seq(S)}
<1>1. 0 \in T
  OBVIOUS
<1>2. ASSUME NEW n \in Nat, n \in T PROVE n + 1 \in T
  <2> SUFFICES ASSUME n + 1 \in 1..Len(s) PROVE f[n + 1] \in Seq(S)
    OBVIOUS
  <2>1. s[n + 1] \in Seq(S)
    BY ElementOfSeq
  <2>2. CASE n = 0
    BY <2>1, <2>2 DEF Joins
  <2>3. CASE n # 0
    <3>1. f[n] \in Seq(S)
      BY <1>2, <2>3
    <3>2. n \in 1..Len(s)-1
      BY <2>3
    <3>3. f[n + 1] = f[n] \o s[n + 1]
      BY <3>2 DEF Joins
    <3> QED
      BY <2>1, <3>1, <3>3, ConcatProperties
  <2> QED
    BY <2>2, <2>3
<1>3. Nat \subseteq T
  <2> HIDE DEF T
  <2> QED
    BY <1>1, <1>2, NatSetInduction
<1> QED
  BY <1>3

Agree(s, t, n) == \A i \in 1..n : s[i] = t[i]

LEMMA JoinsUnique ==
  ASSUME NEW s, NEW t, NEW m \in Nat, NEW n \in Nat, m <= n, Agree(s, t, m),
         NEW f, Joins(f, s, m), NEW g, Joins(g, t, n)
  PROVE  \A i \in 1..m : f[i] = g[i]
<1> DEFINE T == {k \in Nat : k \in 1..m => f[k] = g[k]}
<1>1. 0 \in T
  OBVIOUS
<1>2. ASSUME NEW k \in Nat, k \in T PROVE k + 1 \in T
  <2> SUFFICES ASSUME k + 1 \in 1..m PROVE f[k + 1] = g[k + 1]
    OBVIOUS
  <2>1. CASE k = 0
    BY <2>1 DEF Joins, Agree
  <2>2. CASE k # 0
    <3>1. f[k] = g[k]
      BY <1>2, <2>2
    <3>2. k \in 1..m-1 /\ k \in 1..n-1
      BY <2>2
    <3>3. f[k + 1] = f[k] \o s[k + 1] /\ g[k + 1] = g[k] \o t[k + 1]
      BY <3>2 DEF Joins
    <3> QED
      BY <3>1, <3>3 DEF Agree
  <2> QED
    BY <2>1, <2>2
<1>3. Nat \subseteq T
  <2> HIDE DEF T
  <2> QED
    BY <1>1, <1>2, NatSetInduction
<1> QED
  BY <1>3

\* FlattenSeq of nothing, of any sequence, of one more, and of one.
LEMMA FlattenEmpty == FlattenSeq(<<>>) = <<>>
BY DEF FlattenSeq

LEMMA FlattenTyped ==
  ASSUME NEW S, NEW s \in Seq(Seq(S))
  PROVE  FlattenSeq(s) \in Seq(S)
<1>1. CASE s = <<>>
  <2>1. FlattenSeq(s) = <<>>
    BY <1>1, FlattenEmpty
  <2> QED
    BY <2>1
<1>2. CASE s # <<>>
  <2>1. PICK f : Joins(f, s, Len(s)) /\ FlattenSeq(s) = f[Len(s)]
    BY <1>2, FlattenJoins
  <2>2. Len(s) \in 1..Len(s)
    BY <1>2
  <2> QED
    BY <2>1, <2>2, JoinsTyped
<1> QED
  BY <1>1, <1>2

LEMMA FlattenOne ==
  ASSUME NEW S, NEW e \in Seq(S)
  PROVE  FlattenSeq(<<e>>) = e
<1> DEFINE s == <<e>>
<1>1. s \in Seq(Seq(S)) /\ s # <<>> /\ Len(s) = 1 /\ s[1] = e
  OBVIOUS
<1> HIDE DEF s
<1>2. PICK f : Joins(f, s, Len(s)) /\ FlattenSeq(s) = f[Len(s)]
  BY <1>1, FlattenJoins
<1>3. FlattenSeq(s) = e
  BY <1>1, <1>2 DEF Joins
<1> QED
  BY <1>3 DEF s

LEMMA FlattenAppend ==
  ASSUME NEW S, NEW s \in Seq(Seq(S)), NEW e \in Seq(S)
  PROVE  FlattenSeq(Append(s, e)) = FlattenSeq(s) \o e
<1>1. CASE s = <<>>
  <2>1. Append(s, e) = <<e>>
    BY <1>1
  <2> QED
    BY <1>1, <2>1, FlattenEmpty, FlattenOne, ConcatEmptySeq
<1>2. CASE s # <<>>
  <2> DEFINE t == Append(s, e)
  <2>1. /\ t \in Seq(Seq(S)) /\ t # <<>> /\ Len(t) = Len(s) + 1
        /\ \A i \in 1..Len(s) : s[i] = t[i]
        /\ t[Len(t)] = e
    BY AppendProperties
  <2> HIDE DEF t
  <2>2. PICK f : Joins(f, s, Len(s)) /\ FlattenSeq(s) = f[Len(s)]
    BY <1>2, FlattenJoins
  <2>3. PICK g : Joins(g, t, Len(t)) /\ FlattenSeq(t) = g[Len(t)]
    BY <2>1, FlattenJoins
  <2>4. Len(s) \in 1..Len(s) /\ Len(s) <= Len(t) /\ Len(t) \in 1..Len(t) /\ Len(t) # 1
    BY <1>2, <2>1
  <2>5. \A i \in 1..Len(s) : f[i] = g[i]
    <3>1. Joins(f, s, Len(s)) /\ Joins(g, t, Len(t))
      BY <2>2, <2>3
    <3>2. Len(s) \in Nat /\ Len(t) \in Nat
      BY <2>1
    <3>3. Agree(s, t, Len(s))
      BY <2>1 DEF Agree
    <3> QED
      BY <2>4, <3>1, <3>2, <3>3, JoinsUnique
  <2>6. g[Len(t)] = g[Len(s)] \o e
    <3>1. Len(s) \in 1..Len(t)-1
      BY <1>2, <2>1
    <3>2. g[Len(s) + 1] = g[Len(s)] \o t[Len(s) + 1]
      BY <2>3, <3>1 DEF Joins
    <3> QED
      BY <2>1, <3>2
  <2>7. FlattenSeq(t) = FlattenSeq(s) \o e
    BY <2>2, <2>3, <2>4, <2>5, <2>6
  <2> QED
    BY <2>7 DEF t
<1> QED
  BY <1>1, <1>2

\* ... and of two joined.
LEMMA FlattenConcat ==
  ASSUME NEW S, NEW s \in Seq(Seq(S)), NEW t \in Seq(Seq(S))
  PROVE  FlattenSeq(s \o t) = FlattenSeq(s) \o FlattenSeq(t)
<1> DEFINE P(u) == FlattenSeq(s \o u) = FlattenSeq(s) \o FlattenSeq(u)
           T == {n \in Nat : \A u \in Seq(Seq(S)) : Len(u) = n => P(u)}
<1>1. 0 \in T
  <2>1. ASSUME NEW u \in Seq(Seq(S)), Len(u) = 0 PROVE P(u)
    <3>1. u = <<>>
      BY <2>1
    <3>2. FlattenSeq(s) \in Seq(S)
      BY FlattenTyped
    <3>3. FlattenSeq(u) = <<>>
      BY <3>1, FlattenEmpty
    <3>4. FlattenSeq(s) \o <<>> = FlattenSeq(s)
      BY <3>2, ConcatEmptySeq
    <3>5. s \o u = s
      BY <3>1, ConcatEmptySeq
    <3> QED
      BY <3>3, <3>4, <3>5
  <2> QED
    BY <2>1
<1>2. ASSUME NEW n \in Nat, n \in T PROVE n + 1 \in T
  <2>1. ASSUME NEW u \in Seq(Seq(S)), Len(u) = n + 1 PROVE P(u)
    <3>1. u # <<>>
      BY <2>1
    <3>2. PICK v \in Seq(Seq(S)), e \in Seq(S) : u = Append(v, e)
      BY <3>1, SequenceEmptyOrAppend
    <3>3. Len(v) = n
      BY <2>1, <3>2
    <3>4. FlattenSeq(s \o v) = FlattenSeq(s) \o FlattenSeq(v)
      BY <1>2, <3>3
    <3>5. s \o u = Append(s \o v, e) /\ s \o v \in Seq(Seq(S))
      BY <3>2
    <3>6. FlattenSeq(s \o u) = FlattenSeq(s \o v) \o e
      BY <3>5, FlattenAppend
    <3>7. FlattenSeq(u) = FlattenSeq(v) \o e
      BY <3>2, FlattenAppend
    <3>8. FlattenSeq(s) \in Seq(S) /\ FlattenSeq(v) \in Seq(S)
      BY FlattenTyped
    <3>9. (FlattenSeq(s) \o FlattenSeq(v)) \o e = FlattenSeq(s) \o (FlattenSeq(v) \o e)
      <4>1. \A a, b \in Seq(S) : (a \o b) \o e = a \o (b \o e)
        OBVIOUS
      <4> QED
        BY <3>8, <4>1
    <3> QED
      BY <3>4, <3>6, <3>7, <3>9
  <2> QED
    BY <2>1
<1>3. Len(t) \in T
  <2>1. Len(t) \in Nat
    OBVIOUS
  <2> HIDE DEF T
  <2> QED
    BY <1>1, <1>2, <2>1, NatSetInduction
<1> QED
  BY <1>3

------------------------------------------------------------------------------
(* Take, Drop and Payload *)

Bytes == Seq(Nat)
Units == Seq(Bytes)

LEMMA TakeDrop ==
  ASSUME NEW S, NEW s \in Seq(S), NEW k \in 0..Len(s)
  PROVE  /\ Take(s, k) \in Seq(S) /\ Drop(s, k) \in Seq(S)
         /\ Len(Take(s, k)) = k /\ Len(Drop(s, k)) = Len(s) - k
         /\ Take(s, k) \o Drop(s, k) = s
         /\ \A i \in 1..k : Take(s, k)[i] = s[i]
         /\ \A i \in 1..Len(s) - k : Drop(s, k)[i] = s[k + i]
<1>1. \A i \in 1..Len(s) : s[i] \in S
  BY ElementOfSeq
<1>2. SubSeq(s, 1, k) \o SubSeq(s, k + 1, Len(s)) = SubSeq(s, 1, Len(s))
  <2>1. 1 \in 1..Len(s)+1 /\ k \in 1-1..Len(s) /\ Len(s) \in k..Len(s)
    OBVIOUS
  <2> QED
    BY <2>1, ConcatAdjacentSubSeq
<1>3. SubSeq(s, 1, Len(s)) = s
  BY SubSeqFull
<1>4. Take(s, k) \o Drop(s, k) = s
  BY <1>2, <1>3 DEF Take, Drop
<1>5. /\ Take(s, k) \in Seq(S) /\ Len(Take(s, k)) = k
      /\ \A i \in 1..k : Take(s, k)[i] = s[i]
  BY <1>1 DEF Take
<1>6. /\ Drop(s, k) \in Seq(S) /\ Len(Drop(s, k)) = Len(s) - k
      /\ \A i \in 1..Len(s) - k : Drop(s, k)[i] = s[k + i]
  BY <1>1 DEF Drop
<1> QED
  BY <1>4, <1>5, <1>6

LEMMA DropOfConcat ==
  ASSUME NEW S, NEW s \in Seq(S), NEW t \in Seq(S)
  PROVE  Take(s \o t, Len(s)) = s /\ Drop(s \o t, Len(s)) = t
<1>1. Len(s) \in 0..Len(s \o t) /\ s \o t \in Seq(S) /\ Len(s \o t) = Len(s) + Len(t)
  OBVIOUS
<1>2. /\ Take(s \o t, Len(s)) \in Seq(S) /\ Drop(s \o t, Len(s)) \in Seq(S)
      /\ Len(Take(s \o t, Len(s))) = Len(s)
      /\ Len(Drop(s \o t, Len(s))) = Len(s \o t) - Len(s)
      /\ \A i \in 1..Len(s) : Take(s \o t, Len(s))[i] = (s \o t)[i]
      /\ \A i \in 1..Len(s \o t) - Len(s) : Drop(s \o t, Len(s))[i] = (s \o t)[Len(s) + i]
  BY <1>1, TakeDrop, ZenonT(60)
<1>3. \A i \in 1..Len(s) : (s \o t)[i] = s[i]
  OBVIOUS
<1>4. \A i \in 1..Len(t) : (s \o t)[Len(s) + i] = t[i]
  OBVIOUS
<1>5. Take(s \o t, Len(s)) = s
  BY <1>2, <1>3, SeqEqual
<1>6. Drop(s \o t, Len(s)) = t
  BY <1>1, <1>2, <1>4, SeqEqual
<1> QED
  BY <1>5, <1>6

\* The units without those that are refused.
Clean(units) == [i \in DOMAIN units |-> IF units[i] = Junk THEN <<>> ELSE units[i]]

LEMMA CleanTyped ==
  ASSUME NEW u \in Units
  PROVE  /\ Clean(u) \in Units /\ Len(Clean(u)) = Len(u)
         /\ \A i \in 1..Len(u) : Clean(u)[i] = IF u[i] = Junk THEN <<>> ELSE u[i]
<1>1. DOMAIN u = 1..Len(u) /\ Len(u) \in Nat
  BY DEF Units
<1>2. \A i \in 1..Len(u) : (IF u[i] = Junk THEN <<>> ELSE u[i]) \in Bytes
  BY ElementOfSeq DEF Units, Bytes
<1>3. Clean(u) = [i \in 1..Len(u) |-> IF u[i] = Junk THEN <<>> ELSE u[i]]
  BY <1>1 DEF Clean
<1> QED
  BY <1>1, <1>2, <1>3 DEF Units

LEMMA CleanConcat ==
  ASSUME NEW u \in Units, NEW v \in Units
  PROVE  Clean(u \o v) = Clean(u) \o Clean(v)
<1>1. u \o v \in Units /\ Len(u \o v) = Len(u) + Len(v)
  BY DEF Units
<1>2. /\ Clean(u \o v) \in Units /\ Len(Clean(u \o v)) = Len(u) + Len(v)
      /\ Clean(u) \in Units /\ Len(Clean(u)) = Len(u)
      /\ Clean(v) \in Units /\ Len(Clean(v)) = Len(v)
  BY <1>1, CleanTyped
<1>3. Clean(u) \o Clean(v) \in Units /\ Len(Clean(u) \o Clean(v)) = Len(Clean(u)) + Len(Clean(v))
  BY <1>2, ConcatProperties, Zenon DEF Units
<1>4. ASSUME NEW i \in 1..Len(u) + Len(v)
      PROVE  Clean(u \o v)[i] = (Clean(u) \o Clean(v))[i]
  <2>1. Clean(u \o v)[i] = IF (u \o v)[i] = Junk THEN <<>> ELSE (u \o v)[i]
    BY <1>1, CleanTyped
  <2>2. CASE i \in 1..Len(u)
    <3>1. (u \o v)[i] = u[i] /\ (Clean(u) \o Clean(v))[i] = Clean(u)[i]
      BY <1>2, <2>2 DEF Units
    <3> QED
      BY <2>1, <2>2, <3>1, CleanTyped
  <2>3. CASE i \notin 1..Len(u)
    <3>1. /\ i - Len(u) \in 1..Len(v)
          /\ (u \o v)[i] = v[i - Len(u)]
          /\ (Clean(u) \o Clean(v))[i] = Clean(v)[i - Len(u)]
      BY <1>2, <2>3 DEF Units
    <3> QED
      BY <2>1, <3>1, CleanTyped
  <2> QED
    BY <2>2, <2>3
<1> QED
  BY <1>2, <1>3, <1>4, SeqEqual DEF Units

LEMMA PayloadTyped ==
  ASSUME NEW u \in Units
  PROVE  Payload(u) \in Bytes
BY CleanTyped, FlattenTyped DEF Payload, Clean, Units, Bytes

LEMMA PayloadConcat ==
  ASSUME NEW u \in Units, NEW v \in Units
  PROVE  Payload(u \o v) = Payload(u) \o Payload(v)
<1>1. Clean(u) \in Seq(Seq(Nat)) /\ Clean(v) \in Seq(Seq(Nat))
  BY CleanTyped DEF Units, Bytes
<1>2. FlattenSeq(Clean(u) \o Clean(v)) = FlattenSeq(Clean(u)) \o FlattenSeq(Clean(v))
  BY <1>1, FlattenConcat
<1>3. \A w : Payload(w) = FlattenSeq(Clean(w))
  BY DEF Payload, Clean
<1> QED
  BY <1>2, <1>3, CleanConcat

LEMMA PayloadEmpty == Payload(<<>>) = <<>>
<1>1. Clean(<<>>) = <<>>
  BY DEF Clean
<1> QED
  BY <1>1, FlattenEmpty DEF Payload, Clean

LEMMA PayloadOfClean ==
  ASSUME NEW u \in Units, \A i \in 1..Len(u) : u[i] # Junk
  PROVE  Payload(u) = FlattenSeq(u)
<1>1. Clean(u) = u
  BY CleanTyped, SeqEqual DEF Units
<1> QED
  BY <1>1 DEF Payload, Clean

\* The arithmetic of sequences of bytes.
LEMMA BytesFacts ==
  /\ <<>> \in Bytes
  /\ \A a \in Bytes : Len(a) \in Nat /\ a \o <<>> = a /\ <<>> \o a = a /\ (Len(a) = 0 <=> a = <<>>)
  /\ \A a, b \in Bytes : a \o b \in Bytes /\ Len(a \o b) = Len(a) + Len(b)
BY DEF Bytes

LEMMA BytesAssoc ==
  \A a, b, c \in Bytes : (a \o b) \o c = a \o (b \o c)
BY SMTT(60) DEF Bytes

\* What was under way comes out, whichever way the parts are joined.
Regroups(a, x, p, q, out, y) ==
  x \o p = out \o y => ((a \o out) \o y) \o q = (a \o x) \o (p \o q)

LEMMA BytesRegroup ==
  ASSUME NEW a \in Bytes, NEW x \in Bytes, NEW p \in Bytes, NEW q \in Bytes,
         NEW out \in Bytes, NEW y \in Bytes
  PROVE  Regroups(a, x, p, q, out, y)
<1>1. /\ \A c \in Bytes : (a \o x) \o c = a \o (x \o c)
      /\ \A c \in Bytes : (a \o out) \o c = a \o (out \o c)
      /\ \A b, c \in Bytes : ((a \o x) \o b) \o c = (a \o x) \o (b \o c)
  <2>1. a \o x \in Bytes
    BY BytesFacts, Zenon
  <2>2. \A b, c \in Bytes : (a \o b) \o c = a \o (b \o c)
    BY BytesAssoc, Zenon
  <2>3. \A w \in Bytes : \A b, c \in Bytes : (w \o b) \o c = w \o (b \o c)
    BY BytesAssoc, Zenon
  <2> QED
    BY <2>1, <2>2, <2>3, Zenon
<1>2. (a \o x) \o p = a \o (x \o p) /\ (a \o out) \o y = a \o (out \o y)
  BY <1>1, Zenon
<1>3. ((a \o x) \o p) \o q = (a \o x) \o (p \o q)
  BY <1>1, Zenon
<1> QED
  BY <1>2, <1>3, Zenon DEF Regroups

LEMMA UnitsFacts ==
  /\ <<>> \in Units
  /\ \A a \in Units : Len(a) \in Nat /\ a \o <<>> = a /\ <<>> \o a = a /\ (Len(a) = 0 <=> a = <<>>)
  /\ \A a, b \in Units : a \o b \in Units /\ Len(a \o b) = Len(a) + Len(b)
BY DEF Units

LEMMA UnitsAssoc ==
  \A a, b, c \in Units : (a \o b) \o c = a \o (b \o c)
BY DEF Units

LEMMA BytesEmptyParts ==
  \A a, b \in Bytes : a \o b = <<>> => a = <<>> /\ b = <<>>
<1> SUFFICES ASSUME NEW a \in Bytes, NEW b \in Bytes, a \o b = <<>> PROVE a = <<>> /\ b = <<>>
  OBVIOUS
<1>1. Len(a) + Len(b) = 0
  BY BytesFacts
<1> QED
  BY <1>1, BytesFacts

LEMMA TakeDropBytes ==
  ASSUME NEW s \in Bytes, NEW k \in 0..Len(s)
  PROVE  /\ Take(s, k) \in Bytes /\ Drop(s, k) \in Bytes
         /\ Len(Take(s, k)) = k /\ Len(Drop(s, k)) = Len(s) - k
         /\ Take(s, k) \o Drop(s, k) = s
<1>1. s \in Seq(Nat)
  BY DEF Bytes
<1> QED
  BY <1>1, TakeDrop, Zenon DEF Bytes

LEMMA TakeDropUnits ==
  ASSUME NEW s \in Units, NEW k \in 0..Len(s)
  PROVE  /\ Take(s, k) \in Units /\ Drop(s, k) \in Units
         /\ Len(Take(s, k)) = k /\ Len(Drop(s, k)) = Len(s) - k
         /\ Take(s, k) \o Drop(s, k) = s
         /\ \A i \in 1..k : Take(s, k)[i] = s[i]
         /\ \A i \in 1..Len(s) - k : Drop(s, k)[i] = s[k + i]
<1>1. s \in Seq(Bytes)
  BY DEF Units
<1> QED
  BY <1>1, TakeDrop, Zenon DEF Units

LEMMA FlattenBytes ==
  ASSUME NEW u \in Units PROVE FlattenSeq(u) \in Bytes
<1>1. u \in Seq(Seq(Nat))
  BY DEF Units, Bytes
<1> QED
  BY <1>1, FlattenTyped, Zenon DEF Bytes

LEMMA FlattenConcatBytes ==
  ASSUME NEW u \in Units, NEW v \in Units
  PROVE  FlattenSeq(u \o v) = FlattenSeq(u) \o FlattenSeq(v)
<1>1. u \in Seq(Seq(Nat)) /\ v \in Seq(Seq(Nat))
  BY DEF Units, Bytes
<1> QED
  BY <1>1, FlattenConcat, Zenon

\* A least number with a property.
LEMMA LeastExists ==
  ASSUME NEW T, T \subseteq Nat, T # {}
  PROVE  \E k \in T : \A j \in T : k <= j
<1> DEFINE R == OpToRel(<, Nat)
<1>1. IsWellFoundedOn(R, Nat)
  BY NatLessThanWellFounded, Zenon
<1> HIDE DEF R
<1>2. PICK k \in T : \A j \in T : ~(<<j, k>> \in R)
  BY <1>1, WFMin
<1>3. \A j \in T : ~(j < k)
  BY <1>2 DEF OpToRel, R
<1> QED
  BY <1>3

------------------------------------------------------------------------------
(* The buffer *)

BufferOK(b) ==
  b \in [chunks : Units, size : Nat] /\ b.size = Len(Contents(b))

LEMMA EmptyBufferOK == BufferOK(EmptyBuffer) /\ Contents(EmptyBuffer) = <<>>
BY FlattenEmpty, UnitsFacts DEF BufferOK, EmptyBuffer, Contents

LEMMA ContentsTyped ==
  ASSUME NEW b, BufferOK(b)
  PROVE  Contents(b) \in Bytes /\ b.size = Len(Contents(b)) /\ b.size \in Nat
         /\ (b.size > 0 => b.chunks # <<>>)
<1>1. b.chunks \in Units
  BY DEF BufferOK
<1>2. Contents(b) \in Bytes
  BY <1>1, FlattenBytes DEF Contents
<1>3. b.chunks = <<>> => Len(Contents(b)) = 0
  BY FlattenEmpty DEF Contents
<1> QED
  BY <1>2, <1>3 DEF BufferOK

\* put appends.
LEMMA PutChunkKeeps ==
  ASSUME NEW b, BufferOK(b), NEW data \in Bytes
  PROVE  /\ BufferOK(PutChunk(b, data))
         /\ Contents(PutChunk(b, data)) = Contents(b) \o data
         /\ PutChunk(b, data).size = b.size + Len(data)
         /\ PutChunk(b, data).chunks # <<>>
<1>1. b.chunks \in Units /\ b.size \in Nat /\ b.size = Len(Contents(b))
  BY DEF BufferOK
<1>2. b.chunks \in Seq(Seq(Nat)) /\ data \in Seq(Nat)
  BY <1>1 DEF Units, Bytes
<1>3. FlattenSeq(Append(b.chunks, data)) = FlattenSeq(b.chunks) \o data
  BY <1>2, FlattenAppend, Zenon
<1>4. Append(b.chunks, data) \in Units /\ Append(b.chunks, data) # <<>>
  BY <1>2 DEF Units, Bytes
<1>5. Contents(b) \in Bytes
  BY <1>1, FlattenBytes DEF Contents
<1>6. Contents(PutChunk(b, data)) = Contents(b) \o data
  BY <1>3 DEF Contents, PutChunk
<1>7. Len(Contents(b) \o data) = Len(Contents(b)) + Len(data) /\ Len(data) \in Nat
  BY <1>5, BytesFacts
<1>8. PutChunk(b, data) = [chunks |-> Append(b.chunks, data), size |-> b.size + Len(data)]
  BY DEF PutChunk
<1> QED
  BY <1>1, <1>4, <1>6, <1>7, <1>8 DEF BufferOK

LEMMA PoppedFound ==
  ASSUME NEW b, BufferOK(b), b.chunks # <<>>, NEW n \in Nat \ {0}
  PROVE  /\ Popped(b, n) \in 1..Len(b.chunks)
         /\ \/ Popped(b, n) = Len(b.chunks)
            \/ Len(FlattenSeq(Take(b.chunks, Popped(b, n)))) >= n
<1> DEFINE L == Len(b.chunks)
           Stop(k) == k = L \/ Len(FlattenSeq(Take(b.chunks, k))) >= n
           T == {k \in 1..L : Stop(k)}
<1>1. b.chunks \in Units /\ L \in Nat /\ L > 0
  BY UnitsFacts DEF BufferOK
<1>2. \A k \in 1..L : Len(FlattenSeq(Take(b.chunks, k))) \in Nat
  BY <1>1, TakeDropUnits, FlattenBytes, BytesFacts
<1>3. L \in T
  BY <1>1
<1>4. PICK k \in T : \A j \in T : k <= j
  <2> T \subseteq Nat
    OBVIOUS
  <2> HIDE DEF T
  <2> QED
    BY <1>3, LeastExists
<1>5. \A j \in 1..k-1 : Len(FlattenSeq(Take(b.chunks, j))) < n
  BY <1>1, <1>2, <1>4
<1>6. k \in 1..L /\ Stop(k)
  BY <1>4
<1> QED
  BY <1>5, <1>6 DEF Popped

\* get(n) takes the first n bytes, or all there are, and leaves the rest.
LEMMA GetBytesKeeps ==
  ASSUME NEW b, BufferOK(b), b.chunks # <<>>, NEW n \in Nat \ {0}
  PROVE  /\ BufferOK(GetBytes(b, n).buf)
         /\ GetBytes(b, n).out \in Bytes
         /\ GetBytes(b, n).out \o Contents(GetBytes(b, n).buf) = Contents(b)
         /\ Len(GetBytes(b, n).out) = IF n <= b.size THEN n ELSE b.size
         /\ GetBytes(b, n).buf.size = b.size - Len(GetBytes(b, n).out)
<1> DEFINE k    == Popped(b, n)
           all  == FlattenSeq(Take(b.chunks, k))
           m    == IF n < Len(all) THEN n ELSE Len(all)
           out  == Take(all, m)
           rest == Drop(all, Len(out))
           left == (IF rest = <<>> THEN <<>> ELSE <<rest>>) \o Drop(b.chunks, k)
<1>1. b.chunks \in Units /\ b.size \in Nat /\ b.size = Len(Contents(b))
  BY DEF BufferOK
<1>2. k \in 1..Len(b.chunks) /\ (k = Len(b.chunks) \/ Len(all) >= n)
  BY PoppedFound
<1>3. GetBytes(b, n) = [buf |-> [chunks |-> left, size |-> b.size - Len(out)], out |-> out]
  BY DEF GetBytes
<1> HIDE DEF k
<1>4. /\ Take(b.chunks, k) \in Units /\ Drop(b.chunks, k) \in Units
      /\ Take(b.chunks, k) \o Drop(b.chunks, k) = b.chunks
      /\ Len(Drop(b.chunks, k)) = Len(b.chunks) - k
  <2>1. k \in 0..Len(b.chunks)
    BY <1>2
  <2> QED
    BY <1>1, <2>1, TakeDropUnits
<1>5. all \in Bytes /\ FlattenSeq(Drop(b.chunks, k)) \in Bytes
  BY <1>4, FlattenBytes
<1>6. Contents(b) = all \o FlattenSeq(Drop(b.chunks, k))
  BY <1>4, FlattenConcatBytes DEF Contents
<1>7. k = Len(b.chunks) => FlattenSeq(Drop(b.chunks, k)) = <<>>
  <2> SUFFICES ASSUME k = Len(b.chunks) PROVE FlattenSeq(Drop(b.chunks, k)) = <<>>
    OBVIOUS
  <2>1. Len(Drop(b.chunks, k)) = 0
    BY <1>1, <1>4, UnitsFacts
  <2>2. Drop(b.chunks, k) = <<>>
    BY <1>4, <2>1, UnitsFacts
  <2> QED
    BY <2>2, FlattenEmpty
<1> HIDE DEF all
<1>8. Len(all) \in Nat /\ m \in 0..Len(all)
  BY <1>5, BytesFacts
<1> HIDE DEF m
<1>9. out \in Bytes /\ Len(out) = m
  BY <1>5, <1>8, TakeDropBytes
<1>10. rest \in Bytes /\ out \o rest = all
  BY <1>5, <1>8, <1>9, TakeDropBytes
<1> HIDE DEF out, rest
<1>11. left \in Units /\ FlattenSeq(left) = rest \o FlattenSeq(Drop(b.chunks, k))
  <2>1. CASE rest = <<>>
    BY <1>4, <1>5, <2>1, UnitsFacts, BytesFacts
  <2>2. CASE rest # <<>>
    <3>1. <<rest>> \in Units
      BY <1>10 DEF Units
    <3>2. FlattenSeq(<<rest>>) = rest
      <4>1. rest \in Seq(Nat)
        BY <1>10 DEF Bytes
      <4> QED
        BY <4>1, FlattenOne, Zenon
    <3>3. FlattenSeq(<<rest>> \o Drop(b.chunks, k)) = FlattenSeq(<<rest>>) \o FlattenSeq(Drop(b.chunks, k))
      BY <1>4, <3>1, FlattenConcatBytes
    <3>4. <<rest>> \o Drop(b.chunks, k) \in Units
      BY <1>4, <3>1, UnitsFacts
    <3>5. left = <<rest>> \o Drop(b.chunks, k)
      BY <2>2
    <3> QED
      BY <3>2, <3>3, <3>4, <3>5
  <2> QED
    BY <2>1, <2>2
<1> HIDE DEF left
<1>12. out \o FlattenSeq(left) = Contents(b)
  <2>1. (out \o rest) \o FlattenSeq(Drop(b.chunks, k)) = out \o (rest \o FlattenSeq(Drop(b.chunks, k)))
    BY <1>5, <1>9, <1>10, BytesAssoc, ZenonT(60)
  <2> QED
    BY <1>6, <1>10, <1>11, <2>1
<1>13. FlattenSeq(left) \in Bytes
  BY <1>11, FlattenBytes
<1>14. Len(Contents(b)) = Len(out) + Len(FlattenSeq(left)) /\ Len(FlattenSeq(left)) \in Nat
       /\ Len(out) \in Nat
  BY <1>9, <1>12, <1>13, BytesFacts
<1>15. Len(out) = IF n <= b.size THEN n ELSE b.size
  <2>1. Len(Contents(b)) = Len(all) + Len(FlattenSeq(Drop(b.chunks, k)))
        /\ Len(FlattenSeq(Drop(b.chunks, k))) \in Nat
    BY <1>5, <1>6, BytesFacts
  <2>2. CASE k = Len(b.chunks)
    <3>1. Len(Contents(b)) = Len(all)
      BY <1>7, <2>1, <2>2, BytesFacts
    <3> QED
      BY <1>1, <1>8, <1>9, <3>1 DEF m
  <2>3. CASE Len(all) >= n
    BY <1>1, <1>8, <1>9, <2>1, <2>3 DEF m
  <2> QED
    BY <1>2, <2>2, <2>3
<1>16. b.size - Len(out) = Len(FlattenSeq(left)) /\ b.size - Len(out) \in Nat
  BY <1>1, <1>14
<1>17. /\ GetBytes(b, n).out = out
       /\ GetBytes(b, n).buf = [chunks |-> left, size |-> b.size - Len(out)]
  BY <1>3
<1>18. Contents(GetBytes(b, n).buf) = FlattenSeq(left)
  BY <1>17 DEF Contents
<1>19. BufferOK(GetBytes(b, n).buf)
  BY <1>11, <1>16, <1>17, <1>18 DEF BufferOK
<1> QED
  BY <1>9, <1>12, <1>15, <1>17, <1>18, <1>19

LEMMA GetAllKeeps ==
  ASSUME NEW b, BufferOK(b)
  PROVE  /\ BufferOK(GetAll(b).buf)
         /\ GetAll(b).out \in Bytes
         /\ GetAll(b).out \o Contents(GetAll(b).buf) = Contents(b)
         /\ GetAll(b).buf.size = 0
<1>1. GetAll(b).buf = EmptyBuffer /\ GetAll(b).out = Contents(b) /\ EmptyBuffer.size = 0
  BY DEF GetAll, EmptyBuffer
<1> QED
  BY <1>1, EmptyBufferOK, ContentsTyped, BytesFacts

------------------------------------------------------------------------------
(* zlib's object *)

Objs == [inner : Bytes, tail : Units, unused : Units, eof : BOOLEAN]

\* After the end of the stream nothing is left of it, and data is only unused
\* then.
ObjOK(z) ==
  /\ z \in Objs
  /\ z.eof => z.inner = <<>> /\ z.tail = <<>>
  /\ ~z.eof => z.unused = <<>>

LEMMA NewObjOK == ObjOK(NewObj) /\ NewObj.inner = <<>> /\ ~NewObj.eof
BY BytesFacts, UnitsFacts DEF ObjOK, NewObj, Objs

LEMMA ConsumedFound ==
  ASSUME NEW z \in Objs, NEW data \in Units, NEW limit \in Nat
  PROVE  LET k == Consumed(z, data, limit)
         IN  /\ k \in 0..Len(data)
             /\ k = Len(data) \/ ~GoesOn(z, data, limit, k)
             /\ \A j \in 0..k-1 : GoesOn(z, data, limit, j)
<1> DEFINE L == Len(data)
           T == {k \in 0..L : k = L \/ ~GoesOn(z, data, limit, k)}
<1>1. L \in Nat
  BY UnitsFacts
<1>2. L \in T
  BY <1>1
<1>3. PICK k \in T : \A j \in T : k <= j
  <2> T \subseteq Nat
    OBVIOUS
  <2> HIDE DEF T
  <2> QED
    BY <1>2, LeastExists
<1>4. k \in 0..L /\ (k = L \/ ~GoesOn(z, data, limit, k))
  BY <1>3
<1>5. ASSUME NEW j \in 0..k-1 PROVE GoesOn(z, data, limit, j)
  <2>1. j \notin T /\ j \in 0..L /\ j # L
    BY <1>1, <1>3, <1>4
  <2> QED
    BY <2>1
<1> QED
  BY <1>4, <1>5 DEF Consumed

\* What decompress() does before the end of the stream, in terms of its result
\* r and the number k of units it takes: what it has decoded, it returns or
\* keeps, in order, and what it has not taken is left.
Inflated(z, data, limit, r, k) ==
  /\ k \in 0..Len(data)
  /\ r = [obj |-> r.obj, out |-> r.out, error |-> r.error]
  /\ ObjOK(r.obj) /\ r.out \in Bytes /\ r.error \in BOOLEAN
  /\ limit > 0 => Len(r.out) <= limit
  /\ r.error => /\ r.out = <<>> /\ r.obj.inner = <<>> /\ ~r.obj.eof
                /\ k > 0 /\ r.obj.tail = Drop(data, k - 1) /\ data[k] = Junk
  /\ ~r.error =>
       /\ z.inner \o Payload(Take(data, k)) = r.out \o r.obj.inner
       /\ Rest(r.obj) = Drop(data, k)
       /\ r.obj.eof <=> k > 0 /\ data[k] = End
       /\ \A j \in 1..k-1 : data[j] # End
       /\ limit = 0 \/ Len(r.out) < limit =>
            /\ r.obj.inner = <<>> /\ (Rest(r.obj) = <<>> \/ r.obj.eof)
            /\ k > 0 \/ data = <<>>

LEMMA InflateKeeps ==
  ASSUME NEW z, ObjOK(z), ~z.eof, NEW data \in Units, NEW limit \in Nat
  PROVE  Inflated(z, data, limit, Inflate(z, data, limit), Consumed(z, data, limit))
<1> DEFINE k   == Consumed(z, data, limit)
           fl  == FlattenSeq(Take(data, k))
           all == z.inner \o fl
           out == Limited(all, limit)
           r   == Inflate(z, data, limit)
<1> SUFFICES Inflated(z, data, limit, r, k)
  OBVIOUS
<1>1. z \in Objs /\ z.inner \in Bytes /\ z.tail \in Units /\ z.unused \in Units /\ z.unused = <<>>
  BY DEF ObjOK, Objs
<1>2. /\ k \in 0..Len(data)
      /\ k = Len(data) \/ ~GoesOn(z, data, limit, k)
      /\ \A j \in 0..k-1 : GoesOn(z, data, limit, j)
  BY <1>1, ConsumedFound
<1>3. r = InflateBy(z, data, k, out)
  BY DEF Inflate, InflateUpTo
<1> HIDE DEF k, r
<1>4. /\ Take(data, k) \in Units /\ Drop(data, k) \in Units
      /\ Len(Take(data, k)) = k /\ Len(Drop(data, k)) = Len(data) - k
      /\ \A i \in 1..k : Take(data, k)[i] = data[i]
  BY <1>2, TakeDropUnits
<1>5. fl \in Bytes
  BY <1>4, FlattenBytes
<1>6. all \in Bytes /\ Len(all) \in Nat /\ Len(all) = Len(z.inner) + Len(fl)
  BY <1>1, <1>5, BytesFacts
<1> HIDE DEF fl
<1>7. /\ out \in Bytes /\ Len(out) \in Nat /\ Len(out) \in 0..Len(all)
      /\ Drop(all, Len(out)) \in Bytes /\ out \o Drop(all, Len(out)) = all
      /\ limit > 0 => Len(out) <= limit
      /\ limit = 0 \/ Len(out) < limit => out = all
      /\ limit = 0 \/ Len(all) <= limit => out = all
  <2>1. CASE limit = 0 \/ Len(all) <= limit
    <3>1. out = all
      BY <2>1 DEF Limited
    <3>2. Len(all) \in 0..Len(all)
      BY <1>6
    <3> HIDE DEF out, all
    <3>3. Drop(all, Len(all)) \in Bytes /\ Take(all, Len(all)) \o Drop(all, Len(all)) = all
          /\ Take(all, Len(all)) \in Bytes /\ Len(Take(all, Len(all))) = Len(all)
          /\ Len(Drop(all, Len(all))) = Len(all) - Len(all)
      BY <1>6, <3>2, TakeDropBytes
    <3>4. Drop(all, Len(all)) = <<>>
      BY <1>6, <3>3, BytesFacts
    <3>5. all \o Drop(all, Len(all)) = all
      BY <1>6, <3>4, BytesFacts
    <3> QED
      BY <1>6, <2>1, <3>1, <3>2, <3>3, <3>5
  <2>2. CASE ~(limit = 0 \/ Len(all) <= limit)
    <3>1. out = Take(all, limit) /\ limit \in 0..Len(all)
      BY <1>6, <2>2 DEF Limited
    <3>2. out \in Bytes /\ Len(out) = limit
      BY <1>6, <3>1, TakeDropBytes
    <3>3. Drop(all, limit) \in Bytes /\ Take(all, limit) \o Drop(all, limit) = all
      BY <1>6, <3>1, TakeDropBytes
    <3> HIDE DEF out, all
    <3> QED
      BY <1>6, <2>2, <3>1, <3>2, <3>3
  <2> QED
    BY <2>1, <2>2
<1> HIDE DEF out, all
<1>8. /\ \A i \in 1..Len(Drop(data, k)) : TRUE
      /\ (Drop(data, k) = <<>> <=> k = Len(data))
  BY <1>2, <1>4, UnitsFacts
<1>9. CASE k > 0 /\ data[k] = Junk
  <2> DEFINE o == [NewObj EXCEPT !.tail = Drop(data, k - 1)]
  <2>1. r = [obj |-> o, out |-> <<>>, error |-> TRUE]
    BY <1>3, <1>9 DEF InflateBy
  <2>2. k - 1 \in 0..Len(data)
    BY <1>2, <1>9
  <2>3. Drop(data, k - 1) \in Units
    BY <2>2, TakeDropUnits
  <2>4. /\ o \in Objs /\ o.inner = <<>> /\ o.tail = Drop(data, k - 1)
        /\ o.unused = <<>> /\ o.eof = FALSE
    <3>1. NewObj \in Objs /\ NewObj.inner = <<>> /\ NewObj.unused = <<>> /\ NewObj.eof = FALSE
      BY NewObjOK DEF NewObj, ObjOK
    <3> QED
      BY <2>3, <3>1 DEF Objs
  <2> HIDE DEF o
  <2>5. ObjOK(r.obj)
    BY <2>1, <2>4 DEF ObjOK
  <2>6. /\ r = [obj |-> r.obj, out |-> r.out, error |-> r.error]
        /\ r.error = TRUE /\ r.out = <<>> /\ r.obj.inner = <<>> /\ r.obj.eof = FALSE
        /\ r.obj.tail = Drop(data, k - 1)
    BY <2>1, <2>4
  <2>7. /\ Len(r.out) = 0 /\ r.out \in Bytes /\ r.error \in BOOLEAN /\ ~r.obj.eof /\ r.error
        /\ limit > 0 => Len(r.out) <= limit
    <3>1. Len(r.out) = 0 /\ r.out \in Bytes
      BY <2>6, BytesFacts
    <3>2. r.error \in BOOLEAN /\ ~r.obj.eof /\ r.error
      BY <2>6
    <3> QED
      BY <3>1, <3>2
  <2> QED
    BY <1>2, <1>9, <2>5, <2>6, <2>7 DEF Inflated
<1>10. CASE ~(k > 0 /\ data[k] = Junk)
  <2> DEFINE eof  == k > 0 /\ data[k] = End
  <2>1. r = [obj |-> TakenIn(z, data, k, out), out |-> out, error |-> FALSE]
    BY <1>3, <1>10 DEF InflateBy
  <2>2. r.obj = [inner  |-> Drop(all, Len(out)),
                 tail   |-> IF eof THEN <<>> ELSE Drop(data, k),
                 unused |-> IF eof THEN Drop(data, k) ELSE <<>>,
                 eof    |-> eof]
    BY <2>1 DEF TakenIn, all, fl
  <2>3. \A i \in 1..k : data[i] # Junk
    <3> SUFFICES ASSUME NEW i \in 1..k, data[i] = Junk PROVE FALSE
      OBVIOUS
    <3>1. i # k
      BY <1>10
    <3>2. i \in 0..k-1 /\ i > 0
      BY <1>2, <3>1
    <3> QED
      BY <1>2, <3>2 DEF GoesOn
  <2>4. Payload(Take(data, k)) = fl
    <3>1. \A i \in 1..Len(Take(data, k)) : Take(data, k)[i] # Junk
      BY <1>4, <2>3
    <3> QED
      BY <1>4, <3>1, PayloadOfClean DEF fl
  <2>5. eof => limit = 0 \/ Len(all) <= limit
    <3> SUFFICES ASSUME eof, limit # 0 PROVE Len(all) <= limit
      OBVIOUS
    <3>1. k - 1 \in 0..k-1 /\ k \in 1..Len(data) /\ k - 1 \in 0..Len(data)
      BY <1>2
    <3>2. Len(z.inner) + Len(FlattenSeq(Take(data, k - 1))) <= limit
      BY <1>2, <3>1 DEF GoesOn
    <3>3. Take(data, k - 1) \in Units
      BY <3>1, TakeDropUnits
    <3>4. Take(data, k) = Append(Take(data, k - 1), End)
      <4>1. data \in Seq(Bytes)
        BY DEF Units
      <4>2. SubSeq(data, 1, k) = SubSeq(data, 1, k - 1) \o <<data[k]>>
        <5>1. 1 \in 1..Len(data) /\ k \in 1..Len(data)
          BY <3>1
        <5> QED
          BY <4>1, <5>1, SubSeqRecursiveSecond
      <4>3. SubSeq(data, 1, k - 1) \o <<End>> = Append(SubSeq(data, 1, k - 1), End)
        <5>1. \A a \in Units : a \o <<End>> = Append(a, End)
          BY DEF Units, Bytes, End
        <5> QED
          BY <3>3, <5>1 DEF Take
      <4> QED
        BY <4>2, <4>3 DEF Take
    <3>5. FlattenSeq(Append(Take(data, k - 1), End)) = FlattenSeq(Take(data, k - 1)) \o End
      <4>1. Take(data, k - 1) \in Seq(Seq(Nat)) /\ End \in Seq(Nat)
        BY <3>3 DEF Units, Bytes, End
      <4> QED
        BY <4>1, FlattenAppend, Zenon
    <3>6. fl = FlattenSeq(Take(data, k - 1))
      BY <3>3, <3>4, <3>5, FlattenBytes, BytesFacts DEF fl, End
    <3> QED
      BY <1>6, <3>2, <3>6
  <2>6. Drop(all, Len(out)) \in Bytes /\ (out = all => Drop(all, Len(out)) = <<>>)
    <3>1. ASSUME out = all PROVE Drop(all, Len(out)) = <<>>
      <4>1. all \o Drop(all, Len(out)) = all
        BY <1>7, <3>1
      <4>2. Len(all) + Len(Drop(all, Len(out))) = Len(all)
        BY <1>6, <1>7, <4>1, BytesFacts
      <4> QED
        BY <1>6, <1>7, <4>2, BytesFacts
    <3> QED
      BY <1>7, <3>1
  <2>7. eof => Drop(all, Len(out)) = <<>>
    BY <1>7, <2>5, <2>6
  <2>8. ObjOK(r.obj)
    <3>1. eof \in BOOLEAN
      OBVIOUS
    <3> HIDE DEF eof
    <3>2. (IF eof THEN <<>> ELSE Drop(data, k)) \in Units /\ (IF eof THEN Drop(data, k) ELSE <<>>) \in Units
      BY <1>4, UnitsFacts
    <3>3. r.obj \in Objs
      BY <2>2, <2>6, <3>1, <3>2 DEF Objs
    <3> QED
      BY <2>2, <2>7, <3>3 DEF ObjOK
  <2>9. Rest(r.obj) = Drop(data, k)
    BY <2>2 DEF Rest
  <2>10. limit = 0 \/ Len(out) < limit => k = Len(data) \/ eof
    <3> SUFFICES ASSUME limit = 0 \/ Len(out) < limit, k # Len(data) PROVE eof
      OBVIOUS
    <3>1. out = all
      BY <1>7
    <3>2. ~GoesOn(z, data, limit, k)
      BY <1>2
    <3>3. limit = 0 \/ Len(z.inner) + Len(FlattenSeq(Take(data, k))) <= limit
      BY <1>6, <3>1 DEF fl
    <3> QED
      BY <1>10, <3>2, <3>3 DEF GoesOn
  <2>11. limit = 0 \/ Len(out) < limit => k > 0 \/ data = <<>>
    BY <1>2, <2>10, UnitsFacts
  <2>12. /\ r.error = FALSE /\ r.out = out
         /\ r.obj.inner = Drop(all, Len(out)) /\ r.obj.eof = eof
         /\ r = [obj |-> r.obj, out |-> r.out, error |-> r.error]
    BY <2>1, <2>2
  <2>13. z.inner \o Payload(Take(data, k)) = r.out \o r.obj.inner
    BY <1>7, <2>4, <2>12 DEF all
  <2> HIDE DEF eof
  <2>14. limit = 0 \/ Len(out) < limit => r.obj.inner = <<>> /\ (Rest(r.obj) = <<>> \/ r.obj.eof)
    BY <1>7, <1>8, <2>6, <2>9, <2>10, <2>12
  <2>15. r.obj.eof <=> k > 0 /\ data[k] = End
    BY <2>12 DEF eof
  <2>16. \A j \in 1..k-1 : data[j] # End
    BY <1>2 DEF GoesOn
  <2> QED
    BY <1>2, <1>7, <2>8, <2>9, <2>11, <2>12, <2>13, <2>14, <2>15, <2>16 DEF Inflated
<1> QED
  BY <1>9, <1>10

LEMMA InflateAfterEnd ==
  ASSUME NEW z, ObjOK(z), z.eof, NEW data \in Units, NEW limit \in Nat
  PROVE  LET r == Inflate(z, data, limit)
         IN  /\ r = [obj |-> r.obj, out |-> r.out, error |-> r.error]
             /\ r.out = <<>> /\ r.error = FALSE
             /\ ObjOK(r.obj) /\ r.obj.inner = <<>> /\ r.obj.tail = <<>> /\ r.obj.eof = TRUE
             /\ r.obj.unused = z.unused \o data
<1> DEFINE r == Inflate(z, data, limit)
           o == [z EXCEPT !.unused = @ \o data]
<1>1. r = [obj |-> o, out |-> <<>>, error |-> FALSE]
  BY DEF Inflate
<1>2. z \in Objs /\ z.unused \in Units /\ z.inner = <<>> /\ z.tail = <<>> /\ z.eof = TRUE
  BY DEF ObjOK, Objs
<1>3. z.unused \o data \in Units
  BY <1>2, UnitsFacts
<1>4. /\ o \in Objs /\ o.unused = z.unused \o data
      /\ o.inner = <<>> /\ o.tail = <<>> /\ o.eof = TRUE
  BY <1>2, <1>3 DEF Objs
<1> HIDE DEF o, r
<1>5. ObjOK(o)
  BY <1>4 DEF ObjOK
<1> QED
  BY <1>1, <1>4, <1>5 DEF r

\* The two together, as far as types and lengths go.
LEMMA InflateTyped ==
  ASSUME NEW z, ObjOK(z), NEW data \in Units, NEW limit \in Nat
  PROVE  LET r == Inflate(z, data, limit)
         IN  /\ r = [obj |-> r.obj, out |-> r.out, error |-> r.error]
             /\ ObjOK(r.obj) /\ r.out \in Bytes /\ r.error \in BOOLEAN
             /\ Rest(r.obj) \in Units
             /\ limit > 0 => Len(r.out) <= limit
             /\ r.error => r.out = <<>> /\ r.obj.inner = <<>>
             /\ ~r.error /\ (limit = 0 \/ Len(r.out) < limit) =>
                  r.obj.inner = <<>> /\ (Rest(r.obj) = <<>> \/ r.obj.eof)
<1> DEFINE r == Inflate(z, data, limit)
<1>1. CASE z.eof
  <2>1. /\ r = [obj |-> r.obj, out |-> r.out, error |-> r.error]
        /\ r.out = <<>> /\ r.error = FALSE
        /\ ObjOK(r.obj) /\ r.obj.inner = <<>> /\ r.obj.eof = TRUE
    BY <1>1, InflateAfterEnd
  <2> HIDE DEF r
  <2>2. r.out \in Bytes /\ Len(r.out) = 0 /\ r.error \in BOOLEAN
    BY <2>1, BytesFacts
  <2>3. Rest(r.obj) \in Units
    BY <2>1 DEF ObjOK, Objs, Rest
  <2> QED
    BY <2>1, <2>2, <2>3 DEF r
<1>2. CASE ~z.eof
  <2>1. Inflated(z, data, limit, r, Consumed(z, data, limit))
    BY <1>2, InflateKeeps
  <2> HIDE DEF r
  <2>2. ObjOK(r.obj)
    BY <2>1 DEF Inflated
  <2>3. Rest(r.obj) \in Units
    BY <2>2 DEF ObjOK, Objs, Rest
  <2> QED
    BY <2>1, <2>3 DEF Inflated, r
<1> QED
  BY <1>1, <1>2

------------------------------------------------------------------------------
(* What comes after the end of a stream *)

\* No data comes after a trailer; and, if tr, there is a trailer.
Tidy(u, tr) ==
  /\ \A i \in 1..Len(u) : u[i] = End => Payload(Drop(u, i)) = <<>>
  /\ tr => \E i \in 1..Len(u) : u[i] = End

\* An object that has nothing to give any more.
Spent(z) == z.inner = <<>> /\ Payload(z.tail) = <<>> /\ Payload(z.unused) = <<>>

LEMMA DropOfDrop ==
  ASSUME NEW u \in Units, NEW k \in 0..Len(u), NEW i \in 0..Len(u) - k
  PROVE  Drop(Drop(u, k), i) = Drop(u, k + i)
<1>1. /\ Drop(u, k) \in Units /\ Len(Drop(u, k)) = Len(u) - k
      /\ \A j \in 1..Len(u) - k : Drop(u, k)[j] = u[k + j]
  BY TakeDropUnits
<1>2. /\ k + i \in 0..Len(u) /\ i \in 0..Len(Drop(u, k)) /\ Len(u) \in Nat
  BY <1>1, UnitsFacts
<1>3. /\ Drop(Drop(u, k), i) \in Units /\ Len(Drop(Drop(u, k), i)) = Len(Drop(u, k)) - i
      /\ \A j \in 1..Len(Drop(u, k)) - i : Drop(Drop(u, k), i)[j] = Drop(u, k)[i + j]
  BY <1>1, <1>2, TakeDropUnits
<1>4. /\ Drop(u, k + i) \in Units /\ Len(Drop(u, k + i)) = Len(u) - (k + i)
      /\ \A j \in 1..Len(u) - (k + i) : Drop(u, k + i)[j] = u[(k + i) + j]
  BY <1>2, TakeDropUnits
<1> DEFINE a == Drop(Drop(u, k), i)
           b == Drop(u, k + i)
<1>5. Len(a) = Len(b)
  <2>1. Len(a) = (Len(u) - k) - i /\ Len(b) = Len(u) - (k + i)
    BY <1>1, <1>3, <1>4
  <2> HIDE DEF a, b
  <2> QED
    BY <1>2, <2>1
<1>6. ASSUME NEW j \in 1..Len(a) PROVE a[j] = b[j]
  <2>1. /\ j \in 1..Len(Drop(u, k)) - i /\ i + j \in 1..Len(u) - k
        /\ j \in 1..Len(u) - (k + i) /\ k + (i + j) = (k + i) + j
    BY <1>1, <1>2, <1>3
  <2> HIDE DEF a, b
  <2>2. a[j] = Drop(u, k)[i + j]
    BY <1>3, <2>1 DEF a
  <2>3. Drop(u, k)[i + j] = u[k + (i + j)]
    BY <1>1, <2>1
  <2>4. b[j] = u[(k + i) + j]
    BY <1>4, <2>1 DEF b
  <2> QED
    BY <2>1, <2>2, <2>3, <2>4
<1>7. a \in Seq(Bytes) /\ b \in Seq(Bytes)
  BY <1>3, <1>4 DEF Units
<1> HIDE DEF a, b
<1>8. a = b
  BY <1>5, <1>6, <1>7, SeqEqual
<1> QED
  BY <1>8 DEF a, b

LEMMA DropOfJoined ==
  ASSUME NEW u \in Units, NEW v \in Units, NEW k \in 0..Len(u)
  PROVE  Drop(u \o v, k) = Drop(u, k) \o v
<1>1. /\ Take(u, k) \in Units /\ Drop(u, k) \in Units /\ Len(Take(u, k)) = k
      /\ Take(u, k) \o Drop(u, k) = u
  BY TakeDropUnits
<1>2. u \o v = Take(u, k) \o (Drop(u, k) \o v)
  <2>1. (Take(u, k) \o Drop(u, k)) \o v = Take(u, k) \o (Drop(u, k) \o v)
    BY <1>1, UnitsAssoc
  <2> QED
    BY <1>1, <2>1
<1>3. Drop(u, k) \o v \in Units
  BY <1>1, UnitsFacts
<1>4. \A s, t \in Units : Drop(s \o t, Len(s)) = t
  BY DropOfConcat, Zenon DEF Units
<1>5. Drop(Take(u, k) \o (Drop(u, k) \o v), Len(Take(u, k))) = Drop(u, k) \o v
  BY <1>1, <1>3, <1>4
<1> QED
  BY <1>1, <1>2, <1>5

LEMMA TidyDrop ==
  ASSUME NEW u \in Units, NEW tr, Tidy(u, tr), NEW k \in 0..Len(u)
  PROVE  /\ k > 0 /\ u[k] = End => Payload(Drop(u, k)) = <<>>
         /\ (\A j \in 1..k : u[j] # End) => Tidy(Drop(u, k), tr)
<1>1. /\ Drop(u, k) \in Units /\ Len(Drop(u, k)) = Len(u) - k
      /\ \A j \in 1..Len(u) - k : Drop(u, k)[j] = u[k + j]
  BY TakeDropUnits
<1>2. ASSUME NEW i \in 1..Len(Drop(u, k)), Drop(u, k)[i] = End
      PROVE  Payload(Drop(Drop(u, k), i)) = <<>>
  <2>1. i \in 1..Len(u) - k /\ k + i \in 1..Len(u) /\ i \in 0..Len(u) - k
    BY <1>1, UnitsFacts
  <2>2. u[k + i] = End
    BY <1>1, <1>2, <2>1
  <2>3. Payload(Drop(u, k + i)) = <<>>
    BY <2>1, <2>2 DEF Tidy
  <2>4. Drop(Drop(u, k), i) = Drop(u, k + i)
    BY <2>1, DropOfDrop
  <2> QED
    BY <2>3, <2>4
<1>3. k > 0 => k \in 1..Len(u)
  OBVIOUS
<1>4. ASSUME tr, \A j \in 1..k : u[j] # End
      PROVE  \E i \in 1..Len(Drop(u, k)) : Drop(u, k)[i] = End
  <2>1. PICK i \in 1..Len(u) : u[i] = End
    BY <1>4 DEF Tidy
  <2>2. i \notin 1..k
    BY <1>4, <2>1
  <2>3. Len(u) \in Nat
    BY UnitsFacts
  <2>4. i - k \in 1..Len(u) - k /\ k + (i - k) = i
    BY <2>2, <2>3
  <2>5. Drop(u, k)[i - k] = End
    BY <1>1, <2>1, <2>4
  <2> QED
    BY <1>1, <2>4, <2>5
<1> QED
  BY <1>2, <1>3, <1>4 DEF Tidy

LEMMA PayloadParts ==
  ASSUME NEW u \in Units, NEW v \in Units
  PROVE  Payload(u \o v) = <<>> <=> Payload(u) = <<>> /\ Payload(v) = <<>>
<1>1. Payload(u \o v) = Payload(u) \o Payload(v) /\ Payload(u) \in Bytes /\ Payload(v) \in Bytes
  BY PayloadConcat, PayloadTyped
<1>2. Payload(u) = <<>> /\ Payload(v) = <<>> => Payload(u \o v) = <<>>
  BY <1>1, BytesFacts
<1>3. Payload(u \o v) = <<>> => Payload(u) = <<>> /\ Payload(v) = <<>>
  BY <1>1, BytesEmptyParts
<1> QED
  BY <1>2, <1>3

LEMMA PayloadSplit ==
  ASSUME NEW u \in Units, NEW k \in 0..Len(u)
  PROVE  Payload(u) = Payload(Take(u, k)) \o Payload(Drop(u, k))
<1>1. Take(u, k) \in Units /\ Drop(u, k) \in Units /\ Take(u, k) \o Drop(u, k) = u
  BY TakeDropUnits
<1>2. Payload(Take(u, k) \o Drop(u, k)) = Payload(Take(u, k)) \o Payload(Drop(u, k))
  BY <1>1, PayloadConcat
<1> QED
  BY <1>1, <1>2

LEMMA PayloadOfDrop ==
  ASSUME NEW u \in Units, NEW k \in 0..Len(u), Payload(u) = <<>>
  PROVE  Payload(Take(u, k)) = <<>> /\ Payload(Drop(u, k)) = <<>>
<1>1. Take(u, k) \in Units /\ Drop(u, k) \in Units /\ Take(u, k) \o Drop(u, k) = u
  BY TakeDropUnits
<1> QED
  BY <1>1, PayloadParts

\* An object with nothing to give, and data with nothing in it, give nothing.
LEMMA InflateSpent ==
  ASSUME NEW z, ObjOK(z), Spent(z), NEW data \in Units, Payload(data) = <<>>, NEW limit \in Nat
  PROVE  LET r == Inflate(z, data, limit)
         IN  Spent(r.obj) /\ r.out = <<>> /\ Payload(Rest(r.obj)) = <<>>
<1> DEFINE r == Inflate(z, data, limit)
           k == Consumed(z, data, limit)
<1>1. z.unused \in Units /\ z.tail \in Units
  BY DEF ObjOK, Objs
<1>2. CASE z.eof
  <2>1. /\ r.out = <<>> /\ r.obj.inner = <<>> /\ r.obj.tail = <<>>
        /\ r.obj.unused = z.unused \o data
    BY <1>2, InflateAfterEnd
  <2>2. Payload(z.unused \o data) = <<>>
    BY <1>1, PayloadParts DEF Spent
  <2> HIDE DEF r
  <2> QED
    BY <2>1, <2>2, PayloadEmpty DEF Spent, Rest, r
<1>3. CASE ~z.eof
  <2>1. Inflated(z, data, limit, r, k)
    BY <1>3, InflateKeeps
  <2> HIDE DEF r, k
  <2>2. k \in 0..Len(data) /\ ObjOK(r.obj)
    BY <2>1 DEF Inflated
  <2>3. CASE r.error
    <3>1. /\ r.out = <<>> /\ r.obj.inner = <<>> /\ ~r.obj.eof /\ r.obj.unused = <<>>
          /\ k - 1 \in 0..Len(data) /\ r.obj.tail = Drop(data, k - 1)
      BY <2>1, <2>2, <2>3 DEF Inflated, ObjOK
    <3>2. Payload(r.obj.tail) = <<>>
      BY <3>1, PayloadOfDrop
    <3> QED
      BY <3>1, <3>2, PayloadEmpty DEF Spent, Rest, r
  <2>4. CASE ~r.error
    <3>1. /\ z.inner \o Payload(Take(data, k)) = r.out \o r.obj.inner
          /\ Rest(r.obj) = Drop(data, k) /\ r.out \in Bytes
      BY <2>1, <2>4 DEF Inflated
    <3>2. Payload(Take(data, k)) = <<>> /\ Payload(Drop(data, k)) = <<>>
      BY <2>2, PayloadOfDrop
    <3>3. z.inner \o Payload(Take(data, k)) = <<>>
      BY <3>2, BytesFacts DEF Spent
    <3>4. r.obj.inner \in Bytes
      BY <2>2 DEF ObjOK, Objs
    <3>5. r.out = <<>> /\ r.obj.inner = <<>>
      BY <3>1, <3>3, <3>4, BytesEmptyParts
    <3>6. (r.obj.tail = <<>> \/ r.obj.unused = <<>>) /\ r.obj.tail \in Units
      BY <2>2 DEF ObjOK, Objs
    <3>7. Payload(r.obj.tail) = <<>> /\ Payload(r.obj.unused) = <<>>
      BY <3>1, <3>2, <3>6, PayloadEmpty DEF Rest
    <3> QED
      BY <3>1, <3>2, <3>5, <3>7 DEF Spent, r
  <2> QED
    BY <2>3, <2>4
<1> QED
  BY <1>2, <1>3

\* Up to the end of the stream nothing is lost or moved; "left" is what has not
\* been read yet.
LEMMA InflateConserves ==
  ASSUME NEW z, ObjOK(z), ~z.eof, NEW data \in Units, NEW left \in Units, NEW tr,
         Tidy(data \o left, tr), NEW limit \in Nat, ~Inflate(z, data, limit).error
  PROVE  LET r == Inflate(z, data, limit)
         IN  /\ z.inner \o Payload(data) = r.out \o (r.obj.inner \o Payload(Rest(r.obj)))
             /\ ~r.obj.eof => Tidy(Rest(r.obj) \o left, tr)
             /\ r.obj.eof => Spent(r.obj) /\ Payload(Rest(r.obj) \o left) = <<>>
<1> DEFINE r == Inflate(z, data, limit)
           k == Consumed(z, data, limit)
<1>1. Inflated(z, data, limit, r, k)
  BY InflateKeeps
<1>2. ~r.error
  OBVIOUS
<1> SUFFICES /\ z.inner \o Payload(data) = r.out \o (r.obj.inner \o Payload(Rest(r.obj)))
             /\ ~r.obj.eof => Tidy(Rest(r.obj) \o left, tr)
             /\ r.obj.eof => Spent(r.obj) /\ Payload(Rest(r.obj) \o left) = <<>>
  OBVIOUS
<1> HIDE DEF r, k
<1>3. /\ k \in 0..Len(data) /\ ObjOK(r.obj)
      /\ z.inner \o Payload(Take(data, k)) = r.out \o r.obj.inner
      /\ Rest(r.obj) = Drop(data, k) /\ r.out \in Bytes
      /\ r.obj.eof <=> k > 0 /\ data[k] = End
  BY <1>1, <1>2 DEF Inflated
<1>4. z.inner \in Bytes /\ r.obj.inner \in Bytes
  BY <1>3 DEF ObjOK, Objs
<1>5. Take(data, k) \in Units /\ Drop(data, k) \in Units
  BY <1>3, TakeDropUnits
<1>6. Payload(Take(data, k)) \in Bytes /\ Payload(Drop(data, k)) \in Bytes
  BY <1>5, PayloadTyped
<1>7. z.inner \o Payload(data) = r.out \o (r.obj.inner \o Payload(Rest(r.obj)))
  <2>1. Payload(data) = Payload(Take(data, k)) \o Payload(Drop(data, k))
    BY <1>3, PayloadSplit
  <2>2. z.inner \o Payload(data) = (z.inner \o Payload(Take(data, k))) \o Payload(Drop(data, k))
    <3>1. (z.inner \o Payload(Take(data, k))) \o Payload(Drop(data, k))
            = z.inner \o (Payload(Take(data, k)) \o Payload(Drop(data, k)))
      BY <1>4, <1>6, BytesAssoc
    <3> QED
      BY <2>1, <3>1
  <2>3. (r.out \o r.obj.inner) \o Payload(Drop(data, k)) = r.out \o (r.obj.inner \o Payload(Drop(data, k)))
    BY <1>3, <1>4, <1>6, BytesAssoc
  <2> QED
    BY <1>3, <2>2, <2>3
<1>8. /\ data \o left \in Units /\ Len(data \o left) = Len(data) + Len(left)
      /\ Len(data) \in Nat /\ Len(left) \in Nat
  BY UnitsFacts
<1>9. k \in 0..Len(data \o left)
  BY <1>3, <1>8
<1>10. Drop(data \o left, k) = Rest(r.obj) \o left
  BY <1>3, DropOfJoined
<1>11. k > 0 => (data \o left)[k] = data[k]
  BY <1>3 DEF Units
<1>12. k > 0 /\ data[k] = End => Payload(Rest(r.obj) \o left) = <<>>
  BY <1>8, <1>9, <1>10, <1>11, TidyDrop
<1>14. ASSUME ~r.obj.eof PROVE Tidy(Rest(r.obj) \o left, tr)
  <2>1. \A j \in 1..k-1 : data[j] # End
    BY <1>1, <1>2 DEF Inflated
  <2>2. ~(k > 0 /\ data[k] = End)
    BY <1>3, <1>14
  <2>3. \A j \in 1..k : (data \o left)[j] = data[j]
    BY <1>3 DEF Units
  <2>4. \A j \in 1..k : (data \o left)[j] # End
    BY <1>3, <2>1, <2>2, <2>3
  <2> QED
    BY <1>8, <1>9, <1>10, <2>4, TidyDrop
<1>13. ASSUME r.obj.eof PROVE Spent(r.obj)
  <2>1. Payload(Rest(r.obj) \o left) = <<>>
    BY <1>3, <1>12, <1>13
  <2>2. Payload(Rest(r.obj)) = <<>>
    BY <1>3, <1>5, <2>1, PayloadParts
  <2>3. r.obj.inner = <<>> /\ r.obj.tail = <<>>
    BY <1>3, <1>13 DEF ObjOK
  <2> QED
    BY <2>2, <2>3, PayloadEmpty DEF Spent, Rest
<1> QED
  BY <1>3, <1>7, <1>12, <1>13, <1>14

\* The same, by a name.
KeepsOrder(z, data, left, tr, r) ==
  /\ z.inner \o Payload(data) = r.out \o (r.obj.inner \o Payload(Rest(r.obj)))
  /\ ~r.obj.eof => Tidy(Rest(r.obj) \o left, tr)
  /\ r.obj.eof => Spent(r.obj) /\ Payload(Rest(r.obj) \o left) = <<>>

LEMMA InflateKeepsOrder ==
  ASSUME NEW z, ObjOK(z), ~z.eof, NEW data \in Units, NEW left \in Units, NEW tr,
         Tidy(data \o left, tr), NEW limit \in Nat, ~Inflate(z, data, limit).error
  PROVE  KeepsOrder(z, data, left, tr, Inflate(z, data, limit))
BY InflateConserves, ZenonT(60) DEF KeepsOrder

------------------------------------------------------------------------------
(* The decoders *)

Kinds  == {"identity", "gzip", "zlib", "raw"}
States == {"first", "others", "swallow"}
Decs   == [kind : Kinds, obj : Objs, kept : Units, state : States]

DecOK(d) ==
  /\ d \in Decs /\ ObjOK(d.obj)
  /\ d.state # "first" => d.kind = "gzip"
  /\ d.state = "swallow" => d.kept = <<>> /\ d.obj.inner = <<>>

\* The units that a decoder has been given and has not decoded.
Pending(d) == IF d.kind = "gzip" THEN d.kept ELSE d.obj.tail \o d.kept

LEMMA InflateShrinks ==
  ASSUME NEW z, ObjOK(z), ~z.eof, NEW data \in Units, NEW limit \in Nat,
         ~Inflate(z, data, limit).error,
         limit = 0 \/ Len(Inflate(z, data, limit).out) < limit
  PROVE  /\ Rest(Inflate(z, data, limit).obj) \in Units
         /\ Rest(Inflate(z, data, limit).obj) # <<>> =>
              Len(Rest(Inflate(z, data, limit).obj)) <= Len(data) - 1
<1> DEFINE r == Inflate(z, data, limit)
           k == Consumed(z, data, limit)
<1>1. Inflated(z, data, limit, r, k) /\ ~r.error /\ (limit = 0 \/ Len(r.out) < limit)
  BY InflateKeeps
<1> SUFFICES Rest(r.obj) \in Units /\ (Rest(r.obj) # <<>> => Len(Rest(r.obj)) <= Len(data) - 1)
  OBVIOUS
<1> HIDE DEF r, k
<1>2. k \in 0..Len(data) /\ Rest(r.obj) = Drop(data, k) /\ (k > 0 \/ data = <<>>)
  BY <1>1 DEF Inflated
<1>3. Drop(data, k) \in Units /\ Len(Drop(data, k)) = Len(data) - k
  BY <1>2, TakeDropUnits
<1>4. data = <<>> => Len(data) = 0
  OBVIOUS
<1>5. Len(Drop(data, k)) = 0 => Drop(data, k) = <<>>
  BY <1>3, UnitsFacts
<1>6. Len(data) \in Nat
  BY UnitsFacts
<1>7. Drop(data, k) # <<>> => k > 0
  BY <1>2, <1>3, <1>4, <1>5, <1>6
<1>8. k \in Int
  BY <1>2
<1> QED
  BY <1>2, <1>3, <1>6, <1>7, <1>8

LEMMA InflateGrows ==
  ASSUME NEW z, ObjOK(z), z.eof, NEW data \in Units, NEW limit \in Nat
  PROVE  /\ Rest(Inflate(z, data, limit).obj) = z.unused \o data
         /\ z.unused \in Units
<1>1. /\ Inflate(z, data, limit).obj.tail = <<>>
      /\ Inflate(z, data, limit).obj.unused = z.unused \o data
  BY InflateAfterEnd
<1>2. z.unused \in Units
  BY DEF ObjOK, Objs
<1> QED
  BY <1>1, <1>2 DEF Rest

\* The states of the loop over a gzip body's members.
Loops == [dec : Decs, data : Units, out : Bytes, over : BOOLEAN, error : BOOLEAN]

AfterError(s, r, t) ==
  /\ t \in Loops /\ t.data = s.data /\ t.out = s.out /\ t.over = TRUE
  /\ t.error = (s.dec.state # "others")
  /\ t.dec.kind = s.dec.kind /\ t.dec.obj = r.obj
  /\ t.dec.kept = <<>> /\ t.dec.state = "swallow"

AfterData(s, r, over, t) ==
  /\ t \in Loops /\ t.data = Rest(r.obj) /\ t.out = s.out \o r.out
  /\ t.over = over /\ t.error = s.error
  /\ t.dec.kind = s.dec.kind /\ t.dec.kept = Rest(r.obj)
  /\ t.dec.obj = IF ~over /\ r.obj.eof THEN NewObj ELSE r.obj
  /\ t.dec.state = IF ~over /\ r.obj.eof THEN "others" ELSE s.dec.state

LEMMA GzipAfterError ==
  ASSUME NEW s \in Loops, NEW r, r.error, r.obj \in Objs, NEW over
  PROVE  AfterError(s, r, GzipAfter(s, r, over))
<1> DEFINE e == [s.dec EXCEPT !.obj = r.obj, !.kept = <<>>, !.state = "swallow"]
           w == (s.dec.state # "others")
           t == GzipAfter(s, r, over)
<1>1. t = [s EXCEPT !.dec = e, !.error = w, !.over = TRUE]
  BY DEF GzipAfter
<1>2. s.dec \in Decs
  BY DEF Loops
<1>3. /\ e \in Decs /\ e.kind = s.dec.kind /\ e.obj = r.obj /\ e.kept = <<>>
      /\ e.state = "swallow"
  BY <1>2, UnitsFacts DEF Decs, States
<1>4. w \in BOOLEAN
  OBVIOUS
<1> HIDE DEF e, w, t
<1>5. /\ t \in Loops /\ t.data = s.data /\ t.out = s.out /\ t.over = TRUE
      /\ t.error = w /\ t.dec = e
  BY <1>1, <1>3, <1>4 DEF Loops
<1> QED
  BY <1>3, <1>5 DEF t, w, AfterError

LEMMA GzipAfterData ==
  ASSUME NEW s \in Loops, NEW r, ~r.error, r.obj \in Objs, r.out \in Bytes,
         Rest(r.obj) \in Units, NEW over \in BOOLEAN
  PROVE  AfterData(s, r, over, GzipAfter(s, r, over))
<1> DEFINE e == IF ~over /\ r.obj.eof
                THEN [s.dec EXCEPT !.obj = NewObj, !.kept = Rest(r.obj), !.state = "others"]
                ELSE [s.dec EXCEPT !.obj = r.obj, !.kept = Rest(r.obj)]
           t == GzipAfter(s, r, over)
<1>1. t = [s EXCEPT !.dec = e, !.data = Rest(r.obj), !.out = @ \o r.out, !.over = over]
  BY DEF GzipAfter
<1>2. s.dec \in Decs /\ s.out \in Bytes
  BY DEF Loops
<1>3. NewObj \in Objs
  BY NewObjOK DEF ObjOK
<1>4. /\ e \in Decs /\ e.kind = s.dec.kind /\ e.kept = Rest(r.obj)
      /\ e.obj = IF ~over /\ r.obj.eof THEN NewObj ELSE r.obj
      /\ e.state = IF ~over /\ r.obj.eof THEN "others" ELSE s.dec.state
  <2>1. CASE ~over /\ r.obj.eof
    BY <1>2, <1>3, <2>1 DEF Decs, States
  <2>2. CASE ~(~over /\ r.obj.eof)
    BY <1>2, <1>3, <2>2 DEF Decs, States
  <2> QED
    BY <2>1, <2>2
<1>5. s.out \o r.out \in Bytes
  BY <1>2, BytesFacts
<1> HIDE DEF e, t
<1>6. /\ t \in Loops /\ t.data = Rest(r.obj) /\ t.out = s.out \o r.out
      /\ t.over = over /\ t.error = s.error /\ t.dec = e
  BY <1>1, <1>4, <1>5 DEF Loops
<1> QED
  BY <1>4, <1>6 DEF t, AfterData

\* What holds between two turns; max is not 0.
LoopOK(s, max) ==
  /\ s \in Loops /\ DecOK(s.dec) /\ s.dec.kind = "gzip"
  /\ max > 0 => Len(s.out) <= max
  /\ s.over => \/ s.error \/ (max > 0 /\ Len(s.out) = max)
               \/ /\ s.dec.kept = <<>> /\ s.dec.obj.inner = <<>>
                  /\ s.dec.state = "swallow" \/ s.dec.obj.tail = <<>>
  /\ ~s.over => /\ ~s.error /\ (max > 0 => Len(s.out) < max)
                /\ s.dec.state # "swallow"

LoopKept(s) == s.dec.state = "swallow" \/ s.dec.kept = s.data

\* How much data there can be after a turn that is not the last.
LoopRoom(s) ==
  IF s.dec.obj.eof THEN Len(s.dec.obj.unused) + Len(s.data) ELSE Len(s.data) - 1

TurnLimit(s, max) == IF max > 0 THEN max - Len(s.out) ELSE 0

LEMMA GzipTurnKeeps ==
  ASSUME NEW max \in Int, max # 0, NEW s, LoopOK(s, max), ~s.over
  PROVE  LET t == GzipTurn(s, max)
         IN  /\ LoopOK(t, max) /\ LoopKept(t)
             /\ ~t.over => ~t.dec.obj.eof /\ Len(t.data) <= LoopRoom(s)
<1> DEFINE limit == TurnLimit(s, max)
           r == Inflate(s.dec.obj, s.data, limit)
           over == GzipLoopOver(s, r, max)
           t == GzipTurn(s, max)
<1>1. t = GzipAfter(s, r, over)
  BY DEF GzipTurn, GzipFed, TurnLimit
<1>2. /\ s \in Loops /\ s.dec \in Decs /\ ObjOK(s.dec.obj) /\ s.dec.kind = "gzip"
      /\ s.data \in Units /\ s.out \in Bytes /\ ~s.error /\ s.dec.state # "swallow"
      /\ max > 0 => Len(s.out) < max
  BY DEF LoopOK, DecOK, Loops
<1>3. Len(s.out) \in Nat /\ Len(s.data) \in Nat
  BY <1>2, BytesFacts, UnitsFacts
<1>4. /\ limit \in Nat /\ (max < 0 => limit = 0)
      /\ max > 0 => limit = max - Len(s.out) /\ limit > 0
  <2>1. CASE max > 0
    BY <1>2, <1>3, <2>1 DEF TurnLimit
  <2>2. CASE ~(max > 0)
    BY <2>2 DEF TurnLimit
  <2> QED
    BY <2>1, <2>2
<1> HIDE DEF limit
<1>5. /\ ObjOK(r.obj) /\ r.out \in Bytes /\ r.error \in BOOLEAN /\ Rest(r.obj) \in Units
      /\ limit > 0 => Len(r.out) <= limit
      /\ r.error => r.out = <<>> /\ r.obj.inner = <<>>
      /\ ~r.error /\ (limit = 0 \/ Len(r.out) < limit) =>
           r.obj.inner = <<>> /\ (Rest(r.obj) = <<>> \/ r.obj.eof)
  BY <1>2, <1>4, InflateTyped
<1>6. ~r.error /\ (limit = 0 \/ Len(r.out) < limit) /\ Rest(r.obj) # <<>> =>
        Len(Rest(r.obj)) <= LoopRoom(s)
  <2> SUFFICES ASSUME ~r.error, limit = 0 \/ Len(r.out) < limit, Rest(r.obj) # <<>>
               PROVE  Len(Rest(r.obj)) <= LoopRoom(s)
    OBVIOUS
  <2>1. CASE s.dec.obj.eof
    <3>1. ObjOK(s.dec.obj) /\ s.data \in Units /\ limit \in Nat
      BY <1>2, <1>4
    <3> HIDE DEF r
    <3>2. Rest(Inflate(s.dec.obj, s.data, limit).obj) = s.dec.obj.unused \o s.data
      BY <2>1, <3>1, InflateGrows
    <3>3. Rest(r.obj) = s.dec.obj.unused \o s.data /\ s.dec.obj.unused \in Units
      BY <2>1, <3>1, <3>2, InflateGrows DEF r
    <3>4. Len(Rest(r.obj)) = Len(s.dec.obj.unused) + Len(s.data)
      BY <1>2, <3>3, UnitsFacts
    <3>5. Len(s.dec.obj.unused) \in Nat
      BY <3>3, UnitsFacts
    <3> QED
      BY <1>3, <2>1, <3>4, <3>5 DEF LoopRoom
  <2>2. CASE ~s.dec.obj.eof
    <3>1. Len(Rest(r.obj)) <= Len(s.data) - 1
      BY <1>2, <1>4, <2>2, InflateShrinks
    <3> QED
      BY <2>2, <3>1 DEF LoopRoom
  <2> QED
    BY <2>1, <2>2
<1>7. over \in BOOLEAN
  BY DEF GzipLoopOver
<1>8. r.obj \in Objs /\ Len(r.out) \in Nat /\ Len(s.out \o r.out) = Len(s.out) + Len(r.out)
      /\ s.out \o r.out \in Bytes
  BY <1>2, <1>5, BytesFacts DEF ObjOK
<1>9. over <=> (max > 0 /\ Len(s.out) + Len(r.out) >= max) \/ Rest(r.obj) = <<>>
  BY DEF GzipLoopOver
<1> SUFFICES /\ LoopOK(t, max) /\ LoopKept(t)
             /\ ~t.over => ~t.dec.obj.eof /\ Len(t.data) <= LoopRoom(s)
  OBVIOUS
<1>10. CASE r.error
  <2>0. AfterError(s, r, GzipAfter(s, r, over))
    BY <1>2, <1>8, <1>10, GzipAfterError
  <2> HIDE DEF r, over, t
  <2>1. /\ t \in Loops /\ t.data = s.data /\ t.out = s.out /\ t.over = TRUE
        /\ t.dec.kind = s.dec.kind /\ t.dec.obj = r.obj
        /\ t.dec.kept = <<>> /\ t.dec.state = "swallow"
    BY <1>1, <2>0 DEF AfterError
  <2>2. DecOK(t.dec)
    BY <1>2, <1>5, <1>10, <2>1 DEF DecOK, Loops
  <2> QED
    BY <1>2, <1>3, <1>5, <1>10, <2>1, <2>2 DEF LoopOK, LoopKept
<1>11. CASE ~r.error
  <2>0. AfterData(s, r, over, GzipAfter(s, r, over))
    BY <1>2, <1>5, <1>7, <1>8, <1>11, GzipAfterData
  <2> HIDE DEF r, over, t
  <2>1. /\ t \in Loops /\ t.data = Rest(r.obj) /\ t.out = s.out \o r.out
        /\ t.over = over /\ t.error = s.error
        /\ t.dec.kind = s.dec.kind /\ t.dec.kept = Rest(r.obj)
        /\ t.dec.obj = IF ~over /\ r.obj.eof THEN NewObj ELSE r.obj
        /\ t.dec.state = IF ~over /\ r.obj.eof THEN "others" ELSE s.dec.state
    BY <1>1, <2>0 DEF AfterData
  <2> DEFINE m == Len(s.out)
             n == Len(r.out)
  <2>10. m \in Nat /\ n \in Nat /\ Len(t.out) = m + n
    BY <1>3, <1>8, <2>1
  <2>11. limit > 0 => n <= limit
    BY <1>5
  <2>12. max > 0 => limit = max - m /\ limit > 0
    BY <1>4
  <2>13. over <=> (max > 0 /\ m + n >= max) \/ Rest(r.obj) = <<>>
    BY <1>9
  <2>14. max < 0 => limit = 0
    BY <1>4
  <2>15. ~r.error /\ (limit = 0 \/ n < limit) =>
           r.obj.inner = <<>> /\ (Rest(r.obj) = <<>> \/ r.obj.eof)
    BY <1>5
  <2>16. ~r.error /\ (limit = 0 \/ n < limit) /\ Rest(r.obj) # <<>> =>
           Len(Rest(r.obj)) <= LoopRoom(s)
    BY <1>6
  <2> HIDE DEF m, n
  <2>2. max > 0 => Len(t.out) <= max
    BY <2>10, <2>11, <2>12
  <2>3. ASSUME ~over
        PROVE  /\ r.obj.eof /\ t.dec.obj = NewObj /\ t.dec.state = "others"
               /\ max > 0 => Len(t.out) < max
               /\ Len(t.data) <= LoopRoom(s)
    <3>1. Rest(r.obj) # <<>> /\ ~(max > 0 /\ m + n >= max)
      BY <2>13, <2>3
    <3>2. limit = 0 \/ n < limit
      BY <2>10, <2>12, <2>14, <3>1
    <3>3. max > 0 => Len(t.out) < max
      BY <2>10, <3>1
    <3>4. r.obj.eof /\ Len(Rest(r.obj)) <= LoopRoom(s)
      BY <1>11, <2>15, <2>16, <3>1, <3>2
    <3> QED
      BY <2>1, <2>3, <3>3, <3>4
  <2>4. ASSUME over
        PROVE  /\ t.dec.obj = r.obj /\ t.dec.state = s.dec.state
               /\ \/ max > 0 /\ Len(t.out) = max
                  \/ t.dec.kept = <<>> /\ t.dec.obj.inner = <<>> /\ t.dec.obj.tail = <<>>
    <3>1. t.dec.obj = r.obj /\ t.dec.state = s.dec.state
      BY <2>1, <2>4
    <3>2. CASE max > 0 /\ m + n >= max
      <4>1. Len(t.out) >= max /\ Len(t.out) \in Nat
        BY <2>10, <3>2
      <4> QED
        BY <2>2, <3>1, <3>2, <4>1
    <3>3. CASE ~(max > 0 /\ m + n >= max)
      <4>1. Rest(r.obj) = <<>>
        BY <2>13, <2>4, <3>3
      <4>2. limit = 0 \/ n < limit
        BY <2>10, <2>12, <2>14, <3>3
      <4>3. r.obj.inner = <<>>
        BY <1>11, <2>15, <4>2
      <4>4. r.obj.tail = <<>>
        BY <4>1 DEF Rest
      <4> QED
        BY <2>1, <3>1, <4>1, <4>3, <4>4
    <3> QED
      BY <3>2, <3>3
  <2>5. DecOK(t.dec)
    <3>1. t.dec \in Decs
      BY <2>1 DEF Loops
    <3>2. ObjOK(t.dec.obj) /\ t.dec.state # "swallow" /\ t.dec.kind = "gzip"
      BY <1>2, <1>5, <2>1, NewObjOK
    <3> QED
      BY <3>1, <3>2 DEF DecOK
  <2>6. LoopOK(t, max)
    <3>1. t.dec.kind = "gzip" /\ ~t.error /\ t.dec.state # "swallow"
      BY <1>2, <2>1
    <3>2. t.over = over
      BY <2>1
    <3> QED
      BY <2>1, <2>2, <2>3, <2>4, <2>5, <3>1, <3>2 DEF LoopOK
  <2>7. LoopKept(t)
    BY <2>1 DEF LoopKept
  <2>8. ~t.over => ~t.dec.obj.eof
    BY <2>1, <2>3, NewObjOK
  <2> QED
    BY <2>1, <2>3, <2>6, <2>7, <2>8
<1> QED
  BY <1>5, <1>10, <1>11

\* A decoder that has met the end of its stream.
Over(d) == d.obj.eof \/ d.state # "first"

\* Decoder d can decode units u to their end: nothing but refused data comes
\* after the trailer.
Sound(d, u, tr) ==
  IF Over(d) THEN Spent(d.obj) /\ Payload(u) = <<>> ELSE Tidy(u, tr)

\* What the loop has in hand besides what it returns.
Held(s) == s.dec.obj.inner \o Payload(s.data)

LEMMA NewObjSpent == Spent(NewObj) /\ NewObj.inner = <<>>
BY PayloadEmpty DEF Spent, NewObj

LEMMA SpentTurn ==
  ASSUME NEW max \in Int, max # 0, NEW s, LoopOK(s, max), ~s.over,
         NEW left \in Units, NEW tr, Over(s.dec), Sound(s.dec, s.data \o left, tr)
  PROVE  /\ Sound(GzipTurn(s, max).dec, GzipTurn(s, max).data \o left, tr)
         /\ s.out \o Held(s) = GzipTurn(s, max).out \o Held(GzipTurn(s, max))
<1> DEFINE limit == TurnLimit(s, max)
           r == Inflate(s.dec.obj, s.data, limit)
           over == GzipLoopOver(s, r, max)
           t == GzipTurn(s, max)
<1>1. t = GzipAfter(s, r, over)
  BY DEF GzipTurn, GzipFed, TurnLimit
<1>2. /\ s \in Loops /\ ObjOK(s.dec.obj) /\ s.data \in Units /\ s.out \in Bytes
      /\ max > 0 => Len(s.out) < max
  BY DEF LoopOK, DecOK, Loops
<1>3. Len(s.out) \in Nat
  BY <1>2, BytesFacts
<1>4. limit \in Nat
  BY <1>2, <1>3 DEF TurnLimit
<1> HIDE DEF limit
<1>5. Spent(s.dec.obj) /\ Payload(s.data \o left) = <<>>
  BY DEF Sound
<1>6. Payload(s.data) = <<>> /\ Payload(left) = <<>>
  BY <1>2, <1>5, PayloadParts
<1>7. ObjOK(r.obj) /\ r.out \in Bytes /\ r.error \in BOOLEAN /\ Rest(r.obj) \in Units
  BY <1>2, <1>4, InflateTyped
<1>8. Spent(r.obj) /\ r.out = <<>> /\ Payload(Rest(r.obj)) = <<>>
  BY <1>2, <1>4, <1>5, <1>6, InflateSpent
<1>9. s.dec.obj.eof => r.obj.eof
  <2> SUFFICES ASSUME s.dec.obj.eof PROVE r.obj.eof
    OBVIOUS
  <2>1. \A z : ObjOK(z) /\ z.eof => Inflate(z, s.data, limit).obj.eof = TRUE
    BY <1>2, <1>4, InflateAfterEnd
  <2> QED
    BY <1>2, <2>1
<1>10. Held(s) = <<>>
  BY <1>5, <1>6, BytesFacts DEF Held, Spent
<1>11. over \in BOOLEAN
  BY DEF GzipLoopOver
<1>12. r.obj \in Objs
  BY <1>7 DEF ObjOK
<1>13. r.error => AfterError(s, r, GzipAfter(s, r, over))
  BY <1>2, <1>12, GzipAfterError
<1>14. ~r.error => AfterData(s, r, over, GzipAfter(s, r, over))
  BY <1>2, <1>7, <1>11, <1>12, GzipAfterData
<1> SUFFICES Sound(t.dec, t.data \o left, tr) /\ s.out \o Held(s) = t.out \o Held(t)
  OBVIOUS
<1> HIDE DEF r, over, t
<1>15. /\ Over(t.dec) /\ Spent(t.dec.obj) /\ Payload(t.data) = <<>> /\ t.data \in Units
       /\ t.out = s.out
  <2>1. CASE r.error
    BY <1>1, <1>2, <1>6, <1>8, <1>13, <2>1 DEF AfterError, Over
  <2>2. CASE ~r.error
    <3>1. /\ t.data = Rest(r.obj) /\ t.out = s.out \o r.out
          /\ t.dec.obj = IF ~over /\ r.obj.eof THEN NewObj ELSE r.obj
          /\ t.dec.state = IF ~over /\ r.obj.eof THEN "others" ELSE s.dec.state
      BY <1>1, <1>14, <2>2 DEF AfterData
    <3>2. t.out = s.out
      BY <1>2, <1>8, <3>1, BytesFacts
    <3>3. Spent(t.dec.obj)
      BY <1>8, <3>1, NewObjSpent
    <3>4. Over(t.dec)
      BY <1>9, <3>1 DEF Over
    <3> QED
      BY <1>7, <1>8, <3>1, <3>2, <3>3, <3>4
  <2> QED
    BY <2>1, <2>2
<1>16. Payload(t.data \o left) = <<>>
  BY <1>6, <1>15, PayloadParts
<1>17. Held(t) = <<>>
  BY <1>15, BytesFacts DEF Held, Spent
<1> QED
  BY <1>10, <1>15, <1>16, <1>17 DEF Sound

LEMMA FirstTurn ==
  ASSUME NEW max \in Int, max # 0, NEW s, LoopOK(s, max), ~s.over,
         NEW left \in Units, NEW tr, ~Over(s.dec), Sound(s.dec, s.data \o left, tr),
         ~GzipTurn(s, max).error
  PROVE  /\ Sound(GzipTurn(s, max).dec, GzipTurn(s, max).data \o left, tr)
         /\ s.out \o Held(s) = GzipTurn(s, max).out \o Held(GzipTurn(s, max))
<1> DEFINE limit == TurnLimit(s, max)
           r == Inflate(s.dec.obj, s.data, limit)
           over == GzipLoopOver(s, r, max)
           t == GzipTurn(s, max)
<1>1. t = GzipAfter(s, r, over)
  BY DEF GzipTurn, GzipFed, TurnLimit
<1>2. /\ s \in Loops /\ ObjOK(s.dec.obj) /\ s.data \in Units /\ s.out \in Bytes
      /\ max > 0 => Len(s.out) < max
  BY DEF LoopOK, DecOK, Loops
<1>3. Len(s.out) \in Nat
  BY <1>2, BytesFacts
<1>4. limit \in Nat
  BY <1>2, <1>3 DEF TurnLimit
<1> HIDE DEF limit
<1>5. Tidy(s.data \o left, tr) /\ ~s.dec.obj.eof /\ s.dec.state = "first"
  BY DEF Sound, Over
<1>6. ObjOK(r.obj) /\ r.out \in Bytes /\ r.error \in BOOLEAN /\ Rest(r.obj) \in Units
  BY <1>2, <1>4, InflateTyped
<1>7. over \in BOOLEAN
  BY DEF GzipLoopOver
<1>8. r.obj \in Objs
  BY <1>6 DEF ObjOK
<1>9. ~r.error
  <2> SUFFICES ASSUME r.error PROVE FALSE
    OBVIOUS
  <2>1. AfterError(s, r, GzipAfter(s, r, over))
    BY <1>2, <1>8, GzipAfterError
  <2> HIDE DEF r, over
  <2> QED
    BY <1>1, <1>5, <2>1 DEF AfterError
<1>10. AfterData(s, r, over, GzipAfter(s, r, over))
  BY <1>2, <1>6, <1>7, <1>8, <1>9, GzipAfterData
<1>11. /\ s.dec.obj.inner \o Payload(s.data) = r.out \o (r.obj.inner \o Payload(Rest(r.obj)))
       /\ ~r.obj.eof => Tidy(Rest(r.obj) \o left, tr)
       /\ r.obj.eof => Spent(r.obj) /\ Payload(Rest(r.obj) \o left) = <<>>
  BY <1>2, <1>4, <1>5, <1>9, InflateConserves, ZenonT(60)
<1> SUFFICES Sound(t.dec, t.data \o left, tr) /\ s.out \o Held(s) = t.out \o Held(t)
  OBVIOUS
<1> HIDE DEF r, over, t
<1>12. /\ t.data = Rest(r.obj) /\ t.out = s.out \o r.out
       /\ t.dec.obj = IF ~over /\ r.obj.eof THEN NewObj ELSE r.obj
       /\ t.dec.state = IF ~over /\ r.obj.eof THEN "others" ELSE s.dec.state
  BY <1>1, <1>10 DEF AfterData
<1>13. t.dec.obj.inner = r.obj.inner
  <2>1. r.obj.eof => r.obj.inner = <<>>
    BY <1>6 DEF ObjOK
  <2> QED
    BY <1>12, <2>1, NewObjSpent
<1>14. Held(t) = r.obj.inner \o Payload(Rest(r.obj)) /\ Held(t) \in Bytes
  <2>1. r.obj.inner \in Bytes /\ Payload(Rest(r.obj)) \in Bytes
    BY <1>6, <1>8, PayloadTyped DEF Objs
  <2> QED
    BY <1>12, <1>13, <2>1, BytesFacts DEF Held
<1>15. s.out \o Held(s) = t.out \o Held(t)
  <2>1. (s.out \o r.out) \o Held(t) = s.out \o (r.out \o Held(t))
    BY <1>2, <1>6, <1>14, BytesAssoc
  <2>2. Held(s) = r.out \o Held(t)
    BY <1>11, <1>14 DEF Held
  <2> QED
    BY <1>12, <2>1, <2>2
<1>16. Sound(t.dec, t.data \o left, tr)
  <2>1. CASE r.obj.eof
    <3>1. Over(t.dec) /\ Spent(t.dec.obj)
      BY <1>11, <1>12, <2>1, NewObjSpent DEF Over
    <3> QED
      BY <1>11, <1>12, <2>1, <3>1 DEF Sound
  <2>2. CASE ~r.obj.eof
    <3>1. ~Over(t.dec)
      BY <1>5, <1>12, <2>2 DEF Over
    <3> QED
      BY <1>11, <1>12, <2>2, <3>1 DEF Sound
  <2> QED
    BY <2>1, <2>2
<1> QED
  BY <1>15, <1>16

LEMMA GzipTurnConserves ==
  ASSUME NEW max \in Int, max # 0, NEW s, LoopOK(s, max), ~s.over,
         NEW left \in Units, NEW tr, Sound(s.dec, s.data \o left, tr), ~GzipTurn(s, max).error
  PROVE  /\ Sound(GzipTurn(s, max).dec, GzipTurn(s, max).data \o left, tr)
         /\ s.out \o Held(s) = GzipTurn(s, max).out \o Held(GzipTurn(s, max))
BY SpentTurn, FirstTurn

------------------------------------------------------------------------------
(* All turns of the loop *)

\* turn[i] is the loop's state after i turns.
Turns(turn, n, d, data, max) ==
  /\ turn[0] = GzipStart(d, data)
  /\ \A i \in 0..n-1 : turn[i + 1] = GzipTurn(turn[i], max)

Unrolled(turn, n, d, data, max) ==
  turn = [i \in 0..n |-> IF i = 0 THEN GzipStart(d, data) ELSE GzipTurn(turn[i - 1], max)]

LEMMA TurnsExist ==
  ASSUME NEW d, NEW data, NEW max, NEW m \in Nat
  PROVE  \E turn : Unrolled(turn, m, d, data, max)
<1> DEFINE Rec(f, n) == f = [i \in 0..n |-> IF i = 0 THEN GzipStart(d, data)
                                            ELSE GzipTurn(f[i - 1], max)]
           T == {n \in Nat : \E f : Rec(f, n)}
<1>1. 0 \in T
  <2> DEFINE f == [i \in 0..0 |-> GzipStart(d, data)]
  <2>1. Rec(f, 0)
    OBVIOUS
  <2> QED
    BY <2>1
<1>2. ASSUME NEW n \in Nat, n \in T PROVE n + 1 \in T
  <2>1. PICK f : Rec(f, n)
    BY <1>2
  <2> DEFINE g == [i \in 0..n+1 |-> IF i \in 0..n THEN f[i] ELSE GzipTurn(f[i - 1], max)]
  <2>2. \A i \in 0..n : f[i] = IF i = 0 THEN GzipStart(d, data) ELSE GzipTurn(f[i - 1], max)
    BY <2>1
  <2> HIDE DEF Rec
  <2>3. \A i \in 0..n+1 : g[i] = IF i = 0 THEN GzipStart(d, data) ELSE GzipTurn(g[i - 1], max)
    <3> SUFFICES ASSUME NEW i \in 0..n+1
                 PROVE  g[i] = IF i = 0 THEN GzipStart(d, data) ELSE GzipTurn(g[i - 1], max)
      OBVIOUS
    <3>1. CASE i = 0
      BY <2>2, <3>1
    <3>2. CASE i # 0
      <4>1. i - 1 \in 0..n
        BY <3>2
      <4>2. g[i - 1] = f[i - 1]
        BY <4>1
      <4>3. g[i] = GzipTurn(f[i - 1], max)
        BY <2>2, <3>2
      <4> QED
        BY <3>2, <4>2, <4>3
    <3> QED
      BY <3>1, <3>2
  <2>4. g = [i \in 0..n+1 |-> g[i]]
    OBVIOUS
  <2> HIDE DEF g
  <2>5. Rec(g, n + 1)
    BY <2>3, <2>4 DEF Rec
  <2> QED
    BY <2>5
<1> HIDE DEF Rec
<1>3. m \in T
  <2> HIDE DEF T
  <2> QED
    BY <1>1, <1>2, NatSetInduction
<1> QED
  BY <1>3 DEF Rec, Unrolled

LEMMA GzipLoopRuns ==
  ASSUME NEW d, NEW data, NEW max, NEW m \in Nat, m = Len(d.obj.unused) + Len(data) + 2
  PROVE  \E turn : Turns(turn, m, d, data, max) /\ GzipLoop(d, data, max) = turn[m]
<1> DEFINE f == CHOOSE turn : turn = [i \in 0..m |-> IF i = 0 THEN GzipStart(d, data)
                                                     ELSE GzipTurn(turn[i - 1], max)]
<1>1. f = [i \in 0..m |-> IF i = 0 THEN GzipStart(d, data) ELSE GzipTurn(f[i - 1], max)]
  <2>1. \E turn : Unrolled(turn, m, d, data, max)
    BY TurnsExist
  <2> QED
    BY <2>1, Zenon DEF Unrolled
<1>2. GzipLoop(d, data, max) = f[m]
  BY DEF GzipLoop
<1> HIDE DEF f
<1>3. \A i \in 0..m : f[i] = IF i = 0 THEN GzipStart(d, data) ELSE GzipTurn(f[i - 1], max)
  BY <1>1
<1>4. \A i \in 0..m-1 : f[i + 1] = GzipTurn(f[i], max)
  <2> SUFFICES ASSUME NEW i \in 0..m-1 PROVE f[i + 1] = GzipTurn(f[i], max)
    OBVIOUS
  <2>1. i + 1 \in 0..m /\ i + 1 # 0 /\ (i + 1) - 1 = i
    OBVIOUS
  <2>2. f[i + 1] = GzipTurn(f[(i + 1) - 1], max)
    BY <1>3, <2>1
  <2> QED
    BY <2>1, <2>2
<1>5. f[0] = GzipStart(d, data)
  BY <1>3
<1> QED
  BY <1>2, <1>4, <1>5 DEF Turns

LEMMA GzipLoopTyped ==
  ASSUME NEW d, DecOK(d), d.kind = "gzip", d.state # "swallow", NEW data \in Units,
         NEW max \in Int, max # 0
  PROVE  LoopOK(GzipLoop(d, data, max), max) /\ LoopKept(GzipLoop(d, data, max))
         /\ GzipLoop(d, data, max).over
<1> DEFINE m == Len(d.obj.unused) + Len(data) + 2
<1>1. Len(d.obj.unused) \in Nat /\ Len(data) \in Nat /\ d.obj.unused \in Units
  BY UnitsFacts DEF DecOK, ObjOK, Objs
<1>2. m \in Nat /\ m = Len(d.obj.unused) + Len(data) + 2
  BY <1>1
<1> HIDE DEF m
<1>3. PICK turn : Turns(turn, m, d, data, max) /\ GzipLoop(d, data, max) = turn[m]
  BY <1>2, GzipLoopRuns, SMTT(60)
<1> DEFINE P(i) == /\ LoopOK(turn[i], max)
                   /\ i > 0 => LoopKept(turn[i])
                   /\ i > 0 /\ ~turn[i].over => ~turn[i].dec.obj.eof /\ Len(turn[i].data) <= m - 1 - i
           T == {i \in Nat : i \in 0..m => P(i)}
<1>4. turn[0] = GzipStart(d, data)
  BY <1>3 DEF Turns
<1>5. GzipStart(d, data) = [dec |-> d, data |-> data, out |-> <<>>, over |-> FALSE, error |-> FALSE]
  BY DEF GzipStart
<1>6. LoopOK(turn[0], max)
  <2>1. d \in Decs /\ <<>> \in Bytes /\ Len(<<>>) = 0
    BY BytesFacts DEF DecOK
  <2> QED
    BY <1>4, <1>5, <2>1 DEF LoopOK, Loops
<1>7. LoopRoom(turn[0]) <= m - 2
  <2>1. turn[0].dec = d /\ turn[0].data = data
    BY <1>4, <1>5
  <2> QED
    BY <1>1, <1>2, <2>1 DEF LoopRoom
<1>8. 0 \in T
  BY <1>6
<1>9. ASSUME NEW i \in Nat, i \in T PROVE i + 1 \in T
  <2> SUFFICES ASSUME i + 1 \in 0..m PROVE P(i + 1)
    OBVIOUS
  <2>1. P(i) /\ turn[i + 1] = GzipTurn(turn[i], max)
    BY <1>2, <1>3, <1>9 DEF Turns
  <2>2. CASE turn[i].over
    <3>1. turn[i + 1] = turn[i]
      BY <2>1, <2>2 DEF GzipTurn
    <3>2. i > 0
      BY <1>4, <1>5, <2>2
    <3> QED
      BY <2>1, <2>2, <3>1, <3>2
  <2>3. CASE ~turn[i].over
    <3>1. /\ LoopOK(turn[i + 1], max) /\ LoopKept(turn[i + 1])
          /\ ~turn[i + 1].over => /\ ~turn[i + 1].dec.obj.eof
                                  /\ Len(turn[i + 1].data) <= LoopRoom(turn[i])
      <4>1. LoopOK(turn[i], max)
        BY <2>1
      <4> QED
        BY <2>1, <2>3, <4>1, GzipTurnKeeps
    <3>2. LoopRoom(turn[i]) <= m - 1 - (i + 1) /\ LoopRoom(turn[i]) \in Int
      <4>1. CASE i = 0
        <5>1. LoopRoom(turn[0]) \in Int
          BY <1>1, <1>4, <1>5 DEF LoopRoom
        <5> QED
          BY <1>2, <1>7, <4>1, <5>1
      <4>2. CASE i # 0
        <5>1. ~turn[i].dec.obj.eof /\ Len(turn[i].data) <= m - 1 - i
          BY <2>1, <2>3, <4>2
        <5>2. turn[i].data \in Units
          BY <2>1 DEF LoopOK, Loops
        <5>3. Len(turn[i].data) \in Nat
          BY <5>2, UnitsFacts
        <5>4. LoopRoom(turn[i]) = Len(turn[i].data) - 1
          BY <5>1 DEF LoopRoom
        <5> QED
          BY <1>2, <5>1, <5>3, <5>4
      <4> QED
        BY <4>1, <4>2
    <3>3. LoopOK(turn[i + 1], max) => Len(turn[i + 1].data) \in Nat
      <4>1. LoopOK(turn[i + 1], max) => turn[i + 1].data \in Units
        BY DEF LoopOK, Loops
      <4> QED
        BY <4>1, UnitsFacts
    <3> QED
      BY <1>2, <3>1, <3>2, <3>3, SMTT(60)
  <2> QED
    BY <2>2, <2>3
<1>10. P(m)
  <2>1. m \in T
    <3> HIDE DEF T
    <3> QED
      BY <1>2, <1>8, <1>9, NatSetInduction
  <2> QED
    BY <1>2, <2>1
<1>11. turn[m].over
  <2> SUFFICES ASSUME ~turn[m].over PROVE FALSE
    OBVIOUS
  <2>1. m > 0
    BY <1>1, <1>2
  <2>2. Len(turn[m].data) <= m - 1 - m
    BY <1>10, <2>1
  <2>3. turn[m].data \in Units
    BY <1>10 DEF LoopOK, Loops
  <2>4. Len(turn[m].data) \in Nat
    BY <2>3, UnitsFacts
  <2> QED
    BY <1>2, <2>2, <2>4, SMTT(60)
<1>12. m > 0
  BY <1>1, <1>2
<1> QED
  BY <1>3, <1>10, <1>11, <1>12

LoopSound(s, left, all, tr) ==
  ~s.error => Sound(s.dec, s.data \o left, tr) /\ all = s.out \o Held(s)

LEMMA GzipLoopConserves ==
  ASSUME NEW d, DecOK(d), d.kind = "gzip", d.state # "swallow", NEW data \in Units,
         NEW max \in Int, max # 0, NEW left \in Units, NEW tr, Sound(d, data \o left, tr),
         ~GzipLoop(d, data, max).error
  PROVE  /\ Sound(GzipLoop(d, data, max).dec, GzipLoop(d, data, max).data \o left, tr)
         /\ d.obj.inner \o Payload(data) = GzipLoop(d, data, max).out \o Held(GzipLoop(d, data, max))
<1> DEFINE m == Len(d.obj.unused) + Len(data) + 2
<1>1. Len(d.obj.unused) \in Nat /\ Len(data) \in Nat /\ d.obj.unused \in Units
  BY UnitsFacts DEF DecOK, ObjOK, Objs
<1>2. m \in Nat /\ m = Len(d.obj.unused) + Len(data) + 2
  BY <1>1
<1> HIDE DEF m
<1>3. PICK turn : Turns(turn, m, d, data, max) /\ GzipLoop(d, data, max) = turn[m]
  BY <1>2, GzipLoopRuns
<1> DEFINE all == d.obj.inner \o Payload(data)
           P(i) == LoopOK(turn[i], max) /\ LoopSound(turn[i], left, all, tr)
           T == {i \in Nat : i \in 0..m => P(i)}
<1>4. turn[0] = GzipStart(d, data)
  BY <1>3 DEF Turns
<1>5. GzipStart(d, data) = [dec |-> d, data |-> data, out |-> <<>>, over |-> FALSE, error |-> FALSE]
  BY DEF GzipStart
<1>6. LoopOK(turn[0], max)
  <2>1. d \in Decs /\ <<>> \in Bytes /\ Len(<<>>) = 0
    BY BytesFacts DEF DecOK
  <2> QED
    BY <1>4, <1>5, <2>1 DEF LoopOK, Loops
<1>7. all = turn[0].out \o Held(turn[0])
  <2>1. d.obj.inner \in Bytes /\ Payload(data) \in Bytes
    BY PayloadTyped DEF DecOK, ObjOK, Objs
  <2>2. turn[0].out = <<>> /\ Held(turn[0]) = all
    BY <1>4, <1>5 DEF Held
  <2>3. all \in Bytes
    BY <2>1, BytesFacts
  <2> HIDE DEF all
  <2> QED
    BY <2>2, <2>3, BytesFacts
<1> HIDE DEF all
<1>8. 0 \in T
  <2>1. turn[0].dec = d /\ turn[0].data = data
    BY <1>4, <1>5
  <2>2. Sound(turn[0].dec, turn[0].data \o left, tr)
    BY <2>1
  <2>3. LoopSound(turn[0], left, all, tr)
    BY <1>7, <2>2 DEF LoopSound
  <2> QED
    BY <1>6, <2>3
<1>9. ASSUME NEW i \in Nat, i \in T PROVE i + 1 \in T
  <2> SUFFICES ASSUME i + 1 \in 0..m PROVE P(i + 1)
    OBVIOUS
  <2>1. P(i) /\ turn[i + 1] = GzipTurn(turn[i], max)
    BY <1>2, <1>3, <1>9 DEF Turns
  <2>2. CASE turn[i].over
    <3>1. turn[i + 1] = turn[i]
      BY <2>1, <2>2 DEF GzipTurn
    <3> QED
      BY <2>1, <3>1
  <2>3. CASE ~turn[i].over
    <3>0. LoopOK(turn[i], max) /\ ~turn[i].error
      BY <2>1, <2>3 DEF LoopOK
    <3>1. /\ LoopOK(turn[i], max) /\ ~turn[i].error
          /\ Sound(turn[i].dec, turn[i].data \o left, tr) /\ all = turn[i].out \o Held(turn[i])
      BY <2>1, <3>0 DEF LoopSound
    <3>2. LoopOK(turn[i + 1], max)
      BY <2>1, <2>3, <3>1, GzipTurnKeeps
    <3>3. ASSUME ~turn[i + 1].error
          PROVE  /\ Sound(turn[i + 1].dec, turn[i + 1].data \o left, tr)
                 /\ turn[i].out \o Held(turn[i]) = turn[i + 1].out \o Held(turn[i + 1])
      BY <2>1, <2>3, <3>1, <3>3, GzipTurnConserves
    <3> QED
      BY <2>1, <3>1, <3>2, <3>3 DEF LoopSound
  <2> QED
    BY <2>2, <2>3
<1>10. P(m)
  <2>1. m \in T
    <3> HIDE DEF T
    <3> QED
      BY <1>2, <1>8, <1>9, NatSetInduction
  <2> QED
    BY <1>2, <2>1
<1> QED
  BY <1>3, <1>10 DEF LoopSound, all

------------------------------------------------------------------------------
(* decompress and _flush_decoder *)

\* What decompress(data, max) returns: at most max bytes, and less only when
\* the decoder has decoded all it has.
Decoded(d, data, max, r) ==
  /\ DecOK(r.dec) /\ r.dec.kind = d.kind /\ r.out \in Bytes /\ r.error \in BOOLEAN
  /\ max >= 0 => Len(r.out) <= max
  /\ ~r.error /\ (max < 0 \/ Len(r.out) < max) =>
       /\ Pending(r.dec) = <<>>
       /\ r.dec.state = "swallow" \/ r.dec.obj.tail = <<>>
       /\ r.dec.obj.inner = <<>> \/ (r.dec = d /\ Pending(d) = <<>> /\ data = <<>>)

\* ... and that nothing is lost or moved, when only "left" is still to come.
Conserved(d, data, left, r, tr) ==
  Sound(d, (Pending(d) \o data) \o left, tr) /\ ~r.error =>
    /\ Undelivered(d) \o Payload(data) = r.out \o Undelivered(r.dec)
    /\ Sound(r.dec, Pending(r.dec) \o left, tr)

LEMMA DecFacts ==
  ASSUME NEW d, DecOK(d)
  PROVE  /\ d \in Decs /\ ObjOK(d.obj) /\ d.obj \in Objs /\ d.kept \in Units
         /\ d.obj.inner \in Bytes /\ d.obj.tail \in Units /\ Pending(d) \in Units
         /\ Undelivered(d) = d.obj.inner \o Payload(Pending(d)) /\ Undelivered(d) \in Bytes
<1>1. /\ d \in Decs /\ ObjOK(d.obj) /\ d.obj \in Objs /\ d.kept \in Units
      /\ d.obj.inner \in Bytes /\ d.obj.tail \in Units
  BY DEF DecOK, ObjOK, Decs, Objs
<1>2. Pending(d) \in Units
  BY <1>1, UnitsFacts DEF Pending
<1>3. Undelivered(d) = d.obj.inner \o Payload(Pending(d))
  BY DEF Undelivered, Pending
<1> QED
  BY <1>1, <1>2, <1>3, PayloadTyped, BytesFacts

LEMMA UndeliveredWith ==
  ASSUME NEW d, DecOK(d), NEW data \in Units
  PROVE  Undelivered(d) \o Payload(data) = d.obj.inner \o Payload(Pending(d) \o data)
<1>1. d.obj.inner \in Bytes /\ Pending(d) \in Units /\ Undelivered(d) = d.obj.inner \o Payload(Pending(d))
  BY DecFacts
<1>2. Payload(Pending(d)) \in Bytes /\ Payload(data) \in Bytes
  BY <1>1, PayloadTyped
<1>3. (d.obj.inner \o Payload(Pending(d))) \o Payload(data)
        = d.obj.inner \o (Payload(Pending(d)) \o Payload(data))
  BY <1>1, <1>2, BytesAssoc
<1>4. Payload(Pending(d) \o data) = Payload(Pending(d)) \o Payload(data)
  BY <1>1, PayloadConcat
<1> QED
  BY <1>1, <1>3, <1>4

\* A decoder that is not asked: it keeps the data, or there is none.
LEMMA DecodesNothing ==
  ASSUME NEW d, DecOK(d), NEW data \in Units, NEW left \in Units, NEW tr,
         data = <<>> \/ d.state = "swallow"
  PROVE  Conserved(d, data, left, Returned(d, <<>>), tr)
<1> SUFFICES ASSUME Sound(d, (Pending(d) \o data) \o left, tr)
             PROVE  /\ Undelivered(d) \o Payload(data) = <<>> \o Undelivered(d)
                    /\ Sound(d, Pending(d) \o left, tr)
  BY DEF Conserved, Returned
<1>1. Pending(d) \in Units /\ Undelivered(d) \in Bytes
  BY DecFacts
<1>2. CASE data = <<>>
  BY <1>1, <1>2, PayloadEmpty, BytesFacts, UnitsFacts
<1>3. CASE d.state = "swallow"
  <2>1. Spent(d.obj) /\ Payload((Pending(d) \o data) \o left) = <<>>
    BY <1>3 DEF Sound, Over
  <2>2. Pending(d) \o data \in Units
    BY <1>1, UnitsFacts
  <2>3. Payload(Pending(d) \o data) = <<>> /\ Payload(left) = <<>>
    BY <2>1, <2>2, PayloadParts
  <2>4. Payload(Pending(d)) = <<>> /\ Payload(data) = <<>>
    BY <1>1, <2>3, PayloadParts
  <2>5. Payload(Pending(d) \o left) = <<>>
    BY <1>1, <2>3, <2>4, PayloadParts
  <2> QED
    BY <1>1, <1>3, <2>1, <2>4, <2>5, BytesFacts DEF Sound, Over
<1> QED
  BY <1>2, <1>3

LEMMA FedKeeps ==
  ASSUME NEW d, DecOK(d), d.state # "swallow", NEW data \in Units, NEW left \in Units, NEW tr
  PROVE  /\ DecOK(Fed(d, data)) /\ Fed(d, data).kind = d.kind
         /\ Conserved(d, data, left, Returned(Fed(d, data), <<>>), tr)
<1> DEFINE e == Fed(d, data)
<1>1. d \in Decs /\ ObjOK(d.obj) /\ d.kept \in Units /\ d.obj.tail \in Units /\ Pending(d) \in Units
  BY DecFacts
<1>2. d.kept \o data \in Units
  BY <1>1, UnitsFacts
<1>3. /\ e \in Decs /\ e.kind = d.kind /\ e.obj = d.obj /\ e.state = d.state
      /\ e.kept = d.kept \o data
  BY <1>1, <1>2 DEF Fed, Decs
<1> HIDE DEF e
<1>4. DecOK(e)
  BY <1>1, <1>3 DEF DecOK
<1>5. Pending(e) = Pending(d) \o data
  <2>1. (d.obj.tail \o d.kept) \o data = d.obj.tail \o (d.kept \o data)
    BY <1>1, UnitsAssoc, ZenonT(60)
  <2> QED
    BY <1>3, <2>1 DEF Pending
<1>6. Undelivered(e) \in Bytes /\ Undelivered(e) = e.obj.inner \o Payload(Pending(e))
  BY <1>4, DecFacts
<1>7. Undelivered(d) \o Payload(data) = d.obj.inner \o Payload(Pending(d) \o data)
  BY UndeliveredWith
<1>8. Undelivered(d) \o Payload(data) = <<>> \o Undelivered(e)
  BY <1>3, <1>5, <1>6, <1>7, BytesFacts
<1>9. ASSUME Sound(d, (Pending(d) \o data) \o left, tr)
      PROVE  Sound(e, Pending(e) \o left, tr)
  BY <1>3, <1>5, <1>9 DEF Sound, Over
<1>10. Conserved(d, data, left, Returned(e, <<>>), tr)
  BY <1>8, <1>9 DEF Conserved, Returned
<1> QED
  BY <1>3, <1>4, <1>10 DEF e

LEMMA GzipDecompressKeeps ==
  ASSUME NEW d, DecOK(d), d.kind = "gzip", NEW data \in Units, NEW max \in Int,
         NEW left \in Units, NEW tr
  PROVE  /\ Decoded(d, data, max, GzipDecompress(d, data, max))
         /\ Conserved(d, data, left, GzipDecompress(d, data, max), tr)
<1>1. /\ ObjOK(d.obj) /\ d.kept \in Units /\ d.obj.inner \in Bytes /\ Pending(d) = d.kept
  BY DecFacts DEF Pending
<1>2. CASE d.state = "swallow"
  <2>1. GzipDecompress(d, data, max) = Returned(d, <<>>)
    BY <1>2 DEF GzipDecompress
  <2>2. d.kept = <<>> /\ d.obj.inner = <<>>
    BY <1>2 DEF DecOK
  <2>3. Decoded(d, data, max, Returned(d, <<>>))
    BY <1>1, <1>2, <2>2, BytesFacts DEF Decoded, Returned
  <2> QED
    BY <1>2, <2>1, <2>3, DecodesNothing
<1>3. CASE d.state # "swallow" /\ max = 0
  <2>1. GzipDecompress(d, data, max) = Returned(Fed(d, data), <<>>)
    BY <1>3 DEF GzipDecompress
  <2>2. DecOK(Fed(d, data)) /\ Fed(d, data).kind = d.kind
        /\ Conserved(d, data, left, Returned(Fed(d, data), <<>>), tr)
    BY <1>3, FedKeeps
  <2>3. Decoded(d, data, max, Returned(Fed(d, data), <<>>))
    <3>1. <<>> \in Bytes /\ Len(<<>>) = 0
      BY BytesFacts
    <3> QED
      BY <1>3, <2>2, <3>1 DEF Decoded, Returned
  <2> QED
    BY <2>1, <2>2, <2>3
<1>4. CASE d.state # "swallow" /\ max # 0 /\ d.kept \o data = <<>> /\ d.obj.eof
  <2>1. GzipDecompress(d, data, max) = Returned(d, <<>>)
    BY <1>4 DEF GzipDecompress
  <2>2. d.kept = <<>> /\ data = <<>>
    <3>1. Len(d.kept) + Len(data) = 0
      BY <1>1, <1>4, UnitsFacts
    <3> QED
      BY <1>1, <3>1, UnitsFacts
  <2>3. d.obj.inner = <<>> /\ d.obj.tail = <<>>
    BY <1>1, <1>4 DEF ObjOK
  <2>4. Decoded(d, data, max, Returned(d, <<>>))
    BY <1>1, <2>2, <2>3, BytesFacts DEF Decoded, Returned
  <2> QED
    BY <2>1, <2>2, <2>4, DecodesNothing
<1>5. CASE d.state # "swallow" /\ max # 0 /\ ~(d.kept \o data = <<>> /\ d.obj.eof)
  <2> DEFINE all == d.kept \o data
             r == GzipLoop(d, all, max)
  <2>1. GzipDecompress(d, data, max) = r
    BY <1>5 DEF GzipDecompress
  <2>2. all \in Units
    BY <1>1, UnitsFacts
  <2>3. LoopOK(r, max) /\ LoopKept(r) /\ r.over
    BY <1>5, <2>2, GzipLoopTyped
  <2>4. Sound(d, all \o left, tr) /\ ~r.error =>
          /\ Sound(r.dec, r.data \o left, tr)
          /\ d.obj.inner \o Payload(all) = r.out \o Held(r)
    BY <1>5, <2>2, GzipLoopConserves
  <2> HIDE DEF r
  <2>5. /\ DecOK(r.dec) /\ r.dec.kind = "gzip" /\ r.out \in Bytes /\ r.error \in BOOLEAN
        /\ r.data \in Units
        /\ max > 0 => Len(r.out) <= max
        /\ \/ r.error \/ (max > 0 /\ Len(r.out) = max)
           \/ /\ r.dec.kept = <<>> /\ r.dec.obj.inner = <<>>
              /\ r.dec.state = "swallow" \/ r.dec.obj.tail = <<>>
    BY <2>3 DEF LoopOK, Loops
  <2>6. Decoded(d, data, max, r)
    <3>1. max >= 0 => Len(r.out) <= max
      BY <1>5, <2>5
    <3>2. ASSUME ~r.error, max < 0 \/ Len(r.out) < max
          PROVE  /\ r.dec.kept = <<>> /\ r.dec.obj.inner = <<>>
                 /\ r.dec.state = "swallow" \/ r.dec.obj.tail = <<>>
      <4>1. Len(r.out) \in Nat
        BY <2>5, BytesFacts
      <4>2. ~(max > 0 /\ Len(r.out) = max)
        BY <3>2, <4>1
      <4> QED
        BY <2>5, <3>2, <4>2
    <3> QED
      BY <2>5, <3>1, <3>2 DEF Decoded, Pending
  <2>7. Conserved(d, data, left, r, tr)
    <3> SUFFICES ASSUME Sound(d, all \o left, tr), ~r.error
                 PROVE  /\ Undelivered(d) \o Payload(data) = r.out \o Undelivered(r.dec)
                        /\ Sound(r.dec, Pending(r.dec) \o left, tr)
      BY <1>1 DEF Conserved
    <3>1. Sound(r.dec, r.data \o left, tr) /\ d.obj.inner \o Payload(all) = r.out \o Held(r)
      BY <2>4
    <3>2. Pending(r.dec) = r.dec.kept
      BY <2>5 DEF Pending
    <3>3. Undelivered(r.dec) = r.dec.obj.inner \o Payload(r.dec.kept)
      BY <2>5, <3>2, DecFacts
    <3>4. Undelivered(d) \o Payload(data) = r.out \o Held(r)
      BY <1>1, <3>1, UndeliveredWith, ZenonT(60)
    <3>5. CASE r.dec.kept = r.data
      BY <3>1, <3>2, <3>3, <3>4, <3>5 DEF Held
    <3>6. CASE r.dec.state = "swallow"
      <4>1. Spent(r.dec.obj) /\ Payload(r.data \o left) = <<>>
        BY <3>1, <3>6 DEF Sound, Over
      <4>2. Payload(r.data) = <<>> /\ Payload(left) = <<>>
        BY <2>5, <4>1, PayloadParts
      <4>3. r.dec.kept = <<>>
        BY <2>5, <3>6 DEF DecOK
      <4>4. Payload(r.dec.kept) = <<>> /\ <<>> \o left = left
        BY <4>3, PayloadEmpty, UnitsFacts
      <4>5. Sound(r.dec, Pending(r.dec) \o left, tr)
        BY <3>2, <3>6, <4>1, <4>2, <4>3, <4>4 DEF Sound, Over
      <4>6. Held(r) = Undelivered(r.dec)
        BY <3>3, <4>2, <4>4 DEF Held
      <4> QED
        BY <3>4, <4>5, <4>6
    <3> QED
      BY <2>3, <3>5, <3>6 DEF LoopKept
  <2> QED
    BY <2>1, <2>6, <2>7
<1> QED
  BY <1>2, <1>3, <1>4, <1>5

LEMMA DeflateDecompressKeeps ==
  ASSUME NEW d, DecOK(d), d.kind # "gzip", NEW data \in Units, NEW max \in Int,
         NEW left \in Units, NEW tr
  PROVE  /\ Decoded(d, data, max, DeflateDecompress(d, data, max))
         /\ Conserved(d, data, left, DeflateDecompress(d, data, max), tr)
<1>1. /\ d \in Decs /\ ObjOK(d.obj) /\ d.kept \in Units /\ d.obj.tail \in Units
      /\ d.obj.inner \in Bytes /\ Pending(d) = d.obj.tail \o d.kept /\ d.state = "first"
      /\ Pending(d) \in Units
  BY DecFacts DEF Pending, DecOK
<1>2. CASE d.kept \o data = <<>> /\ d.obj.tail = <<>>
  <2>1. DeflateDecompress(d, data, max) = Returned(d, <<>>)
    BY <1>2 DEF DeflateDecompress
  <2>2. d.kept = <<>> /\ data = <<>>
    <3>1. Len(d.kept) + Len(data) = 0
      BY <1>1, <1>2, UnitsFacts
    <3> QED
      BY <1>1, <3>1, UnitsFacts
  <2>3. Pending(d) = <<>>
    BY <1>1, <1>2, <2>2, UnitsFacts
  <2>4. Decoded(d, data, max, Returned(d, <<>>))
    BY <1>2, <2>2, <2>3, BytesFacts DEF Decoded, Returned
  <2> QED
    BY <2>1, <2>2, <2>4, DecodesNothing
<1>3. CASE ~(d.kept \o data = <<>> /\ d.obj.tail = <<>>) /\ max = 0
  <2>1. DeflateDecompress(d, data, max) = Returned(Fed(d, data), <<>>)
    BY <1>3 DEF DeflateDecompress
  <2>2. DecOK(Fed(d, data)) /\ Fed(d, data).kind = d.kind
        /\ Conserved(d, data, left, Returned(Fed(d, data), <<>>), tr)
    BY <1>1, FedKeeps
  <2>3. Decoded(d, data, max, Returned(Fed(d, data), <<>>))
    <3>1. <<>> \in Bytes /\ Len(<<>>) = 0
      BY BytesFacts
    <3> QED
      BY <1>3, <2>2, <3>1 DEF Decoded, Returned
  <2> QED
    BY <2>1, <2>2, <2>3
<1>4. CASE ~(d.kept \o data = <<>> /\ d.obj.tail = <<>>) /\ max # 0
  <2> DEFINE all == Pending(d) \o data
             limit == IF max < 0 THEN 0 ELSE max
             r == Inflate(d.obj, all, limit)
             e == [[d EXCEPT !.kept = <<>>] EXCEPT !.obj = r.obj]
             w == DeflateDecompress(d, data, max)
  <2>1. w = [dec |-> e, out |-> r.out, error |-> r.error]
    <3>1. w = WithObj([d EXCEPT !.kept = <<>>], r)
      BY <1>1, <1>4 DEF DeflateDecompress
    <3> QED
      BY <3>1 DEF WithObj, Result
  <2>2. all \in Units
    BY <1>1, UnitsFacts
  <2>3. limit \in Nat /\ (max < 0 => limit = 0) /\ (max >= 0 => limit = max /\ limit > 0)
    BY <1>4
  <2> HIDE DEF limit, all
  <2>4. /\ ObjOK(r.obj) /\ r.out \in Bytes /\ r.error \in BOOLEAN
        /\ Rest(r.obj) \in Units
        /\ limit > 0 => Len(r.out) <= limit
        /\ ~r.error /\ (limit = 0 \/ Len(r.out) < limit) =>
             r.obj.inner = <<>> /\ (Rest(r.obj) = <<>> \/ r.obj.eof)
    BY <1>1, <2>2, <2>3, InflateTyped
  <2>5. r.obj \in Objs /\ r.obj.tail \in Units /\ r.obj.inner \in Bytes
    BY <2>4 DEF ObjOK, Objs
  <2>6. /\ e \in Decs /\ e.kind = d.kind /\ e.obj = r.obj /\ e.kept = <<>>
        /\ e.state = d.state
    BY <1>1, <2>5, UnitsFacts DEF Decs
  <2>7. Spent(d.obj) /\ Payload(all) = <<>> =>
          Spent(r.obj) /\ r.out = <<>> /\ Payload(Rest(r.obj)) = <<>>
    BY <1>1, <2>2, <2>3, InflateSpent
  <2>8. d.obj.eof => r.obj.eof
    <3>1. \A z : ObjOK(z) /\ z.eof => Inflate(z, all, limit).obj.eof = TRUE
      BY <2>2, <2>3, InflateAfterEnd
    <3> QED
      BY <1>1, <3>1
  <2>9. ~d.obj.eof /\ Tidy(all \o left, tr) /\ ~r.error =>
          /\ d.obj.inner \o Payload(all) = r.out \o (r.obj.inner \o Payload(Rest(r.obj)))
          /\ ~r.obj.eof => Tidy(Rest(r.obj) \o left, tr)
          /\ r.obj.eof => Spent(r.obj) /\ Payload(Rest(r.obj) \o left) = <<>>
    <3> SUFFICES ASSUME ~d.obj.eof, Tidy(all \o left, tr), ~r.error
                 PROVE  /\ d.obj.inner \o Payload(all) = r.out \o (r.obj.inner \o Payload(Rest(r.obj)))
                        /\ ~r.obj.eof => Tidy(Rest(r.obj) \o left, tr)
                        /\ r.obj.eof => Spent(r.obj) /\ Payload(Rest(r.obj) \o left) = <<>>
      OBVIOUS
    <3>1. KeepsOrder(d.obj, all, left, tr, r)
      BY <1>1, <2>2, <2>3, InflateKeepsOrder
    <3> QED
      BY <3>1 DEF KeepsOrder
  <2>10. Undelivered(d) \o Payload(data) = d.obj.inner \o Payload(all)
    BY UndeliveredWith DEF all
  <2> HIDE DEF r, e
  <2>11. Pending(e) = r.obj.tail
    BY <1>4, <2>5, <2>6, UnitsFacts DEF Pending
  <2>12. DecOK(e)
    BY <1>1, <2>4, <2>6 DEF DecOK
  <2>13. Undelivered(e) = r.obj.inner \o Payload(r.obj.tail)
    BY <2>6, <2>11, <2>12, DecFacts
  <2>14. w.dec = e /\ w.out = r.out /\ w.error = r.error
    BY <2>1
  <2> HIDE DEF w
  <2>15. Decoded(d, data, max, w)
    <3>1. max >= 0 => Len(r.out) <= max
      BY <2>3, <2>4
    <3>2. ASSUME ~r.error, max < 0 \/ Len(r.out) < max
          PROVE  r.obj.tail = <<>> /\ r.obj.inner = <<>>
      <4>1. limit = 0 \/ Len(r.out) < limit
        <5>1. Len(r.out) \in Nat
          BY <2>4, BytesFacts
        <5> QED
          BY <2>3, <3>2, <5>1
      <4>2. r.obj.inner = <<>> /\ (Rest(r.obj) = <<>> \/ r.obj.eof)
        BY <2>4, <3>2, <4>1
      <4> QED
        BY <2>4, <4>2 DEF ObjOK, Rest
    <3> QED
      BY <2>4, <2>6, <2>11, <2>12, <2>14, <3>1, <3>2 DEF Decoded
  <2>16. Conserved(d, data, left, w, tr)
    <3> SUFFICES ASSUME Sound(d, all \o left, tr), ~r.error
                 PROVE  /\ Undelivered(d) \o Payload(data) = r.out \o Undelivered(e)
                        /\ Sound(e, Pending(e) \o left, tr)
      BY <2>14 DEF Conserved, all
    <3>1. CASE d.obj.eof
      <4>1. Spent(d.obj) /\ Payload(all \o left) = <<>>
        BY <3>1 DEF Sound, Over
      <4>2. Payload(all) = <<>> /\ Payload(left) = <<>>
        BY <2>2, <4>1, PayloadParts
      <4>3. Spent(r.obj) /\ r.out = <<>>
        BY <2>7, <4>1, <4>2
      <4>4. Payload(r.obj.tail) = <<>> /\ r.obj.inner = <<>>
        BY <4>3 DEF Spent
      <4>5. Payload(Pending(e) \o left) = <<>>
        BY <2>5, <2>11, <4>2, <4>4, PayloadParts
      <4>6. Sound(e, Pending(e) \o left, tr)
        BY <2>6, <2>8, <3>1, <4>3, <4>5 DEF Sound, Over
      <4>7. d.obj.inner \o Payload(all) = <<>> /\ r.out \o Undelivered(e) = <<>>
        BY <2>13, <4>1, <4>2, <4>3, <4>4, BytesFacts DEF Spent
      <4> QED
        BY <2>10, <4>6, <4>7
    <3>2. CASE ~d.obj.eof
      <4>1. Tidy(all \o left, tr)
        BY <1>1, <3>2 DEF Sound, Over
      <4>2. /\ d.obj.inner \o Payload(all) = r.out \o (r.obj.inner \o Payload(Rest(r.obj)))
            /\ ~r.obj.eof => Tidy(Rest(r.obj) \o left, tr)
            /\ r.obj.eof => Spent(r.obj) /\ Payload(Rest(r.obj) \o left) = <<>>
        BY <2>9, <3>2, <4>1
      <4>3. CASE r.obj.eof
        <5>1. Payload(Rest(r.obj)) = <<>> /\ Payload(left) = <<>> /\ Payload(r.obj.tail) = <<>>
          BY <2>4, <4>2, <4>3, PayloadParts DEF Spent
        <5>2. Payload(Pending(e) \o left) = <<>>
          BY <2>5, <2>11, <5>1, PayloadParts
        <5> QED
          BY <2>6, <2>10, <2>13, <4>2, <4>3, <5>1, <5>2 DEF Sound, Over
      <4>4. CASE ~r.obj.eof
        <5>1. Rest(r.obj) = r.obj.tail
          BY <2>4, <4>4 DEF ObjOK, Rest
        <5>2. ~Over(e)
          BY <1>1, <2>6, <4>4 DEF Over
        <5> QED
          BY <2>10, <2>11, <2>13, <4>2, <4>4, <5>1, <5>2 DEF Sound
      <4> QED
        BY <4>3, <4>4
    <3> QED
      BY <3>1, <3>2
  <2> QED
    BY <2>15, <2>16 DEF w
<1> QED
  BY <1>2, <1>3, <1>4

LEMMA DecompressKeeps ==
  ASSUME NEW d, DecOK(d), NEW data \in Units, NEW max \in Int, NEW left \in Units, NEW tr
  PROVE  /\ Decoded(d, data, max, Decompress(d, data, max))
         /\ Conserved(d, data, left, Decompress(d, data, max), tr)
<1>1. CASE d.kind = "gzip"
  BY <1>1, GzipDecompressKeeps DEF Decompress
<1>2. CASE d.kind # "gzip"
  BY <1>2, DeflateDecompressKeeps DEF Decompress
<1> QED
  BY <1>1, <1>2

LEMMA InflateNothing ==
  ASSUME NEW z, ObjOK(z), ~z.eof
  PROVE  LET i == Inflate(z, <<>>, 0)
         IN  ~i.error /\ Rest(i.obj) = <<>> /\ ~i.obj.eof /\ z.inner = i.out
<1> DEFINE i == Inflate(z, <<>>, 0)
           k == Consumed(z, <<>>, 0)
<1>1. Inflated(z, <<>>, 0, i, k)
  BY InflateKeeps, UnitsFacts
<1> SUFFICES ~i.error /\ Rest(i.obj) = <<>> /\ ~i.obj.eof /\ z.inner = i.out
  OBVIOUS
<1> HIDE DEF i, k
<1>2. k = 0
  BY <1>1 DEF Inflated
<1>3. ~i.error /\ ObjOK(i.obj) /\ i.out \in Bytes
  BY <1>1, <1>2 DEF Inflated
<1>4. /\ z.inner \o Payload(Take(<<>>, k)) = i.out \o i.obj.inner
      /\ Rest(i.obj) = Drop(<<>>, k) /\ i.obj.inner = <<>> /\ ~i.obj.eof
  <2>1. ~i.error => /\ z.inner \o Payload(Take(<<>>, k)) = i.out \o i.obj.inner
                    /\ Rest(i.obj) = Drop(<<>>, k) /\ i.obj.inner = <<>>
    BY <1>1 DEF Inflated
  <2>2. ~i.error => (i.obj.eof <=> k > 0 /\ <<>>[k] = End)
    BY <1>1, Zenon DEF Inflated
  <2>3. ~(k > 0)
    BY <1>2
  <2>4. ~i.obj.eof
    BY <1>3, <2>2, <2>3, Zenon
  <2> QED
    BY <1>3, <2>1, <2>4, Zenon
<1>5. Take(<<>>, k) = <<>> /\ Drop(<<>>, k) = <<>>
  BY <1>2 DEF Take, Drop
<1>6. z.inner \o <<>> = i.out \o <<>>
  BY <1>4, <1>5, PayloadEmpty
<1>7. z.inner \in Bytes
  BY DEF ObjOK, Objs
<1> QED
  BY <1>3, <1>4, <1>5, <1>6, <1>7, BytesFacts

\* _flush_decoder leaves nothing behind.
LEMMA FlushKeeps ==
  ASSUME NEW d, DecOK(d), NEW left \in Units, NEW tr
  PROVE  LET f == FlushDecoder(d)
         IN  /\ f = [dec |-> f.dec, out |-> f.out, error |-> f.error]
             /\ DecOK(f.dec) /\ f.dec.kind = d.kind /\ f.out \in Bytes /\ f.error \in BOOLEAN
             /\ ~f.error => Pending(f.dec) = <<>> /\ f.dec.obj.inner = <<>>
             /\ Conserved(d, <<>>, left, f, tr)
<1> DEFINE q == Decompress(d, <<>>, -1)
           z == q.dec.obj
           i == Inflate(z, z.tail, 0)
           e == [q.dec EXCEPT !.obj = i.obj]
           f == FlushDecoder(d)
<1>1. <<>> \in Units /\ -1 \in Int
  BY UnitsFacts
<1>2. Decoded(d, <<>>, -1, q) /\ Conserved(d, <<>>, left, q, tr)
  BY <1>1, DecompressKeeps
<1>3. DecOK(q.dec) /\ q.dec.kind = d.kind /\ q.out \in Bytes /\ q.error \in BOOLEAN
  BY <1>2 DEF Decoded
<1>4. ~q.error => Pending(q.dec) = <<>> /\ (q.dec.state = "swallow" \/ z.tail = <<>>)
  BY <1>2 DEF Decoded
<1>5. /\ q.dec \in Decs /\ ObjOK(z) /\ z.tail \in Units /\ z.inner \in Bytes
      /\ Pending(q.dec) \in Units
      /\ Undelivered(q.dec) = z.inner \o Payload(Pending(q.dec)) /\ Undelivered(q.dec) \in Bytes
  BY <1>3, DecFacts
<1>6. f = [dec |-> e, out |-> q.out \o i.out, error |-> q.error]
  <2>1. i = [obj |-> i.obj, out |-> i.out, error |-> i.error]
    BY <1>5, InflateTyped
  <2> DEFINE j == [i EXCEPT !.out = q.out \o @, !.error = q.error]
  <2>2. f = WithObj(q.dec, j)
    BY DEF FlushDecoder, FlushObj
  <2> HIDE DEF i, q, e
  <2>3. j.obj = i.obj /\ j.out = q.out \o i.out /\ j.error = q.error
    BY <2>1
  <2> HIDE DEF j
  <2> QED
    BY <2>2, <2>3 DEF WithObj, Result, e
<1>7. /\ ObjOK(i.obj) /\ i.out \in Bytes /\ Rest(i.obj) \in Units
      /\ i.error => i.out = <<>> /\ i.obj.inner = <<>>
      /\ ~i.error => i.obj.inner = <<>> /\ (Rest(i.obj) = <<>> \/ i.obj.eof)
  BY <1>5, InflateTyped
<1>8. z.tail = <<>> /\ ~z.eof =>
        ~i.error /\ Rest(i.obj) = <<>> /\ ~i.obj.eof /\ z.inner = i.out
  <2> HIDE DEF z
  <2> SUFFICES ASSUME z.tail = <<>>, ~z.eof
               PROVE  ~i.error /\ Rest(i.obj) = <<>> /\ ~i.obj.eof /\ z.inner = i.out
    OBVIOUS
  <2> QED
    BY <1>5, InflateNothing
<1>9. Spent(z) => Spent(i.obj) /\ i.out = <<>>
  BY <1>5, InflateSpent DEF Spent
<1>10. z.eof => i.obj.eof
  <2>1. \A y : ObjOK(y) /\ y.eof => Inflate(y, z.tail, 0).obj.eof = TRUE
    BY <1>5, InflateAfterEnd
  <2> QED
    BY <1>5, <2>1
<1> HIDE DEF q, i
<1>12. /\ e \in Decs /\ e.kind = d.kind /\ e.obj = i.obj /\ e.kept = q.dec.kept
       /\ e.state = q.dec.state
  BY <1>3, <1>5, <1>7 DEF Decs, ObjOK
<1> HIDE DEF e
<1>13. DecOK(e)
  BY <1>3, <1>7, <1>12 DEF DecOK
<1>14. Pending(q.dec) = <<>> => q.dec.kept = <<>>
  <2> SUFFICES ASSUME Pending(q.dec) = <<>>, q.dec.kind # "gzip" PROVE q.dec.kept = <<>>
    BY DEF Pending
  <2>1. q.dec.kept \in Units /\ z.tail \in Units
    BY <1>3, DecFacts
  <2>2. Len(z.tail) + Len(q.dec.kept) = 0
    BY <2>1, UnitsFacts DEF Pending
  <2>3. Len(z.tail) \in Nat /\ Len(q.dec.kept) \in Nat
    BY <2>1, UnitsFacts
  <2> HIDE DEF z
  <2>5. \A m, n \in Nat : m + n = 0 => n = 0
    OBVIOUS
  <2>4. Len(q.dec.kept) = 0
    BY <2>2, <2>3, <2>5, Zenon
  <2> QED
    BY <2>1, <2>4, UnitsFacts
<1>15. ~q.error => Pending(e) = <<>>
  <2> SUFFICES ASSUME ~q.error PROVE Pending(e) = <<>>
    OBVIOUS
  <2>1. e.kept = <<>>
    BY <1>4, <1>12, <1>14
  <2>2. CASE e.kind = "gzip"
    BY <2>1, <2>2 DEF Pending
  <2>3. CASE e.kind # "gzip"
    <3>1. q.dec.state = "first"
      BY <1>3, <1>12, <2>3 DEF DecOK
    <3>2. z.tail = <<>>
      BY <1>4, <3>1
    <3>3. i.obj.tail = <<>>
      <4>1. CASE z.eof
        BY <1>7, <1>10, <4>1 DEF ObjOK
      <4>2. CASE ~z.eof
        BY <1>8, <3>2, <4>2 DEF Rest
      <4> QED
        BY <4>1, <4>2
    <3> QED
      BY <1>12, <2>1, <2>3, <3>3, UnitsFacts DEF Pending
  <2> QED
    BY <2>2, <2>3
<1>16. i.obj.inner = <<>>
  BY <1>7
<1>17. Undelivered(e) = e.obj.inner \o Payload(Pending(e)) /\ Undelivered(e) \in Bytes
  BY <1>13, DecFacts
<1> HIDE DEF f
<1>18. f.dec = e /\ f.out = q.out \o i.out /\ f.error = q.error
  BY <1>6
<1>19. f = [dec |-> f.dec, out |-> f.out, error |-> f.error]
  BY <1>6
<1> SUFFICES /\ f = [dec |-> f.dec, out |-> f.out, error |-> f.error]
             /\ DecOK(f.dec) /\ f.dec.kind = d.kind /\ f.out \in Bytes /\ f.error \in BOOLEAN
             /\ ~f.error => Pending(f.dec) = <<>> /\ f.dec.obj.inner = <<>>
             /\ Conserved(d, <<>>, left, f, tr)
  BY DEF f
<1> HIDE DEF z
<1>20. q.out \o i.out \in Bytes
  BY <1>3, <1>7, BytesFacts
<1>21. Conserved(d, <<>>, left, f, tr)
  <2> SUFFICES ASSUME Sound(d, (Pending(d) \o <<>>) \o left, tr), ~q.error
               PROVE  /\ Undelivered(d) \o Payload(<<>>) = f.out \o Undelivered(e)
                      /\ Sound(e, Pending(e) \o left, tr)
    BY <1>18 DEF Conserved
  <2>1. /\ Undelivered(d) \o Payload(<<>>) = q.out \o Undelivered(q.dec)
        /\ Sound(q.dec, Pending(q.dec) \o left, tr)
    BY <1>2 DEF Conserved
  <2>2. Pending(q.dec) = <<>> /\ Pending(e) = <<>> /\ <<>> \o left = left
    BY <1>4, <1>15, UnitsFacts
  <2>3. Undelivered(q.dec) = z.inner /\ Undelivered(e) = <<>>
    BY <1>5, <1>12, <1>16, <1>17, <2>2, PayloadEmpty, BytesFacts
  <2>4. z = q.dec.obj
    BY DEF z
  <2>5. z.inner = i.out /\ Sound(e, left, tr)
    <3>1. CASE Over(q.dec)
      <4>1. Spent(z) /\ Payload(left) = <<>>
        BY <2>1, <2>2, <2>4, <3>1 DEF Sound
      <4>2. Spent(i.obj) /\ i.out = <<>> /\ z.inner = <<>>
        BY <1>9, <4>1 DEF Spent
      <4>3. Over(e)
        BY <1>10, <1>12, <2>4, <3>1 DEF Over
      <4> QED
        BY <1>12, <4>1, <4>2, <4>3 DEF Sound
    <3>2. CASE ~Over(q.dec)
      <4>1. ~z.eof /\ q.dec.state = "first" /\ z.tail = <<>> /\ Tidy(left, tr)
        BY <1>4, <2>1, <2>2, <2>4, <3>2 DEF Sound, Over
      <4>2. Rest(i.obj) = <<>> /\ ~i.obj.eof
        BY <1>8, <4>1
      <4>3. z.inner = i.out
        BY <1>8, <4>1
      <4> QED
        BY <1>12, <4>1, <4>2, <4>3 DEF Sound, Over
    <3> QED
      BY <3>1, <3>2
  <2>6. f.out \o Undelivered(e) = q.out \o z.inner
    BY <1>18, <1>20, <2>3, <2>5, BytesFacts
  <2> QED
    BY <2>1, <2>2, <2>3, <2>5, <2>6
<1> QED
  BY <1>3, <1>12, <1>13, <1>15, <1>16, <1>18, <1>19, <1>20, <1>21

------------------------------------------------------------------------------
(* The response: its inductive invariants *)

\* What the user may have done or met, the calls, and how they end.
Amounts == (Nat \ {0}) \cup {All}
Marks   == {"failed", "closed", "drained", "released", "skipped", "unreported",
            "whole", "chunks"}
Calls   == [op : {"none", "read", "stream", "read1", "chunks"}, amt : Amounts,
            phase : {"idle", "fetch", "next", "fetch1", "turn"},
            first : BOOLEAN, odd : BOOLEAN]
Answers == [op : {"none", "read", "stream", "read1", "chunks"}, asked : Amounts,
            got : Nat, raised : BOOLEAN]

TakenWhole  == "whole" \in marks
TakenInChunks == "chunks" \in marks

\* The file and the connection.
FileTypes ==
  /\ shape \in Shapes
  /\ fp \in [state : {"open", "ended", "closed"}, left : Units,
             length : Nat \cup {NoLength}]
  /\ remaining \in Int \cup {NoLength}
  /\ conn \in {"held", "returned", "none"} /\ sock \in {"open", "closed"}
  /\ marks \subseteq Marks

\* http.client counts what the response counts.
Lengths ==
  /\ IF Http THEN remaining = fp.length /\ conn # "none"
             ELSE fp.length = NoLength /\ conn = "none"
  /\ fp.length # NoLength => ~Chunked /\ Len(fp.left) <= fp.length
  /\ shape.empty => fp.left = <<>>

\* What is left of a chunked body is no more than the sizes still to come say.
InChunks ==
  /\ chunkLeft \in Nat \cup {NoLength} /\ sizes \in Seq(Nat)
  /\ chunkLeft = 0 => fp.left = <<>> /\ fp.state # "open"
  /\ Chunked => \E k \in 0..Len(shape.chunks) :
       /\ sizes = Drop(shape.chunks, k)
       /\ Len(fp.left) + Announced(shape.chunks)[k]
            <= Announced(shape.chunks)[Len(shape.chunks)]
               + (IF chunkLeft = NoLength THEN 0 ELSE chunkLeft)

Released == "released" \in marks

\* A file that is not open any more has nothing left, or its connection is
\* closed; the same when the connection has gone back.
Finished ==
  /\ conn = "returned" => sock = "closed" \/ fp.left = <<>> \/ Released
  /\ Http /\ fp.state # "open" => sock = "closed" \/ fp.left = <<>> \/ Released

FileInv == FileTypes /\ Lengths /\ InChunks /\ Finished

\* The decoder, the buffer and the call in progress.
CallTypes ==
  /\ DecOK(dec) /\ dec.kind = shape.enc /\ hasDecoded \in BOOLEAN
  /\ BufferOK(buf) /\ delivered \in Bytes
  /\ call \in Calls /\ answer \in Answers

\* A chunked body is read whole or in chunks.
Ways ==
  /\ Chunked => ~(TakenWhole /\ TakenInChunks)
  /\ call.phase = "idle" => call = Idle
  /\ call.phase = "fetch" => call.op \in {"read", "stream"} /\ call.amt # All
                             /\ buf.size < call.amt /\ (call.op = "stream" => ~Chunked)
  /\ call.phase = "fetch1" => call.op = "read1"
  /\ call.phase = "next" => call.op = "stream" /\ call.amt # All /\ ~Chunked
  /\ call.phase = "turn" => call.op = "chunks" /\ Chunked /\ TakenInChunks
                            /\ fp.state = "open" /\ ~shape.empty
  /\ call.phase \in {"fetch", "fetch1"} /\ Chunked => ~TakenInChunks

CallInv == CallTypes /\ Ways

TypesInv == FileInv /\ CallInv

\* The bodies that the promises are about.  A decoder stops after a member, and
\* only the trailer tells it, or the length tells the file, where to stop.
OneMember(s) == s.enc # "identity" /\ s.decode => Tidy(s.wire, FALSE)

\* The file cannot be read to its end: less comes than the framing announces.
CutShort(s) ==
  /\ ~s.empty
  /\ IF s.chunks # <<>> THEN Last(s.chunks) # 0
     ELSE s.length # NoLength /\ Len(s.wire) < s.length

\* The decoder is told where to stop, unless the file stops before.
HasTrailer(s) ==
  s.enc \in {"gzip", "zlib"} /\ s.wire # <<>> /\ ~CutShort(s) =>
    \E i \in 1..Len(s.wire) : s.wire[i] = End

NoExcess(s) == s.chunks = <<>> /\ s.length # NoLength => Len(s.wire) <= s.length

Regular(s) == OneMember(s) /\ HasTrailer(s) /\ NoExcess(s)

\* Nothing is lost or moved.
Decoding == HasDecoder /\ shape.decode
Trailed  == \E i \in 1..Len(shape.wire) : shape.wire[i] = End

InOrder == ((delivered \o Contents(buf)) \o Undelivered(dec)) \o Payload(fp.left) = Body

\* The decoder has come as far as the file: what is pending and left is tidy.
InStep(d, u) ==
  IF Decoding THEN Sound(d, u, Trailed) ELSE d = NewDecoder(shape.enc)

Unbuffered ==
  /\ ~shape.decode => buf.size = 0
  /\ Chunked /\ ~TakenWhole => buf.size = 0
  /\ Chunked /\ ~TakenWhole /\ ~TakenInChunks => dec = NewDecoder(shape.enc)

Order == InOrder /\ InStep(dec, Pending(dec) \o fp.left) /\ Unbuffered

OrderInv == OneMember(shape) /\ Intact => Order

\* The file: where it has ended nothing is left of it and nothing is missing;
\* remaining counts; and what is not decoded is left byte by byte.
OneByOne(u) == \A i \in 1..Len(u) : Len(u[i]) = 1 /\ u[i] # Junk

Ended ==
  fp.state # "open" =>
    fp.left = <<>> /\ remaining \in {0, NoLength} /\ (Chunked /\ ~shape.empty => Whole)

Counted ==
  /\ remaining = NoLength <=> InitLength(shape) = NoLength
  /\ remaining # NoLength =>
       /\ Len(fp.left) <= remaining
       /\ remaining = (InitLength(shape) - Len(shape.wire)) + Len(fp.left)

Counts == Ended /\ Counted /\ (~Decoding => OneByOne(fp.left))

\* A body read in chunks to its end has left the decoder.
Drained == fp.state # "open" /\ Chunked /\ ~TakenWhole => Undelivered(dec) = <<>>

\* Decoding stays behind the reader.
Trailing == shape.enc \in {"gzip", "zlib"}

Behind ==
  /\ call.phase # "fetch" => buf.size = 0
  /\ call.phase \in {"fetch", "fetch1"} => Pending(dec) = <<>>
  /\ Pending(dec) # <<>> => hasDecoded

\* The end, once the user has been told of it.
Complete ==
  /\ delivered = Body
  /\ shape.empty \/ InitLength(shape) = NoLength \/ Len(shape.wire) >= InitLength(shape)
  /\ shape.empty \/ ~Chunked \/ Whole

Told == SaidOver /\ call = Idle /\ shape.enc # "raw" /\ (shape.decode \/ answer.got = 0)

PromisesInv ==
  Regular(shape) /\ Intact =>
    Counts /\ Drained /\ (Trailing => Behind) /\ (Told => Complete)
------------------------------------------------------------------------------
(* The file *)

\* The recursive function that Announced is exists, up to any number of chunks.
Sums(upto, n, chunks) ==
  upto = [i \in 0..n |-> IF i = 0 THEN 0 ELSE upto[i - 1] + chunks[i]]

LEMMA SumsExist ==
  ASSUME NEW chunks, NEW m \in Nat
  PROVE  \E upto : Sums(upto, m, chunks)
<1> DEFINE T == {n \in Nat : \E f : Sums(f, n, chunks)}
<1>1. 0 \in T
  <2> DEFINE f == [i \in 0..0 |-> 0]
  <2>1. Sums(f, 0, chunks)
    BY DEF Sums
  <2> QED
    BY <2>1
<1>2. ASSUME NEW n \in Nat, n \in T PROVE n + 1 \in T
  <2>1. PICK f : Sums(f, n, chunks)
    BY <1>2
  <2> DEFINE g == [i \in 0..n+1 |-> IF i \in 0..n THEN f[i] ELSE f[i - 1] + chunks[i]]
  <2>2. \A i \in 0..n : f[i] = IF i = 0 THEN 0 ELSE f[i - 1] + chunks[i]
    BY <2>1 DEF Sums
  <2>3. \A i \in 0..n+1 : g[i] = IF i = 0 THEN 0 ELSE g[i - 1] + chunks[i]
    <3> SUFFICES ASSUME NEW i \in 0..n+1
                 PROVE  g[i] = IF i = 0 THEN 0 ELSE g[i - 1] + chunks[i]
      OBVIOUS
    <3>1. CASE i = 0
      BY <2>2, <3>1
    <3>2. CASE i # 0
      <4>1. i - 1 \in 0..n
        BY <3>2
      <4>2. g[i - 1] = f[i - 1]
        BY <4>1
      <4>3. g[i] = f[i - 1] + chunks[i]
        BY <2>2, <3>2
      <4> QED
        BY <3>2, <4>2, <4>3
    <3> QED
      BY <3>1, <3>2
  <2>4. g = [i \in 0..n+1 |-> g[i]]
    OBVIOUS
  <2> HIDE DEF g
  <2>5. Sums(g, n + 1, chunks)
    BY <2>3, <2>4 DEF Sums
  <2> QED
    BY <2>5
<1>3. m \in T
  <2> HIDE DEF T
  <2> QED
    BY <1>1, <1>2, NatSetInduction
<1> QED
  BY <1>3

\* What the first chunk sizes announce, one more at a time.
LEMMA AnnouncedSteps ==
  ASSUME NEW chunks \in Seq(Nat)
  PROVE  /\ Announced(chunks)[0] = 0
         /\ \A i \in 1..Len(chunks) :
              Announced(chunks)[i] = Announced(chunks)[i - 1] + chunks[i]
         /\ \A i \in 0..Len(chunks) : Announced(chunks)[i] \in Nat
<1> DEFINE m == Len(chunks)
           f == CHOOSE upto : upto = [i \in 0..m |-> IF i = 0 THEN 0
                                                     ELSE upto[i - 1] + chunks[i]]
<1>0. m \in Nat
  OBVIOUS
<1>1. f = [i \in 0..m |-> IF i = 0 THEN 0 ELSE f[i - 1] + chunks[i]]
  <2>1. \E upto : Sums(upto, m, chunks)
    BY <1>0, SumsExist
  <2> QED
    BY <2>1, Zenon DEF Sums
<1>2. Announced(chunks) = f
  BY DEF Announced
<1> HIDE DEF f
<1>3. \A i \in 0..m : f[i] = IF i = 0 THEN 0 ELSE f[i - 1] + chunks[i]
  BY <1>1
<1>4. \A i \in 1..m : i \in 0..m /\ i # 0
  BY <1>0
<1>5. f[0] = 0
  BY <1>0, <1>3
<1>6. \A i \in 1..m : f[i] = f[i - 1] + chunks[i]
  BY <1>3, <1>4
<1>7. \A i \in 0..m : f[i] \in Nat
  <2> DEFINE T == {n \in Nat : n \in 0..m => f[n] \in Nat}
  <2>1. 0 \in T
    BY <1>5
  <2>2. ASSUME NEW n \in Nat, n \in T PROVE n + 1 \in T
    <3> SUFFICES ASSUME n + 1 \in 0..m PROVE f[n + 1] \in Nat
      OBVIOUS
    <3>1. n + 1 \in 1..m /\ n \in 0..m /\ (n + 1) - 1 = n
      BY <1>0
    <3>2. chunks[n + 1] \in Nat
      BY <3>1
    <3>3. f[n + 1] = f[n] + chunks[n + 1]
      BY <1>6, <3>1
    <3> QED
      BY <2>2, <3>1, <3>2, <3>3
  <2>3. Nat \subseteq T
    <3> HIDE DEF T
    <3> QED
      BY <2>1, <2>2, NatSetInduction
  <2> QED
    BY <1>0, <2>3
<1> QED
  BY <1>2, <1>5, <1>6, <1>7

LEMMA ShapeFacts ==
  ASSUME NEW s \in Shapes
  PROVE  /\ s.enc \in Kinds /\ s.file \in {"http", "bytes", "pipe"}
         /\ s.decode \in BOOLEAN /\ s.empty \in BOOLEAN
         /\ s.length \in Nat \cup {NoLength} /\ s.amts \subseteq Amounts /\ All \notin s.amts
         /\ s.wire \in Units /\ s.chunks \in Seq(Nat)
         /\ s.chunks # <<>> => s.file = "http"
         /\ s.empty => s.wire = <<>>
         /\ s.chunks = <<>> /\ s.file = "http" /\ s.length # NoLength => Len(s.wire) <= s.length
         /\ s.chunks # <<>> => Len(s.wire) <= Announced(s.chunks)[Len(s.chunks)]
         /\ \A i \in 1..Len(s.chunks) - 1 : s.chunks[i] # 0
         /\ InitLength(s) \in Nat \cup {NoLength}
<1>1. /\ s.enc \in Kinds /\ s.file \in {"http", "bytes", "pipe"}
      /\ s.decode \in BOOLEAN /\ s.empty \in BOOLEAN
      /\ s.length \in Nat \cup {NoLength} /\ s.amts \subseteq Nat \ {0}
      /\ s.wire \in Units /\ s.chunks \in Seq(Nat)
      /\ s.chunks # <<>> => s.file = "http"
      /\ Framed(s)
  BY ShapeAssumption DEF Kinds, Units, Bytes
<1>2. s.amts \subseteq Amounts /\ All \notin s.amts
  BY <1>1, NoneAssumption DEF Amounts
<1>3. InitLength(s) \in Nat \cup {NoLength}
  BY <1>1 DEF InitLength
<1> QED
  BY <1>1, <1>2, <1>3 DEF Framed

LEMMA LeastFacts ==
  ASSUME NEW S, S \subseteq Nat, S # {}
  PROVE  Least(S) \in S /\ \A m \in S : Least(S) <= m
<1>1. \E n \in S : \A m \in S : n <= m
  BY LeastExists
<1> QED
  BY <1>1 DEF Least

\* What a read may return at most.
LEMMA LimitFacts ==
  ASSUME FileInv, NEW amt \in Amounts
  PROVE  Least(Limit(amt)) = IF amt # All /\ amt <= Len(fp.left) THEN amt ELSE Len(fp.left)
<1> DEFINE len == Len(fp.left)
           n == Least(Limit(amt))
<1>1. /\ len \in Nat /\ fp.length \in Nat \cup {NoLength} /\ amt \in Nat \cup {All}
      /\ fp.length # NoLength => len <= fp.length
      /\ All \notin Nat /\ NoLength \notin Nat
  BY NoneAssumption, UnitsFacts DEF FileInv, FileTypes, Lengths, Amounts
<1>2. Limit(amt) = {amt, fp.length, len} \ {All, NoLength}
  BY DEF Limit
<1> HIDE DEF len
<1>3. Limit(amt) \subseteq Nat /\ len \in Limit(amt)
  BY <1>1, <1>2
<1>4. n \in Limit(amt) /\ \A m \in Limit(amt) : n <= m
  BY <1>3, LeastFacts
<1> HIDE DEF n
<1>5. n \in Nat /\ n <= len
  BY <1>3, <1>4
<1>6. CASE amt # All /\ amt <= len
  <2>1. amt \in Limit(amt)
    BY <1>1, <1>2, <1>6
  <2>2. n <= amt
    BY <1>4, <2>1
  <2>3. fp.length \in Limit(amt) => amt <= fp.length
    BY <1>1, <1>2, <1>6
  <2> QED
    BY <1>1, <1>2, <1>4, <1>5, <1>6, <2>2, <2>3 DEF n, len
<1>7. CASE ~(amt # All /\ amt <= len)
  BY <1>1, <1>2, <1>4, <1>5, <1>7 DEF n, len
<1> QED
  BY <1>6, <1>7

\* What the file may answer: the next n units, or an error.
AnsweredWith(a, n, amt, one) ==
  /\ a.data = Take(fp.left, n) /\ a.error \in BOOLEAN
  /\ a.state \in {"open", "ended", "closed"}
  /\ a.error => Http /\ fp.state = "open" /\ n = 0
  /\ fp.state # "open" => a.state = fp.state /\ n = 0
  /\ ~a.error /\ fp.state = "open" =>
       /\ n = 0 => fp.left = <<>> /\ (Chunked => Whole)
       /\ a.state # "open" =>
            /\ n = Len(fp.left) /\ (Chunked => Whole) /\ Http
            /\ fp.length \in {NoLength, n} \/ (n = 0 /\ (amt # All \/ one))

LEMMA FileAnswers ==
  ASSUME FileInv, NEW amt \in Amounts, NEW one \in BOOLEAN, NEW a \in FileReads(amt, one)
  PROVE  \E n \in 0..Len(fp.left) : AnsweredWith(a, n, amt, one)
<1> DEFINE len == Len(fp.left)
           n == Least(Limit(amt))
<1>1. /\ len \in Nat /\ fp.length \in Nat \cup {NoLength} /\ amt \in Nat \cup {All} /\ amt # 0
      /\ fp.length # NoLength => len <= fp.length /\ ~Chunked
      /\ All \notin Nat /\ NoLength \notin Nat
      /\ len = 0 => fp.left = <<>>
      /\ fp.state \in {"open", "ended", "closed"}
      /\ fp.left \in Units
      /\ ~Http => fp.length = NoLength /\ ~Chunked
  BY NoneAssumption, UnitsFacts, ShapeFacts
     DEF FileInv, FileTypes, Lengths, Amounts, Http, Chunked
<1>2. n = IF amt # All /\ amt <= len THEN amt ELSE len
  BY LimitFacts
<1>3. Take(fp.left, 0) = <<>>
  BY DEF Take
<1>n. n \in 0..len /\ (n = 0 => len = 0) /\ (amt = All => n = len)
  BY <1>1, <1>2
<1> HIDE DEF n, len
<1>4. CASE fp.state # "open"
  <2>1. a = Got(0, fp.state)
    BY <1>4 DEF FileReads
  <2>2. AnsweredWith(a, 0, amt, one)
    BY <1>1, <1>4, <2>1 DEF Got, AnsweredWith
  <2> QED
    BY <1>1, <2>2 DEF len
<1>5. CASE fp.state = "open" /\ Http /\ ~one
  <2>1. a = HttpRead(amt)
    BY <1>5 DEF FileReads
  <2>2. CASE Chunked /\ amt # All /\ amt <= len
    <3>1. a = Got(amt, "open")
      BY <2>1, <2>2 DEF HttpRead, len
    <3>2. AnsweredWith(a, amt, amt, one)
      BY <1>1, <1>5, <2>2, <3>1 DEF Got, AnsweredWith
    <3> QED
      BY <1>1, <2>2, <3>2 DEF len
  <2>3. CASE Chunked /\ ~(amt # All /\ amt <= len) /\ Whole
    <3>1. a = Got(len, "ended")
      BY <2>1, <2>3 DEF HttpRead, len
    <3>2. AnsweredWith(a, len, amt, one)
      BY <1>1, <1>5, <2>3, <3>1 DEF Got, AnsweredWith, len
    <3> QED
      BY <1>1, <3>2 DEF len
  <2>4. CASE Chunked /\ ~(amt # All /\ amt <= len) /\ ~Whole
    <3>1. a = Broken("open")
      BY <2>1, <2>4 DEF HttpRead, len
    <3>2. AnsweredWith(a, 0, amt, one)
      BY <1>1, <1>3, <1>5, <3>1 DEF Broken, AnsweredWith
    <3> QED
      BY <1>1, <3>2 DEF len
  <2>5. CASE ~Chunked /\ amt = All /\ fp.length # NoLength /\ n < fp.length
    <3>1. a = Broken("ended")
      BY <2>1, <2>5 DEF HttpRead, n
    <3>2. AnsweredWith(a, 0, amt, one)
      BY <1>1, <1>3, <1>5, <3>1 DEF Broken, AnsweredWith
    <3> QED
      BY <1>1, <3>2 DEF len
  <2>6. CASE ~Chunked /\ amt = All /\ ~(fp.length # NoLength /\ n < fp.length)
    <3>1. a = Got(n, "ended")
      BY <2>1, <2>6 DEF HttpRead, n
    <3>2. n = len /\ fp.length \in {NoLength, n}
      BY <1>1, <1>n, <2>6
    <3>3. AnsweredWith(a, n, amt, one)
      BY <1>1, <1>5, <2>6, <3>1, <3>2 DEF Got, AnsweredWith, len
    <3> QED
      BY <1>n, <3>3 DEF len
  <2>7. CASE ~Chunked /\ amt # All
    <3>1. a = Got(n, IF n = 0 \/ n = fp.length THEN "ended" ELSE "open")
      BY <2>1, <2>7 DEF HttpRead, n
    <3>2. n = fp.length => n = len
      BY <1>1, <1>n
    <3>3. AnsweredWith(a, n, amt, one)
      BY <1>1, <1>5, <1>n, <2>7, <3>1, <3>2 DEF Got, AnsweredWith, len
    <3> QED
      BY <1>n, <3>3 DEF len
  <2> QED
    BY <2>2, <2>3, <2>4, <2>5, <2>6, <2>7
<1>s. ASSUME n # 0, fp.state = "open", a \in SomeOf(n)
      PROVE  \E k \in 0..Len(fp.left) : AnsweredWith(a, k, amt, one)
  <2>1. PICK k \in 1..n : a = Got(k, fp.state)
    BY <1>s DEF SomeOf
  <2>2. AnsweredWith(a, k, amt, one)
    BY <1>1, <1>n, <1>s, <2>1 DEF Got, AnsweredWith
  <2> QED
    BY <1>1, <1>n, <2>1, <2>2 DEF len
<1>6. CASE fp.state = "open" /\ Http /\ one
  <2>1. a \in HttpRead1(amt)
    BY <1>6 DEF FileReads
  <2>2. CASE n > 0
    <3>1. a \in SomeOf(n)
      BY <2>1, <2>2 DEF HttpRead1, n
    <3>2. n # 0
      BY <2>2
    <3> QED
      BY <1>6, <1>s, <3>1, <3>2
  <2>3. CASE ~(n > 0) /\ Chunked /\ ~Whole
    <3>1. a = Broken("open")
      BY <2>1, <2>3 DEF HttpRead1, n
    <3>2. AnsweredWith(a, 0, amt, one)
      BY <1>1, <1>3, <1>6, <3>1 DEF Broken, AnsweredWith
    <3> QED
      BY <1>1, <3>2 DEF len
  <2>4. CASE ~(n > 0) /\ ~(Chunked /\ ~Whole)
    <3>1. a = Got(0, "open") \/ a = Got(0, "ended")
      BY <2>1, <2>4 DEF HttpRead1, n
    <3>2. len = 0 /\ fp.left = <<>>
      BY <1>1, <1>n, <2>4
    <3>3. Chunked => Whole
      BY <1>n, <2>4
    <3>6. AnsweredWith(a, 0, amt, one)
      <4>1. a.data = Take(fp.left, 0) /\ a.state \in {"open", "ended"} /\ a.error = FALSE
        BY <3>1 DEF Got
      <4> QED
        BY <1>1, <1>6, <3>2, <3>3, <4>1 DEF AnsweredWith, len
    <3> QED
      BY <1>1, <3>6 DEF len
  <2> QED
    BY <2>2, <2>3, <2>4
<1>7. CASE fp.state = "open" /\ ~Http
  <2>1. a = Got(n, "open") \/ a \in SomeOf(n)
    BY <1>7 DEF FileReads, n
  <2>2. CASE a = Got(n, "open")
    <3>1. AnsweredWith(a, n, amt, one)
      BY <1>1, <1>7, <1>n, <2>2 DEF Got, AnsweredWith, len
    <3> QED
      BY <1>n, <3>1 DEF len
  <2>3. CASE a \in SomeOf(n) /\ n # 0
    BY <1>7, <1>s, <2>3
  <2>4. CASE a \in SomeOf(n) /\ n = 0
    <3>1. a = Got(0, fp.state)
      BY <2>4 DEF SomeOf
    <3>2. AnsweredWith(a, 0, amt, one)
      BY <1>1, <1>7, <1>n, <2>4, <3>1 DEF Got, AnsweredWith, len
    <3> QED
      BY <1>1, <3>2 DEF len
  <2> QED
    BY <2>1, <2>2, <2>3, <2>4
<1> QED
  BY <1>1, <1>4, <1>5, <1>6, <1>7

\* What _raw_read returns, in every file and state.
ReadTyped(r) ==
  /\ r.data \in Units /\ r.error \in BOOLEAN
  /\ r.fp \in [state : {"open", "ended", "closed"}, left : Units, length : Nat \cup {NoLength}]
  /\ r.remaining = (IF remaining = NoLength THEN NoLength ELSE remaining - Len(r.data))
  /\ r.fp.length = (IF fp.length = NoLength THEN NoLength ELSE fp.length - Len(r.data))
  /\ Len(r.fp.left) <= Len(fp.left)
  /\ r.fp.length # NoLength => Len(r.fp.left) <= r.fp.length
  /\ ~r.error => fp.left = r.data \o r.fp.left

ReadLinked(r) ==
  /\ r.sock \in {"open", "closed"}
  /\ r.conn = (IF Http /\ r.fp.state # "open" THEN "returned" ELSE conn) \/ r.conn = conn
  /\ r.sock = "closed" \/ r.sock = sock
  /\ r.conn = "returned" => r.sock = "closed" \/ r.fp.left = <<>> \/ Released
  /\ Http /\ r.fp.state # "open" => r.sock = "closed" \/ r.fp.left = <<>> \/ Released

\* ... and what it means that it returns nothing, or that the file has ended.
ReadEnds(r, amt, one) ==
  /\ fp.state # "open" => r.fp.state # "open" /\ r.data = <<>>
  /\ ~r.error /\ r.data = <<>> /\ fp.state = "open" => fp.left = <<>> /\ (Chunked => Whole)
  /\ ~r.error /\ r.data = <<>> /\ amt # All => remaining \in {NoLength, 0}
  /\ ~r.error /\ fp.state = "open" /\ r.fp.state # "open" =>
       /\ r.fp.left = <<>> \/ (~Http /\ remaining = Len(r.data))
       /\ Chunked => Whole
       /\ r.remaining \in {0, NoLength} \/ (r.data = <<>> /\ one /\ amt = All)

LEMMA ReadFacts ==
  ASSUME FileInv, NEW amt \in Amounts, NEW one \in BOOLEAN, NEW r \in RawReads(amt, one)
  PROVE  ReadTyped(r) /\ ReadLinked(r) /\ ReadEnds(r, amt, one)
<1>1. PICK a \in FileReads(amt, one) : r = Outcome(a, amt, one)
  BY DEF RawReads
<1>2. PICK n \in 0..Len(fp.left) : AnsweredWith(a, n, amt, one)
  BY FileAnswers
<1> DEFINE error == a.error \/ TooShort(a.data, amt)
           st == FileState(a, amt, one)
           s == IF error /\ Http THEN "closed" ELSE st
           left2 == IF a.error THEN <<>> ELSE Drop(fp.left, Len(a.data))
<1>3. /\ Len(fp.left) \in Nat /\ fp.length \in Nat \cup {NoLength} /\ amt \in Nat \cup {All}
      /\ amt # 0
      /\ fp.length # NoLength => Len(fp.left) <= fp.length /\ ~Chunked
      /\ All \notin Nat /\ NoLength \notin Int
      /\ fp.state \in {"open", "ended", "closed"} /\ fp.left \in Units
      /\ ~Http => fp.length = NoLength /\ ~Chunked /\ conn = "none"
      /\ Http => remaining = fp.length /\ conn # "none"
      /\ remaining \in Int \cup {NoLength} /\ conn \in {"held", "returned", "none"}
      /\ sock \in {"open", "closed"}
  BY NoneAssumption, UnitsFacts, ShapeFacts
     DEF FileInv, FileTypes, Lengths, Amounts, Http, Chunked
<1>4. /\ a.data \in Units /\ Len(a.data) = n /\ Drop(fp.left, n) \in Units
      /\ a.data \o Drop(fp.left, n) = fp.left
      /\ Len(Drop(fp.left, n)) = Len(fp.left) - n
      /\ a.data = <<>> <=> n = 0
  <2>1. a.data = Take(fp.left, n)
    BY <1>2 DEF AnsweredWith
  <2>2. /\ Take(fp.left, n) \in Units /\ Len(Take(fp.left, n)) = n
        /\ Drop(fp.left, n) \in Units
        /\ Take(fp.left, n) \o Drop(fp.left, n) = fp.left
        /\ Len(Drop(fp.left, n)) = Len(fp.left) - n
    BY <1>3, TakeDropUnits
  <2> QED
    BY <2>1, <2>2, UnitsFacts
<1>5. /\ r.data = a.data /\ r.error = error
      /\ r.sock = IF error /\ conn = "held" THEN "closed" ELSE sock
      /\ r.conn = IF Http /\ s # "open" THEN "returned" ELSE conn
      /\ r.fp = [state |-> s, left |-> left2,
                 length |-> IF fp.length = NoLength THEN NoLength ELSE fp.length - Len(a.data)]
      /\ r.remaining = IF remaining = NoLength THEN NoLength ELSE remaining - Len(a.data)
  BY <1>1 DEF Outcome, Caught
<1>6. a.error \in BOOLEAN /\ a.state \in {"open", "ended", "closed"}
  BY <1>2 DEF AnsweredWith
<1>7. error \in BOOLEAN /\ (a.error => error)
  BY <1>6 DEF TooShort, AtEnd
<1>8. /\ st \in {"open", "ended", "closed"}
      /\ st = a.state \/ (st = "closed" /\ ~a.error)
      /\ ~a.error /\ st # a.state =>
           \/ AtEnd(a.data, amt)
           \/ one /\ (a.data = <<>> \/ remaining = Len(a.data))
  BY <1>6 DEF FileState
<1>9. ~error /\ AtEnd(a.data, amt) => remaining \in {NoLength, 0}
  BY DEF TooShort
<1>10. AtEnd(a.data, amt) <=> n = 0 /\ amt # All
  BY <1>3, <1>4 DEF AtEnd
<1> HIDE DEF error, st
<1>11. left2 = (IF a.error THEN <<>> ELSE Drop(fp.left, n)) /\ left2 \in Units
       /\ Len(left2) <= Len(fp.left) - n /\ (left2 # <<>> => Len(left2) = Len(fp.left) - n)
  <2>1. <<>> \in Units /\ Len(<<>>) = 0
    BY UnitsFacts
  <2> QED
    BY <1>3, <1>4, <1>6, <2>1
<1>12. n = Len(fp.left) => left2 = <<>>
  <2>1. n = Len(fp.left) => Len(Drop(fp.left, n)) = 0
    BY <1>3, <1>4
  <2>2. n = Len(fp.left) => Drop(fp.left, n) = <<>>
    BY <1>4, <2>1, UnitsFacts
  <2> QED
    BY <1>11, <2>2
<1> HIDE DEF left2
<1>13. s \in {"open", "ended", "closed"}
  BY <1>8
<1>14. ReadTyped(r)
  <2>1. fp.length # NoLength => fp.length - n \in Nat /\ Len(left2) <= fp.length - n
    BY <1>3, <1>11, UnitsFacts
  <2>2. r.fp \in [state : {"open", "ended", "closed"}, left : Units, length : Nat \cup {NoLength}]
    BY <1>3, <1>4, <1>5, <1>11, <1>13, <2>1
  <2>3. Len(left2) <= Len(fp.left)
    BY <1>3, <1>11, UnitsFacts
  <2>4. ~error => fp.left = r.data \o left2
    BY <1>4, <1>5, <1>7, <1>11
  <2>5. r.fp.length # NoLength => Len(r.fp.left) <= r.fp.length
    BY <1>3, <1>4, <1>5, <2>1
  <2> HIDE DEF s
  <2>6. r.fp.left = left2 /\ r.fp.length = IF fp.length = NoLength THEN NoLength ELSE fp.length - Len(a.data)
    BY <1>5
  <2> QED
    BY <1>4, <1>5, <1>7, <2>2, <2>3, <2>4, <2>5, <2>6 DEF ReadTyped
<1>15. /\ fp.state # "open" => a.state = fp.state /\ n = 0 /\ ~a.error
       /\ ~a.error /\ fp.state = "open" =>
            /\ n = 0 => fp.left = <<>> /\ (Chunked => Whole)
            /\ a.state # "open" =>
                 /\ n = Len(fp.left) /\ (Chunked => Whole) /\ Http
                 /\ fp.length \in {NoLength, n} \/ (n = 0 /\ (amt # All \/ one))
  BY <1>2 DEF AnsweredWith
<1>16. ASSUME ~error, fp.state = "open", s # "open"
       PROVE  /\ left2 = <<>> \/ (~Http /\ remaining = n)
              /\ Chunked => Whole
              /\ r.remaining \in {0, NoLength} \/ (n = 0 /\ one /\ amt = All)
  <2>1. st # "open" /\ ~a.error
    BY <1>7, <1>16
  <2>2. CASE st = a.state
    <3>1. n = Len(fp.left) /\ (Chunked => Whole) /\ Http
      BY <1>15, <1>16, <2>1, <2>2
    <3>2. fp.length \in {NoLength, n} => r.remaining \in {0, NoLength}
      BY <1>3, <1>4, <1>5, <3>1
    <3>3. n = 0 /\ amt # All => r.remaining \in {0, NoLength}
      BY <1>3, <1>4, <1>5, <1>9, <1>10, <1>16
    <3> QED
      BY <1>12, <1>15, <1>16, <2>1, <2>2, <3>1, <3>2, <3>3
  <2>3. CASE st # a.state /\ n = 0
    <3>1. fp.left = <<>> /\ (Chunked => Whole) /\ n = Len(fp.left)
      BY <1>15, <1>16, <2>1, <2>3, UnitsFacts
    <3>2. amt # All => r.remaining \in {0, NoLength}
      BY <1>3, <1>4, <1>5, <1>9, <1>10, <1>16, <2>3
    <3>3. amt = All => one \/ AtEnd(a.data, amt)
      BY <1>8, <2>1, <2>3
    <3> QED
      BY <1>10, <1>12, <2>3, <3>1, <3>2, <3>3
  <2>4. CASE st # a.state /\ n # 0
    <3>1. one /\ remaining = n
      BY <1>4, <1>8, <1>10, <2>1, <2>4
    <3>2. r.remaining = 0 /\ remaining # NoLength
      BY <1>3, <1>4, <1>5, <3>1
    <3>3. Http => n = Len(fp.left) /\ ~Chunked
      BY <1>3, <3>1, <3>2
    <3> QED
      BY <1>3, <1>12, <3>1, <3>2, <3>3
  <2> QED
    BY <2>2, <2>3, <2>4
<1>17. fp.state # "open" => s # "open" /\ n = 0
  BY <1>8, <1>15
<1>18. ReadEnds(r, amt, one)
  <2>1. fp.state # "open" => r.fp.state # "open" /\ r.data = <<>>
    BY <1>4, <1>5, <1>17
  <2>2. ~r.error /\ r.data = <<>> /\ fp.state = "open" => fp.left = <<>> /\ (Chunked => Whole)
    BY <1>4, <1>5, <1>7, <1>15
  <2>3. ~r.error /\ r.data = <<>> /\ amt # All => remaining \in {NoLength, 0}
    BY <1>4, <1>5, <1>9, <1>10
  <2>4. r.fp.left = left2 /\ r.fp.state = s /\ Len(r.data) = n /\ (r.data = <<>> <=> n = 0)
    BY <1>4, <1>5
  <2> HIDE DEF s
  <2>5. ~r.error /\ fp.state = "open" /\ r.fp.state # "open" =>
       /\ r.fp.left = <<>> \/ (~Http /\ remaining = Len(r.data))
       /\ Chunked => Whole
       /\ r.remaining \in {0, NoLength} \/ (r.data = <<>> /\ one /\ amt = All)
    BY <1>5, <1>16, <2>4
  <2> QED
    BY <2>1, <2>2, <2>3, <2>5 DEF ReadEnds
<1>19. /\ conn = "returned" => sock = "closed" \/ fp.left = <<>> \/ Released
       /\ Http /\ fp.state # "open" => sock = "closed" \/ fp.left = <<>> \/ Released
  BY DEF FileInv, Finished
<1>20. fp.left = <<>> => left2 = <<>>
  <2>1. fp.left = <<>> => n = Len(fp.left)
    BY <1>3, UnitsFacts
  <2> QED
    BY <1>12, <2>1
<1>21. ReadLinked(r)
  <2>1. /\ r.fp.left = left2 /\ r.fp.state = s
        /\ r.sock = IF error /\ conn = "held" THEN "closed" ELSE sock
        /\ r.conn = IF Http /\ s # "open" THEN "returned" ELSE conn
    BY <1>5
  <2>2. error /\ Http => s # "open"
    OBVIOUS
  <2> HIDE DEF s
  <2>3. Http /\ s # "open" => r.sock = "closed" \/ left2 = <<>> \/ Released
    <3> SUFFICES ASSUME Http, s # "open" PROVE r.sock = "closed" \/ left2 = <<>> \/ Released
      OBVIOUS
    <3>1. CASE conn = "returned" \/ fp.state # "open"
      BY <1>19, <1>20, <2>1, <3>1
    <3>2. CASE conn = "held" /\ fp.state = "open" /\ error
      BY <2>1, <3>2
    <3>3. CASE conn = "held" /\ fp.state = "open" /\ ~error
      BY <1>16, <3>3
    <3> QED
      BY <1>3, <1>7, <3>1, <3>2, <3>3
  <2>4. r.conn = "returned" => r.sock = "closed" \/ left2 = <<>> \/ Released
    <3>1. CASE Http /\ s # "open"
      BY <2>3, <3>1
    <3>2. CASE ~(Http /\ s # "open")
      BY <1>19, <1>20, <2>1, <3>2
    <3> QED
      BY <3>1, <3>2
  <2> QED
    BY <1>3, <2>1, <2>3, <2>4 DEF ReadLinked
<1> QED
  BY <1>14, <1>18, <1>21

\* What a step does to the file, in the ways there are.
MarksGrow == marks \subseteq marks' /\ marks' \subseteq Marks

FileKeeps ==
  /\ shape' = shape /\ MarksGrow
  /\ fp' \in [state : {"open", "ended", "closed"}, left : Units, length : Nat \cup {NoLength}]
  /\ Len(fp'.left) <= Len(fp.left)
  /\ fp.state # "open" => fp'.state # "open"

LEMMA FewerLeft ==
  ASSUME FileInv, FileKeeps
  PROVE  fp.left = <<>> => fp'.left = <<>>
BY UnitsFacts DEF FileInv, FileTypes, FileKeeps

LEMMA InChunksKept ==
  ASSUME FileInv, FileKeeps, UNCHANGED <<chunkLeft, sizes>>
  PROVE  InChunks'
<1>1. InChunks /\ shape' = shape /\ shape \in Shapes
  BY DEF FileInv, FileKeeps, FileTypes
<1>2. chunkLeft' = 0 => fp'.left = <<>> /\ fp'.state # "open"
  BY <1>1, FewerLeft DEF InChunks, FileKeeps
<1>3. ASSUME Chunked
      PROVE  \E k \in 0..Len(shape.chunks) :
       /\ sizes = Drop(shape.chunks, k)
       /\ Len(fp'.left) + Announced(shape.chunks)[k]
            <= Announced(shape.chunks)[Len(shape.chunks)]
               + (IF chunkLeft = NoLength THEN 0 ELSE chunkLeft)
  <2>1. PICK k \in 0..Len(shape.chunks) :
       /\ sizes = Drop(shape.chunks, k)
       /\ Len(fp.left) + Announced(shape.chunks)[k]
            <= Announced(shape.chunks)[Len(shape.chunks)]
               + (IF chunkLeft = NoLength THEN 0 ELSE chunkLeft)
    BY <1>1, <1>3 DEF InChunks
  <2> DEFINE A == Announced(shape.chunks)
             N == Len(shape.chunks)
             c == IF chunkLeft = NoLength THEN 0 ELSE chunkLeft
             m == Len(fp.left)
             p == Len(fp'.left)
  <2>2. A[k] \in Nat /\ A[N] \in Nat
    <3>1. shape.chunks \in Seq(Nat) /\ N \in 0..N
      BY <1>1, ShapeFacts
    <3> QED
      BY <3>1, AnnouncedSteps
  <2>3. c \in Nat /\ m \in Nat /\ p \in Nat /\ p <= m
    BY <1>1, UnitsFacts DEF InChunks, FileInv, FileTypes, FileKeeps
  <2>4. m + A[k] <= A[N] + c
    BY <2>1
  <2> HIDE DEF A, N, c, m, p
  <2>5. p + A[k] <= A[N] + c
    BY <2>2, <2>3, <2>4
  <2> QED
    BY <2>1, <2>5 DEF A, N, c, p
<1> QED
  BY <1>1, <1>2, <1>3 DEF InChunks, Chunked

LEMMA FileInvKept ==
  ASSUME FileInv, FileKeeps, Lengths', InChunks', Finished',
         remaining' \in Int \cup {NoLength},
         conn' \in {"held", "returned", "none"}, sock' \in {"open", "closed"}
  PROVE  FileInv'
BY DEF FileInv, FileTypes, FileKeeps, MarksGrow

\* The step reads.
LEMMA AfterRead ==
  ASSUME FileInv, NEW amt \in Amounts, NEW one \in BOOLEAN, NEW r \in RawReads(amt, one),
         DoRead(r), shape' = shape, MarksGrow, UNCHANGED <<chunkLeft, sizes>>
  PROVE  FileInv' /\ FileKeeps
<1>1. ReadTyped(r) /\ ReadLinked(r) /\ ReadEnds(r, amt, one)
  BY ReadFacts
<1>2. fp' = r.fp /\ remaining' = r.remaining /\ sock' = r.sock /\ conn' = r.conn
  BY DEF DoRead
<1>3. FileKeeps
  BY <1>1, <1>2 DEF FileKeeps, ReadTyped, ReadEnds
<1>4. /\ FileTypes /\ Lengths /\ Finished
      /\ Len(r.data) \in Nat
  BY <1>1, UnitsFacts DEF FileInv, ReadTyped
<1>5. /\ Http' = Http /\ Chunked' = Chunked
  BY DEF Http, Chunked
<1>6. Lengths'
  <2>1. Http => remaining' = fp'.length /\ conn' # "none"
    BY <1>1, <1>2, <1>4 DEF Lengths, ReadTyped, ReadLinked
  <2>2. ~Http => fp'.length = NoLength /\ conn' = "none"
    BY <1>1, <1>2, <1>4 DEF Lengths, ReadTyped, ReadLinked
  <2>3. fp'.length # NoLength => ~Chunked /\ Len(fp'.left) <= fp'.length
    BY <1>1, <1>2, <1>4 DEF Lengths, ReadTyped
  <2>4. shape.empty => fp'.left = <<>>
    BY <1>3, <1>4, FewerLeft DEF Lengths
  <2> QED
    BY <1>5, <2>1, <2>2, <2>3, <2>4 DEF Lengths
<1>7. Finished'
  <2>1. Released => Released'
    BY DEF MarksGrow, Released
  <2> QED
    BY <1>1, <1>2, <1>5, <2>1 DEF Finished, ReadLinked
<1>8. InChunks'
  BY <1>3, InChunksKept
<1>9. remaining' \in Int \cup {NoLength}
  <2>1. remaining \in Int \cup {NoLength} /\ Len(r.data) \in Nat
    BY <1>4 DEF FileTypes
  <2>2. remaining' = IF remaining = NoLength THEN NoLength ELSE remaining - Len(r.data)
    BY <1>1, <1>2 DEF ReadTyped
  <2> QED
    BY <2>1, <2>2
<1>10. conn' \in {"held", "returned", "none"} /\ sock' \in {"open", "closed"}
  BY <1>1, <1>2, <1>4 DEF ReadLinked, FileTypes
<1> QED
  BY <1>3, <1>6, <1>7, <1>8, <1>9, <1>10, FileInvKept

\* The step does not.
LEMMA AfterNoRead ==
  ASSUME FileInv, NoRead, shape' = shape, MarksGrow, UNCHANGED <<chunkLeft, sizes>>
  PROVE  FileInv' /\ FileKeeps
<1>1. FileTypes /\ Lengths /\ Finished /\ fp' = fp /\ remaining' = remaining
      /\ sock' = sock /\ conn' = conn
  BY DEF FileInv, NoRead
<1>2. FileKeeps
  BY <1>1, UnitsFacts DEF FileKeeps, FileTypes
<1>3. Lengths'
  BY <1>1 DEF Lengths, Http, Chunked
<1>4. Finished'
  BY <1>1 DEF Finished, Http, Released, MarksGrow
<1>5. InChunks'
  BY <1>2, InChunksKept
<1> QED
  BY <1>1, <1>2, <1>3, <1>4, <1>5, FileInvKept DEF FileTypes

\* The step leaves the generator, or closes the response; of the file it takes n.
LEMMA AfterClosing ==
  ASSUME FileInv, shape' = shape, MarksGrow, InChunks', NEW n \in 0..Len(fp.left),
         NEW st \in {"open", "ended", "closed"}, fp.state # "open" => st # "open",
         n > 0 => Chunked,
         fp' = [fp EXCEPT !.left = Drop(@, n), !.state = st], remaining' = remaining,
         sock' = "closed" \/ (sock' = sock /\ (conn = "held" => Drop(fp.left, n) = <<>>))
                          \/ (sock' = sock /\ conn = "held" /\ st = "open" /\ conn' = conn),
         conn' = conn \/ (Http /\ conn' = "returned")
  PROVE  FileInv' /\ FileKeeps
<1>1. FileTypes /\ Lengths /\ Finished
  BY DEF FileInv
<1>2. Drop(fp.left, n) \in Units /\ Len(Drop(fp.left, n)) = Len(fp.left) - n
      /\ Len(fp.left) \in Nat
  BY <1>1, TakeDropUnits, UnitsFacts DEF FileTypes
<1>3. fp'.left = Drop(fp.left, n) /\ fp'.state = st /\ fp'.length = fp.length
  BY <1>1 DEF FileTypes
<1>4. fp' \in [state : {"open", "ended", "closed"}, left : Units, length : Nat \cup {NoLength}]
  BY <1>1, <1>2 DEF FileTypes
<1>5. FileKeeps
  BY <1>2, <1>3, <1>4 DEF FileKeeps
<1>6. fp.left = <<>> => fp'.left = <<>>
  BY <1>5, FewerLeft
<1>7. Lengths'
  <2>1. fp.length # NoLength => Len(fp'.left) <= fp.length
    BY <1>1, <1>2, <1>3 DEF Lengths, FileTypes
  <2> QED
    BY <1>1, <1>3, <1>6, <2>1 DEF Lengths, Http, Chunked
<1>8. Finished'
  <2>1. conn = "returned" => sock = "closed" \/ fp.left = <<>> \/ Released
    BY <1>1 DEF Finished
  <2>2. Released => Released'
    BY DEF Released, MarksGrow
  <2>3. ~Http => conn' = "none"
    BY <1>1 DEF Lengths
  <2>4. sock = "closed" => sock' = "closed"
    OBVIOUS
  <2>5. Http => conn \in {"held", "returned"}
    BY <1>1 DEF Lengths, FileTypes
  <2>6. CASE st = "open" /\ conn' = conn
    BY <1>3, <1>6, <2>1, <2>2, <2>4, <2>6 DEF Finished
  <2>7. CASE ~(st = "open" /\ conn' = conn) /\ Http
    <3>1. sock' = "closed" \/ fp'.left = <<>> \/ Released'
      BY <1>3, <1>6, <2>1, <2>2, <2>4, <2>5, <2>7
    <3> QED
      BY <3>1 DEF Finished
  <2>8. CASE ~Http
    BY <2>3, <2>8 DEF Finished, Http
  <2> QED
    BY <2>6, <2>7, <2>8
<1>9. conn' \in {"held", "returned", "none"} /\ sock' \in {"open", "closed"}
  BY <1>1 DEF FileTypes
<1> QED
  BY <1>1, <1>5, <1>7, <1>8, <1>9, FileInvKept DEF FileTypes

\* The chunk sizes not read yet.
LEMMA SizesLeft ==
  ASSUME FileInv, Chunked, ~NoSize
  PROVE  \E k \in 0..Len(shape.chunks) :
           /\ sizes = Drop(shape.chunks, k)
           /\ Len(fp.left) + Announced(shape.chunks)[k]
                <= Announced(shape.chunks)[Len(shape.chunks)]
                   + (IF chunkLeft = NoLength THEN 0 ELSE chunkLeft)
           /\ ThisSize \in Nat
           /\ chunkLeft # NoLength => ThisSize = chunkLeft
           /\ chunkLeft = NoLength =>
                /\ k + 1 \in 1..Len(shape.chunks) /\ ThisSize = shape.chunks[k + 1]
                /\ Tail(sizes) = Drop(shape.chunks, k + 1)
                /\ Announced(shape.chunks)[k + 1] = Announced(shape.chunks)[k] + ThisSize
<1>1. InChunks /\ shape \in Shapes
  BY DEF FileInv, FileTypes
<1>2. PICK k \in 0..Len(shape.chunks) :
           /\ sizes = Drop(shape.chunks, k)
           /\ Len(fp.left) + Announced(shape.chunks)[k]
                <= Announced(shape.chunks)[Len(shape.chunks)]
                   + (IF chunkLeft = NoLength THEN 0 ELSE chunkLeft)
  BY <1>1 DEF InChunks
<1>3. shape.chunks \in Seq(Nat) /\ Len(shape.chunks) \in Nat
  BY <1>1, ShapeFacts
<1>4. CASE chunkLeft = NoLength
  <2>1. sizes # <<>> /\ ThisSize = Head(sizes)
    BY <1>4 DEF NoSize, ThisSize
  <2>2. k < Len(shape.chunks)
    <3>1. k = Len(shape.chunks) => Drop(shape.chunks, k) = <<>>
      BY <1>3 DEF Drop
    <3> QED
      BY <1>2, <1>3, <2>1, <3>1
  <2>3. /\ Head(Drop(shape.chunks, k)) = shape.chunks[k + 1]
        /\ Tail(Drop(shape.chunks, k)) = Drop(shape.chunks, k + 1)
    <3>1. k + 1 \in 1..Len(shape.chunks) /\ Len(shape.chunks) \in k + 1..Len(shape.chunks)
      BY <1>3, <2>2
    <3> QED
      BY <1>3, <3>1, HeadTailOfSubSeq DEF Drop
  <2>4. k + 1 \in 1..Len(shape.chunks) /\ (k + 1) - 1 = k
    BY <1>3, <2>2
  <2>5. shape.chunks[k + 1] \in Nat
    BY <1>3, <2>4
  <2>6. Announced(shape.chunks)[k + 1] = Announced(shape.chunks)[(k + 1) - 1] + shape.chunks[k + 1]
    BY <1>3, <2>4, AnnouncedSteps
  <2>7. Announced(shape.chunks)[k + 1] = Announced(shape.chunks)[k] + shape.chunks[k + 1]
    BY <2>4, <2>6
  <2> QED
    BY <1>2, <1>4, <2>1, <2>3, <2>4, <2>5, <2>7
<1>5. CASE chunkLeft # NoLength
  BY <1>1, <1>2, <1>5 DEF ThisSize, InChunks
<1> QED
  BY <1>4, <1>5

\* The size 0 is the last, and all chunks have been read then.
LEMMA LastSize ==
  ASSUME FileInv, Chunked, ~NoSize, ThisSize = 0, fp.state = "open"
  PROVE  fp.left = <<>> /\ Whole /\ chunkLeft = NoLength /\ Tail(sizes) = Drop(shape.chunks, Len(shape.chunks))
<1> DEFINE A == Announced(shape.chunks)
           N == Len(shape.chunks)
<1>1. PICK k \in 0..N :
           /\ sizes = Drop(shape.chunks, k)
           /\ Len(fp.left) + A[k] <= A[N] + (IF chunkLeft = NoLength THEN 0 ELSE chunkLeft)
           /\ ThisSize \in Nat
           /\ chunkLeft # NoLength => ThisSize = chunkLeft
           /\ chunkLeft = NoLength =>
                /\ k + 1 \in 1..N /\ ThisSize = shape.chunks[k + 1]
                /\ Tail(sizes) = Drop(shape.chunks, k + 1)
                /\ A[k + 1] = A[k] + ThisSize
  BY SizesLeft
<1>2. InChunks /\ shape \in Shapes /\ fp.left \in Units
  BY DEF FileInv, FileTypes
<1>3. chunkLeft = NoLength
  BY <1>1, <1>2 DEF InChunks
<1>4. shape.chunks \in Seq(Nat) /\ N \in Nat /\ \A i \in 1..N - 1 : shape.chunks[i] # 0
  BY <1>2, ShapeFacts
<1>5. k + 1 = N
  <2>1. k + 1 \in 1..N /\ shape.chunks[k + 1] = 0
    BY <1>1, <1>3
  <2>2. k + 1 \notin 1..N - 1
    BY <1>4, <2>1
  <2> QED
    BY <1>4, <2>1, <2>2
<1>6. A[k] \in Nat /\ A[N] \in Nat
  BY <1>4, AnnouncedSteps
<1>7. Len(fp.left) \in Nat
  BY <1>2, UnitsFacts
<1> HIDE DEF A, N
<1>8. Len(fp.left) = 0
  <2>1. A[N] = A[k] + 0
    BY <1>1, <1>3, <1>5
  <2>2. Len(fp.left) + A[k] <= A[N] + 0
    BY <1>1, <1>3
  <2> DEFINE m == Len(fp.left)
  <2> HIDE DEF m
  <2>3. m \in Nat /\ m + A[k] <= A[N] + 0
    BY <1>7, <2>2 DEF m
  <2>4. m = 0
    BY <1>6, <2>1, <2>3
  <2> QED
    BY <2>4 DEF m
<1>9. Whole
  <2>1. shape.chunks[N] = 0 /\ N = Len(shape.chunks)
    BY <1>1, <1>3, <1>5 DEF N
  <2> QED
    BY <2>1 DEF Whole, Last
<1> QED
  BY <1>1, <1>2, <1>3, <1>5, <1>8, <1>9, UnitsFacts DEF N

------------------------------------------------------------------------------
(* Decoding and the buffer *)

LEMMA NewDecoderFacts ==
  ASSUME NEW kind \in Kinds
  PROVE  /\ DecOK(NewDecoder(kind)) /\ NewDecoder(kind).kind = kind
         /\ Pending(NewDecoder(kind)) = <<>> /\ Undelivered(NewDecoder(kind)) = <<>>
         /\ ~HasUnconsumedTail(NewDecoder(kind)) /\ ~Over(NewDecoder(kind))
<1> DEFINE d == NewDecoder(kind)
<1>1. /\ NewObj \in Objs /\ NewObj.inner = <<>> /\ NewObj.tail = <<>> /\ ~NewObj.eof
      /\ ObjOK(NewObj)
  BY NewObjOK DEF ObjOK, NewObj
<1>2. d.kind = kind /\ d.obj = NewObj /\ d.kept = <<>> /\ d.state = "first"
  BY DEF NewDecoder
<1>3. d \in Decs
  BY <1>1, UnitsFacts DEF NewDecoder, Decs, States
<1> HIDE DEF d
<1>4. DecOK(d)
  BY <1>1, <1>2, <1>3 DEF DecOK
<1>5. <<>> \in Units /\ <<>> \o <<>> = <<>>
  BY UnitsFacts
<1>6. Pending(d) = <<>>
  BY <1>1, <1>2, <1>5 DEF Pending
<1>7. Undelivered(d) = <<>>
  <2>1. Undelivered(d) = d.obj.inner \o Payload(Pending(d))
    BY <1>4, DecFacts
  <2> QED
    BY <1>1, <1>2, <1>6, <2>1, PayloadEmpty, BytesFacts
<1>8. ~HasUnconsumedTail(d) /\ ~Over(d)
  BY <1>1, <1>2 DEF HasUnconsumedTail, Over
<1> QED
  BY <1>2, <1>4, <1>6, <1>7, <1>8 DEF d

\* What _decode returns ...
DecodeTyped(data, max, flush, d) ==
  /\ DecOK(d.dec) /\ d.dec.kind = dec.kind /\ d.out \in Bytes /\ d.error \in BOOLEAN
  /\ ~Decoding => d.dec = dec /\ d.out = Payload(data) /\ ~d.error
  /\ Decoding /\ flush /\ ~d.error => Pending(d.dec) = <<>> /\ d.dec.obj.inner = <<>>
  /\ Decoding /\ ~flush => Decoded(dec, data, max, d)

\* ... and that it keeps what it does not return, when "left" is still to come.
DecodeMoves(data, left, d) ==
  InStep(dec, (Pending(dec) \o data) \o left) /\ ~d.error =>
    /\ Undelivered(dec) \o Payload(data) = d.out \o Undelivered(d.dec)
    /\ InStep(d.dec, Pending(d.dec) \o left)

LEMMA DecodeFacts ==
  ASSUME CallTypes, shape \in Shapes, NEW data \in Units, NEW max \in Int,
         NEW flush \in BOOLEAN, NEW left \in Units
  PROVE  /\ DecodeTyped(data, max, flush, Decode(data, max, flush))
         /\ DecodeMoves(data, left, Decode(data, max, flush))
<1> DEFINE m == IF flush THEN -1 ELSE max
           r == Decompress(dec, data, m)
           f == FlushDecoder(r.dec)
           d == Decode(data, max, flush)
<1>1. DecOK(dec) /\ dec.kind = shape.enc /\ shape.enc \in Kinds /\ Payload(data) \in Bytes
      /\ Undelivered(dec) \in Bytes /\ shape.decode \in BOOLEAN
  BY ShapeFacts, DecFacts, PayloadTyped DEF CallTypes
<1>2. CASE ~Decoding
  <2>1. d = [dec |-> dec, out |-> Payload(data), error |-> FALSE]
    BY <1>2 DEF Decode, Decoding
  <2>2. DecodeTyped(data, max, flush, d)
    BY <1>1, <1>2, <2>1 DEF DecodeTyped
  <2>3. ASSUME InStep(dec, (Pending(dec) \o data) \o left)
        PROVE  Undelivered(dec) \o Payload(data) = d.out \o Undelivered(d.dec)
               /\ InStep(d.dec, Pending(d.dec) \o left)
    <3>1. dec = NewDecoder(shape.enc)
      BY <1>2, <2>3 DEF InStep
    <3>2. Undelivered(dec) = <<>>
      BY <1>1, <3>1, NewDecoderFacts
    <3>3. Undelivered(dec) \o Payload(data) = Payload(data) \o Undelivered(dec)
      BY <1>1, <3>2, BytesFacts
    <3>4. InStep(dec, Pending(dec) \o left)
      BY <1>2, <3>1 DEF InStep
    <3> QED
      BY <2>1, <3>3, <3>4
  <2> QED
    BY <2>2, <2>3 DEF DecodeMoves
<1>3. CASE Decoding
  <2>1. m \in Int
    OBVIOUS
  <2> HIDE DEF m
  <2>2. Decoded(dec, data, m, r) /\ Conserved(dec, data, left, r, Trailed)
    BY <1>1, <2>1, DecompressKeeps
  <2>3. DecOK(r.dec) /\ r.dec.kind = dec.kind /\ r.out \in Bytes /\ r.error \in BOOLEAN
    BY <2>2 DEF Decoded
  <2>4. /\ f = [dec |-> f.dec, out |-> f.out, error |-> f.error]
        /\ DecOK(f.dec) /\ f.dec.kind = r.dec.kind /\ f.out \in Bytes /\ f.error \in BOOLEAN
        /\ ~f.error => Pending(f.dec) = <<>> /\ f.dec.obj.inner = <<>>
        /\ Conserved(r.dec, <<>>, left, f, Trailed)
    BY <2>3, FlushKeeps
  <2>5. d = IF r.error \/ ~flush THEN r ELSE [f EXCEPT !.out = r.out \o f.out]
    BY <1>1, <1>3 DEF Decode, Decoding, m
  <2>6. CASE r.error \/ ~flush
    <3>1. d = r
      BY <2>5, <2>6
    <3>2. DecodeTyped(data, max, flush, d)
      BY <1>3, <2>2, <2>3, <2>6, <3>1 DEF DecodeTyped, m
    <3> HIDE DEF r
    <3>3. DecodeMoves(data, left, d)
      BY <1>3, <2>2, <3>1 DEF DecodeMoves, Conserved, InStep
    <3> QED
      BY <3>2, <3>3
  <2>7. CASE ~(r.error \/ ~flush)
    <3> HIDE DEF f, r
    <3>1. d.dec = f.dec /\ d.out = r.out \o f.out /\ d.error = f.error
      BY <2>4, <2>5, <2>7
    <3> HIDE DEF d
    <3>2. r.out \o f.out \in Bytes
      BY <2>3, <2>4, BytesFacts
    <3>3. DecodeTyped(data, max, flush, d)
      BY <1>3, <2>3, <2>4, <2>7, <3>1, <3>2 DEF DecodeTyped
    <3>4. ASSUME InStep(dec, (Pending(dec) \o data) \o left), ~d.error
          PROVE  Undelivered(dec) \o Payload(data) = d.out \o Undelivered(d.dec)
                 /\ InStep(d.dec, Pending(d.dec) \o left)
      <4>1. Sound(dec, (Pending(dec) \o data) \o left, Trailed)
        BY <1>3, <3>4 DEF InStep
      <4>2. /\ Undelivered(dec) \o Payload(data) = r.out \o Undelivered(r.dec)
            /\ Sound(r.dec, Pending(r.dec) \o left, Trailed)
        BY <2>2, <2>7, <4>1 DEF Conserved
      <4>3. Pending(r.dec) \in Units /\ Undelivered(r.dec) \in Bytes /\ Undelivered(f.dec) \in Bytes
        BY <2>3, <2>4, DecFacts
      <4>4. Pending(r.dec) \o <<>> = Pending(r.dec)
        BY <4>3, UnitsFacts
      <4>5. /\ Undelivered(r.dec) \o Payload(<<>>) = f.out \o Undelivered(f.dec)
            /\ Sound(f.dec, Pending(f.dec) \o left, Trailed)
        BY <2>4, <3>1, <3>4, <4>2, <4>4 DEF Conserved
      <4>6. Undelivered(r.dec) = f.out \o Undelivered(f.dec)
        BY <4>3, <4>5, PayloadEmpty, BytesFacts
      <4>7. (r.out \o f.out) \o Undelivered(f.dec) = r.out \o (f.out \o Undelivered(f.dec))
        BY <2>3, <2>4, <4>3, BytesAssoc
      <4> QED
        BY <1>3, <3>1, <4>2, <4>5, <4>6, <4>7 DEF InStep
    <3> QED
      BY <3>3, <3>4 DEF DecodeMoves, d
  <2> QED
    BY <2>6, <2>7
<1> QED
  BY <1>2, <1>3

\* What read1, and get with an amount, take from the buffer.
LEMMA ServedKeeps ==
  ASSUME NEW b, BufferOK(b), NEW amt \in Amounts, b.chunks # <<>> \/ b.size > 0
  PROVE  LET g == Served(b, amt)
         IN  /\ BufferOK(g.buf) /\ g.out \in Bytes
             /\ g.out \o Contents(g.buf) = Contents(b)
             /\ amt # All => g = GetBytes(b, amt)
             /\ amt # All => Len(g.out) = IF amt <= b.size THEN amt ELSE b.size
             /\ amt = All \/ b.size <= amt => g.buf.size = 0
<1>1. b.chunks # <<>>
  BY ContentsTyped
<1>2. CASE amt = All
  <2>1. Served(b, amt) = GetAll(b)
    BY <1>2 DEF Served
  <2> QED
    BY <1>2, <2>1, GetAllKeeps
<1>3. CASE amt # All
  <2>1. Served(b, amt) = GetBytes(b, amt) /\ amt \in Nat \ {0}
    BY <1>3 DEF Served, Amounts
  <2>2. /\ BufferOK(GetBytes(b, amt).buf) /\ GetBytes(b, amt).out \in Bytes
        /\ GetBytes(b, amt).out \o Contents(GetBytes(b, amt).buf) = Contents(b)
        /\ Len(GetBytes(b, amt).out) = IF amt <= b.size THEN amt ELSE b.size
        /\ GetBytes(b, amt).buf.size = b.size - Len(GetBytes(b, amt).out)
    BY <1>1, <2>1, GetBytesKeeps
  <2>3. b.size \in Nat
    BY DEF BufferOK
  <2>4. b.size <= amt => GetBytes(b, amt).buf.size = 0
    BY <2>1, <2>2, <2>3
  <2> QED
    BY <1>3, <2>1, <2>2, <2>4
<1> QED
  BY <1>2, <1>3

\* A decoder with nothing to decode does not fail when it is flushed.
LEMMA FlushesNothing ==
  ASSUME NEW d, DecOK(d), Pending(d) = <<>>
  PROVE  ~FlushDecoder(d).error
<1> DEFINE q == Decompress(d, <<>>, -1)
<1>1. FlushDecoder(d).error = q.error
  BY DEF FlushDecoder, FlushObj, WithObj, Result
<1>2. /\ ObjOK(d.obj) /\ d.kept \in Units /\ d.obj.tail \in Units /\ <<>> \in Units
      /\ d.obj.unused \in Units
  BY DecFacts, UnitsFacts DEF ObjOK, Objs
<1>3. CASE d.kind # "gzip"
  <2>1. Len(d.obj.tail) + Len(d.kept) = 0 /\ Len(d.obj.tail) \in Nat /\ Len(d.kept) \in Nat
    BY <1>2, <1>3, UnitsFacts DEF Pending
  <2>2. \A m, n \in Nat : m + n = 0 => m = 0 /\ n = 0
    OBVIOUS
  <2>3. Len(d.obj.tail) = 0 /\ Len(d.kept) = 0
    BY <2>1, <2>2, Zenon
  <2>4. d.obj.tail = <<>> /\ d.kept \o <<>> = <<>>
    BY <1>2, <2>3, UnitsFacts
  <2>5. q = Returned(d, <<>>)
    BY <1>3, <2>4 DEF Decompress, DeflateDecompress
  <2> QED
    BY <1>1, <2>5 DEF Returned
<1>4. CASE d.kind = "gzip"
  <2>1. d.kept = <<>> /\ d.kept \o <<>> = <<>>
    BY <1>2, <1>4, UnitsFacts DEF Pending
  <2>2. CASE d.state = "swallow" \/ d.obj.eof
    <3>1. q = Returned(d, <<>>)
      BY <1>4, <2>1, <2>2 DEF Decompress, GzipDecompress
    <3> QED
      BY <1>1, <3>1 DEF Returned
  <2>3. CASE ~(d.state = "swallow" \/ d.obj.eof)
    <3>1. q = GzipLoop(d, <<>>, -1)
      BY <1>4, <2>1, <2>3 DEF Decompress, GzipDecompress
    <3>2. 2 = Len(d.obj.unused) + Len(<<>>) + 2
      BY <1>2, <2>3, UnitsFacts DEF ObjOK
    <3>3. PICK turn : Turns(turn, 2, d, <<>>, -1) /\ GzipLoop(d, <<>>, -1) = turn[2]
      BY <3>2, GzipLoopRuns
    <3> DEFINE i == Inflate(d.obj, <<>>, 0)
               s == GzipStart(d, <<>>)
    <3>4. turn[0] = s /\ turn[1] = GzipTurn(s, -1) /\ turn[2] = GzipTurn(turn[1], -1)
      <4>1. turn[0] = s /\ \A j \in 0..1 : turn[j + 1] = GzipTurn(turn[j], -1)
        BY <3>3 DEF Turns
      <4>2. turn[0 + 1] = GzipTurn(turn[0], -1) /\ turn[1 + 1] = GzipTurn(turn[1], -1)
        BY <4>1
      <4> QED
        BY <4>1, <4>2
    <3>5. ~i.error /\ Rest(i.obj) = <<>>
      BY <1>2, <2>3, InflateNothing
    <3>6. s.dec = d /\ s.data = <<>> /\ ~s.over /\ ~s.error /\ s.out = <<>>
      BY DEF GzipStart
    <3>7. turn[1] = GzipFed(s, i, -1)
      BY <3>4, <3>6 DEF GzipTurn
    <3> HIDE DEF i
    <3>8. GzipLoopOver(s, i, -1) = TRUE
      BY <3>5 DEF GzipLoopOver
    <3>9. turn[1] = GzipAfter(s, i, TRUE)
      BY <3>7, <3>8 DEF GzipFed
    <3>10. turn[1].over /\ ~turn[1].error
      BY <3>5, <3>9 DEF GzipAfter, GzipStart
    <3>11. turn[2] = turn[1]
      BY <3>4, <3>10 DEF GzipTurn
    <3> QED
      BY <1>1, <3>1, <3>3, <3>10, <3>11
  <2> QED
    BY <2>2, <2>3
<1> QED
  BY <1>3, <1>4

------------------------------------------------------------------------------
(* Types, the file and the call: every step *)

LEMMA AnswerTyped ==
  ASSUME CallTypes, NEW op \in {"read", "stream", "read1", "chunks"}, NEW asked \in Amounts,
         NEW bytes \in Bytes, Answer(op, asked, bytes)
  PROVE  /\ call' \in Calls /\ answer' \in Answers /\ delivered' \in Bytes
         /\ delivered' = delivered \o bytes
         /\ answer' = [op |-> op, asked |-> asked, got |-> Len(bytes), raised |-> FALSE]
         /\ op # "stream" => call' = Idle
         /\ op = "stream" => call'.phase = "next" /\ call'.op = call.op /\ call'.amt = call.amt
<1>1. call \in Calls /\ delivered \in Bytes /\ Idle \in Calls
  BY DEF CallTypes, Calls, Idle, Amounts
<1>2. Len(bytes) \in Nat /\ delivered \o bytes \in Bytes
  BY <1>1, BytesFacts
<1>3. [call EXCEPT !.phase = "next", !.odd = ~@] \in Calls
  BY <1>1 DEF Calls
<1>4. op = "stream" => call'.phase = "next" /\ call'.op = call.op /\ call'.amt = call.amt
  BY <1>1 DEF Answer, Calls
<1> QED
  BY <1>1, <1>2, <1>3, <1>4 DEF Answer, Answers

LEMMA RaiseTyped ==
  ASSUME CallTypes, marks \subseteq Marks, NEW op \in {"read", "stream", "read1", "chunks"},
         NEW asked \in Amounts, Raise(op, asked)
  PROVE  /\ call' \in Calls /\ answer' \in Answers /\ delivered' \in Bytes
         /\ MarksGrow /\ call' = Idle /\ ~Intact'
         /\ TakenWhole' = TakenWhole /\ TakenInChunks' = TakenInChunks
BY DEF CallTypes, Calls, Answers, Idle, Amounts, Raise, MarksGrow, Marks, Intact,
       TakenWhole, TakenInChunks

LEMMA GoOnTyped ==
  ASSUME CallTypes, NEW op \in {"read", "stream", "read1", "chunks"}, NEW amt \in Amounts,
         NEW phase \in {"fetch", "next", "fetch1", "turn"}, NEW first \in BOOLEAN,
         GoOn(op, amt, phase, first)
  PROVE  /\ call' \in Calls /\ answer' \in Answers /\ delivered' \in Bytes
         /\ call'.op = op /\ call'.amt = amt /\ call'.phase = phase /\ call'.first = first
         /\ delivered' = delivered /\ answer' = answer
<1> DEFINE c == [op |-> op, amt |-> amt, phase |-> phase, first |-> first, odd |-> ~call.odd]
<1>1. (~call.odd) \in BOOLEAN
  OBVIOUS
<1>2. c \in Calls
  BY <1>1 DEF Calls
<1>3. call' = c /\ delivered' = delivered /\ answer' = answer
  BY DEF GoOn
<1>4. delivered \in Bytes /\ answer \in Answers
  BY DEF CallTypes
<1> QED
  BY <1>2, <1>3, <1>4

\* A call that is over leaves nothing to keep.
LEMMA WaysIdle ==
  ASSUME Ways, call' = Idle, shape' = shape, Chunked => ~(TakenWhole' /\ TakenInChunks')
  PROVE  Ways'
BY DEF Ways, Idle, Chunked

LEMMA CallTypesKept ==
  ASSUME CallTypes, shape' = shape, DecOK(dec'), dec'.kind = dec.kind, hasDecoded' \in BOOLEAN,
         BufferOK(buf'), delivered' \in Bytes, call' \in Calls, answer' \in Answers
  PROVE  CallTypes'
BY DEF CallTypes

LEMMA TypesFacts ==
  ASSUME TypesInv
  PROVE  /\ FileInv /\ CallTypes /\ Ways /\ shape \in Shapes /\ marks \subseteq Marks
         /\ DecOK(dec) /\ dec.kind = shape.enc /\ hasDecoded \in BOOLEAN
         /\ BufferOK(buf) /\ buf.size \in Nat /\ delivered \in Bytes
         /\ call \in Calls /\ call.amt \in Amounts /\ answer \in Answers
         /\ fp.left \in Units /\ MaxLength(call.amt) \in Int /\ Wanted(call.amt) \in Int
<1>1. /\ FileInv /\ CallTypes /\ Ways /\ shape \in Shapes /\ marks \subseteq Marks
      /\ DecOK(dec) /\ dec.kind = shape.enc /\ hasDecoded \in BOOLEAN
      /\ BufferOK(buf) /\ delivered \in Bytes
      /\ call \in Calls /\ answer \in Answers /\ fp.left \in Units
  BY DEF TypesInv, FileInv, FileTypes, CallInv, CallTypes
<1>2. buf.size \in Nat /\ call.amt \in Amounts
  BY <1>1 DEF BufferOK, Calls
<1> QED
  BY <1>1, <1>2 DEF MaxLength, Wanted, Amounts

\* Decoding what the decoder holds back, and putting it into the buffer.
LEMMA BeginReadFacts ==
  ASSUME TypesInv, NEW amt \in Amounts, NEW more \in BOOLEAN
  PROVE  LET r == Decode(<<>>, Wanted(amt), FALSE)
             b == IF more THEN PutChunk(buf, r.out) ELSE buf
             d == IF more THEN r.dec ELSE dec
         IN  /\ DecodeTyped(<<>>, Wanted(amt), FALSE, r)
             /\ BufferOK(b) /\ DecOK(d) /\ d.kind = dec.kind /\ r.error \in BOOLEAN
             /\ r.out \in Bytes
             /\ Contents(b) = Contents(buf) \o (IF more THEN r.out ELSE <<>>)
             /\ b.size = buf.size + (IF more THEN Len(r.out) ELSE 0)
<1> DEFINE r == Decode(<<>>, Wanted(amt), FALSE)
<1>1. CallTypes /\ shape \in Shapes /\ DecOK(dec) /\ BufferOK(buf) /\ buf.size \in Nat
  BY TypesFacts
<1>2. Wanted(amt) \in Int /\ <<>> \in Units
  BY <1>1, UnitsFacts DEF Wanted, Amounts
<1>3. DecodeTyped(<<>>, Wanted(amt), FALSE, r)
  BY <1>1, <1>2, DecodeFacts
<1>4. /\ DecOK(r.dec) /\ r.dec.kind = dec.kind /\ r.out \in Bytes /\ r.error \in BOOLEAN
  BY <1>3 DEF DecodeTyped
<1> HIDE DEF r
<1>5. /\ BufferOK(PutChunk(buf, r.out))
      /\ Contents(PutChunk(buf, r.out)) = Contents(buf) \o r.out
      /\ PutChunk(buf, r.out).size = buf.size + Len(r.out)
  BY <1>1, <1>4, PutChunkKeeps
<1>6. Contents(buf) \o <<>> = Contents(buf) /\ buf.size + 0 = buf.size
  BY <1>1, ContentsTyped, BytesFacts
<1> QED
  BY <1>1, <1>3, <1>4, <1>5, <1>6 DEF r

------------------------------------------------------------------------------
(* What a step takes from the file, decodes and hands on *)

\* The step takes data from the file, decodes it as d says, and the user and
\* the buffer have what comes out.
Carries(data, d) ==
  /\ data \in Units /\ d.out \in Bytes /\ ~d.error /\ dec' = d.dec
  /\ fp.left = data \o fp'.left
  /\ DecodeMoves(data, fp'.left, d)
  /\ delivered' \o Contents(buf') = (delivered \o Contents(buf)) \o d.out

\* The step moves bytes to the user at most.
Rests ==
  /\ dec' = dec /\ fp'.left = fp.left
  /\ delivered' \o Contents(buf') = delivered \o Contents(buf)

Carried == Intact' /\ Unbuffered => Rests \/ \E data, d : Carries(data, d)

LEMMA CarriedBy ==
  ASSUME NEW data, NEW d, Carries(data, d)
  PROVE  Carried
BY DEF Carried

\* Every step that keeps the promises keeps the order.
LEMMA CarriedKeeps ==
  ASSUME TypesInv, TypesInv', shape' = shape, Carried, Intact', Unbuffered,
         InOrder, InStep(dec, Pending(dec) \o fp.left)
  PROVE  InOrder' /\ InStep(dec, Pending(dec) \o fp.left)'
<1>1. /\ delivered \in Bytes /\ Contents(buf) \in Bytes /\ fp.left \in Units
      /\ Undelivered(dec) \in Bytes /\ Pending(dec) \in Units
      /\ delivered' \in Bytes /\ Contents(buf') \in Bytes /\ fp'.left \in Units
      /\ Undelivered(dec') \in Bytes /\ Pending(dec') \in Units
  BY ContentsTyped, DecFacts DEF TypesInv, FileInv, FileTypes, CallInv, CallTypes
<1>2. Body' = Body /\ Decoding' = Decoding /\ Trailed' = Trailed
  BY DEF Body, Decoding, Trailed, HasDecoder
<1>3. \A d, u : InStep(d, u)' = InStep(d, u)
  BY <1>2 DEF InStep
<1> DEFINE had == delivered \o Contents(buf)
           has == delivered' \o Contents(buf')
<1>4. had \in Bytes /\ has \in Bytes
  BY <1>1, BytesFacts
<1>5. (had \o Undelivered(dec)) \o Payload(fp.left) = Body
  BY DEF InOrder
<1>6. SUFFICES (has \o Undelivered(dec')) \o Payload(fp'.left) = Body
               /\ InStep(dec', Pending(dec') \o fp'.left)
  <2>1. InStep(dec, Pending(dec) \o fp.left)' = InStep(dec', Pending(dec') \o fp'.left)
    BY <1>2 DEF InStep
  <2> QED
    BY <1>2, <2>1 DEF InOrder
<1> HIDE DEF had, has
<1>7. CASE Rests
  BY <1>5, <1>7 DEF Rests, had, has
<1>8. CASE \E data, d : Carries(data, d)
  <2>1. PICK data, d : Carries(data, d)
    BY <1>8
  <2>2. /\ data \in Units /\ d.out \in Bytes /\ ~d.error /\ dec' = d.dec
        /\ fp.left = data \o fp'.left /\ DecodeMoves(data, fp'.left, d)
        /\ has = had \o d.out
    BY <2>1 DEF Carries, had, has
  <2>3. Pending(dec) \o fp.left = (Pending(dec) \o data) \o fp'.left
    <3> DEFINE w == Pending(dec)
               v == fp'.left
    <3>1. w \in Units /\ v \in Units /\ data \in Units /\ fp.left = data \o v
      BY <1>1, <2>2
    <3> HIDE DEF w, v
    <3>2. (w \o data) \o v = w \o (data \o v)
      BY <3>1, UnitsAssoc
    <3> QED
      BY <3>1, <3>2 DEF w, v
  <2>4. /\ Undelivered(dec) \o Payload(data) = d.out \o Undelivered(dec')
        /\ InStep(dec', Pending(dec') \o fp'.left)
    BY <2>2, <2>3 DEF DecodeMoves
  <2>5. Payload(fp.left) = Payload(data) \o Payload(fp'.left)
    BY <1>1, <2>2, PayloadConcat, ZenonT(60)
  <2>6. /\ Undelivered(dec) \in Bytes /\ Undelivered(dec') \in Bytes
        /\ Payload(data) \in Bytes /\ Payload(fp'.left) \in Bytes
    BY <1>1, <2>2, PayloadTyped
  <2>7. /\ Undelivered(dec) \o Payload(data) = d.out \o Undelivered(dec')
        /\ (had \o Undelivered(dec)) \o (Payload(data) \o Payload(fp'.left)) = Body
    BY <1>5, <2>4, <2>5
  <2>8. d.out \in Bytes /\ had \in Bytes
    BY <1>4, <2>2
  <2>9. ((had \o d.out) \o Undelivered(dec')) \o Payload(fp'.left) = Body
    <3> DEFINE x   == Undelivered(dec)
               y   == Undelivered(dec')
               p   == Payload(data)
               q   == Payload(fp'.left)
               out == d.out
    <3>1. /\ had \in Bytes /\ x \in Bytes /\ p \in Bytes
          /\ q \in Bytes /\ out \in Bytes /\ y \in Bytes
      BY <2>6, <2>8
    <3>2. x \o p = out \o y /\ (had \o x) \o (p \o q) = Body
      BY <2>7
    <3> HIDE DEF x, y, p, q, out
    <3>3. Regroups(had, x, p, q, out, y)
      BY <3>1, BytesRegroup, Zenon
    <3> QED
      BY <3>2, <3>3, Zenon DEF Regroups, y, q, out
  <2> QED
    BY <2>2, <2>4, <2>9
<1> QED
  BY <1>7, <1>8 DEF Carried

\* What a step that reads and decodes has in hand.
LEMMA ReadDecodes ==
  ASSUME TypesInv, NEW amt \in Amounts, NEW one \in BOOLEAN, NEW r \in RawReads(amt, one),
         DoRead(r), NEW max \in Int, NEW flush \in BOOLEAN
  PROVE  LET d == Decode(r.data, max, flush)
         IN  /\ r.data \in Units /\ r.error \in BOOLEAN /\ fp'.left \in Units
             /\ ~r.error => fp.left = r.data \o fp'.left
             /\ DecodeTyped(r.data, max, flush, d) /\ DecodeMoves(r.data, fp'.left, d)
             /\ DecOK(d.dec) /\ d.dec.kind = dec.kind /\ d.out \in Bytes /\ d.error \in BOOLEAN
             /\ ~Decoding => d.dec = dec /\ d.out = Payload(r.data) /\ ~d.error
<1>1. FileInv /\ CallTypes /\ shape \in Shapes
  BY TypesFacts
<1>2. ReadTyped(r) /\ fp' = r.fp
  BY <1>1, ReadFacts DEF DoRead
<1>3. r.data \in Units /\ r.error \in BOOLEAN /\ fp'.left \in Units
      /\ (~r.error => fp.left = r.data \o fp'.left)
  BY <1>2 DEF ReadTyped
<1> DEFINE d == Decode(r.data, max, flush)
<1>4. DecodeTyped(r.data, max, flush, d) /\ DecodeMoves(r.data, fp'.left, d)
  BY <1>1, <1>3, DecodeFacts
<1> HIDE DEF d
<1>5. /\ DecOK(d.dec) /\ d.dec.kind = dec.kind /\ d.out \in Bytes /\ d.error \in BOOLEAN
      /\ ~Decoding => d.dec = dec /\ d.out = Payload(r.data) /\ ~d.error
  BY <1>4 DEF DecodeTyped
<1> QED
  BY <1>3, <1>4, <1>5 DEF d

\* Bytes that go through the buffer.
LEMMA BufferCarries ==
  ASSUME TypesInv, NEW b, BufferOK(b), NEW out \in Bytes, Contents(b) = Contents(buf) \o out
  PROVE  /\ delivered \o Contents(b) = (delivered \o Contents(buf)) \o out
         /\ \A amt \in Amounts : b.chunks # <<>> \/ b.size > 0 =>
              LET g == Served(b, amt)
              IN  /\ BufferOK(g.buf) /\ g.out \in Bytes
                  /\ amt # All => g = GetBytes(b, amt)
                  /\ (delivered \o g.out) \o Contents(g.buf) = (delivered \o Contents(buf)) \o out
<1>1. delivered \in Bytes /\ Contents(buf) \in Bytes /\ Contents(b) \in Bytes
  BY TypesFacts, ContentsTyped
<1>2. delivered \o Contents(b) = (delivered \o Contents(buf)) \o out
  BY <1>1, BytesAssoc, SMTT(60)
<1>3. ASSUME NEW amt \in Amounts, b.chunks # <<>> \/ b.size > 0
      PROVE  LET g == Served(b, amt)
             IN  /\ BufferOK(g.buf) /\ g.out \in Bytes
                 /\ amt # All => g = GetBytes(b, amt)
                 /\ (delivered \o g.out) \o Contents(g.buf) = (delivered \o Contents(buf)) \o out
  <2> DEFINE g == Served(b, amt)
  <2>1. /\ BufferOK(g.buf) /\ g.out \in Bytes
        /\ g.out \o Contents(g.buf) = Contents(b) /\ (amt # All => g = GetBytes(b, amt))
    BY <1>3, ServedKeeps
  <2> HIDE DEF g
  <2>2. Contents(g.buf) \in Bytes
    BY <2>1, ContentsTyped
  <2>3. (delivered \o g.out) \o Contents(g.buf) = delivered \o (g.out \o Contents(g.buf))
    BY <1>1, <2>1, <2>2, BytesAssoc, ZenonT(60)
  <2> QED
    BY <1>2, <2>1, <2>3 DEF g
<1> QED
  BY <1>2, <1>3

\* Bytes that go straight to the user, past an empty buffer.
LEMMA PastBuffer ==
  ASSUME TypesInv, buf.size = 0, buf' = buf, NEW out \in Bytes, delivered' = delivered \o out
  PROVE  delivered' \o Contents(buf') = (delivered \o Contents(buf)) \o out
<1>1. delivered \in Bytes /\ Contents(buf) \in Bytes /\ Len(Contents(buf)) = 0
  BY TypesFacts, ContentsTyped
<1>2. Contents(buf) = <<>> /\ delivered \o out \in Bytes
  BY <1>1, BytesFacts
<1> QED
  BY <1>1, <1>2, BytesFacts

\* What every step does.
Stepped ==
  /\ TypesInv' /\ shape' = shape /\ MarksGrow
  /\ Carried
  /\ Intact' /\ Unbuffered => Unbuffered'

LEMMA SteppedBy ==
  ASSUME TypesInv, FileInv', Ways', shape' = shape, MarksGrow,
         DecOK(dec'), dec'.kind = dec.kind, hasDecoded' \in BOOLEAN, BufferOK(buf'),
         delivered' \in Bytes, call' \in Calls, answer' \in Answers,
         Carried, Intact' /\ Unbuffered => Unbuffered'
  PROVE  Stepped
<1>1. CallTypes'
  BY TypesFacts, CallTypesKept
<1> QED
  BY <1>1 DEF Stepped, TypesInv, CallInv

LEMMA RaiseStepped ==
  ASSUME TypesInv, shape' = shape, MarksGrow => FileInv',
         DecOK(dec'), dec'.kind = dec.kind, hasDecoded' \in BOOLEAN, BufferOK(buf'),
         NEW op \in {"read", "stream", "read1", "chunks"}, NEW asked \in Amounts,
         Raise(op, asked)
  PROVE  Stepped
<1>1. /\ call' \in Calls /\ answer' \in Answers /\ delivered' \in Bytes
      /\ MarksGrow /\ call' = Idle /\ ~Intact'
      /\ TakenWhole' = TakenWhole /\ TakenInChunks' = TakenInChunks
  BY TypesFacts, RaiseTyped
<1>2. Ways'
  <2>1. Chunked => ~(TakenWhole' /\ TakenInChunks')
    BY <1>1, TypesFacts DEF Ways
  <2> QED
    BY <1>1, <2>1, TypesFacts, WaysIdle
<1>3. Carried
  BY <1>1 DEF Carried
<1> QED
  BY <1>1, <1>2, <1>3, SteppedBy

LEMMA AnswerStepped ==
  ASSUME TypesInv, FileInv', shape' = shape, MarksGrow,
         Chunked => ~(TakenWhole' /\ TakenInChunks'),
         DecOK(dec'), dec'.kind = dec.kind, hasDecoded' \in BOOLEAN, BufferOK(buf'),
         NEW op \in {"read", "stream", "read1", "chunks"}, NEW asked \in Amounts,
         op = "stream" => call.op = "stream" /\ call.amt # All /\ ~Chunked,
         NEW bytes \in Bytes, Answer(op, asked, bytes),
         Carried, Intact' /\ Unbuffered => Unbuffered'
  PROVE  Stepped
<1>1. /\ call' \in Calls /\ answer' \in Answers /\ delivered' \in Bytes
      /\ op # "stream" => call' = Idle
      /\ op = "stream" => call'.phase = "next" /\ call'.op = call.op /\ call'.amt = call.amt
  BY TypesFacts, AnswerTyped
<1>2. Ways'
  <2>1. CASE op # "stream"
    BY <1>1, <2>1, TypesFacts, WaysIdle
  <2>2. CASE op = "stream"
    BY <1>1, <2>2, TypesFacts DEF Ways, Chunked
  <2> QED
    BY <2>1, <2>2
<1> QED
  BY <1>1, <1>2, SteppedBy

\* A call that goes on to another read.
LEMMA GoOnStepped ==
  ASSUME TypesInv, FileInv', shape' = shape, MarksGrow,
         Chunked => ~TakenInChunks',
         DecOK(dec'), dec'.kind = dec.kind, hasDecoded' \in BOOLEAN, BufferOK(buf'),
         NEW op \in {"read", "stream", "read1"}, NEW amt \in Amounts,
         NEW phase \in {"fetch", "fetch1"}, NEW first \in BOOLEAN,
         phase = "fetch" => op # "read1" /\ amt # All /\ buf'.size < amt /\ (op = "stream" => ~Chunked),
         phase = "fetch1" => op = "read1",
         GoOn(op, amt, phase, first),
         Carried, Intact' /\ Unbuffered => Unbuffered'
  PROVE  Stepped
<1>1. /\ call' \in Calls /\ answer' \in Answers /\ delivered' \in Bytes
      /\ call'.op = op /\ call'.amt = amt /\ call'.phase = phase
  BY TypesFacts, GoOnTyped
<1>2. Ways'
  BY <1>1 DEF Ways, Chunked
<1> QED
  BY <1>1, <1>2, SteppedBy

LEMMA WayFacts ==
  ASSUME TypesInv
  PROVE  /\ Way("whole") /\ Chunked => ~TakenInChunks
         /\ Way("chunks") /\ Chunked => ~TakenWhole
         /\ marks' = marks \/ marks' = Taken("whole") =>
              MarksGrow /\ TakenInChunks' = TakenInChunks
         /\ marks' = Taken("whole") /\ Chunked => TakenWhole'
         /\ marks' = marks => TakenWhole' = TakenWhole
         /\ MarksGrow => (Intact' => Intact)
         /\ Chunked => ~(TakenWhole /\ TakenInChunks)
<1>1. marks \subseteq Marks /\ Ways
  BY TypesFacts
<1>2. Chunked => ~(TakenWhole /\ TakenInChunks)
  BY <1>1 DEF Ways
<1>3. /\ Way("whole") /\ Chunked => ~TakenInChunks
      /\ Way("chunks") /\ Chunked => ~TakenWhole
  BY DEF Way, TakenInChunks, TakenWhole
<1>4. MarksGrow => (Intact' => Intact)
  BY DEF MarksGrow, Intact
<1>5. marks' = marks \/ marks' = Taken("whole") => MarksGrow /\ TakenInChunks' = TakenInChunks
  <2>1. /\ Taken("whole") = marks \/ Taken("whole") = marks \cup {"whole"}
        /\ marks \cup {"whole"} \subseteq Marks
    BY <1>1 DEF Taken, Marks
  <2>2. SUFFICES ASSUME marks' = marks \/ marks' = marks \cup {"whole"}
                 PROVE  MarksGrow /\ TakenInChunks' = TakenInChunks
    BY <2>1
  <2> QED
    BY <1>1, <2>1, <2>2 DEF MarksGrow, TakenInChunks
<1>6. marks' = Taken("whole") /\ Chunked => TakenWhole'
  BY DEF Taken, TakenWhole
<1> QED
  BY <1>2, <1>3, <1>4, <1>5, <1>6 DEF TakenWhole

\* A body that is taken whole, or is not chunked, leaves Unbuffered little to say.
LEMMA UnbufferedBy ==
  ASSUME shape' = shape, Chunked => TakenWhole', ~shape.decode => buf'.size = 0
  PROVE  Unbuffered'
BY DEF Unbuffered, Chunked

LEMMA UnbufferedKept ==
  ASSUME shape' = shape, Unbuffered, UNCHANGED <<buf, dec, marks>>
  PROVE  Unbuffered'
BY DEF Unbuffered, Chunked, TakenWhole, TakenInChunks

LEMMA NoTail ==
  ASSUME TypesInv, Unbuffered, Chunked, ~TakenWhole, ~TakenInChunks
  PROVE  ~HasTail
<1>1. dec = NewDecoder(shape.enc) /\ shape.enc \in Kinds
  BY TypesFacts, ShapeFacts DEF Unbuffered
<1> QED
  BY <1>1, NewDecoderFacts DEF HasTail

------------------------------------------------------------------------------
(* The steps *)

LEMMA BeginReadSteps ==
  ASSUME TypesInv, NEW amt \in Amounts, amt # All, NEW op \in {"read", "stream"},
         op = "stream" => call.op = "stream" /\ call.amt = amt /\ ~Chunked,
         Chunked => ~TakenInChunks, BeginRead(op, amt)
  PROVE  Stepped
<1> DEFINE r == Decode(<<>>, Wanted(amt), FALSE)
           b == IF HasTail THEN PutChunk(buf, r.out) ELSE buf
           g == GetBytes(b, amt)
           d == IF HasTail THEN r.dec ELSE dec
           out == IF HasTail THEN r.out ELSE <<>>
<1>1. /\ FileInv /\ CallTypes /\ marks \subseteq Marks /\ amt \in Nat \ {0}
      /\ BufferOK(buf) /\ hasDecoded \in BOOLEAN /\ shape \in Shapes /\ fp.left \in Units
      /\ delivered \in Bytes /\ shape.decode \in BOOLEAN /\ buf.size \in Nat
  BY TypesFacts, ShapeFacts DEF Amounts
<1>2. HasTail \in BOOLEAN
  BY DEF HasTail, HasDecoder, HasUnconsumedTail
<1>3. /\ BufferOK(b) /\ DecOK(d) /\ d.kind = dec.kind /\ r.error \in BOOLEAN /\ r.out \in Bytes
      /\ DecodeTyped(<<>>, Wanted(amt), FALSE, r)
      /\ Contents(b) = Contents(buf) \o out
      /\ b.size = buf.size + (IF HasTail THEN Len(r.out) ELSE 0)
  BY <1>2, BeginReadFacts
<1>4. /\ dec' = d /\ NoRead /\ UNCHANGED <<shape, hasDecoded, chunkLeft, sizes>>
      /\ \/ HasTail /\ r.error /\ Raise(op, amt) /\ UNCHANGED buf
         \/ /\ ~(HasTail /\ r.error) /\ b.size >= amt /\ buf' = g.buf
            /\ Answer(op, amt, g.out) /\ UNCHANGED marks
         \/ /\ ~(HasTail /\ r.error) /\ b.size < amt /\ buf' = b
            /\ GoOn(op, amt, "fetch", TRUE) /\ UNCHANGED marks
  BY DEF BeginRead
<1>5. out \in Bytes
  BY <1>3, BytesFacts
<1>6. fp' = fp
  BY <1>4 DEF NoRead
<1>7. ~shape.decode => r.out = <<>>
  BY <1>3, PayloadEmpty DEF DecodeTyped, Decoding
<1>8. Unbuffered => /\ ~shape.decode => b.size = 0
                    /\ Chunked /\ ~TakenWhole => b.size = 0 /\ dec' = dec
  <2> SUFFICES ASSUME Unbuffered
               PROVE  /\ ~shape.decode => b.size = 0
                      /\ Chunked /\ ~TakenWhole => b.size = 0 /\ dec' = dec
    OBVIOUS
  <2>1. ~shape.decode => b.size = 0
    <3>1. ~shape.decode => buf.size = 0 /\ (IF HasTail THEN Len(r.out) ELSE 0) = 0
      BY <1>7 DEF Unbuffered
    <3> HIDE DEF b, r
    <3> QED
      BY <1>1, <1>3, <3>1
  <2>2. Chunked /\ ~TakenWhole => ~HasTail /\ buf.size = 0
    BY NoTail DEF Unbuffered
  <2> QED
    BY <1>4, <2>1, <2>2
<1>9. ASSUME ~(HasTail /\ r.error),
             delivered' \o Contents(buf') = (delivered \o Contents(buf)) \o out
      PROVE  Carried
  <2>1. CASE HasTail
    <3>1. DecodeMoves(<<>>, fp'.left, r)
      <4>1. Wanted(amt) \in Int /\ <<>> \in Units /\ fp'.left \in Units
        BY <1>1, <1>6, UnitsFacts DEF Wanted
      <4> QED
        BY <1>1, <4>1, DecodeFacts
    <3>2. fp.left = <<>> \o fp'.left
      BY <1>1, <1>6, UnitsFacts
    <3>3. dec' = r.dec /\ ~r.error /\ out = r.out
      BY <1>4, <1>9, <2>1
    <3> HIDE DEF r, out
    <3>4. Carries(<<>>, r)
      BY <1>3, <1>9, <3>1, <3>2, <3>3, UnitsFacts DEF Carries
    <3> QED
      BY <3>4, CarriedBy
  <2>2. CASE ~HasTail
    <3>1. delivered \o Contents(buf) \in Bytes /\ out = <<>>
      BY <1>1, <2>2, ContentsTyped, BytesFacts
    <3>2. delivered' \o Contents(buf') = delivered \o Contents(buf)
      BY <1>9, <3>1, BytesFacts
    <3> QED
      BY <1>4, <1>6, <2>2, <3>2 DEF Carried, Rests
  <2> QED
    BY <2>1, <2>2
<1>10. /\ delivered \o Contents(b) = (delivered \o Contents(buf)) \o out
       /\ b.size > 0 =>
            /\ BufferOK(g.buf) /\ g.out \in Bytes
            /\ (delivered \o g.out) \o Contents(g.buf) = (delivered \o Contents(buf)) \o out
  <2> HIDE DEF b, out
  <2>1. b.size > 0 => Served(b, amt) = GetBytes(b, amt)
    BY <1>3, <1>5, BufferCarries
  <2>2. b.size > 0 =>
            /\ BufferOK(Served(b, amt).buf) /\ Served(b, amt).out \in Bytes
            /\ (delivered \o Served(b, amt).out) \o Contents(Served(b, amt).buf)
                 = (delivered \o Contents(buf)) \o out
    BY <1>3, <1>5, BufferCarries
  <2> QED
    BY <1>3, <1>5, <2>1, <2>2, BufferCarries
<1>11. hasDecoded' \in BOOLEAN
  BY <1>1, <1>4
<1>12. MarksGrow => FileInv'
  BY <1>1, <1>4, AfterNoRead
<1> HIDE DEF r, b, d, g, out
<1>13. CASE HasTail /\ r.error /\ Raise(op, amt) /\ UNCHANGED buf
  <2>1. BufferOK(buf') /\ DecOK(dec') /\ dec'.kind = dec.kind /\ shape' = shape
    BY <1>1, <1>3, <1>4, <1>13
  <2> QED
    BY <1>11, <1>12, <1>13, <2>1, RaiseStepped
<1>14. CASE /\ ~(HasTail /\ r.error) /\ b.size >= amt /\ buf' = g.buf
            /\ Answer(op, amt, g.out) /\ UNCHANGED marks
  <2>1. /\ b.size > 0 /\ BufferOK(g.buf) /\ g.out \in Bytes
        /\ (delivered \o g.out) \o Contents(g.buf) = (delivered \o Contents(buf)) \o out
    <3>1. b.size > 0
      BY <1>1, <1>3, <1>14 DEF BufferOK
    <3> QED
      BY <1>10, <3>1
  <2>2. BufferOK(buf') /\ DecOK(dec') /\ dec'.kind = dec.kind /\ shape' = shape
    BY <1>3, <1>4, <1>14, <2>1
  <2>3. MarksGrow /\ TakenWhole' = TakenWhole /\ TakenInChunks' = TakenInChunks
    BY <1>14, WayFacts
  <2>4. Chunked => ~(TakenWhole' /\ TakenInChunks')
    BY <2>3
  <2>5. Carried
    BY <1>9, <1>14, <2>1 DEF Answer
  <2>6. Unbuffered => Unbuffered'
    BY <1>8, <2>1, <2>2, <2>3, UnbufferedBy
  <2> QED
    BY <1>1, <1>11, <1>12, <1>14, <2>1, <2>2, <2>3, <2>4, <2>5, <2>6, AnswerStepped
<1>15. CASE /\ ~(HasTail /\ r.error) /\ b.size < amt /\ buf' = b
            /\ GoOn(op, amt, "fetch", TRUE) /\ UNCHANGED marks
  <2>1. BufferOK(buf') /\ DecOK(dec') /\ dec'.kind = dec.kind /\ shape' = shape
    BY <1>3, <1>4, <1>15
  <2>2. MarksGrow /\ TakenWhole' = TakenWhole /\ TakenInChunks' = TakenInChunks
    BY <1>15, WayFacts
  <2>3. Carried
    BY <1>9, <1>10, <1>15 DEF GoOn
  <2>4. Unbuffered => Unbuffered'
    BY <1>8, <1>15, <2>1, <2>2 DEF Unbuffered, Chunked
  <2> QED
    BY <1>1, <1>11, <1>12, <1>15, <2>1, <2>2, <2>3, <2>4, GoOnStepped
<1> QED
  BY <1>4, <1>13, <1>14, <1>15

LEMMA ReadSteps ==
  ASSUME TypesInv, NEW amt \in shape.amts, Read(amt)
  PROVE  Stepped
<1>1. amt \in Amounts /\ amt # All
  BY TypesFacts, ShapeFacts
<1>2. BeginRead("read", amt) /\ (Chunked => ~TakenInChunks)
  BY WayFacts DEF Read
<1> QED
  BY <1>1, <1>2, BeginReadSteps

LEMMA StreamNextSteps ==
  ASSUME TypesInv, StreamNext
  PROVE  Stepped
<1>1. BeginRead("stream", call.amt) /\ call.op = "stream" /\ call.amt # All /\ ~Chunked
  BY TypesFacts DEF StreamNext, Ways
<1> QED
  BY <1>1, TypesFacts, BeginReadSteps

LEMMA StreamSteps ==
  ASSUME TypesInv, NEW amt \in shape.amts, Stream(amt)
  PROVE  Stepped
<1>1. amt \in Amounts /\ amt # All
  BY TypesFacts, ShapeFacts
<1>2. /\ GoOn("stream", amt, "next", FALSE) /\ NoRead /\ ~Chunked
      /\ UNCHANGED <<shape, dec, hasDecoded, buf, chunkLeft, sizes, marks>>
  BY DEF Stream
<1>3. /\ call' \in Calls /\ answer' \in Answers /\ delivered' \in Bytes
      /\ call'.op = "stream" /\ call'.amt = amt /\ call'.phase = "next"
      /\ delivered' = delivered
  BY <1>1, <1>2, TypesFacts, GoOnTyped
<1>4. MarksGrow
  BY <1>2, WayFacts
<1>5. FileInv'
  BY <1>2, <1>4, TypesFacts, AfterNoRead
<1>6. Ways'
  BY <1>1, <1>2, <1>3 DEF Ways, Chunked
<1>7. Carried
  BY <1>2, <1>3 DEF Carried, Rests, NoRead
<1> QED
  BY <1>2, <1>3, <1>4, <1>5, <1>6, <1>7, UnbufferedKept, TypesFacts, SteppedBy

LEMMA StreamEndSteps ==
  ASSUME TypesInv, StreamEnd
  PROVE  Stepped
<1>1. /\ NoRead /\ call' = Idle
      /\ UNCHANGED <<shape, dec, hasDecoded, buf, chunkLeft, sizes, delivered, marks>>
      /\ answer' = [op |-> "stream", asked |-> call.amt, got |-> 0, raised |-> FALSE]
  BY DEF StreamEnd
<1>2. call' \in Calls /\ answer' \in Answers
  BY <1>1, TypesFacts DEF Calls, Answers, Idle, Amounts
<1>4. MarksGrow /\ (Chunked => ~(TakenWhole' /\ TakenInChunks'))
  BY <1>1, WayFacts
<1>5. FileInv'
  BY <1>1, <1>4, TypesFacts, AfterNoRead
<1>6. Ways'
  BY <1>1, <1>4, TypesFacts, WaysIdle
<1>7. Carried
  BY <1>1 DEF Carried, Rests, NoRead
<1> QED
  BY <1>1, <1>2, <1>4, <1>5, <1>6, <1>7, UnbufferedKept, TypesFacts, SteppedBy

\* The parts of Fetch, for one outcome of its _raw_read.
LEMMA FetchSteps ==
  ASSUME TypesInv, Fetch
  PROVE  Stepped
<1>1. PICK r \in RawReads(call.amt, FALSE) :
       LET none == r.data = <<>> /\ call.first
           d    == Decode(r.data, Wanted(call.amt), none)
           b    == PutChunk(buf, d.out)
           g    == GetBytes(b, call.amt)
       IN  /\ DoRead(r)
           /\ \/ /\ r.error
                 /\ Raise(call.op, call.amt)
                 /\ UNCHANGED <<dec, hasDecoded, buf>>
              \/ /\ ~r.error /\ none /\ buf.size = 0 /\ ~HasTail
                 /\ Answer(call.op, call.amt, <<>>)
                 /\ UNCHANGED <<dec, hasDecoded, buf, marks>>
              \/ /\ ~r.error /\ r.data # <<>> /\ ~shape.decode
                 /\ Answer(call.op, call.amt, Payload(r.data))
                 /\ marks' = Taken("whole")
                 /\ UNCHANGED <<dec, hasDecoded, buf>>
              \/ /\ ~r.error /\ shape.decode /\ d.error
                 /\ Raise(call.op, call.amt)
                 /\ dec' = d.dec
                 /\ UNCHANGED <<hasDecoded, buf>>
              \/ /\ ~r.error /\ shape.decode /\ ~d.error
                 /\ dec' = d.dec
                 /\ hasDecoded' = HasDecoder
                 /\ marks' = Taken("whole")
                 /\ IF b.size < call.amt /\ r.data # <<>>
                    THEN /\ buf' = b
                         /\ GoOn(call.op, call.amt, "fetch", FALSE)
                    ELSE /\ buf' = g.buf
                         /\ Answer(call.op, call.amt, g.out)
  BY DEF Fetch
<1> DEFINE none == r.data = <<>> /\ call.first
           d    == Decode(r.data, Wanted(call.amt), none)
           b    == PutChunk(buf, d.out)
           g    == GetBytes(b, call.amt)
<1>2. /\ FileInv /\ DecOK(dec) /\ hasDecoded \in BOOLEAN /\ BufferOK(buf) /\ delivered \in Bytes
      /\ call.amt \in Amounts /\ Wanted(call.amt) \in Int /\ shape.decode \in BOOLEAN
      /\ HasDecoder \in BOOLEAN
  BY TypesFacts, ShapeFacts DEF HasDecoder
<1>3. /\ call.op \in {"read", "stream"} /\ call.amt # All /\ buf.size < call.amt
      /\ call.op = "stream" => ~Chunked
      /\ Chunked => ~TakenInChunks
  BY TypesFacts DEF Fetch, Ways
<1>4. DoRead(r) /\ UNCHANGED <<shape, chunkLeft, sizes>>
  BY <1>1 DEF Fetch
<1>5. MarksGrow => FileInv'
  BY <1>2, <1>4, AfterRead
<1>6. /\ r.data \in Units /\ r.error \in BOOLEAN
      /\ ~r.error => fp.left = r.data \o fp'.left
      /\ DecodeMoves(r.data, fp'.left, d)
      /\ DecOK(d.dec) /\ d.dec.kind = dec.kind /\ d.out \in Bytes /\ d.error \in BOOLEAN
      /\ ~Decoding => d.dec = dec /\ d.out = Payload(r.data) /\ ~d.error
  BY <1>2, <1>4, ReadDecodes, ZenonT(60)
<1> HIDE DEF d
<1>7. BufferOK(b) /\ Contents(b) = Contents(buf) \o d.out /\ b.chunks # <<>>
  BY <1>2, <1>6, PutChunkKeeps
<1>8. /\ delivered \o Contents(b) = (delivered \o Contents(buf)) \o d.out
      /\ BufferOK(g.buf) /\ g.out \in Bytes
      /\ (delivered \o g.out) \o Contents(g.buf) = (delivered \o Contents(buf)) \o d.out
  <2> HIDE DEF b
  <2>1. Served(b, call.amt) = GetBytes(b, call.amt)
    BY <1>2, <1>3, <1>6, <1>7, BufferCarries
  <2>2. /\ BufferOK(Served(b, call.amt).buf) /\ Served(b, call.amt).out \in Bytes
        /\ (delivered \o Served(b, call.amt).out) \o Contents(Served(b, call.amt).buf)
             = (delivered \o Contents(buf)) \o d.out
    BY <1>2, <1>6, <1>7, BufferCarries
  <2> QED
    BY <1>6, <1>7, <2>1, <2>2, BufferCarries
<1> HIDE DEF b, g
<1>9. CASE /\ r.error
           /\ Raise(call.op, call.amt)
           /\ UNCHANGED <<dec, hasDecoded, buf>>
  BY <1>2, <1>3, <1>4, <1>5, <1>9, RaiseStepped
<1>10. CASE /\ ~r.error /\ shape.decode /\ d.error
            /\ Raise(call.op, call.amt)
            /\ dec' = d.dec
            /\ UNCHANGED <<hasDecoded, buf>>
  BY <1>2, <1>3, <1>4, <1>5, <1>6, <1>10, RaiseStepped
<1>11. CASE /\ ~r.error /\ none /\ buf.size = 0 /\ ~HasTail
            /\ Answer(call.op, call.amt, <<>>)
            /\ UNCHANGED <<dec, hasDecoded, buf, marks>>
  <2>1. /\ MarksGrow /\ TakenWhole' = TakenWhole /\ TakenInChunks' = TakenInChunks
        /\ <<>> \in Bytes
    BY <1>11, WayFacts, BytesFacts
  <2>2. fp'.left = fp.left
    <3>1. fp.left = <<>> \o fp'.left
      BY <1>6, <1>11
    <3>2. fp'.left \in Units
      BY <1>5, <2>1 DEF FileInv, FileTypes
    <3> QED
      BY <3>1, <3>2, UnitsFacts
  <2>3. delivered' = delivered
    BY <1>2, <1>11, BytesFacts DEF Answer
  <2>4. Carried
    BY <1>11, <2>2, <2>3 DEF Carried, Rests
  <2>5. Unbuffered => Unbuffered'
    BY <1>4, <1>11, UnbufferedKept
  <2> QED
    BY <1>2, <1>3, <1>4, <1>5, <1>11, <2>1, <2>4, <2>5, AnswerStepped
<1>12. CASE /\ ~r.error /\ r.data # <<>> /\ ~shape.decode
            /\ Answer(call.op, call.amt, Payload(r.data))
            /\ marks' = Taken("whole")
            /\ UNCHANGED <<dec, hasDecoded, buf>>
  <2>1. /\ MarksGrow /\ TakenInChunks' = TakenInChunks /\ Payload(r.data) \in Bytes
        /\ Chunked => TakenWhole'
    BY <1>6, <1>12, WayFacts, PayloadTyped
  <2>2. d.dec = dec /\ d.out = Payload(r.data) /\ ~d.error
    BY <1>6, <1>12 DEF Decoding
  <2>3. Carried
    <3> SUFFICES ASSUME Unbuffered PROVE Carries(r.data, d)
      BY CarriedBy DEF Carried
    <3>1. buf.size = 0 /\ delivered' = delivered \o Payload(r.data)
      BY <1>12 DEF Answer, Unbuffered
    <3>2. delivered' \o Contents(buf') = (delivered \o Contents(buf)) \o d.out
      BY <1>12, <2>1, <2>2, <3>1, PastBuffer
    <3> QED
      BY <1>6, <1>12, <2>2, <3>2 DEF Carries
  <2>4. Unbuffered => Unbuffered'
    <3>1. Unbuffered => (~shape.decode => buf'.size = 0)
      BY <1>12 DEF Unbuffered
    <3> QED
      BY <1>4, <2>1, <3>1, UnbufferedBy
  <2> QED
    BY <1>2, <1>3, <1>4, <1>5, <1>12, <2>1, <2>3, <2>4, AnswerStepped
<1>13. ASSUME ~r.error, shape.decode, ~d.error, dec' = d.dec, marks' = Taken("whole"),
              delivered' \o Contents(buf') = (delivered \o Contents(buf)) \o d.out
       PROVE  /\ MarksGrow /\ TakenInChunks' = TakenInChunks /\ Carried
              /\ Unbuffered'
  <2>1. /\ MarksGrow /\ TakenInChunks' = TakenInChunks
        /\ Chunked => TakenWhole'
    BY <1>13, WayFacts
  <2>2. Carries(r.data, d)
    BY <1>6, <1>13 DEF Carries
  <2> QED
    BY <1>4, <1>13, <2>1, <2>2, CarriedBy, UnbufferedBy
<1>14. CASE /\ ~r.error /\ shape.decode /\ ~d.error
            /\ dec' = d.dec
            /\ hasDecoded' = HasDecoder
            /\ marks' = Taken("whole")
            /\ b.size < call.amt
            /\ buf' = b
            /\ GoOn(call.op, call.amt, "fetch", FALSE)
  <2>1. delivered' \o Contents(buf') = (delivered \o Contents(buf)) \o d.out
    BY <1>8, <1>14 DEF GoOn
  <2>2. MarksGrow /\ TakenInChunks' = TakenInChunks /\ Carried /\ Unbuffered'
    BY <1>13, <1>14, <2>1
  <2> QED
    BY <1>2, <1>3, <1>4, <1>5, <1>6, <1>7, <1>14, <2>2, GoOnStepped
<1>15. CASE /\ ~r.error /\ shape.decode /\ ~d.error
            /\ dec' = d.dec
            /\ hasDecoded' = HasDecoder
            /\ marks' = Taken("whole")
            /\ buf' = g.buf
            /\ Answer(call.op, call.amt, g.out)
  <2>1. delivered' \o Contents(buf') = (delivered \o Contents(buf)) \o d.out
    BY <1>8, <1>15 DEF Answer
  <2>2. MarksGrow /\ TakenInChunks' = TakenInChunks /\ Carried /\ Unbuffered'
    BY <1>13, <1>15, <2>1
  <2> QED
    BY <1>2, <1>3, <1>4, <1>5, <1>6, <1>8, <1>15, <2>2, AnswerStepped
<1>16. \/ /\ r.error
          /\ Raise(call.op, call.amt)
          /\ UNCHANGED <<dec, hasDecoded, buf>>
       \/ /\ ~r.error /\ none /\ buf.size = 0 /\ ~HasTail
          /\ Answer(call.op, call.amt, <<>>)
          /\ UNCHANGED <<dec, hasDecoded, buf, marks>>
       \/ /\ ~r.error /\ r.data # <<>> /\ ~shape.decode
          /\ Answer(call.op, call.amt, Payload(r.data))
          /\ marks' = Taken("whole")
          /\ UNCHANGED <<dec, hasDecoded, buf>>
       \/ /\ ~r.error /\ shape.decode /\ d.error
          /\ Raise(call.op, call.amt)
          /\ dec' = d.dec
          /\ UNCHANGED <<hasDecoded, buf>>
       \/ /\ ~r.error /\ shape.decode /\ ~d.error
          /\ dec' = d.dec
          /\ hasDecoded' = HasDecoder
          /\ marks' = Taken("whole")
          /\ IF b.size < call.amt /\ r.data # <<>>
             THEN /\ buf' = b
                  /\ GoOn(call.op, call.amt, "fetch", FALSE)
             ELSE /\ buf' = g.buf
                  /\ Answer(call.op, call.amt, g.out)
  BY <1>1 DEF d, b, g
<1> QED
  BY <1>9, <1>10, <1>11, <1>12, <1>14, <1>15, <1>16

\* A step that throws bytes away, or breaks off, keeps no promise about order.
LEMMA ReadAllSteps ==
  ASSUME TypesInv, ReadAll
  PROVE  Stepped
<1>1. PICK r \in RawReads(All, FALSE) :
       LET none == r.data = <<>> /\ buf.size = 0 /\ ~HasTail
           d    == Decode(r.data, -1, TRUE)
       IN  /\ DoRead(r)
           /\ \/ /\ r.error
                 /\ Raise("read", All)
                 /\ UNCHANGED <<dec, hasDecoded>>
              \/ /\ ~r.error /\ none
                 /\ Answer("read", All, <<>>)
                 /\ UNCHANGED <<dec, hasDecoded, marks>>
              \/ /\ ~r.error /\ ~none /\ d.error
                 /\ Raise("read", All)
                 /\ dec' = d.dec
                 /\ UNCHANGED hasDecoded
              \/ /\ ~r.error /\ ~none /\ ~d.error
                 /\ Answer("read", All, d.out)
                 /\ dec' = d.dec
                 /\ hasDecoded' = (HasDecoder /\ shape.decode)
                 /\ marks' = Taken("whole") \cup (IF buf.size > 0 THEN {"skipped"} ELSE {})
  BY DEF ReadAll
<1> DEFINE none == r.data = <<>> /\ buf.size = 0 /\ ~HasTail
           d    == Decode(r.data, -1, TRUE)
<1>2. /\ FileInv /\ DecOK(dec) /\ hasDecoded \in BOOLEAN /\ BufferOK(buf) /\ delivered \in Bytes
      /\ All \in Amounts /\ marks \subseteq Marks /\ buf.size \in Nat
  BY TypesFacts DEF Amounts
<1>3. Chunked => ~TakenInChunks
  BY WayFacts DEF ReadAll
<1>4. DoRead(r) /\ UNCHANGED <<shape, buf, chunkLeft, sizes>>
  BY <1>1 DEF ReadAll
<1>5. MarksGrow => FileInv'
  BY <1>2, <1>4, AfterRead
<1>6. /\ r.data \in Units /\ r.error \in BOOLEAN
      /\ ~r.error => fp.left = r.data \o fp'.left
      /\ DecodeMoves(r.data, fp'.left, d)
      /\ DecOK(d.dec) /\ d.dec.kind = dec.kind /\ d.out \in Bytes /\ d.error \in BOOLEAN
  <2>1. -1 \in Int /\ TRUE \in BOOLEAN /\ FALSE \in BOOLEAN
    OBVIOUS
  <2> QED
    BY <1>2, <1>4, <2>1, ReadDecodes
<1> HIDE DEF d
<1>7. CASE r.error /\ Raise("read", All) /\ UNCHANGED <<dec, hasDecoded>>
  BY <1>2, <1>4, <1>5, <1>7, RaiseStepped
<1>8. CASE /\ ~r.error /\ ~none /\ d.error
           /\ Raise("read", All)
           /\ dec' = d.dec
           /\ UNCHANGED hasDecoded
  BY <1>2, <1>4, <1>5, <1>6, <1>8, RaiseStepped
<1>9. CASE /\ ~r.error /\ none
           /\ Answer("read", All, <<>>)
           /\ UNCHANGED <<dec, hasDecoded, marks>>
  <2>1. /\ MarksGrow /\ TakenWhole' = TakenWhole /\ TakenInChunks' = TakenInChunks
        /\ <<>> \in Bytes
    BY <1>9, WayFacts, BytesFacts
  <2>2. fp'.left = fp.left
    <3>1. fp.left = <<>> \o fp'.left
      BY <1>6, <1>9
    <3>2. fp'.left \in Units
      BY <1>5, <2>1 DEF FileInv, FileTypes
    <3> QED
      BY <3>1, <3>2, UnitsFacts
  <2>3. delivered' = delivered
    BY <1>2, <1>9, BytesFacts DEF Answer
  <2>4. Carried
    BY <1>4, <1>9, <2>2, <2>3 DEF Carried, Rests
  <2>5. Unbuffered => Unbuffered'
    BY <1>4, <1>9, UnbufferedKept
  <2>6. Chunked => ~(TakenWhole' /\ TakenInChunks')
    BY <1>3, <2>1
  <2> QED
    BY <1>2, <1>4, <1>5, <1>9, <2>1, <2>4, <2>5, <2>6, AnswerStepped
<1>10. CASE /\ ~r.error /\ ~none /\ ~d.error
            /\ Answer("read", All, d.out)
            /\ dec' = d.dec
            /\ hasDecoded' = (HasDecoder /\ shape.decode)
            /\ marks' = Taken("whole") \cup (IF buf.size > 0 THEN {"skipped"} ELSE {})
  <2>1. /\ Taken("whole") = marks \/ Taken("whole") = marks \cup {"whole"}
        /\ Chunked => "whole" \in Taken("whole")
    BY DEF Taken
  <2>a. \/ buf.size = 0 /\ marks' = Taken("whole")
        \/ marks' = Taken("whole") \cup {"skipped"}
    <3>1. Taken("whole") \cup {} = Taken("whole")
      OBVIOUS
    <3> HIDE DEF none, d
    <3>2. buf.size > 0 \/ buf.size = 0
      BY <1>2
    <3> QED
      BY <1>10, <3>1, <3>2
  <2>b. marks' = Taken("whole") \cup {"skipped"} => ~Intact'
    <3>1. marks' = Taken("whole") \cup {"skipped"} => "skipped" \in marks'
      OBVIOUS
    <3> QED
      BY <3>1 DEF Intact
  <2>2. MarksGrow /\ TakenInChunks' = TakenInChunks /\ (Chunked => TakenWhole')
    <3>1. \/ marks' = marks \/ marks' = marks \cup {"whole"}
          \/ marks' = marks \cup {"skipped"} \/ marks' = (marks \cup {"whole"}) \cup {"skipped"}
      BY <2>1, <2>a
    <3>2. Chunked => "whole" \in marks'
      BY <2>1, <2>a
    <3>3. marks \subseteq marks' /\ ("chunks" \in marks' <=> "chunks" \in marks)
      BY <3>1
    <3>4. marks' \subseteq Marks
      BY <1>2, <3>1 DEF Marks
    <3> QED
      BY <3>2, <3>3, <3>4 DEF MarksGrow, TakenInChunks, TakenWhole
  <2>3. Intact' => buf.size = 0
    BY <2>a, <2>b
  <2>4. hasDecoded' \in BOOLEAN
    BY <1>10
  <2>5. Carried
    <3> SUFFICES ASSUME Intact' PROVE Carries(r.data, d)
      BY CarriedBy DEF Carried
    <3>1. delivered' = delivered \o d.out
      BY <1>10 DEF Answer
    <3>2. delivered' \o Contents(buf') = (delivered \o Contents(buf)) \o d.out
      BY <1>4, <1>6, <2>3, <3>1, PastBuffer
    <3> QED
      BY <1>6, <1>10, <3>2 DEF Carries
  <2>6. Intact' => Unbuffered'
    BY <1>4, <2>2, <2>3, UnbufferedBy
  <2>7. DecOK(dec') /\ dec'.kind = dec.kind /\ BufferOK(buf') /\ Answer("read", All, d.out)
        /\ shape' = shape /\ FileInv' /\ (Chunked => ~(TakenWhole' /\ TakenInChunks'))
    BY <1>2, <1>3, <1>4, <1>5, <1>6, <1>10, <2>2
  <2> QED
    BY <1>2, <1>6, <2>2, <2>4, <2>5, <2>6, <2>7, AnswerStepped
<1>11. \/ r.error /\ Raise("read", All) /\ UNCHANGED <<dec, hasDecoded>>
       \/ /\ ~r.error /\ none
          /\ Answer("read", All, <<>>)
          /\ UNCHANGED <<dec, hasDecoded, marks>>
       \/ /\ ~r.error /\ ~none /\ d.error
          /\ Raise("read", All)
          /\ dec' = d.dec
          /\ UNCHANGED hasDecoded
       \/ /\ ~r.error /\ ~none /\ ~d.error
          /\ Answer("read", All, d.out)
          /\ dec' = d.dec
          /\ hasDecoded' = (HasDecoder /\ shape.decode)
          /\ marks' = Taken("whole") \cup (IF buf.size > 0 THEN {"skipped"} ELSE {})
  BY <1>1 DEF d
<1> QED
  BY <1>7, <1>8, <1>9, <1>10, <1>11

LEMMA Read1Steps ==
  ASSUME TypesInv, NEW amt \in shape.amts \cup {All}, Read1(amt)
  PROVE  Stepped
<1> DEFINE more == hasDecoded /\ HasTail /\ (IF amt = All THEN TRUE ELSE buf.size < amt)
           r == Decode(<<>>, Wanted(amt), FALSE)
           b == IF more THEN PutChunk(buf, r.out) ELSE buf
           g == Served(b, amt)
           d == IF more THEN r.dec ELSE dec
           out == IF more THEN r.out ELSE <<>>
<1>1. /\ FileInv /\ CallTypes /\ marks \subseteq Marks /\ amt \in Amounts
      /\ BufferOK(buf) /\ hasDecoded \in BOOLEAN /\ shape \in Shapes /\ fp.left \in Units
      /\ delivered \in Bytes /\ shape.decode \in BOOLEAN /\ buf.size \in Nat
      /\ Chunked => ~TakenInChunks
  BY TypesFacts, ShapeFacts, WayFacts DEF Amounts, Read1
<1>2. more \in BOOLEAN /\ (more => HasTail)
  BY <1>1 DEF HasTail, HasDecoder, HasUnconsumedTail
<1>3. /\ dec' = d /\ NoRead /\ UNCHANGED <<shape, hasDecoded, chunkLeft, sizes>>
      /\ \/ more /\ r.error /\ Raise("read1", amt) /\ UNCHANGED buf
         \/ /\ ~(more /\ r.error) /\ hasDecoded /\ b.size > 0 /\ buf' = g.buf
            /\ Answer("read1", amt, g.out) /\ UNCHANGED marks
         \/ /\ ~(more /\ r.error) /\ buf' = b
            /\ GoOn("read1", amt, "fetch1", TRUE) /\ UNCHANGED marks
  BY DEF Read1
<1> HIDE DEF more
<1>4. /\ BufferOK(b) /\ DecOK(d) /\ d.kind = dec.kind /\ r.error \in BOOLEAN /\ r.out \in Bytes
      /\ DecodeTyped(<<>>, Wanted(amt), FALSE, r)
      /\ Contents(b) = Contents(buf) \o out
      /\ b.size = buf.size + (IF more THEN Len(r.out) ELSE 0)
  BY <1>1, <1>2, BeginReadFacts
<1>5. out \in Bytes
  BY <1>4, BytesFacts
<1>6. fp' = fp
  BY <1>3 DEF NoRead
<1>7. ~shape.decode => r.out = <<>>
  BY <1>4, PayloadEmpty DEF DecodeTyped, Decoding
<1>8. Unbuffered => /\ ~shape.decode => b.size = 0
                    /\ Chunked /\ ~TakenWhole => b.size = 0 /\ dec' = dec
  <2> SUFFICES ASSUME Unbuffered
               PROVE  /\ ~shape.decode => b.size = 0
                      /\ Chunked /\ ~TakenWhole => b.size = 0 /\ dec' = dec
    OBVIOUS
  <2>1. ~shape.decode => b.size = 0
    <3>1. ~shape.decode => buf.size = 0 /\ (IF more THEN Len(r.out) ELSE 0) = 0
      BY <1>7 DEF Unbuffered
    <3> HIDE DEF b, r
    <3> QED
      BY <1>1, <1>4, <3>1
  <2>2. Chunked /\ ~TakenWhole => ~more /\ buf.size = 0
    BY <1>1, <1>2, NoTail DEF Unbuffered
  <2> QED
    BY <1>3, <2>1, <2>2
<1>9. ASSUME ~(more /\ r.error),
             delivered' \o Contents(buf') = (delivered \o Contents(buf)) \o out
      PROVE  Carried
  <2>1. CASE more
    <3>1. DecodeMoves(<<>>, fp'.left, r)
      <4>1. Wanted(amt) \in Int /\ <<>> \in Units /\ fp'.left \in Units
        BY <1>1, <1>6, UnitsFacts DEF Wanted, Amounts
      <4> QED
        BY <1>1, <4>1, DecodeFacts
    <3>2. fp.left = <<>> \o fp'.left
      BY <1>1, <1>6, UnitsFacts
    <3>3. dec' = r.dec /\ ~r.error /\ out = r.out
      BY <1>3, <1>9, <2>1
    <3> HIDE DEF r, out
    <3>4. Carries(<<>>, r)
      BY <1>4, <1>9, <3>1, <3>2, <3>3, UnitsFacts DEF Carries
    <3> QED
      BY <3>4, CarriedBy
  <2>2. CASE ~more
    <3>1. delivered \o Contents(buf) \in Bytes /\ out = <<>>
      BY <1>1, <2>2, ContentsTyped, BytesFacts
    <3>2. delivered' \o Contents(buf') = delivered \o Contents(buf)
      BY <1>9, <3>1, BytesFacts
    <3> QED
      BY <1>3, <1>6, <2>2, <3>2 DEF Carried, Rests
  <2> QED
    BY <2>1, <2>2
<1>10. /\ delivered \o Contents(b) = (delivered \o Contents(buf)) \o out
       /\ b.size > 0 =>
            /\ BufferOK(g.buf) /\ g.out \in Bytes
            /\ (delivered \o g.out) \o Contents(g.buf) = (delivered \o Contents(buf)) \o out
  <2> HIDE DEF b, out
  <2> QED
    BY <1>1, <1>4, <1>5, BufferCarries
<1>11. MarksGrow => FileInv'
  BY <1>1, <1>3, AfterNoRead
<1>12. hasDecoded' \in BOOLEAN
  BY <1>1, <1>3
<1> HIDE DEF r, b, d, g, out
<1>13. CASE more /\ r.error /\ Raise("read1", amt) /\ UNCHANGED buf
  <2>1. BufferOK(buf') /\ DecOK(dec') /\ dec'.kind = dec.kind /\ shape' = shape
    BY <1>1, <1>3, <1>4, <1>13
  <2> QED
    BY <1>1, <1>11, <1>12, <1>13, <2>1, RaiseStepped
<1>14. CASE /\ ~(more /\ r.error) /\ hasDecoded /\ b.size > 0 /\ buf' = g.buf
            /\ Answer("read1", amt, g.out) /\ UNCHANGED marks
  <2>1. /\ BufferOK(g.buf) /\ g.out \in Bytes
        /\ (delivered \o g.out) \o Contents(g.buf) = (delivered \o Contents(buf)) \o out
    BY <1>10, <1>14
  <2>2. BufferOK(buf') /\ DecOK(dec') /\ dec'.kind = dec.kind /\ shape' = shape
    BY <1>3, <1>4, <1>14, <2>1
  <2>3. MarksGrow /\ TakenWhole' = TakenWhole /\ TakenInChunks' = TakenInChunks
    BY <1>14, WayFacts
  <2>4. Chunked => ~(TakenWhole' /\ TakenInChunks')
    BY <1>1, <2>3
  <2>5. Carried
    BY <1>9, <1>14, <2>1 DEF Answer
  <2>6. Unbuffered => Unbuffered'
    <3>1. b.size \in Nat /\ b.size # 0
      BY <1>4, <1>14 DEF BufferOK
    <3> QED
      BY <1>8, <2>2, <2>3, <3>1, UnbufferedBy
  <2> QED
    BY <1>1, <1>11, <1>12, <1>14, <2>1, <2>2, <2>3, <2>4, <2>5, <2>6, AnswerStepped
<1>15. CASE /\ ~(more /\ r.error) /\ buf' = b
            /\ GoOn("read1", amt, "fetch1", TRUE) /\ UNCHANGED marks
  <2>1. BufferOK(buf') /\ DecOK(dec') /\ dec'.kind = dec.kind /\ shape' = shape
    BY <1>3, <1>4, <1>15
  <2>2. MarksGrow /\ TakenWhole' = TakenWhole /\ TakenInChunks' = TakenInChunks
    BY <1>15, WayFacts
  <2>3. Carried
    BY <1>9, <1>10, <1>15 DEF GoOn
  <2>4. Unbuffered => Unbuffered'
    BY <1>8, <1>15, <2>1, <2>2 DEF Unbuffered, Chunked
  <2>5. Chunked => ~TakenInChunks'
    BY <1>1, <2>2
  <2> QED
    BY <1>1, <1>11, <1>12, <1>15, <2>1, <2>2, <2>3, <2>4, <2>5, GoOnStepped
<1> QED
  BY <1>3, <1>13, <1>14, <1>15

LEMMA Fetch1Steps ==
  ASSUME TypesInv, Fetch1
  PROVE  Stepped
<1> DEFINE ask == IF call.first THEN call.amt ELSE Large
<1>1. PICK r \in RawReads(ask, TRUE) :
       LET flush == r.data = <<>>
           d     == Decode(r.data, MaxLength(call.amt), flush)
           b     == PutChunk(buf, d.out)
           g     == Served(b, call.amt)
       IN  /\ DoRead(r)
           /\ \/ /\ r.error
                 /\ Raise("read1", call.amt)
                 /\ UNCHANGED <<dec, hasDecoded, buf>>
              \/ /\ ~r.error /\ ~shape.decode
                 /\ Answer("read1", call.amt, Payload(r.data))
                 /\ marks' = Taken("whole") \cup Unreported(r)
                 /\ UNCHANGED <<dec, hasDecoded, buf>>
              \/ /\ ~r.error /\ shape.decode /\ d.error
                 /\ Raise("read1", call.amt)
                 /\ dec' = d.dec
                 /\ UNCHANGED <<hasDecoded, buf>>
              \/ /\ ~r.error /\ shape.decode /\ ~d.error
                 /\ dec' = d.dec
                 /\ hasDecoded' = HasDecoder
                 /\ marks' = Taken("whole") \cup Unreported(r)
                 /\ IF d.out = <<>> /\ ~flush
                    THEN /\ buf' = b
                         /\ GoOn("read1", call.amt, "fetch1", FALSE)
                    ELSE /\ buf' = g.buf
                         /\ Answer("read1", call.amt, g.out)
  BY DEF Fetch1
<1> DEFINE flush == r.data = <<>>
           d     == Decode(r.data, MaxLength(call.amt), flush)
           b     == PutChunk(buf, d.out)
           g     == Served(b, call.amt)
<1>2. /\ FileInv /\ DecOK(dec) /\ hasDecoded \in BOOLEAN /\ BufferOK(buf) /\ delivered \in Bytes
      /\ call.amt \in Amounts /\ MaxLength(call.amt) \in Int /\ shape.decode \in BOOLEAN
      /\ HasDecoder \in BOOLEAN /\ marks \subseteq Marks /\ flush \in BOOLEAN /\ TRUE \in BOOLEAN
  BY TypesFacts, ShapeFacts DEF HasDecoder
<1>a. ask \in Amounts
  <2>1. Large \in Nat /\ Large > Len(shape.wire) /\ Len(shape.wire) \in Nat
    BY LargeAssumption, TypesFacts, ShapeFacts, UnitsFacts
  <2>2. Large \in Nat \ {0}
    BY <2>1
  <2> QED
    BY <1>2, <2>2 DEF Amounts
<1> HIDE DEF ask
<1>3. Chunked => ~TakenInChunks
  BY TypesFacts DEF Fetch1, Ways
<1>4. DoRead(r) /\ UNCHANGED <<shape, chunkLeft, sizes>>
  BY <1>1 DEF Fetch1
<1>5. MarksGrow => FileInv'
  BY <1>2, <1>4, <1>a, AfterRead
<1>6. /\ r.data \in Units /\ r.error \in BOOLEAN
      /\ ~r.error => fp.left = r.data \o fp'.left
      /\ DecodeMoves(r.data, fp'.left, d)
      /\ DecOK(d.dec) /\ d.dec.kind = dec.kind /\ d.out \in Bytes /\ d.error \in BOOLEAN
      /\ ~Decoding => d.dec = dec /\ d.out = Payload(r.data) /\ ~d.error
  BY <1>2, <1>4, <1>a, ReadDecodes, ZenonT(60)
<1> HIDE DEF d
<1>7. BufferOK(b) /\ Contents(b) = Contents(buf) \o d.out /\ b.chunks # <<>>
  BY <1>2, <1>6, PutChunkKeeps
<1>8. /\ delivered \o Contents(b) = (delivered \o Contents(buf)) \o d.out
      /\ BufferOK(g.buf) /\ g.out \in Bytes
      /\ (delivered \o g.out) \o Contents(g.buf) = (delivered \o Contents(buf)) \o d.out
  <2> HIDE DEF b
  <2> QED
    BY <1>2, <1>6, <1>7, BufferCarries
<1> HIDE DEF b, g
<1>m. ASSUME marks' = Taken("whole") \cup Unreported(r)
      PROVE  MarksGrow /\ TakenInChunks' = TakenInChunks /\ (Chunked => TakenWhole')
  <2>1. /\ Taken("whole") = marks \/ Taken("whole") = marks \cup {"whole"}
        /\ Chunked => "whole" \in Taken("whole")
    BY DEF Taken
  <2>2. Unreported(r) = {} \/ Unreported(r) = {"unreported"}
    BY DEF Unreported
  <2>3. \/ marks' = marks \/ marks' = marks \cup {"whole"}
        \/ marks' = marks \cup {"unreported"} \/ marks' = (marks \cup {"whole"}) \cup {"unreported"}
    BY <1>m, <2>1, <2>2
  <2>4. Chunked => "whole" \in marks'
    BY <1>m, <2>1
  <2>5. marks \subseteq marks' /\ ("chunks" \in marks' <=> "chunks" \in marks)
    BY <2>3
  <2>6. marks' \subseteq Marks
    BY <1>2, <2>3 DEF Marks
  <2> QED
    BY <2>4, <2>5, <2>6 DEF MarksGrow, TakenInChunks, TakenWhole
<1>9. CASE /\ r.error
           /\ Raise("read1", call.amt)
           /\ UNCHANGED <<dec, hasDecoded, buf>>
  BY <1>2, <1>4, <1>5, <1>9, RaiseStepped
<1>10. CASE /\ ~r.error /\ shape.decode /\ d.error
            /\ Raise("read1", call.amt)
            /\ dec' = d.dec
            /\ UNCHANGED <<hasDecoded, buf>>
  BY <1>2, <1>4, <1>5, <1>6, <1>10, RaiseStepped
<1>11. CASE /\ ~r.error /\ ~shape.decode
            /\ Answer("read1", call.amt, Payload(r.data))
            /\ marks' = Taken("whole") \cup Unreported(r)
            /\ UNCHANGED <<dec, hasDecoded, buf>>
  <2>1. /\ MarksGrow /\ TakenInChunks' = TakenInChunks /\ Payload(r.data) \in Bytes
        /\ Chunked => TakenWhole'
    BY <1>6, <1>11, <1>m, PayloadTyped
  <2>2. d.dec = dec /\ d.out = Payload(r.data) /\ ~d.error
    BY <1>6, <1>11 DEF Decoding
  <2>3. Carried
    <3> SUFFICES ASSUME Unbuffered PROVE Carries(r.data, d)
      BY CarriedBy DEF Carried
    <3>1. buf.size = 0 /\ delivered' = delivered \o Payload(r.data)
      BY <1>11 DEF Answer, Unbuffered
    <3>2. delivered' \o Contents(buf') = (delivered \o Contents(buf)) \o d.out
      BY <1>11, <2>1, <2>2, <3>1, PastBuffer
    <3> QED
      BY <1>6, <1>11, <2>2, <3>2 DEF Carries
  <2>4. Unbuffered => Unbuffered'
    <3>1. Unbuffered => (~shape.decode => buf'.size = 0)
      BY <1>11 DEF Unbuffered
    <3> QED
      BY <1>4, <2>1, <3>1, UnbufferedBy
  <2>5. Chunked => ~(TakenWhole' /\ TakenInChunks')
    BY <1>3, <2>1
  <2> QED
    BY <1>2, <1>4, <1>5, <1>11, <2>1, <2>3, <2>4, <2>5, AnswerStepped
<1>13. ASSUME ~r.error, shape.decode, ~d.error, dec' = d.dec,
              marks' = Taken("whole") \cup Unreported(r),
              delivered' \o Contents(buf') = (delivered \o Contents(buf)) \o d.out
       PROVE  /\ MarksGrow /\ TakenInChunks' = TakenInChunks /\ Carried
              /\ Unbuffered' /\ (Chunked => ~TakenInChunks')
  <2>1. /\ MarksGrow /\ TakenInChunks' = TakenInChunks
        /\ Chunked => TakenWhole'
    BY <1>13, <1>m
  <2>2. Carries(r.data, d)
    BY <1>6, <1>13 DEF Carries
  <2> QED
    BY <1>3, <1>4, <1>13, <2>1, <2>2, CarriedBy, UnbufferedBy
<1>14. CASE /\ ~r.error /\ shape.decode /\ ~d.error
            /\ dec' = d.dec
            /\ hasDecoded' = HasDecoder
            /\ marks' = Taken("whole") \cup Unreported(r)
            /\ buf' = b
            /\ GoOn("read1", call.amt, "fetch1", FALSE)
  <2>1. delivered' \o Contents(buf') = (delivered \o Contents(buf)) \o d.out
    BY <1>8, <1>14 DEF GoOn
  <2>2. MarksGrow /\ TakenInChunks' = TakenInChunks /\ Carried /\ Unbuffered'
        /\ (Chunked => ~TakenInChunks')
    BY <1>13, <1>14, <2>1
  <2> QED
    BY <1>2, <1>4, <1>5, <1>6, <1>7, <1>14, <2>2, GoOnStepped
<1>15. CASE /\ ~r.error /\ shape.decode /\ ~d.error
            /\ dec' = d.dec
            /\ hasDecoded' = HasDecoder
            /\ marks' = Taken("whole") \cup Unreported(r)
            /\ buf' = g.buf
            /\ Answer("read1", call.amt, g.out)
  <2>1. delivered' \o Contents(buf') = (delivered \o Contents(buf)) \o d.out
    BY <1>8, <1>15 DEF Answer
  <2>2. MarksGrow /\ TakenInChunks' = TakenInChunks /\ Carried /\ Unbuffered'
        /\ (Chunked => ~TakenInChunks')
    BY <1>13, <1>15, <2>1
  <2> QED
    BY <1>2, <1>4, <1>5, <1>6, <1>8, <1>15, <2>2, AnswerStepped
<1>16. \/ /\ r.error
          /\ Raise("read1", call.amt)
          /\ UNCHANGED <<dec, hasDecoded, buf>>
       \/ /\ ~r.error /\ ~shape.decode
          /\ Answer("read1", call.amt, Payload(r.data))
          /\ marks' = Taken("whole") \cup Unreported(r)
          /\ UNCHANGED <<dec, hasDecoded, buf>>
       \/ /\ ~r.error /\ shape.decode /\ d.error
          /\ Raise("read1", call.amt)
          /\ dec' = d.dec
          /\ UNCHANGED <<hasDecoded, buf>>
       \/ /\ ~r.error /\ shape.decode /\ ~d.error
          /\ dec' = d.dec
          /\ hasDecoded' = HasDecoder
          /\ marks' = Taken("whole") \cup Unreported(r)
          /\ \/ buf' = b /\ GoOn("read1", call.amt, "fetch1", FALSE)
             \/ buf' = g.buf /\ Answer("read1", call.amt, g.out)
  BY <1>1 DEF d, b, g
<1> QED
  BY <1>9, <1>10, <1>11, <1>14, <1>15, <1>16

\* What leaving the generator does to the file.
LEMMA AfterLeaving ==
  ASSUME FileInv, shape' = shape, MarksGrow, NEW error \in BOOLEAN, LeaveCatcher(error),
         ~error => fp.left = <<>>
  PROVE  /\ fp'.left = fp.left /\ fp'.state = "closed"
         /\ UNCHANGED <<chunkLeft, sizes>> => FileInv'
         /\ InChunks' => FileInv'
<1>1. FileTypes /\ fp.left \in Units
  BY DEF FileInv, FileTypes
<1>2. /\ fp' = [fp EXCEPT !.state = "closed"] /\ remaining' = remaining
      /\ sock' = IF error /\ conn = "held" THEN "closed" ELSE sock
      /\ conn' = IF Http THEN "returned" ELSE conn
  BY DEF LeaveCatcher, Caught
<1>3. fp'.left = fp.left /\ fp'.state = "closed" /\ fp'.length = fp.length
  BY <1>1, <1>2 DEF FileTypes
<1>4. Drop(fp.left, 0) = fp.left
  BY <1>1 DEF Drop, Units
<1>5. fp' = [fp EXCEPT !.left = Drop(@, 0), !.state = "closed"]
  BY <1>1, <1>2, <1>4 DEF FileTypes
<1>6. FileKeeps
  BY <1>1, <1>2, <1>3, UnitsFacts DEF FileKeeps, FileTypes
<1>7. InChunks' => FileInv'
  <2> SUFFICES ASSUME InChunks' PROVE FileInv'
    OBVIOUS
  <2>1. 0 \in 0..Len(fp.left) /\ ~(0 > 0) /\ "closed" # "open"
    BY <1>1, UnitsFacts
  <2>2. \/ sock' = "closed"
        \/ sock' = sock /\ (conn = "held" => Drop(fp.left, 0) = <<>>)
    BY <1>2, <1>4
  <2>3. conn' = conn \/ (Http /\ conn' = "returned")
    BY <1>2
  <2> QED
    BY <1>2, <1>5, <2>1, <2>2, <2>3, AfterClosing
<1>8. UNCHANGED <<chunkLeft, sizes>> => FileInv'
  BY <1>6, <1>7, InChunksKept
<1> QED
  BY <1>3, <1>7, <1>8

\* What returning the connection of an ended response does to the file.
LEMMA AfterReturning ==
  ASSUME FileInv, shape' = shape, MarksGrow, fp.state # "open", Chunked, ReturnEnded,
         UNCHANGED <<chunkLeft, sizes>>
  PROVE  FileInv' /\ fp'.left = fp.left
<1>1. FileTypes /\ Lengths /\ InChunks /\ Finished /\ marks' \subseteq Marks
      /\ fp' = fp /\ remaining' = remaining /\ sock' = sock
      /\ conn' = IF Http THEN "returned" ELSE conn
  BY DEF FileInv, ReturnEnded, Caught, MarksGrow
<1>2. FileTypes'
  BY <1>1 DEF FileTypes
<1>3. Lengths'
  BY <1>1 DEF Lengths, Http, Chunked
<1>4. InChunks'
  BY <1>1 DEF InChunks, Chunked
<1>5. Finished'
  <2>1. Released => Released'
    BY DEF MarksGrow, Released
  <2>2. Http' = Http /\ (~Http => conn # "returned")
    BY <1>1 DEF Http, Lengths
  <2> QED
    BY <1>1, <2>1, <2>2 DEF Finished
<1> QED
  BY <1>1, <1>2, <1>3, <1>4, <1>5 DEF FileInv

LEMMA ReadChunkedSteps ==
  ASSUME TypesInv, NEW amt \in shape.amts \cup {All}, ReadChunked(amt)
  PROVE  Stepped
<1>1. /\ FileInv /\ DecOK(dec) /\ hasDecoded \in BOOLEAN /\ BufferOK(buf) /\ delivered \in Bytes
      /\ amt \in Amounts /\ marks \subseteq Marks /\ <<>> \in Bytes /\ shape.empty \in BOOLEAN
  BY TypesFacts, ShapeFacts, BytesFacts DEF Amounts
<1>2. /\ Chunked /\ marks' = marks \cup {"chunks"}
      /\ UNCHANGED <<shape, dec, hasDecoded, buf, chunkLeft, sizes>>
      /\ \/ /\ shape.empty \/ fp.state # "open"
            /\ IF shape.empty THEN LeaveCatcher(FALSE) ELSE ReturnEnded
            /\ Answer("chunks", amt, <<>>)
         \/ /\ ~shape.empty /\ fp.state = "open"
            /\ GoOn("chunks", amt, "turn", FALSE)
            /\ NoRead
  BY DEF ReadChunked
<1>3. ~TakenWhole
  BY <1>2, WayFacts DEF ReadChunked
<1>4. MarksGrow /\ TakenInChunks' /\ TakenWhole' = TakenWhole
  BY <1>1, <1>2 DEF MarksGrow, Marks, TakenInChunks, TakenWhole
<1>5. NoRead => FileInv' /\ fp'.left = fp.left /\ fp'.state = fp.state
  BY <1>1, <1>2, <1>4, AfterNoRead DEF NoRead
<1>6. shape.empty /\ LeaveCatcher(FALSE) => FileInv' /\ fp'.left = fp.left
  <2> SUFFICES ASSUME shape.empty, LeaveCatcher(FALSE) PROVE FileInv' /\ fp'.left = fp.left
    OBVIOUS
  <2>1. fp.left = <<>> /\ FALSE \in BOOLEAN
    BY <1>1 DEF FileInv, Lengths
  <2> QED
    BY <1>1, <1>2, <1>4, <2>1, AfterLeaving
<1>11. ~shape.empty /\ fp.state # "open" /\ ReturnEnded => FileInv' /\ fp'.left = fp.left
  BY <1>1, <1>2, <1>4, AfterReturning
<1>7. FileInv' /\ fp'.left = fp.left
  BY <1>2, <1>5, <1>6, <1>11
<1>8. Unbuffered => Unbuffered'
  BY <1>2, <1>4 DEF Unbuffered, Chunked
<1>9. CASE Answer("chunks", amt, <<>>)
  <2>1. delivered' = delivered
    BY <1>1, <1>9, BytesFacts DEF Answer
  <2>2. Carried
    BY <1>2, <1>7, <2>1 DEF Carried, Rests
  <2>3. Chunked => ~(TakenWhole' /\ TakenInChunks')
    BY <1>3, <1>4
  <2> QED
    BY <1>1, <1>2, <1>4, <1>7, <1>8, <1>9, <2>2, <2>3, AnswerStepped
<1>10. CASE ~shape.empty /\ fp.state = "open" /\ GoOn("chunks", amt, "turn", FALSE) /\ NoRead
  <2>1. /\ call' \in Calls /\ answer' \in Answers /\ delivered' \in Bytes
        /\ call'.op = "chunks" /\ call'.amt = amt /\ call'.phase = "turn"
        /\ delivered' = delivered
    BY <1>1, <1>10, TypesFacts, GoOnTyped
  <2>2. Carried
    BY <1>2, <1>7, <2>1 DEF Carried, Rests
  <2>3. Ways'
    BY <1>2, <1>3, <1>4, <1>5, <1>10, <2>1 DEF Ways, Chunked
  <2> QED
    BY <1>1, <1>2, <1>4, <1>7, <1>8, <2>1, <2>2, <2>3, SteppedBy
<1> QED
  BY <1>2, <1>9, <1>10

\* What every turn of read_chunked's loop starts from.
LEMMA TurnFacts ==
  ASSUME TypesInv, call.phase = "turn"
  PROVE  /\ FileInv /\ DecOK(dec) /\ hasDecoded \in BOOLEAN /\ BufferOK(buf) /\ delivered \in Bytes
         /\ call.amt \in Amounts /\ MaxLength(call.amt) \in Int /\ HasDecoder \in BOOLEAN
         /\ call.op = "chunks" /\ Chunked /\ TakenInChunks /\ ~TakenWhole
         /\ fp.state = "open" /\ ~shape.empty /\ fp.left \in Units
         /\ Unbuffered => buf.size = 0
<1>1. Chunked /\ TakenInChunks /\ ~TakenWhole
  BY TypesFacts DEF Ways
<1> QED
  BY <1>1, TypesFacts DEF Ways, Unbuffered, HasDecoder

LEMMA YieldSteps ==
  ASSUME TypesInv, call.phase = "turn", NEW bytes \in Bytes, Yield(bytes), shape' = shape,
         FileInv', fp'.state = "open", DecOK(dec'), dec'.kind = dec.kind,
         hasDecoded' \in BOOLEAN, buf' = buf, NEW data, NEW d,
         data \in Units, d.out = bytes, ~d.error, dec' = d.dec, fp.left = data \o fp'.left,
         DecodeMoves(data, fp'.left, d)
  PROVE  Stepped
<1>1. /\ DecOK(dec) /\ BufferOK(buf) /\ delivered \in Bytes /\ call \in Calls /\ answer \in Answers
      /\ call.op = "chunks" /\ Chunked /\ TakenInChunks /\ ~TakenWhole /\ ~shape.empty
      /\ Unbuffered => buf.size = 0
  BY TypesFacts, TurnFacts
<1>2. /\ delivered' = delivered \o bytes /\ answer' = answer /\ marks' = marks
      /\ call' = [call EXCEPT !.odd = ~@]
  BY DEF Yield
<1>3. /\ call' \in Calls /\ call'.op = call.op /\ call'.amt = call.amt
      /\ call'.phase = call.phase
  BY <1>1, <1>2 DEF Calls
<1>4. MarksGrow /\ TakenWhole' = TakenWhole /\ TakenInChunks' = TakenInChunks
  BY <1>2, WayFacts
<1>5. Ways'
  BY <1>1, <1>3, <1>4 DEF Ways, Chunked
<1>6. delivered' \in Bytes
  BY <1>1, <1>2, BytesFacts
<1>7. Carried
  <2> SUFFICES ASSUME Unbuffered PROVE Carries(data, d)
    BY CarriedBy DEF Carried
  <2>1. delivered' \o Contents(buf') = (delivered \o Contents(buf)) \o bytes
    BY <1>1, <1>2, PastBuffer
  <2> QED
    BY <2>1 DEF Carries
<1>8. Unbuffered => Unbuffered'
  BY <1>1, <1>4 DEF Unbuffered, Chunked
<1> QED
  BY <1>1, <1>2, <1>3, <1>4, <1>5, <1>6, <1>7, <1>8, SteppedBy

LEMMA ChunkFromTailSteps ==
  ASSUME TypesInv, ChunkFromTail
  PROVE  Stepped
<1> DEFINE d == Decode(<<>>, MaxLength(call.amt), FALSE)
<1>1. /\ call.phase = "turn" /\ dec' = d.dec
      /\ UNCHANGED <<shape, hasDecoded, buf, chunkLeft, sizes>>
      /\ \/ d.error /\ LeaveCatcher(TRUE) /\ Raise("chunks", call.amt)
         \/ ~d.error /\ NoRead /\ Yield(d.out)
  BY DEF ChunkFromTail
<1>2. /\ FileInv /\ DecOK(dec) /\ hasDecoded \in BOOLEAN /\ BufferOK(buf) /\ delivered \in Bytes
      /\ call.amt \in Amounts /\ MaxLength(call.amt) \in Int /\ <<>> \in Units
      /\ fp.state = "open" /\ fp.left \in Units /\ CallTypes /\ shape \in Shapes
      /\ fp.left = <<>> \o fp.left
  BY <1>1, TurnFacts, TypesFacts, UnitsFacts
<1>3. DecodeTyped(<<>>, MaxLength(call.amt), FALSE, d) /\ DecodeMoves(<<>>, fp.left, d)
  BY <1>2, DecodeFacts
<1> HIDE DEF d
<1>4. DecOK(d.dec) /\ d.dec.kind = dec.kind /\ d.out \in Bytes /\ d.error \in BOOLEAN
  BY <1>3 DEF DecodeTyped
<1>5. CASE d.error /\ LeaveCatcher(TRUE) /\ Raise("chunks", call.amt)
  <2>1. MarksGrow => FileInv'
    BY <1>1, <1>2, <1>5, AfterLeaving
  <2> QED
    BY <1>1, <1>2, <1>4, <1>5, <2>1, RaiseStepped
<1>6. CASE ~d.error /\ NoRead /\ Yield(d.out)
  <2>1. MarksGrow
    BY <1>6, WayFacts DEF Yield
  <2>2. FileInv' /\ fp' = fp
    BY <1>1, <1>2, <1>6, <2>1, AfterNoRead DEF NoRead
  <2> QED
    BY <1>1, <1>2, <1>3, <1>4, <1>6, <2>2, YieldSteps
<1> QED
  BY <1>1, <1>5, <1>6

LEMMA ChunkBrokenSteps ==
  ASSUME TypesInv, ChunkBroken
  PROVE  Stepped
<1>1. /\ call.phase = "turn" /\ LeaveCatcher(TRUE) /\ Raise("chunks", call.amt)
      /\ UNCHANGED <<shape, dec, hasDecoded, buf, chunkLeft, sizes>>
  BY DEF ChunkBroken
<1>2. /\ FileInv /\ DecOK(dec) /\ hasDecoded \in BOOLEAN /\ BufferOK(buf) /\ call.amt \in Amounts
  BY TypesFacts
<1>3. MarksGrow => FileInv'
  BY <1>1, <1>2, AfterLeaving
<1> QED
  BY <1>1, <1>2, <1>3, RaiseStepped

\* A step that the user gives the rest up with.
LEMMA GivenUp ==
  ASSUME TypesInv, FileInv', shape' = shape, NEW mark \in {"closed", "drained"},
         mark \in marks', MarksGrow, Chunked => ~(TakenWhole' /\ TakenInChunks'),
         DecOK(dec'), dec'.kind = dec.kind, UNCHANGED <<hasDecoded, buf, delivered, answer>>,
         call' = Idle
  PROVE  Stepped
<1>1. ~Intact'
  BY DEF Intact
<1>2. Ways'
  BY TypesFacts, WaysIdle
<1>3. Idle \in Calls
  BY DEF Calls, Idle, Amounts
<1> QED
  BY <1>1, <1>2, <1>3, TypesFacts, SteppedBy DEF Carried

LEMMA ChunkDropSteps ==
  ASSUME TypesInv, ChunkDrop
  PROVE  Stepped
<1>1. /\ LeaveCatcher(TRUE) /\ marks' = marks \cup {"closed"} /\ call' = Idle
      /\ UNCHANGED <<shape, dec, hasDecoded, buf, chunkLeft, sizes, delivered, answer>>
  BY DEF ChunkDrop
<1>2. FileInv /\ marks \subseteq Marks /\ DecOK(dec)
  BY TypesFacts
<1>3. MarksGrow /\ TakenWhole' = TakenWhole /\ TakenInChunks' = TakenInChunks /\ "closed" \in marks'
  BY <1>1, <1>2 DEF MarksGrow, Marks, TakenWhole, TakenInChunks
<1>4. FileInv'
  BY <1>1, <1>2, <1>3, AfterLeaving
<1>5. Chunked => ~(TakenWhole' /\ TakenInChunks')
  BY <1>3, WayFacts
<1> QED
  BY <1>1, <1>2, <1>3, <1>4, <1>5, GivenUp

\* The chunk sizes after a turn that has read n of this one.
LEMMA SizesAfterTurn ==
  ASSUME FileInv, Chunked, ~NoSize, ThisSize # 0, NEW n \in Nat, n <= ThisSize, n # 0,
         n <= Len(fp.left), shape' = shape, fp'.left = Drop(fp.left, n),
         chunkLeft' = IF n = ThisSize THEN NoLength ELSE ThisSize - n,
         sizes' = IF chunkLeft = NoLength THEN Tail(sizes) ELSE sizes
  PROVE  InChunks'
<1> DEFINE A == Announced(shape.chunks)
           N == Len(shape.chunks)
           c == IF chunkLeft = NoLength THEN 0 ELSE chunkLeft
           e == IF n = ThisSize THEN 0 ELSE ThisSize - n
           m == Len(fp.left)
           p == Len(fp'.left)
           t == ThisSize
<1>1. PICK k \in 0..N :
           /\ sizes = Drop(shape.chunks, k)
           /\ m + A[k] <= A[N] + c
           /\ ThisSize \in Nat
           /\ chunkLeft # NoLength => ThisSize = chunkLeft
           /\ chunkLeft = NoLength =>
                /\ k + 1 \in 1..N /\ ThisSize = shape.chunks[k + 1]
                /\ Tail(sizes) = Drop(shape.chunks, k + 1)
                /\ A[k + 1] = A[k] + ThisSize
  BY SizesLeft
<1>2. /\ InChunks /\ shape.chunks \in Seq(Nat) /\ N \in Nat /\ fp.left \in Units /\ m \in Nat
      /\ NoLength \notin Int
  BY ShapeFacts, UnitsFacts, NoneAssumption DEF FileInv, FileTypes
<1>3. p = m - n
  <2>1. n \in 0..Len(fp.left)
    BY <1>2
  <2> QED
    BY <1>2, <2>1, TakeDropUnits
<1>4. \A j \in 0..N : A[j] \in Nat
  BY <1>2, AnnouncedSteps
<1>5. chunkLeft \in Nat \cup {NoLength} /\ sizes \in Seq(Nat)
  BY <1>2 DEF InChunks
<1>6. e \in Nat /\ (chunkLeft' = IF n = t THEN NoLength ELSE e) /\ e = t - n
      /\ (n # t => e # 0)
  BY <1>1
<1>7. chunkLeft' \in Nat \cup {NoLength} /\ chunkLeft' # 0
      /\ e = IF chunkLeft' = NoLength THEN 0 ELSE chunkLeft'
  BY <1>2, <1>6
<1> DEFINE j == IF chunkLeft = NoLength THEN k + 1 ELSE k
<1>8. j \in 0..N /\ sizes' = Drop(shape.chunks, j) /\ sizes' \in Seq(Nat)
  <2>1. j \in 0..N /\ sizes' = Drop(shape.chunks, j)
    <3>1. CASE chunkLeft = NoLength
      <4>1. j = k + 1 /\ k + 1 \in 1..N /\ sizes' = Tail(sizes) /\ Tail(sizes) = Drop(shape.chunks, k + 1)
        BY <1>1, <3>1
      <4> HIDE DEF N, j
      <4>2. k + 1 \in 0..N
        BY <1>2, <4>1
      <4> QED
        BY <4>1, <4>2
    <3>2. CASE chunkLeft # NoLength
      BY <1>1, <3>2
    <3> QED
      BY <3>1, <3>2
  <2>2. Drop(shape.chunks, j) \in Seq(Nat)
    BY <1>2, <2>1, TakeDrop, Zenon
  <2> QED
    BY <2>1, <2>2
<1>9. p + A[j] <= A[N] + e
  <2>1. t \in Nat /\ A[k] \in Nat /\ A[N] \in Nat /\ m + A[k] <= A[N] + c
    BY <1>1, <1>2, <1>4
  <2>2. c \in Nat
    BY <1>5
  <2>3. CASE chunkLeft = NoLength
    <3>1. c = 0 /\ A[j] = A[k] + t
      BY <1>1, <2>3
    <3> HIDE DEF A, N, c, e, m, p, t, j
    <3> QED
      BY <1>2, <1>3, <1>6, <2>1, <3>1
  <2>4. CASE chunkLeft # NoLength
    <3>1. c = t /\ A[j] = A[k]
      BY <1>1, <2>4
    <3> HIDE DEF A, N, c, e, m, p, t, j
    <3> QED
      BY <1>2, <1>3, <1>6, <2>1, <3>1
  <2> QED
    BY <2>3, <2>4
<1> HIDE DEF j, e
<1>10. \E i \in 0..N : /\ sizes' = Drop(shape.chunks, i)
                      /\ p + A[i] <= A[N] + (IF chunkLeft' = NoLength THEN 0 ELSE chunkLeft')
  BY <1>7, <1>8, <1>9
<1> QED
  BY <1>7, <1>8, <1>10 DEF InChunks, Chunked

\* How much a turn reads.
LEMMA ToReadFacts ==
  ASSUME NEW amt \in Amounts, ThisSize \in Nat, ThisSize # 0
  PROVE  ToRead(amt) \in Nat /\ ToRead(amt) # 0 /\ ToRead(amt) <= ThisSize
<1> DEFINE S == {amt, ThisSize} \ {All}
<1>1. S \subseteq Nat /\ ThisSize \in S /\ 0 \notin S
  BY NoneAssumption DEF Amounts
<1>2. Least(S) \in S /\ \A m \in S : Least(S) <= m
  BY <1>1, LeastFacts
<1> QED
  BY <1>1, <1>2 DEF ToRead

LEMMA ChunkTurnSteps ==
  ASSUME TypesInv, ChunkTurn
  PROVE  Stepped
<1> DEFINE n == ToRead(call.amt)
           d == Decode(Take(fp.left, n), MaxLength(call.amt), FALSE)
<1>1. /\ call.phase = "turn" /\ ~NoSize /\ ThisSize # 0 /\ n <= Len(fp.left) /\ dec' = d.dec
      /\ chunkLeft' = IF n = ThisSize THEN NoLength ELSE ThisSize - n
      /\ sizes' = IF chunkLeft = NoLength THEN Tail(sizes) ELSE sizes
      /\ hasDecoded' = (hasDecoded \/ (HasDecoder /\ shape.decode /\ ~d.error))
      /\ UNCHANGED <<shape, buf>>
      /\ \/ /\ ~d.error
            /\ fp' = [fp EXCEPT !.left = Drop(@, n)]
            /\ UNCHANGED <<remaining, sock, conn>>
            /\ Yield(d.out)
         \/ /\ d.error
            /\ LET s == Caught("closed", TRUE)
               IN  /\ fp' = [fp EXCEPT !.left = Drop(@, n), !.state = s.state]
                   /\ sock' = s.sock
                   /\ conn' = s.conn
            /\ UNCHANGED remaining
            /\ Raise("chunks", call.amt)
  BY DEF ChunkTurn
<1>2. /\ FileInv /\ DecOK(dec) /\ hasDecoded \in BOOLEAN /\ BufferOK(buf) /\ delivered \in Bytes
      /\ call.amt \in Amounts /\ MaxLength(call.amt) \in Int /\ Chunked
      /\ fp.state = "open" /\ fp.left \in Units /\ CallTypes /\ shape \in Shapes
  BY <1>1, TurnFacts, TypesFacts
<1>3. n \in Nat /\ n # 0 /\ n <= ThisSize
  <2>1. ThisSize \in Nat
    BY <1>1, <1>2, SizesLeft
  <2> QED
    BY <1>1, <1>2, <2>1, ToReadFacts
<1> HIDE DEF n
<1>4. /\ n \in 0..Len(fp.left) /\ Take(fp.left, n) \in Units /\ Drop(fp.left, n) \in Units
      /\ fp.left = Take(fp.left, n) \o Drop(fp.left, n)
  <2>1. n \in 0..Len(fp.left)
    BY <1>1, <1>2, <1>3, UnitsFacts
  <2> QED
    BY <1>2, <2>1, TakeDropUnits
<1>5. /\ DecodeTyped(Take(fp.left, n), MaxLength(call.amt), FALSE, d)
      /\ DecodeMoves(Take(fp.left, n), Drop(fp.left, n), d)
  BY <1>2, <1>4, DecodeFacts
<1> HIDE DEF d
<1>6. DecOK(d.dec) /\ d.dec.kind = dec.kind /\ d.out \in Bytes /\ d.error \in BOOLEAN
  BY <1>5 DEF DecodeTyped
<1>7. hasDecoded' \in BOOLEAN
  BY <1>1, <1>2
<1>8. ASSUME NEW st \in {"open", "closed"},
             fp' = [fp EXCEPT !.left = Drop(@, n), !.state = st], remaining' = remaining,
             sock' = "closed" \/ (sock' = sock /\ conn # "held")
               \/ (sock' = sock /\ st = "open" /\ conn' = conn),
             conn' = conn \/ (Http /\ conn' = "returned"), MarksGrow
      PROVE  FileInv' /\ fp'.left = Drop(fp.left, n) /\ fp'.state = st
  <2>1. fp'.left = Drop(fp.left, n) /\ fp'.state = st
    BY <1>2, <1>8 DEF FileInv, FileTypes
  <2>2. InChunks'
    BY <1>1, <1>2, <1>3, <2>1, SizesAfterTurn
  <2>3. \/ sock' = "closed"
        \/ sock' = sock /\ (conn = "held" => Drop(fp.left, n) = <<>>)
        \/ sock' = sock /\ conn = "held" /\ st = "open" /\ conn' = conn
    BY <1>8
  <2>4. FileInv'
    <3>1. st \in {"open", "ended", "closed"} /\ shape' = shape /\ (fp.state # "open" => st # "open")
      BY <1>1, <1>2
    <3> QED
      BY <1>2, <1>4, <1>8, <2>2, <2>3, <3>1, AfterClosing
  <2> QED
    BY <2>1, <2>4
<1>9. CASE /\ ~d.error
           /\ fp' = [fp EXCEPT !.left = Drop(@, n)]
           /\ UNCHANGED <<remaining, sock, conn>>
           /\ Yield(d.out)
  <2>1. MarksGrow
    BY <1>9, WayFacts DEF Yield
  <2>2. fp' = [fp EXCEPT !.left = Drop(@, n), !.state = "open"]
    BY <1>2, <1>9 DEF FileInv, FileTypes
  <2>3. FileInv' /\ fp'.left = Drop(fp.left, n) /\ fp'.state = "open"
    BY <1>8, <1>9, <2>1, <2>2
  <2> QED
    BY <1>1, <1>2, <1>4, <1>5, <1>6, <1>7, <1>9, <2>3, YieldSteps
<1>10. CASE /\ d.error
            /\ LET s == Caught("closed", TRUE)
               IN  /\ fp' = [fp EXCEPT !.left = Drop(@, n), !.state = s.state]
                   /\ sock' = s.sock
                   /\ conn' = s.conn
            /\ UNCHANGED remaining
            /\ Raise("chunks", call.amt)
  <2>1. /\ fp' = [fp EXCEPT !.left = Drop(@, n), !.state = "closed"]
        /\ sock' = IF conn = "held" THEN "closed" ELSE sock
        /\ conn' = IF Http THEN "returned" ELSE conn
    BY <1>10 DEF Caught
  <2>2. MarksGrow => FileInv'
    BY <1>8, <1>10, <2>1
  <2> QED
    BY <1>1, <1>2, <1>6, <1>7, <1>10, <2>2, RaiseStepped
<1> QED
  BY <1>1, <1>9, <1>10

LEMMA ChunkEndSteps ==
  ASSUME TypesInv, ChunkEnd
  PROVE  Stepped
<1> DEFINE f == FlushDecoder(dec)
           flush == HasDecoder /\ shape.decode
           out == IF flush THEN f.out ELSE <<>>
<1>1. /\ call.phase = "turn" /\ ~HasTail /\ ~NoSize /\ ThisSize = 0
      /\ dec' = IF flush THEN f.dec ELSE dec
      /\ delivered' = IF flush THEN delivered \o f.out ELSE delivered
      /\ chunkLeft' = 0
      /\ sizes' = IF chunkLeft = NoLength THEN Tail(sizes) ELSE sizes
      /\ LeaveCatcher(FALSE) /\ call' = Idle
      /\ answer' = [op |-> "chunks", asked |-> call.amt, got |-> 0, raised |-> FALSE]
      /\ UNCHANGED <<shape, hasDecoded, buf, marks>>
  BY DEF ChunkEnd
<1>2. /\ FileInv /\ DecOK(dec) /\ hasDecoded \in BOOLEAN /\ BufferOK(buf) /\ delivered \in Bytes
      /\ call.amt \in Amounts /\ Chunked /\ TakenInChunks /\ ~TakenWhole
      /\ fp.state = "open" /\ fp.left \in Units /\ shape \in Shapes /\ shape.decode \in BOOLEAN
      /\ Unbuffered => buf.size = 0
  BY <1>1, TurnFacts, TypesFacts, ShapeFacts
<1>3. /\ fp.left = <<>> /\ chunkLeft = NoLength
      /\ Tail(sizes) = Drop(shape.chunks, Len(shape.chunks))
  BY <1>1, <1>2, LastSize
<1>4. MarksGrow /\ TakenWhole' = TakenWhole /\ TakenInChunks' = TakenInChunks
  BY <1>1, WayFacts
<1>5. fp'.left = <<>> /\ fp'.state = "closed" /\ (InChunks' => FileInv')
  <2>1. FALSE \in BOOLEAN
    OBVIOUS
  <2> QED
    BY <1>1, <1>2, <1>3, <1>4, <2>1, AfterLeaving
<1>6. InChunks'
  <2> DEFINE A == Announced(shape.chunks)
             N == Len(shape.chunks)
  <2>1. shape.chunks \in Seq(Nat) /\ N \in Nat
    BY <1>2, ShapeFacts
  <2>2. A[N] \in Nat
    BY <2>1, AnnouncedSteps
  <2>3. sizes' = Drop(shape.chunks, N) /\ Drop(shape.chunks, N) \in Seq(Nat)
    <3>1. N \in 0..Len(shape.chunks)
      BY <2>1
    <3>2. Drop(shape.chunks, N) \in Seq(Nat)
      BY <2>1, <3>1, TakeDrop, Zenon
    <3> QED
      BY <1>1, <1>3, <3>2
  <2>4. Len(fp'.left) + A[N] <= A[N] + (IF chunkLeft' = NoLength THEN 0 ELSE chunkLeft')
    <3>1. Len(fp'.left) = 0 /\ chunkLeft' = 0
      BY <1>1, <1>5
    <3> QED
      BY <2>2, <3>1
  <2>5. N \in 0..N
    BY <2>1
  <2> HIDE DEF A, N
  <2>6. \E i \in 0..N : /\ sizes' = Drop(shape.chunks, i)
                       /\ Len(fp'.left) + A[i] <= A[N] + (IF chunkLeft' = NoLength THEN 0 ELSE chunkLeft')
    BY <2>3, <2>4, <2>5
  <2> QED
    BY <1>1, <1>5, <2>3, <2>6 DEF InChunks, Chunked, A, N
<1>7. <<>> \in Units /\ <<>> \in Bytes
  BY UnitsFacts, BytesFacts
<1>8. /\ f = [dec |-> f.dec, out |-> f.out, error |-> f.error]
      /\ DecOK(f.dec) /\ f.dec.kind = dec.kind /\ f.out \in Bytes /\ f.error \in BOOLEAN
      /\ Conserved(dec, <<>>, <<>>, f, Trailed)
  BY <1>2, <1>7, FlushKeeps
<1>9. flush => ~f.error
  <2>1. HasDecoder => dec.kept = <<>> /\ (dec.kind # "gzip" => dec.obj.tail = <<>>)
    BY <1>1 DEF HasTail, HasUnconsumedTail
  <2>2. HasDecoder => Pending(dec) = <<>>
    BY <1>7, <2>1, UnitsFacts DEF Pending
  <2> QED
    BY <1>2, <2>2, FlushesNothing
<1> HIDE DEF f
<1>10. DecOK(dec') /\ dec'.kind = dec.kind /\ out \in Bytes
  BY <1>1, <1>2, <1>7, <1>8
<1>11. delivered' = delivered \o out
  BY <1>1, <1>2, BytesFacts
<1>12. delivered' \in Bytes
  BY <1>2, <1>10, <1>11, BytesFacts
<1>13. Idle \in Calls /\ answer' \in Answers
  BY <1>1, <1>2 DEF Calls, Idle, Amounts, Answers
<1>14. Chunked => ~(TakenWhole' /\ TakenInChunks')
  BY <1>2, <1>4
<1>15. Ways'
  BY <1>1, <1>14, TypesFacts, WaysIdle
<1>16. Carried
  <2> SUFFICES ASSUME Unbuffered PROVE Carried
    BY DEF Carried
  <2>1. delivered' \o Contents(buf') = (delivered \o Contents(buf)) \o out
    BY <1>1, <1>2, <1>10, <1>11, PastBuffer
  <2>2. fp.left = <<>> \o fp'.left
    BY <1>3, <1>5, <1>7, UnitsFacts
  <2>3. CASE flush
    <3>1. DecodeMoves(<<>>, fp'.left, f)
      BY <1>5, <1>8, <2>3 DEF DecodeMoves, Conserved, InStep, Decoding
    <3>2. Carries(<<>>, f)
      BY <1>1, <1>7, <1>8, <1>9, <2>1, <2>2, <2>3, <3>1 DEF Carries
    <3> QED
      BY <3>2, CarriedBy
  <2>4. CASE ~flush
    <3>1. delivered' \o Contents(buf') = delivered \o Contents(buf)
      BY <1>1, <2>4
    <3> QED
      BY <1>1, <1>3, <1>5, <2>4, <3>1 DEF Carried, Rests
  <2> QED
    BY <2>3, <2>4
<1>17. Unbuffered => Unbuffered'
  BY <1>1, <1>2, <1>4 DEF Unbuffered, Chunked
<1> HIDE DEF out, flush
<1>18. BufferOK(buf') /\ hasDecoded' \in BOOLEAN /\ call' \in Calls /\ shape' = shape
  BY <1>1, <1>2, <1>13
<1> QED
  BY <1>4, <1>5, <1>6, <1>10, <1>12, <1>13, <1>15, <1>16, <1>17, <1>18, SteppedBy

LEMMA DrainConnSteps ==
  ASSUME TypesInv, DrainConn
  PROVE  Stepped
<1>1. /\ call = Idle /\ Way("whole") /\ marks' = Taken("whole") \cup {"drained"}
      /\ UNCHANGED <<shape, hasDecoded, buf, chunkLeft, sizes, call, delivered, answer>>
  BY DEF DrainConn
<1>2. PICK r \in RawReads(All, FALSE) :
        LET none == r.data = <<>> /\ buf.size = 0 /\ ~HasTail
            d    == Decode(r.data, -1, TRUE)
        IN  DoRead(r) /\ dec' = IF ~r.error /\ ~none /\ hasDecoded THEN d.dec ELSE dec
  BY DEF DrainConn
<1> DEFINE d == Decode(r.data, -1, TRUE)
<1>3. FileInv /\ DecOK(dec) /\ marks \subseteq Marks /\ All \in Amounts
  BY TypesFacts DEF Amounts
<1>4. DecOK(d.dec) /\ d.dec.kind = dec.kind
  <2>1. -1 \in Int /\ TRUE \in BOOLEAN /\ FALSE \in BOOLEAN /\ DoRead(r)
    BY <1>2
  <2> QED
    BY <1>3, <2>1, ReadDecodes
<1>5. dec' = d.dec \/ dec' = dec
  BY <1>2
<1> HIDE DEF d
<1>6. /\ marks' = marks \cup {"drained"} \/ marks' = (marks \cup {"whole"}) \cup {"drained"}
      /\ "drained" \in marks'
  BY <1>1 DEF Taken
<1>7. MarksGrow /\ TakenInChunks' = TakenInChunks
  <2>1. marks \subseteq marks' /\ ("chunks" \in marks' <=> "chunks" \in marks)
    BY <1>6
  <2>2. marks' \subseteq Marks
    BY <1>3, <1>6 DEF Marks
  <2> QED
    BY <2>1, <2>2 DEF MarksGrow, TakenInChunks
<1>8. Chunked => ~(TakenWhole' /\ TakenInChunks')
  BY <1>1, <1>7, WayFacts
<1>9. FileInv'
  BY <1>1, <1>2, <1>3, <1>7, AfterRead
<1> QED
  BY <1>1, <1>3, <1>4, <1>5, <1>6, <1>7, <1>8, <1>9, GivenUp

LEMMA ReleaseConnSteps ==
  ASSUME TypesInv, ReleaseConn
  PROVE  Stepped
<1>1. /\ call = Idle /\ conn = "held" /\ conn' = "returned" /\ marks' = marks \cup {"released"}
      /\ UNCHANGED <<shape, fp, remaining, dec, hasDecoded, buf, chunkLeft, sizes,
                     sock, call, delivered, answer>>
  BY DEF ReleaseConn
<1>2. FileInv /\ FileTypes /\ Lengths /\ InChunks /\ marks \subseteq Marks
  BY TypesFacts DEF FileInv
<1>3. /\ MarksGrow /\ TakenWhole' = TakenWhole /\ TakenInChunks' = TakenInChunks
      /\ Released'
  BY <1>1, <1>2 DEF MarksGrow, Marks, TakenWhole, TakenInChunks, Released
<1>4. FileKeeps
  BY <1>1, <1>2, <1>3, UnitsFacts DEF FileKeeps, FileTypes
<1>5. Lengths' /\ Finished'
  BY <1>1, <1>2, <1>3 DEF Lengths, Finished, Http, Chunked
<1>6. InChunks'
  BY <1>1, <1>2, <1>4, InChunksKept
<1>7. FileInv'
  BY <1>1, <1>2, <1>4, <1>5, <1>6, FileInvKept DEF FileTypes
<1>8. Ways'
  BY <1>1, <1>3, TypesFacts, WaysIdle, WayFacts
<1>9. Carried /\ (Unbuffered => Unbuffered')
  BY <1>1, <1>3 DEF Carried, Rests, Unbuffered, Chunked
<1> QED
  BY <1>1, <1>3, <1>7, <1>8, <1>9, TypesFacts, SteppedBy

LEMMA CloseSteps ==
  ASSUME TypesInv, Close
  PROVE  Stepped
<1> DEFINE st == IF fp.state = "open" THEN "closed" ELSE fp.state
<1>1. /\ call = Idle /\ marks' = marks \cup {"closed"}
      /\ fp' = [fp EXCEPT !.state = IF @ = "open" THEN "closed" ELSE @]
      /\ sock' = IF conn = "held" THEN "closed" ELSE sock
      /\ UNCHANGED <<shape, remaining, dec, hasDecoded, buf, chunkLeft, sizes,
                     conn, call, delivered, answer>>
  BY DEF Close
<1>2. FileInv /\ FileTypes /\ marks \subseteq Marks /\ DecOK(dec) /\ fp.left \in Units
  BY TypesFacts DEF FileInv
<1>3. /\ MarksGrow /\ TakenWhole' = TakenWhole /\ TakenInChunks' = TakenInChunks
      /\ "closed" \in marks'
  BY <1>1, <1>2 DEF MarksGrow, Marks, TakenWhole, TakenInChunks
<1>4. Drop(fp.left, 0) = fp.left /\ 0 \in 0..Len(fp.left) /\ ~(0 > 0)
  BY <1>2, UnitsFacts DEF Drop, Units
<1>5. /\ st \in {"open", "ended", "closed"} /\ st # "open"
      /\ fp' = [fp EXCEPT !.left = Drop(@, 0), !.state = st]
      /\ fp'.left = fp.left /\ fp'.state = st
  BY <1>1, <1>2, <1>4 DEF FileTypes
<1> HIDE DEF st
<1>6. FileKeeps
  <2>1. fp' \in [state : {"open", "ended", "closed"}, left : Units, length : Nat \cup {NoLength}]
    BY <1>2, <1>5, <1>4 DEF FileTypes
  <2> QED
    BY <1>1, <1>2, <1>3, <1>5, <2>1, UnitsFacts DEF FileKeeps
<1>7. InChunks'
  BY <1>1, <1>2, <1>6, InChunksKept
<1>8. FileInv'
  <2>1. sock' = "closed" \/ (sock' = sock /\ (conn = "held" => Drop(fp.left, 0) = <<>>))
    BY <1>1
  <2> QED
    BY <1>1, <1>2, <1>3, <1>4, <1>5, <1>7, <2>1, AfterClosing
<1>9. Chunked => ~(TakenWhole' /\ TakenInChunks')
  BY <1>3, WayFacts
<1> QED
  BY <1>1, <1>2, <1>3, <1>8, <1>9, GivenUp

\* Every step of the response.
LEMMA NextSteps ==
  ASSUME TypesInv, [Next]_vars
  PROVE  Stepped
<1>1. CASE UNCHANGED vars
  <2>1. /\ UNCHANGED <<shape, fp, remaining, dec, hasDecoded, buf, chunkLeft, sizes,
                       conn, sock, call, delivered, answer, marks>>
    BY <1>1 DEF vars
  <2>2. MarksGrow
    BY <2>1, WayFacts
  <2>3. FileInv'
    BY <2>1, <2>2, TypesFacts, AfterNoRead DEF NoRead
  <2>4. Ways'
    BY <2>1, TypesFacts DEF Ways, Chunked, TakenWhole, TakenInChunks
  <2>5. Carried /\ (Unbuffered => Unbuffered')
    BY <2>1, UnbufferedKept DEF Carried, Rests
  <2> QED
    BY <2>1, <2>2, <2>3, <2>4, <2>5, TypesFacts, SteppedBy
<1>2. CASE \E amt \in shape.amts : Read(amt) \/ Stream(amt)
  BY <1>2, ReadSteps, StreamSteps
<1>3. CASE \E amt \in shape.amts \cup {All} : Read1(amt) \/ ReadChunked(amt)
  BY <1>3, Read1Steps, ReadChunkedSteps
<1>4. CASE Turn
  BY <1>4, FetchSteps, StreamNextSteps, StreamEndSteps, Fetch1Steps, ChunkFromTailSteps,
     ChunkTurnSteps, ChunkBrokenSteps, ChunkEndSteps DEF Turn
<1>5. CASE ReadAll \/ ChunkDrop \/ DrainConn \/ ReleaseConn \/ Close
  BY <1>5, ReadAllSteps, ChunkDropSteps, DrainConnSteps, ReleaseConnSteps, CloseSteps
<1> QED
  BY <1>1, <1>2, <1>3, <1>4, <1>5 DEF Next

LEMMA InitTypes ==
  ASSUME Init
  PROVE  /\ TypesInv /\ InOrder /\ Unbuffered
         /\ OneMember(shape) => InStep(dec, Pending(dec) \o fp.left)
<1>1. /\ shape \in Shapes
      /\ fp = [state  |-> IF shape.empty /\ Http THEN "ended" ELSE "open",
               left   |-> shape.wire,
               length |-> IF Http THEN InitLength(shape) ELSE NoLength]
      /\ remaining = InitLength(shape) /\ dec = NewDecoder(shape.enc) /\ hasDecoded = FALSE
      /\ buf = EmptyBuffer /\ chunkLeft = NoLength /\ sizes = shape.chunks
      /\ conn = (IF Http THEN "held" ELSE "none") /\ sock = "open"
      /\ call = Idle /\ delivered = <<>> /\ marks = {}
      /\ answer = [op |-> "none", asked |-> All, got |-> 0, raised |-> FALSE]
  BY DEF Init
<1>2. /\ shape.enc \in Kinds /\ shape.file \in {"http", "bytes", "pipe"}
      /\ shape.decode \in BOOLEAN /\ shape.empty \in BOOLEAN
      /\ shape.length \in Nat \cup {NoLength}
      /\ shape.wire \in Units /\ shape.chunks \in Seq(Nat)
      /\ shape.chunks # <<>> => shape.file = "http"
      /\ shape.empty => shape.wire = <<>>
      /\ shape.chunks = <<>> /\ shape.file = "http" /\ shape.length # NoLength
           => Len(shape.wire) <= shape.length
      /\ shape.chunks # <<>> => Len(shape.wire) <= Announced(shape.chunks)[Len(shape.chunks)]
      /\ InitLength(shape) \in Nat \cup {NoLength}
  BY <1>1, ShapeFacts
<1>3. /\ fp.state \in {"open", "ended"} /\ fp.left = shape.wire
      /\ fp.length = (IF Http THEN InitLength(shape) ELSE NoLength)
      /\ fp.state = "ended" => shape.empty
  BY <1>1
<1>4. FileTypes
  <2>1. fp \in [state : {"open", "ended", "closed"}, left : Units, length : Nat \cup {NoLength}]
    <3>1. fp = [state |-> fp.state, left |-> fp.left, length |-> fp.length]
      BY <1>1
    <3>2. fp.length \in Nat \cup {NoLength}
      BY <1>2, <1>3
    <3> QED
      BY <1>2, <1>3, <3>1, <3>2
  <2>2. remaining \in Int \cup {NoLength}
    BY <1>1, <1>2
  <2> QED
    BY <1>1, <2>1, <2>2 DEF FileTypes
<1>5. Lengths
  <2>1. fp.length # NoLength => ~Chunked /\ Len(fp.left) <= fp.length
    <3>1. shape.empty => Len(shape.wire) = 0
      BY <1>2
    <3> QED
      BY <1>2, <1>3, <3>1 DEF InitLength, Chunked, Http
  <2> QED
    BY <1>1, <1>2, <1>3, <2>1 DEF Lengths
<1>6. InChunks
  <2> DEFINE A == Announced(shape.chunks)
             N == Len(shape.chunks)
  <2>1. Chunked => Len(fp.left) + A[0] <= A[N] + 0
    <3>1. A[0] = 0 /\ A[N] \in Nat
      BY <1>2, AnnouncedSteps
    <3>2. Len(fp.left) \in Nat /\ (Chunked => Len(fp.left) <= A[N])
      BY <1>2, <1>3, UnitsFacts DEF Chunked
    <3> DEFINE m == Len(fp.left)
    <3> HIDE DEF m, A, N
    <3>3. m \in Nat /\ (Chunked => m <= A[N])
      BY <3>2 DEF m
    <3>4. Chunked => m + A[0] <= A[N] + 0
      BY <3>1, <3>3
    <3> QED
      BY <3>4 DEF m
  <2>2. sizes = Drop(shape.chunks, 0) /\ 0 \in 0..N
    BY <1>1, <1>2 DEF Drop
  <2>3. chunkLeft \in Nat \cup {NoLength} /\ sizes \in Seq(Nat) /\ chunkLeft # 0
    BY <1>1, <1>2, NoneAssumption
  <2> HIDE DEF A, N
  <2>4. Chunked => \E k \in 0..N : /\ sizes = Drop(shape.chunks, k)
                                   /\ Len(fp.left) + A[k] <= A[N] + (IF chunkLeft = NoLength THEN 0 ELSE chunkLeft)
    BY <1>1, <2>1, <2>2
  <2> QED
    BY <2>3, <2>4 DEF InChunks, A, N
<1>7. Finished
  BY <1>1, <1>2, <1>3 DEF Finished
<1>8. CallTypes
  BY <1>1, <1>2, NewDecoderFacts, EmptyBufferOK, BytesFacts
     DEF CallTypes, Calls, Answers, Idle, Amounts
<1>9. Ways
  BY <1>1 DEF Ways, Idle, TakenWhole
<1>10. TypesInv
  BY <1>4, <1>5, <1>6, <1>7, <1>8, <1>9 DEF TypesInv, FileInv, CallInv
<1>11. Unbuffered
  BY <1>1 DEF Unbuffered, EmptyBuffer
<1>12. Undelivered(dec) = <<>> /\ Pending(dec) = <<>> /\ ~Over(dec)
  BY <1>1, <1>2, NewDecoderFacts
<1>13. InOrder
  <2>1. Contents(buf) = <<>> /\ Payload(shape.wire) \in Bytes /\ <<>> \in Bytes
    BY <1>1, <1>2, EmptyBufferOK, PayloadTyped, BytesFacts
  <2>2. <<>> \o <<>> = <<>>
    BY <2>1, BytesFacts
  <2>3. <<>> \o Payload(shape.wire) = Payload(shape.wire)
    BY <2>1, BytesFacts
  <2> QED
    BY <1>1, <1>3, <1>12, <2>1, <2>2, <2>3 DEF InOrder, Body
<1>14. ASSUME OneMember(shape) PROVE InStep(dec, Pending(dec) \o fp.left)
  <2>1. Pending(dec) \o fp.left = shape.wire
    BY <1>2, <1>3, <1>12, UnitsFacts
  <2>2. Decoding => Tidy(shape.wire, FALSE)
    BY <1>14 DEF OneMember, Decoding, HasDecoder
  <2>3. Decoding => Tidy(shape.wire, Trailed)
    BY <2>2 DEF Tidy, Trailed
  <2> QED
    BY <1>1, <1>12, <2>1, <2>3 DEF InStep, Sound
<1> QED
  BY <1>10, <1>11, <1>13, <1>14

------------------------------------------------------------------------------
(* Types, connections and order *)

\* The inductive invariant of types is one: every step of the response keeps it.
THEOREM ResponseTypes == Spec => []TypesInv
<1>1. Init => TypesInv
  BY InitTypes
<1>2. TypesInv /\ [Next]_vars => TypesInv'
  BY NextSteps DEF Stepped
<1> QED
  BY <1>1, <1>2, PTL DEF Spec

\* Every variable has its type in every response, and the count of the buffer
\* (BytesQueueBuffer._size) is that of the bytes in it.
THEOREM ResponseTypeOK == Spec => []TypeOK
<1>1. TypesInv => TypeOK
  <2> SUFFICES ASSUME TypesInv PROVE TypeOK
    OBVIOUS
  <2>1. /\ shape \in Shapes /\ fp.state \in {"open", "ended", "closed"}
        /\ fp.left \in Units /\ fp.length \in Nat \cup {NoLength}
        /\ remaining \in Int \cup {NoLength}
        /\ conn \in {"held", "returned", "none"} /\ sock \in {"open", "closed"}
        /\ chunkLeft \in Nat \cup {NoLength}
    BY DEF TypesInv, FileInv, FileTypes, InChunks
  <2>2. dec.state \in {"first", "others", "swallow"}
    BY TypesFacts DEF DecOK, Decs, States
  <2>3. buf.chunks \in Units /\ buf.size = Len(Contents(buf))
    BY TypesFacts DEF BufferOK
  <2>4. hasDecoded \in BOOLEAN /\ delivered \in Bytes
        /\ call.phase \in {"idle", "fetch", "next", "fetch1", "turn"}
    BY TypesFacts DEF Calls
  <2> QED
    BY <2>1, <2>2, <2>3, <2>4 DEF TypeOK, Units, Bytes
<1> QED
  BY <1>1, ResponseTypes, PTL

\* The pool never gets the connection back (_error_catcher, release_conn) while
\* a part of the response is left on an open socket, unless the user releases it.
THEOREM ResponseReturnedWhenDone == Spec => []ReturnedWhenDone
<1>1. TypesInv => ReturnedWhenDone
  BY DEF TypesInv, FileInv, Finished, Released, ReturnedWhenDone
<1> QED
  BY <1>1, ResponseTypes, PTL

LEMMA OrderStep ==
  ASSUME TypesInv, OrderInv, [Next]_vars
  PROVE  OrderInv'
<1>1. Stepped
  BY NextSteps
<1>2. shape' = shape /\ (Intact' => Intact)
  BY <1>1, WayFacts DEF Stepped
<1>3. OneMember(shape)' <=> OneMember(shape)
  BY <1>2
<1>4. ASSUME OneMember(shape), Intact'
      PROVE  Order'
  <2>1. InOrder /\ InStep(dec, Pending(dec) \o fp.left) /\ Unbuffered
    BY <1>2, <1>4 DEF OrderInv, Order
  <2> QED
    BY <1>1, <1>4, <2>1, CarriedKeeps DEF Stepped, Order
<1> QED
  BY <1>3, <1>4 DEF OrderInv

\* Where no data follows the trailer of a member, no byte is lost, doubled or
\* put out of order by any mix of read, read1, stream and read_chunked.
THEOREM ResponseBytesInOrder == Spec => [](OneMember(shape) => BytesInOrder)
<1>1. Init => OrderInv
  BY InitTypes DEF OrderInv, Order
<1>2. TypesInv /\ OrderInv /\ [Next]_vars => OrderInv'
  BY OrderStep
<1>3. TypesInv /\ OrderInv => (OneMember(shape) => BytesInOrder)
  <2> SUFFICES ASSUME TypesInv, OrderInv, OneMember(shape), Intact
               PROVE  delivered \o Contents(buf) \o Undelivered(dec) \o Payload(fp.left) = Body
    BY DEF BytesInOrder
  <2> QED
    BY DEF OrderInv, Order, InOrder
<1> QED
  BY <1>1, <1>2, <1>3, ResponseTypes, PTL DEF Spec

------------------------------------------------------------------------------
(* Decoding on demand, and the end *)

LEMMA TailPending ==
  ASSUME NEW d, DecOK(d)
  PROVE  HasUnconsumedTail(d) <=> Pending(d) # <<>>
<1>1. d.obj.tail \in Units /\ d.kept \in Units
  BY DecFacts
<1>2. Len(d.obj.tail) \in Nat /\ Len(d.kept) \in Nat
      /\ Len(d.obj.tail \o d.kept) = Len(d.obj.tail) + Len(d.kept)
      /\ (Len(d.obj.tail \o d.kept) = 0 <=> d.obj.tail \o d.kept = <<>>)
      /\ (Len(d.obj.tail) = 0 <=> d.obj.tail = <<>>) /\ (Len(d.kept) = 0 <=> d.kept = <<>>)
  BY <1>1, UnitsFacts
<1>3. \A m, n \in Nat : m + n = 0 <=> m = 0 /\ n = 0
  OBVIOUS
<1>4. d.obj.tail \o d.kept = <<>> <=> d.obj.tail = <<>> /\ d.kept = <<>>
  BY <1>2, <1>3, Zenon
<1> QED
  BY <1>4, Zenon DEF HasUnconsumedTail, Pending

\* A decoder with nothing pending, at the end of the body, holds nothing.
LEMMA EndIsClean ==
  ASSUME shape \in Shapes, Regular(shape), shape.enc # "raw", ~CutShort(shape),
         NEW d, DecOK(d), d.kind = shape.enc, Pending(d) = <<>>, InStep(d, <<>>),
         NEW pre \in Bytes, pre \o Undelivered(d) = Body
  PROVE  Undelivered(d) = <<>>
<1>1. Undelivered(d) = d.obj.inner \o <<>> /\ d.obj.inner \in Bytes /\ Undelivered(d) \in Bytes
  BY DecFacts, PayloadEmpty
<1>2. Undelivered(d) = d.obj.inner
  BY <1>1, BytesFacts
<1>3. shape.enc \in Kinds /\ shape.wire \in Units
  BY ShapeFacts
<1>4. CASE ~Decoding
  BY <1>3, <1>4, NewDecoderFacts DEF InStep
<1>5. CASE Decoding /\ Over(d)
  BY <1>2, <1>5 DEF InStep, Sound, Spent
<1>6. CASE Decoding /\ ~Over(d)
  <2>1. Tidy(<<>>, Trailed)
    BY <1>6 DEF InStep, Sound
  <2>2. ~Trailed
    BY <2>1 DEF Tidy
  <2>3. shape.enc \in {"gzip", "zlib"}
    BY <1>3, <1>6 DEF Decoding, HasDecoder, Kinds
  <2>4. shape.wire = <<>>
    BY <2>2, <2>3 DEF Regular, HasTrailer, Trailed
  <2>5. pre \o Undelivered(d) = <<>>
    BY <2>4, PayloadEmpty DEF Body
  <2> QED
    BY <1>1, <2>5, BytesEmptyParts
<1> QED
  BY <1>4, <1>5, <1>6

\* Bytes that are sent one by one show.
LEMMA OneByOneParts ==
  ASSUME NEW u \in Units, NEW v \in Units, OneByOne(u \o v)
  PROVE  OneByOne(u) /\ OneByOne(v)
<1>1. /\ Len(u) \in Nat /\ Len(v) \in Nat /\ Len(u \o v) = Len(u) + Len(v)
      /\ \A i \in 1..Len(u) : (u \o v)[i] = u[i]
      /\ \A i \in 1..Len(v) : (u \o v)[Len(u) + i] = v[i]
  BY DEF Units
<1>2. ASSUME NEW i \in 1..Len(u)
      PROVE  Len(u[i]) = 1 /\ u[i] # Junk
  <2>1. i \in 1..Len(u \o v)
    BY <1>1
  <2> QED
    BY <1>1, <2>1 DEF OneByOne
<1>3. ASSUME NEW i \in 1..Len(v)
      PROVE  Len(v[i]) = 1 /\ v[i] # Junk
  <2>1. Len(u) + i \in 1..Len(u \o v)
    BY <1>1
  <2> QED
    BY <1>1, <2>1 DEF OneByOne
<1> QED
  BY <1>2, <1>3 DEF OneByOne

LEMMA OneByOneShows ==
  ASSUME NEW u \in Units, OneByOne(u), u # <<>>
  PROVE  Payload(u) # <<>>
<1>1. Len(u) \in Nat /\ Len(u) # 0
  BY UnitsFacts
<1>2. 1 \in 0..Len(u) /\ 1 \in 1..Len(u)
  BY <1>1
<1>3. u[1] \in Bytes /\ Len(u[1]) = 1 /\ u[1] # Junk
  BY <1>2 DEF OneByOne, Units
<1>4. /\ Take(u, 1) \in Units /\ Len(Take(u, 1)) = 1 /\ Take(u, 1)[1] = u[1]
      /\ Drop(u, 1) \in Units
  <2>1. /\ Take(u, 1) \in Units /\ Len(Take(u, 1)) = 1 /\ Drop(u, 1) \in Units
        /\ \A i \in 1..1 : Take(u, 1)[i] = u[i]
    BY <1>2, TakeDropUnits
  <2>2. 1 \in 1..1
    OBVIOUS
  <2> QED
    BY <2>1, <2>2
<1>5. Payload(Take(u, 1)) = FlattenSeq(Take(u, 1))
  BY <1>3, <1>4, PayloadOfClean
<1>6. Take(u, 1) = <<u[1]>>
  BY <1>4 DEF Units
<1>7. Payload(Take(u, 1)) = u[1]
  BY <1>3, <1>5, <1>6, FlattenOne DEF Bytes
<1>8. Payload(u) = Payload(Take(u, 1)) \o Payload(Drop(u, 1)) /\ Payload(Drop(u, 1)) \in Bytes
  BY <1>2, <1>4, PayloadSplit, PayloadTyped
<1>9. u[1] # <<>>
  BY <1>3, BytesFacts
<1> QED
  BY <1>3, <1>7, <1>8, <1>9, BytesEmptyParts

\* What a step finds that keeps the promises.
Going ==
  /\ TypesInv /\ Regular(shape) /\ Intact /\ Order /\ Counts /\ Drained
  /\ (Trailing => Behind) /\ (Told => Complete)
  /\ Stepped /\ Intact' /\ Order'

LEMMA GoingFacts ==
  ASSUME Going
  PROVE  /\ TypesInv /\ TypesInv' /\ FileInv /\ FileInv' /\ shape' = shape /\ shape \in Shapes
         /\ Intact /\ Intact' /\ Order /\ Order' /\ Counts /\ Drained /\ Regular(shape)
         /\ Trailing => Behind
         /\ Told => Complete
         /\ MarksGrow /\ fp.left \in Units /\ fp'.left \in Units /\ Len(fp.left) \in Nat
         /\ Len(fp'.left) \in Nat /\ remaining \in Int \cup {NoLength} /\ NoLength \notin Int
         /\ InitLength(shape) \in Nat \cup {NoLength} /\ Len(shape.wire) \in Nat
         /\ InitLength(shape)' = InitLength(shape) /\ Chunked' = Chunked /\ Whole' = Whole
         /\ Decoding' = Decoding
<1>1. TypesInv /\ TypesInv' /\ shape' = shape /\ MarksGrow
  BY DEF Going, Stepped
<1>2. FileInv /\ FileInv' /\ shape \in Shapes /\ fp.left \in Units
      /\ fp'.left \in Units /\ remaining \in Int \cup {NoLength}
  BY <1>1 DEF TypesInv, FileInv, FileTypes
<1>3. InitLength(shape) \in Nat \cup {NoLength} /\ shape.wire \in Units
  BY <1>2, ShapeFacts
<1>4. InitLength(shape)' = InitLength(shape) /\ Chunked' = Chunked /\ Whole' = Whole
      /\ Decoding' = Decoding
  BY <1>1 DEF InitLength, Chunked, Whole, Decoding, HasDecoder
<1> QED
  BY <1>1, <1>2, <1>3, <1>4, UnitsFacts, NoneAssumption DEF Going

\* The file, step by step.
LEMMA SingleKept ==
  ASSUME Going, NEW data \in Units, fp.left = data \o fp'.left
  PROVE  ~Decoding => OneByOne(fp'.left)
<1>1. ~Decoding => OneByOne(data \o fp'.left)
  BY GoingFacts DEF Counts
<1> QED
  BY <1>1, GoingFacts, OneByOneParts

LEMMA RestCounts ==
  ASSUME Going, UNCHANGED <<fp, remaining>>
  PROVE  Counts'
<1>1. Counts /\ InitLength(shape)' = InitLength(shape) /\ Chunked' = Chunked /\ Whole' = Whole
      /\ Decoding' = Decoding /\ shape' = shape
  BY GoingFacts
<1>2. Ended'
  BY <1>1 DEF Counts, Ended
<1>3. Counted'
  BY <1>1 DEF Counts, Counted
<1>4. OneByOne(fp.left)' = OneByOne(fp.left)
  OBVIOUS
<1> QED
  BY <1>1, <1>2, <1>3, <1>4 DEF Counts

LEMMA ReadCounts ==
  ASSUME Going, NEW amt \in Amounts, NEW one \in BOOLEAN, NEW r \in RawReads(amt, one),
         DoRead(r), ~r.error,
         r.data = <<>> /\ one /\ amt = All => remaining \in {0, NoLength}
  PROVE  Counts'
<1>1. ReadTyped(r) /\ ReadEnds(r, amt, one) /\ fp' = r.fp /\ remaining' = r.remaining
  BY GoingFacts, ReadFacts DEF DoRead
<1>2. /\ r.data \in Units /\ fp.left = r.data \o fp'.left
      /\ remaining' = (IF remaining = NoLength THEN NoLength ELSE remaining - Len(r.data))
  BY <1>1 DEF ReadTyped
<1> DEFINE n == Len(r.data)
           m == Len(fp.left)
           k == Len(fp'.left)
<1>3. /\ n \in Nat /\ m \in Nat /\ k \in Nat /\ m = n + k
      /\ n = 0 <=> r.data = <<>>
      /\ m = 0 <=> fp.left = <<>>
      /\ k = 0 <=> fp'.left = <<>>
  BY <1>2, GoingFacts, UnitsFacts, ZenonT(60)
<1>4. /\ fp.state # "open" => fp'.state # "open" /\ r.data = <<>>
      /\ fp.state = "open" /\ fp'.state # "open" =>
           /\ fp'.left = <<>> \/ remaining = n
           /\ Chunked => Whole
           /\ remaining' \in {0, NoLength} \/ (r.data = <<>> /\ one /\ amt = All)
  BY <1>1 DEF ReadEnds
<1>5. Ended /\ Counted /\ remaining \in Int \cup {NoLength} /\ NoLength \notin Int
  BY GoingFacts DEF Counts
<1>6. /\ remaining # NoLength => m <= remaining
      /\ remaining # NoLength => remaining = (InitLength(shape) - Len(shape.wire)) + m
      /\ remaining = NoLength <=> InitLength(shape) = NoLength
  BY <1>5 DEF Counted
<1>7. /\ remaining' = (IF remaining = NoLength THEN NoLength ELSE remaining - n)
      /\ InitLength(shape) \in Nat \cup {NoLength} /\ Len(shape.wire) \in Nat
  BY <1>2, GoingFacts
<1>8. ~Decoding => OneByOne(fp'.left)
  BY <1>2, SingleKept
<1>9. /\ fp.state # "open" => m = 0 /\ remaining \in {0, NoLength} /\ (Chunked /\ ~shape.empty => Whole)
  BY <1>3, <1>5 DEF Ended
<1>10. n = 0 /\ one /\ amt = All => remaining \in {0, NoLength}
  BY <1>3
<1> HIDE DEF n, m, k
<1>11. /\ remaining' = NoLength <=> InitLength(shape) = NoLength
       /\ remaining' # NoLength => k <= remaining'
                       /\ remaining' = (InitLength(shape) - Len(shape.wire)) + k
  <2>1. CASE remaining = NoLength
    BY <1>6, <1>7, <2>1
  <2>2. CASE remaining # NoLength
    <3>1. remaining \in Int /\ remaining' = remaining - n /\ remaining' \in Int
      BY <1>3, <1>5, <1>7, <2>2
    <3>2. InitLength(shape) \in Nat
      BY <1>6, <1>7, <2>2
    <3> QED
      BY <1>3, <1>5, <1>6, <1>7, <2>2, <3>1, <3>2
  <2> QED
    BY <2>1, <2>2
<1>12. fp'.state # "open" =>
         /\ k = 0 /\ remaining' \in {0, NoLength} /\ (Chunked /\ ~shape.empty => Whole)
  <2> SUFFICES ASSUME fp'.state # "open"
               PROVE  /\ k = 0 /\ remaining' \in {0, NoLength} /\ (Chunked /\ ~shape.empty => Whole)
    OBVIOUS
  <2>1. CASE fp.state # "open"
    <3>1. n = 0 /\ m = 0
      BY <1>3, <1>4, <1>9, <2>1
    <3> QED
      BY <1>3, <1>5, <1>7, <1>9, <2>1, <3>1
  <2>2. CASE fp.state = "open"
    <3>1. k = 0
      <4>1. k = 0 \/ remaining = n
        BY <1>3, <1>4, <2>2
      <4>2. remaining = n => k = 0
        BY <1>3, <1>5, <1>6
      <4> QED
        BY <4>1, <4>2
    <3>2. remaining' \in {0, NoLength}
      <4>1. remaining' \in {0, NoLength} \/ (n = 0 /\ one /\ amt = All)
        BY <1>3, <1>4, <2>2
      <4>2. n = 0 /\ remaining \in {0, NoLength} => remaining' \in {0, NoLength}
        BY <1>5, <1>7
      <4> QED
        BY <1>10, <4>1, <4>2
    <3> QED
      BY <1>4, <2>2, <3>1, <3>2
  <2> QED
    BY <2>1, <2>2
<1>13. Ended'
  BY <1>3, <1>12, GoingFacts DEF Ended
<1>14. Counted'
  BY <1>11, GoingFacts DEF Counted, k
<1> QED
  BY <1>8, <1>13, <1>14, GoingFacts DEF Counts

LEMMA ChunkCounts ==
  ASSUME Going, Chunked, remaining' = remaining, NEW data \in Units,
         fp.left = data \o fp'.left,
         fp'.state # "open" => fp'.left = <<>> /\ (~shape.empty => Whole)
  PROVE  Counts'
<1>1. InitLength(shape) = NoLength /\ Counts
  BY GoingFacts DEF InitLength, Chunked
<1>2. remaining = NoLength
  BY <1>1 DEF Counts, Counted
<1>3. ~Decoding => OneByOne(fp'.left)
  BY SingleKept
<1>4. Ended'
  BY <1>2, GoingFacts DEF Ended
<1>5. Counted'
  BY <1>1, <1>2, GoingFacts DEF Counted
<1> QED
  BY <1>3, <1>4, <1>5, GoingFacts DEF Counts

\* What a step makes of the promises.
Fulfilled ==
  Counts' /\ Drained' /\ (Trailing => Behind') /\ (Told' => Complete')

\* Without Decoding the decoder is as new; with it, a tail is what is pending.
LEMMA TailFacts ==
  ASSUME Going
  PROVE  /\ DecOK(dec) /\ DecOK(dec') /\ dec.kind = shape.enc /\ dec'.kind = shape.enc
         /\ HasTail <=> Decoding /\ Pending(dec) # <<>>
         /\ ~HasTail => Pending(dec) = <<>>
         /\ ~Decoding => Pending(dec') = <<>> /\ Undelivered(dec') = <<>>
         /\ Decoding \in BOOLEAN
<1>1. /\ DecOK(dec) /\ DecOK(dec') /\ dec.kind = shape.enc /\ dec'.kind = shape.enc
      /\ shape.enc \in Kinds
  BY GoingFacts, ShapeFacts DEF TypesInv, CallInv, CallTypes
<1>2. InStep(dec, Pending(dec) \o fp.left) /\ (InStep(dec, Pending(dec) \o fp.left))'
  BY GoingFacts DEF Order
<1>3. /\ ~Decoding => dec = NewDecoder(shape.enc)
      /\ ~Decoding => dec' = NewDecoder(shape.enc)
  BY <1>2, GoingFacts DEF InStep
<1>4. /\ ~Decoding => Pending(dec) = <<>>
      /\ ~Decoding => Pending(dec') = <<>> /\ Undelivered(dec') = <<>>
  BY <1>1, <1>3, NewDecoderFacts
<1>5. HasUnconsumedTail(dec) <=> Pending(dec) # <<>>
  BY <1>1, TailPending
<1> QED
  BY <1>1, <1>4, <1>5, Zenon DEF HasTail, Decoding

\* A file that has been read to its end was not cut short.
LEMMA NotCutShort ==
  ASSUME Going, InitLength(shape) = NoLength \/ Len(shape.wire) >= InitLength(shape),
         Chunked /\ ~shape.empty => Whole
  PROVE  ~CutShort(shape)
<1>1. CASE Chunked
  BY <1>1 DEF CutShort, Chunked, Whole
<1>2. CASE ~Chunked
  <2>1. ~shape.empty => InitLength(shape) = shape.length
    BY <1>2 DEF InitLength, Chunked
  <2>2. InitLength(shape) \in Nat \cup {NoLength} /\ Len(shape.wire) \in Nat
    BY GoingFacts
  <2> QED
    BY <1>2, <2>1, <2>2 DEF CutShort, Chunked
<1> QED
  BY <1>1, <1>2

LEMMA AllBefore ==
  ASSUME Going, fp.left = <<>>, remaining \in {0, NoLength}, Chunked /\ ~shape.empty => Whole
  PROVE  ~CutShort(shape)
<1>1. /\ InitLength(shape) \in Nat \cup {NoLength} /\ Len(shape.wire) \in Nat /\ NoLength \notin Int
      /\ remaining = NoLength <=> InitLength(shape) = NoLength
      /\ remaining # NoLength => remaining = (InitLength(shape) - Len(shape.wire)) + Len(fp.left)
  BY GoingFacts DEF Counts, Counted
<1>2. Len(fp.left) = 0
  OBVIOUS
<1>3. InitLength(shape) = NoLength \/ Len(shape.wire) >= InitLength(shape)
  BY <1>1, <1>2
<1> QED
  BY <1>3, NotCutShort

LEMMA AllAfter ==
  ASSUME Going, Counts', fp'.left = <<>>, remaining' \in {0, NoLength},
         Chunked /\ ~shape.empty => Whole
  PROVE  ~CutShort(shape)
<1>1. /\ InitLength(shape) \in Nat \cup {NoLength} /\ Len(shape.wire) \in Nat /\ NoLength \notin Int
      /\ shape' = shape /\ InitLength(shape)' = InitLength(shape)
  BY GoingFacts
<1>2. /\ remaining' = NoLength <=> InitLength(shape) = NoLength
      /\ remaining' # NoLength => remaining' = (InitLength(shape) - Len(shape.wire)) + Len(fp'.left)
  BY <1>1 DEF Counts, Counted
<1>3. Len(fp'.left) = 0
  OBVIOUS
<1>4. InitLength(shape) = NoLength \/ Len(shape.wire) >= InitLength(shape)
  BY <1>1, <1>2, <1>3
<1> QED
  BY <1>4, NotCutShort

\* Where the file has nothing left and nothing is pending, before the step and
\* after it.
LEMMA EndBefore ==
  ASSUME Going, shape.enc # "raw", ~CutShort(shape), fp.left = <<>>, Pending(dec) = <<>>
  PROVE  Undelivered(dec) = <<>>
<1>1. TypesInv /\ Regular(shape) /\ shape \in Shapes /\ Order
  BY GoingFacts
<1>2. /\ DecOK(dec) /\ dec.kind = shape.enc /\ delivered \in Bytes /\ Contents(buf) \in Bytes
      /\ Undelivered(dec) \in Bytes
  BY <1>1, TypesFacts, ContentsTyped, DecFacts
<1> DEFINE pre == delivered \o Contents(buf)
<1>3. pre \in Bytes /\ pre \o Undelivered(dec) \in Bytes
  BY <1>2, BytesFacts
<1>4. (pre \o Undelivered(dec)) \o <<>> = Body
  BY <1>1, PayloadEmpty DEF Order, InOrder
<1>5. pre \o Undelivered(dec) = Body
  BY <1>3, <1>4, BytesFacts
<1>6. <<>> \o <<>> = <<>>
  BY UnitsFacts
<1>7. InStep(dec, <<>>)
  BY <1>1, <1>6 DEF Order
<1> HIDE DEF pre
<1> QED
  BY <1>1, <1>2, <1>3, <1>5, <1>7, EndIsClean

LEMMA EndAfter ==
  ASSUME Going, shape.enc # "raw", ~CutShort(shape), fp'.left = <<>>, Pending(dec') = <<>>
  PROVE  Undelivered(dec') = <<>>
<1>1. /\ TypesInv' /\ Regular(shape) /\ shape \in Shapes /\ Order' /\ shape' = shape
      /\ Decoding' = Decoding
  BY GoingFacts
<1>2. /\ DecOK(dec') /\ dec'.kind = shape.enc /\ delivered' \in Bytes /\ BufferOK(buf')
  BY <1>1 DEF TypesInv, CallInv, CallTypes
<1>3. Contents(buf') \in Bytes /\ Undelivered(dec') \in Bytes
  BY <1>2, ContentsTyped, DecFacts
<1> DEFINE pre == delivered' \o Contents(buf')
<1>4. pre \in Bytes /\ pre \o Undelivered(dec') \in Bytes
  BY <1>2, <1>3, BytesFacts
<1>5. (pre \o Undelivered(dec')) \o <<>> = Body
  <2>1. (pre \o Undelivered(dec')) \o Payload(fp'.left) = Body'
    BY <1>1 DEF Order, InOrder
  <2> QED
    BY <1>1, <2>1, PayloadEmpty DEF Body
<1>6. pre \o Undelivered(dec') = Body
  BY <1>4, <1>5, BytesFacts
<1>7. <<>> \o <<>> = <<>>
  BY UnitsFacts
<1>8. InStep(dec', <<>>)
  <2>1. (InStep(dec, Pending(dec) \o fp.left))'
    BY <1>1 DEF Order
  <2>2. Trailed' = Trailed
    BY <1>1 DEF Trailed
  <2> QED
    BY <1>1, <1>7, <2>1, <2>2 DEF InStep
<1> HIDE DEF pre
<1> QED
  BY <1>1, <1>2, <1>4, <1>6, <1>8, EndIsClean

\* Everything has been delivered when nothing is held anywhere.
LEMMA Finishes ==
  ASSUME Going, Counts', buf'.size = 0, fp'.left = <<>>, Undelivered(dec') = <<>>,
         remaining' \in {0, NoLength}, Chunked /\ ~shape.empty => Whole
  PROVE  Complete'
<1>1. TypesInv' /\ Order' /\ shape' = shape /\ InitLength(shape)' = InitLength(shape)
      /\ Chunked' = Chunked /\ Whole' = Whole
      /\ NoLength \notin Int /\ Len(shape.wire) \in Nat
      /\ InitLength(shape) \in Nat \cup {NoLength}
  BY GoingFacts
<1>2. BufferOK(buf') /\ delivered' \in Bytes
  BY <1>1 DEF TypesInv, CallInv, CallTypes
<1>3. Contents(buf') = <<>>
  <2>1. Contents(buf') \in Bytes /\ Len(Contents(buf')) = 0
    BY <1>2, ContentsTyped
  <2> QED
    BY <2>1, BytesFacts
<1>4. ((delivered' \o <<>>) \o <<>>) \o <<>> = Body'
  BY <1>1, <1>3, PayloadEmpty DEF Order, InOrder
<1>5. delivered' = Body'
  BY <1>2, <1>4, BytesFacts
<1>6. /\ remaining' = NoLength <=> InitLength(shape) = NoLength
      /\ remaining' # NoLength => remaining' = (InitLength(shape) - Len(shape.wire)) + Len(fp'.left)
  BY <1>1 DEF Counts, Counted
<1>7. Len(fp'.left) = 0
  OBVIOUS
<1>8. InitLength(shape) = NoLength \/ Len(shape.wire) >= InitLength(shape)
  BY <1>1, <1>6, <1>7
<1> QED
  BY <1>1, <1>5, <1>8 DEF Complete

LEMMA WholeDrained ==
  ASSUME Going, Chunked => ~TakenInChunks'
  PROVE  Drained'
<1>1. /\ Order' /\ shape' = shape /\ Chunked' = Chunked /\ shape.enc \in Kinds
  BY GoingFacts, ShapeFacts
<1>2. Chunked /\ ~TakenWhole' => dec' = NewDecoder(shape.enc)
  BY <1>1 DEF Order, Unbuffered
<1> QED
  BY <1>1, <1>2, NewDecoderFacts DEF Drained

\* The user is told of the end by an answer, and by few of them.
LEMMA TellsNothing ==
  ASSUME \/ call' # Idle
         \/ answer'.op = "read1"
         \/ answer'.op \in {"read", "stream"} /\ (answer'.asked = All \/ answer'.got = answer'.asked)
            /\ answer'.asked \in Amounts
  PROVE  ~Told'
BY NoneAssumption DEF Told, SaidOver, Amounts

LEMMA BeginReadFulfils ==
  ASSUME Going, NEW amt \in Amounts, amt # All, NEW op \in {"read", "stream"},
         op = "stream" => call.phase = "next", call.phase # "fetch",
         Chunked => ~TakenInChunks, BeginRead(op, amt)
  PROVE  Fulfilled
<1> DEFINE r == Decode(<<>>, Wanted(amt), FALSE)
           b == IF HasTail THEN PutChunk(buf, r.out) ELSE buf
           g == GetBytes(b, amt)
<1>1. /\ TypesInv /\ FileInv /\ CallTypes /\ shape \in Shapes /\ marks \subseteq Marks
      /\ amt \in Nat \ {0} /\ BufferOK(buf) /\ buf.size \in Nat
      /\ call \in Calls
  BY GoingFacts, TypesFacts DEF Amounts
<1>2. HasTail \in BOOLEAN
  BY DEF HasTail, HasDecoder, HasUnconsumedTail
<1>3. /\ BufferOK(b) /\ r.out \in Bytes /\ DecodeTyped(<<>>, Wanted(amt), FALSE, r)
      /\ b.size = buf.size + (IF HasTail THEN Len(r.out) ELSE 0)
  BY <1>1, <1>2, BeginReadFacts
<1>4. /\ dec' = (IF HasTail THEN r.dec ELSE dec) /\ NoRead /\ UNCHANGED <<shape, hasDecoded>>
      /\ \/ HasTail /\ r.error /\ Raise(op, amt) /\ UNCHANGED buf
         \/ /\ ~(HasTail /\ r.error) /\ b.size >= amt /\ buf' = g.buf
            /\ Answer(op, amt, g.out) /\ UNCHANGED marks
         \/ /\ ~(HasTail /\ r.error) /\ b.size < amt /\ buf' = b
            /\ GoOn(op, amt, "fetch", TRUE) /\ UNCHANGED marks
  BY DEF BeginRead
<1>5. Len(r.out) \in Nat
  BY <1>3, BytesFacts
<1>6. HasTail /\ ~r.error =>
        /\ buf.size = 0 => Len(r.out) <= amt
        /\ buf.size = 0 /\ Len(r.out) < amt => Pending(dec') = <<>>
  <2> SUFFICES ASSUME HasTail, ~r.error, buf.size = 0
               PROVE  Len(r.out) <= amt /\ (Len(r.out) < amt => Pending(dec') = <<>>)
    OBVIOUS
  <2>1. Decoded(dec, <<>>, Wanted(amt), r)
    BY <1>3, TailFacts DEF DecodeTyped
  <2>2. Wanted(amt) = amt
    BY <1>1 DEF Wanted
  <2> HIDE DEF r
  <2> DEFINE w == Wanted(amt)
  <2>3. Decoded(dec, <<>>, w, r) /\ w = amt
    BY <2>1, <2>2
  <2> HIDE DEF w
  <2>4. Len(r.out) <= amt /\ (Len(r.out) < amt => Pending(r.dec) = <<>>)
    BY <1>1, <1>5, <2>3 DEF Decoded
  <2> QED
    BY <1>4, <2>4
<1>7. b.chunks # <<>> \/ b.size > 0 =>
        /\ BufferOK(g.buf) /\ g.out \in Bytes
        /\ Len(g.out) = IF amt <= b.size THEN amt ELSE b.size
        /\ g.buf.size = b.size - Len(g.out)
  <2>1. b.size > 0 => b.chunks # <<>>
    BY <1>3, ContentsTyped
  <2> QED
    BY <1>1, <1>3, <2>1, GetBytesKeeps
<1>8. b.size \in Nat
  BY <1>3 DEF BufferOK
<1> HIDE DEF r, b, g
<1>9. Counts'
  BY <1>4, RestCounts DEF NoRead
<1>10. ~(HasTail /\ r.error /\ Raise(op, amt))
  BY <1>1, GoingFacts, RaiseTyped
<1>11. marks' = marks
  BY <1>4, <1>10
<1>12. Drained'
  BY <1>11, WholeDrained DEF TakenInChunks
<1>13. CASE /\ ~(HasTail /\ r.error) /\ b.size >= amt /\ buf' = g.buf
            /\ Answer(op, amt, g.out) /\ UNCHANGED marks
  <2>1. b.size > 0 /\ Len(g.out) = amt /\ g.buf.size = b.size - amt
    BY <1>1, <1>7, <1>8, <1>13
  <2>2. Trailing => Behind'
    <3> SUFFICES ASSUME Trailing PROVE Behind'
      OBVIOUS
    <3>1. Behind /\ buf.size = 0
      BY GoingFacts DEF Behind
    <3>2. HasTail /\ Len(r.out) >= amt
      BY <1>1, <1>3, <1>13, <3>1
    <3>3. buf'.size = 0
      BY <1>1, <1>3, <1>5, <1>6, <1>13, <2>1, <3>1, <3>2
    <3>4. hasDecoded'
      BY <1>4, <3>1, <3>2, TailFacts DEF Behind
    <3>5. call'.phase \notin {"fetch", "fetch1"}
      BY <1>1, <1>13 DEF Answer, Idle, Calls
    <3> QED
      BY <3>3, <3>4, <3>5 DEF Behind
  <2>3. ~Told'
    <3>1. answer' = [op |-> op, asked |-> amt, got |-> Len(g.out), raised |-> FALSE]
      BY <1>13 DEF Answer
    <3> QED
      BY <2>1, <3>1, TellsNothing
  <2> QED
    BY <1>9, <1>12, <2>2, <2>3 DEF Fulfilled
<1>14. CASE /\ ~(HasTail /\ r.error) /\ b.size < amt /\ buf' = b
            /\ GoOn(op, amt, "fetch", TRUE) /\ UNCHANGED marks
  <2>1. call'.phase = "fetch"
    BY <1>14 DEF GoOn
  <2>2. Trailing => Behind'
    <3> SUFFICES ASSUME Trailing PROVE Behind'
      OBVIOUS
    <3>1. Behind /\ buf.size = 0
      BY GoingFacts DEF Behind
    <3>2. Pending(dec') = <<>>
      <4>1. CASE HasTail
        BY <1>1, <1>3, <1>5, <1>6, <1>14, <3>1, <4>1
      <4>2. CASE ~HasTail
        BY <1>4, <4>2, TailFacts
      <4> QED
        BY <4>1, <4>2
    <3> QED
      BY <2>1, <3>2 DEF Behind
  <2>3. ~Told'
    BY <2>1, TellsNothing DEF Idle
  <2> QED
    BY <1>9, <1>12, <2>2, <2>3 DEF Fulfilled
<1> QED
  BY <1>4, <1>10, <1>13, <1>14

LEMMA ReadFulfils ==
  ASSUME Going, NEW amt \in shape.amts, Read(amt)
  PROVE  Fulfilled
<1>1. amt \in Amounts /\ amt # All /\ TypesInv
  BY GoingFacts, ShapeFacts
<1>2. BeginRead("read", amt) /\ (Chunked => ~TakenInChunks) /\ call.phase # "fetch"
  BY <1>1, WayFacts DEF Read, Idle
<1> QED
  BY <1>1, <1>2, BeginReadFulfils

LEMMA StreamNextFulfils ==
  ASSUME Going, StreamNext
  PROVE  Fulfilled
<1>1. TypesInv /\ call.amt \in Amounts
  BY GoingFacts, TypesFacts
<1>2. BeginRead("stream", call.amt) /\ call.amt # All /\ ~Chunked /\ call.phase = "next"
  BY <1>1, TypesFacts DEF StreamNext, Ways
<1> QED
  BY <1>1, <1>2, BeginReadFulfils

LEMMA StreamFulfils ==
  ASSUME Going, NEW amt \in shape.amts, Stream(amt)
  PROVE  Fulfilled
<1>1. /\ GoOn("stream", amt, "next", FALSE) /\ NoRead /\ ~Chunked /\ call = Idle
      /\ UNCHANGED <<shape, dec, hasDecoded, buf, chunkLeft, sizes, marks>>
  BY DEF Stream
<1>2. call'.phase = "next" /\ call' # Idle
  BY <1>1 DEF GoOn, Idle
<1>3. Counts'
  BY <1>1, RestCounts DEF NoRead
<1>4. Drained'
  BY <1>1, WholeDrained
<1>5. Trailing => Behind'
  BY <1>1, <1>2, GoingFacts DEF Behind, Idle
<1>6. ~Told'
  BY <1>2, TellsNothing
<1> QED
  BY <1>3, <1>4, <1>5, <1>6 DEF Fulfilled

LEMMA StreamEndFulfils ==
  ASSUME Going, StreamEnd
  PROVE  Fulfilled
<1>1. /\ NoRead /\ call' = Idle /\ call.phase = "next"
      /\ UNCHANGED <<shape, dec, hasDecoded, buf, delivered, marks>>
      /\ fp.state = "closed" /\ ~(buf.size > 0) /\ ~HasTail
  BY DEF StreamEnd, MoreToStream
<1>2. TypesInv /\ BufferOK(buf) /\ buf.size \in Nat /\ ~Chunked
  BY <1>1, GoingFacts, TypesFacts DEF Ways
<1>3. Counts'
  BY <1>1, RestCounts DEF NoRead
<1>4. Drained'
  BY <1>2, WholeDrained
<1>5. Trailing => Behind'
  BY <1>1, GoingFacts DEF Behind, Idle
<1>6. Told' => Complete'
  <2> SUFFICES ASSUME Told' PROVE Complete'
    OBVIOUS
  <2>1. shape.enc # "raw"
    BY <1>1 DEF Told
  <2>2. fp'.left = <<>> /\ remaining' \in {0, NoLength}
    BY <1>1, GoingFacts DEF Counts, Ended, NoRead
  <2>3. Pending(dec') = <<>>
    BY <1>1, TailFacts
  <2>4. Undelivered(dec') = <<>>
    BY <1>2, <1>3, <2>1, <2>2, <2>3, AllAfter, EndAfter
  <2>5. buf'.size = 0
    BY <1>1, <1>2
  <2> QED
    BY <1>2, <1>3, <2>2, <2>4, <2>5, Finishes
<1> QED
  BY <1>3, <1>4, <1>5, <1>6 DEF Fulfilled

\* A read that returns nothing is the end of the file.
LEMMA ReadNothing ==
  ASSUME Going, NEW amt \in Amounts, NEW one \in BOOLEAN, NEW r \in RawReads(amt, one),
         DoRead(r), ~r.error, r.data = <<>>
  PROVE  /\ fp.left = <<>> /\ fp'.left = <<>>
         /\ Chunked /\ ~shape.empty => Whole
         /\ amt # All => remaining' \in {0, NoLength}
<1>1. ReadTyped(r) /\ ReadEnds(r, amt, one) /\ fp' = r.fp /\ remaining' = r.remaining
  BY GoingFacts, ReadFacts DEF DoRead
<1>2. fp.left = <<>> /\ (Chunked /\ ~shape.empty => Whole)
  BY <1>1, GoingFacts DEF ReadEnds, Counts, Ended
<1>3. fp'.left = <<>>
  <2>1. fp.left = <<>> \o fp'.left /\ fp'.left \in Units
    BY <1>1, GoingFacts DEF ReadTyped
  <2> QED
    BY <1>2, <2>1, UnitsFacts
<1>4. amt # All => remaining' \in {0, NoLength}
  <2>1. amt # All => remaining \in {0, NoLength}
    BY <1>1 DEF ReadEnds
  <2>2. remaining' = IF remaining = NoLength THEN NoLength ELSE remaining - Len(r.data)
    BY <1>1 DEF ReadTyped
  <2>3. Len(r.data) = 0
    OBVIOUS
  <2> QED
    BY <2>1, <2>2, <2>3
<1> QED
  BY <1>2, <1>3, <1>4

\* Flushing at the end yields nothing when nothing is pending.
LEMMA FlushedNothing ==
  ASSUME Going, shape.enc # "raw", ~CutShort(shape),
         fp.left = <<>>, fp'.left = <<>>, Pending(dec) = <<>>,
         NEW d, DecodeMoves(<<>>, fp'.left, d), ~d.error, d.out \in Bytes, DecOK(d.dec)
  PROVE  d.out = <<>>
<1>1. Undelivered(dec) = <<>> /\ Undelivered(d.dec) \in Bytes
  BY EndBefore, DecFacts
<1>2. InStep(dec, <<>>)
  <2>1. InStep(dec, <<>> \o <<>>) /\ <<>> \o <<>> = <<>>
    BY GoingFacts, UnitsFacts DEF Order
  <2> QED
    BY <2>1
<1>3. (<<>> \o <<>>) \o <<>> = <<>>
  BY UnitsFacts
<1>4. Undelivered(dec) \o Payload(<<>>) = d.out \o Undelivered(d.dec)
  BY <1>2, <1>3 DEF DecodeMoves
<1>5. <<>> = d.out \o Undelivered(d.dec)
  <2>1. Undelivered(dec) \o Payload(<<>>) = <<>> \o <<>>
    BY <1>1, PayloadEmpty
  <2> QED
    BY <1>4, <2>1, UnitsFacts
<1> QED
  BY <1>1, <1>5, BytesEmptyParts

LEMMA FetchFulfils ==
  ASSUME Going, Fetch
  PROVE  Fulfilled
<1>1. PICK r \in RawReads(call.amt, FALSE) :
       LET none == r.data = <<>> /\ call.first
           d    == Decode(r.data, Wanted(call.amt), none)
           b    == PutChunk(buf, d.out)
           g    == GetBytes(b, call.amt)
       IN  /\ DoRead(r)
           /\ \/ /\ r.error
                 /\ Raise(call.op, call.amt)
              \/ /\ ~r.error /\ none /\ buf.size = 0 /\ ~HasTail
                 /\ Answer(call.op, call.amt, <<>>)
                 /\ UNCHANGED <<dec, hasDecoded, buf, marks>>
              \/ /\ ~r.error /\ r.data # <<>> /\ ~shape.decode
                 /\ Answer(call.op, call.amt, Payload(r.data))
                 /\ marks' = Taken("whole")
                 /\ UNCHANGED <<dec, hasDecoded, buf>>
              \/ /\ ~r.error /\ shape.decode /\ d.error
                 /\ Raise(call.op, call.amt)
              \/ /\ ~r.error /\ shape.decode /\ ~d.error
                 /\ dec' = d.dec
                 /\ hasDecoded' = HasDecoder
                 /\ marks' = Taken("whole")
                 /\ IF b.size < call.amt /\ r.data # <<>>
                    THEN /\ buf' = b
                         /\ GoOn(call.op, call.amt, "fetch", FALSE)
                    ELSE /\ buf' = g.buf
                         /\ Answer(call.op, call.amt, g.out)
  BY DEF Fetch
<1> DEFINE amt  == call.amt
           none == r.data = <<>> /\ call.first
           d    == Decode(r.data, Wanted(call.amt), none)
           b    == PutChunk(buf, d.out)
           g    == GetBytes(b, amt)
<1>2. /\ TypesInv /\ CallTypes /\ marks \subseteq Marks /\ BufferOK(buf) /\ buf.size \in Nat
      /\ amt \in Amounts /\ amt \in Nat \ {0} /\ Wanted(call.amt) = amt - buf.size
      /\ call.op \in {"read", "stream"} /\ amt # All /\ buf.size < amt
      /\ Chunked => ~TakenInChunks
      /\ call \in Calls /\ call.first \in BOOLEAN /\ call.phase = "fetch"
      /\ shape.decode \in BOOLEAN
  <2>1. /\ call.op \in {"read", "stream"} /\ amt # All /\ buf.size < amt
        /\ (Chunked => ~TakenInChunks) /\ call.phase = "fetch"
    BY GoingFacts, TypesFacts DEF Fetch, Ways
  <2> QED
    BY <2>1, GoingFacts, TypesFacts, ShapeFacts DEF Amounts, Calls, Wanted
<1>3. DoRead(r)
  BY <1>1
<1>4. /\ r.data \in Units /\ fp'.left \in Units
      /\ ~r.error => fp.left = r.data \o fp'.left
      /\ DecodeTyped(r.data, Wanted(call.amt), none, d) /\ DecodeMoves(r.data, fp'.left, d)
      /\ DecOK(d.dec) /\ d.out \in Bytes
  <2>1. Wanted(call.amt) \in Int /\ none \in BOOLEAN
    BY <1>2
  <2> QED
    BY <1>2, <1>3, <2>1, ReadDecodes
<1> HIDE DEF d
<1>5. /\ b.chunks # <<>> /\ BufferOK(b) /\ b.size = buf.size + Len(d.out) /\ Len(d.out) \in Nat
  BY <1>2, <1>4, PutChunkKeeps, BytesFacts, ZenonT(60)
<1>6. /\ Len(g.out) = IF amt <= b.size THEN amt ELSE b.size
      /\ g.buf.size = b.size - Len(g.out)
  BY <1>2, <1>5, GetBytesKeeps
<1>7. \/ /\ r.error
         /\ Raise(call.op, amt)
      \/ /\ ~r.error /\ none /\ buf.size = 0 /\ ~HasTail
         /\ Answer(call.op, amt, <<>>)
         /\ UNCHANGED <<dec, hasDecoded, buf, marks>>
      \/ /\ ~r.error /\ r.data # <<>> /\ ~shape.decode
         /\ Answer(call.op, amt, Payload(r.data))
         /\ marks' = Taken("whole")
         /\ UNCHANGED <<dec, hasDecoded, buf>>
      \/ /\ ~r.error /\ shape.decode /\ d.error
         /\ Raise(call.op, amt)
      \/ /\ ~r.error /\ shape.decode /\ ~d.error
         /\ dec' = d.dec
         /\ hasDecoded' = HasDecoder
         /\ marks' = Taken("whole")
         /\ IF b.size < amt /\ r.data # <<>>
            THEN /\ buf' = b
                 /\ GoOn(call.op, amt, "fetch", FALSE)
            ELSE /\ buf' = g.buf
                 /\ Answer(call.op, amt, g.out)
  BY <1>1 DEF d
<1>8. ~Raise(call.op, amt)
  BY <1>2, GoingFacts, RaiseTyped
<1> HIDE DEF b, g
<1>9. ~r.error
  BY <1>7, <1>8
<1>10. Counts'
  BY <1>2, <1>3, <1>9, ReadCounts
<1>11. Drained'
  <2>1. marks' = marks \/ marks' = Taken("whole")
    BY <1>7, <1>8
  <2> QED
    BY <1>2, <2>1, WayFacts, WholeDrained
<1>12. r.data = <<>> => /\ fp.left = <<>> /\ fp'.left = <<>>
                        /\ Chunked /\ ~shape.empty => Whole
                        /\ remaining' \in {0, NoLength}
  BY <1>2, <1>3, <1>9, ReadNothing
<1>13. ASSUME NEW bytes, Answer(call.op, amt, bytes)
       PROVE  /\ call'.phase \notin {"fetch", "fetch1"}
              /\ answer' = [op |-> call.op, asked |-> amt, got |-> Len(bytes), raised |-> FALSE]
              /\ call.op = "stream" => call' # Idle
  <2>1. /\ answer' = [op |-> call.op, asked |-> amt, got |-> Len(bytes), raised |-> FALSE]
        /\ call' = IF call.op = "stream" THEN [call EXCEPT !.phase = "next", !.odd = ~@] ELSE Idle
    BY <1>13 DEF Answer
  <2>2. call \in Calls
    BY <1>2
  <2>3. call.op = "stream" => call'.phase = "next"
    BY <2>1, <2>2 DEF Calls
  <2>4. call.op # "stream" => call'.phase = "idle"
    BY <2>1 DEF Idle
  <2>5. call' = Idle => call'.phase = "idle"
    BY DEF Idle
  <2> QED
    BY <2>1, <2>3, <2>4, <2>5
<1>14. CASE /\ none /\ buf.size = 0 /\ ~HasTail
            /\ Answer(call.op, amt, <<>>)
            /\ UNCHANGED <<dec, hasDecoded, buf, marks>>
  <2>1. Pending(dec') = <<>>
    BY <1>14, TailFacts
  <2>2. Trailing => Behind'
    BY <1>14, <1>13, <2>1 DEF Behind
  <2>3. Told' => Complete'
    <3> SUFFICES ASSUME Told' PROVE Complete'
      OBVIOUS
    <3>1. shape.enc # "raw"
      BY GoingFacts DEF Told
    <3>2. Undelivered(dec') = <<>>
      BY <1>10, <1>12, <1>14, <2>1, <3>1, AllAfter, EndAfter
    <3> QED
      BY <1>10, <1>12, <1>14, <3>2, Finishes
  <2> QED
    BY <1>10, <1>11, <2>2, <2>3 DEF Fulfilled
<1>15. CASE /\ r.data # <<>> /\ ~shape.decode
            /\ Answer(call.op, amt, Payload(r.data))
            /\ marks' = Taken("whole")
            /\ UNCHANGED <<dec, hasDecoded, buf>>
  <2>1. ~Decoding /\ buf.size = 0
    BY <1>15, GoingFacts DEF Decoding, Order, Unbuffered
  <2>2. Trailing => Behind'
    BY <1>13, <1>15, <2>1, TailFacts DEF Behind
  <2>3. ~Told'
    <3>1. OneByOne(r.data)
      <4>1. OneByOne(r.data \o fp'.left)
        BY <1>4, <1>9, <2>1, GoingFacts DEF Counts
      <4> QED
        BY <1>4, <4>1, OneByOneParts
    <3>2. Payload(r.data) # <<>> /\ Payload(r.data) \in Bytes
      BY <1>4, <1>15, <3>1, OneByOneShows, PayloadTyped
    <3>3. Len(Payload(r.data)) # 0
      BY <3>2, BytesFacts
    <3>4. answer'.got = Len(Payload(r.data)) /\ shape' = shape
      BY <1>13, <1>15, GoingFacts
    <3> QED
      BY <1>15, <3>3, <3>4 DEF Told
  <2> QED
    BY <1>10, <1>11, <2>2, <2>3 DEF Fulfilled
<1>16. shape.decode /\ Trailing => Decoding /\ HasDecoder /\ shape.enc # "raw"
  BY DEF Trailing, Decoding, HasDecoder
<1>17. Decoding /\ ~none /\ ~d.error =>
         /\ Len(d.out) <= amt - buf.size
         /\ Len(d.out) < amt - buf.size => Pending(d.dec) = <<>>
  <2> SUFFICES ASSUME Decoding, ~none, ~d.error
               PROVE  /\ Len(d.out) <= amt - buf.size
                      /\ Len(d.out) < amt - buf.size => Pending(d.dec) = <<>>
    OBVIOUS
  <2> DEFINE w == Wanted(call.amt)
  <2>1. Decoded(dec, r.data, w, d) /\ w = amt - buf.size
    BY <1>2, <1>4 DEF DecodeTyped
  <2> HIDE DEF w
  <2> QED
    BY <1>2, <1>5, <2>1 DEF Decoded
<1>18. CASE /\ shape.decode /\ ~d.error
            /\ dec' = d.dec
            /\ hasDecoded' = HasDecoder
            /\ b.size < amt /\ r.data # <<>>
            /\ buf' = b
            /\ GoOn(call.op, amt, "fetch", FALSE)
  <2>1. call'.phase = "fetch"
    BY <1>18 DEF GoOn
  <2>2. Trailing => Behind'
    <3> SUFFICES ASSUME Trailing PROVE Behind'
      OBVIOUS
    <3>1. Len(d.out) < amt - buf.size
      BY <1>2, <1>5, <1>18
    <3>2. Pending(dec') = <<>>
      BY <1>16, <1>17, <1>18, <3>1
    <3> QED
      BY <2>1, <3>2 DEF Behind
  <2>3. ~Told'
    BY <2>1, TellsNothing DEF Idle
  <2> QED
    BY <1>10, <1>11, <2>2, <2>3 DEF Fulfilled
<1>19. CASE /\ shape.decode /\ ~d.error
            /\ dec' = d.dec
            /\ hasDecoded' = HasDecoder
            /\ ~(b.size < amt /\ r.data # <<>>)
            /\ buf' = g.buf
            /\ Answer(call.op, amt, g.out)
  <2>1. Trailing => Behind'
    <3> SUFFICES ASSUME Trailing PROVE Behind'
      OBVIOUS
    <3>1. b.size <= amt
      <4>1. CASE ~none
        BY <1>2, <1>5, <1>16, <1>17, <1>19, <4>1
      <4>2. CASE none
        <5>1. Pending(dec) = <<>>
          BY <1>2, GoingFacts DEF Behind
        <5>2. DecodeMoves(<<>>, fp'.left, d)
          BY <1>4, <4>2
        <5>3. d.out = <<>>
          BY <1>4, <1>10, <1>12, <1>16, <1>19, <4>2, <5>1, <5>2, AllAfter, FlushedNothing
        <5>4. Len(d.out) = 0
          BY <5>3
        <5> QED
          BY <1>2, <1>5, <5>4
      <4> QED
        BY <4>1, <4>2
    <3>2. buf'.size = 0
      BY <1>2, <1>5, <1>6, <1>19, <3>1
    <3> QED
      BY <1>13, <1>16, <1>19, <3>2 DEF Behind
  <2>2. Told' => Complete'
    <3> SUFFICES ASSUME Told' PROVE Complete'
      OBVIOUS
    <3>1. shape.enc # "raw"
      BY GoingFacts DEF Told
    <3>2. Len(g.out) < amt
      <4>1. answer' = [op |-> call.op, asked |-> amt, got |-> Len(g.out), raised |-> FALSE]
        BY <1>13, <1>19
      <4> QED
        BY <1>2, <4>1 DEF Told, SaidOver
    <3>3. b.size < amt /\ g.buf.size = 0
      BY <1>2, <1>5, <1>6, <3>2
    <3>4. r.data = <<>>
      BY <1>19, <3>3
    <3>5. Pending(dec') = <<>>
      <4>1. CASE ~Decoding
        BY <4>1, TailFacts
      <4>2. CASE Decoding /\ none
        BY <1>4, <1>19, <4>2 DEF DecodeTyped
      <4>3. CASE Decoding /\ ~none
        <5>1. Len(d.out) < amt - buf.size
          BY <1>2, <1>5, <3>3
        <5> QED
          BY <1>17, <1>19, <4>3, <5>1
      <4> QED
        BY <4>1, <4>2, <4>3
    <3>6. Undelivered(dec') = <<>>
      BY <1>10, <1>12, <3>1, <3>4, <3>5, AllAfter, EndAfter
    <3> QED
      BY <1>10, <1>12, <1>19, <3>3, <3>4, <3>6, Finishes
  <2> QED
    BY <1>10, <1>11, <2>1, <2>2 DEF Fulfilled
<1> QED
  BY <1>7, <1>8, <1>14, <1>15, <1>18, <1>19

LEMMA ReadAllFulfils ==
  ASSUME Going, ReadAll
  PROVE  Fulfilled
<1>1. PICK r \in RawReads(All, FALSE) :
       LET none == r.data = <<>> /\ buf.size = 0 /\ ~HasTail
           d    == Decode(r.data, -1, TRUE)
       IN  /\ DoRead(r)
           /\ \/ /\ r.error
                 /\ Raise("read", All)
              \/ /\ ~r.error
                 /\ Answer("read", All, <<>>)
                 /\ UNCHANGED <<dec, hasDecoded, marks>>
              \/ /\ d.error
                 /\ Raise("read", All)
              \/ /\ ~r.error /\ ~none /\ ~d.error
                 /\ Answer("read", All, d.out)
                 /\ dec' = d.dec
                 /\ hasDecoded' = (HasDecoder /\ shape.decode)
                 /\ marks' = Taken("whole") \cup (IF buf.size > 0 THEN {"skipped"} ELSE {})
  BY DEF ReadAll
<1> DEFINE d == Decode(r.data, -1, TRUE)
<1>2. /\ TypesInv /\ CallTypes /\ marks \subseteq Marks /\ All \in Amounts
      /\ Chunked => ~TakenInChunks
      /\ call = Idle
  BY GoingFacts, TypesFacts, WayFacts DEF Amounts, ReadAll
<1>3. DoRead(r) /\ buf' = buf
  BY <1>1 DEF ReadAll
<1>4. DecodeTyped(r.data, -1, TRUE, d)
  <2>1. -1 \in Int /\ TRUE \in BOOLEAN /\ FALSE \in BOOLEAN
    OBVIOUS
  <2> QED
    BY <1>2, <1>3, <2>1, ReadDecodes
<1>5. ~Raise("read", All)
  BY <1>2, GoingFacts, RaiseTyped
<1>6. /\ ~r.error
      /\ \E bytes : Answer("read", All, bytes)
      /\ \/ UNCHANGED <<dec, hasDecoded, marks>>
         \/ /\ ~d.error /\ dec' = d.dec
            /\ marks' = Taken("whole") \cup (IF buf.size > 0 THEN {"skipped"} ELSE {})
  BY <1>1, <1>5
<1> HIDE DEF d
<1>7. Counts'
  <2>1. FALSE \in BOOLEAN
    OBVIOUS
  <2> QED
    BY <1>2, <1>3, <1>6, <2>1, ReadCounts
<1>8. Drained'
  <2>1. "chunks" \in marks' => "chunks" \in marks
    BY <1>6 DEF Taken
  <2> QED
    BY <1>2, <2>1, WholeDrained DEF TakenInChunks
<1>9. call' = Idle /\ answer'.op = "read" /\ answer'.asked = All
  BY <1>6 DEF Answer
<1>10. ~Told'
  BY <1>2, <1>9, TellsNothing
<1>11. Trailing => Behind'
  <2> SUFFICES ASSUME Trailing PROVE Behind'
    OBVIOUS
  <2>1. Behind /\ buf'.size = 0
    BY <1>2, <1>3, GoingFacts DEF Behind, Idle
  <2>2. Pending(dec') # <<>> => hasDecoded'
    <3>1. CASE UNCHANGED <<dec, hasDecoded, marks>>
      BY <2>1, <3>1 DEF Behind
    <3>2. CASE ~d.error /\ dec' = d.dec
      <4>1. Decoding => Pending(dec') = <<>>
        BY <1>4, <3>2 DEF DecodeTyped
      <4> QED
        BY <4>1, TailFacts
    <3> QED
      BY <1>6, <3>1, <3>2
  <2> QED
    BY <1>9, <2>1, <2>2 DEF Behind, Idle
<1> QED
  BY <1>7, <1>8, <1>10, <1>11 DEF Fulfilled

LEMMA Read1Fulfils ==
  ASSUME Going, NEW amt \in shape.amts \cup {All}, Read1(amt)
  PROVE  Fulfilled
<1> DEFINE more == hasDecoded /\ HasTail /\ (IF amt = All THEN TRUE ELSE buf.size < amt)
           r == Decode(<<>>, Wanted(amt), FALSE)
           b == IF more THEN PutChunk(buf, r.out) ELSE buf
           g == Served(b, amt)
<1>1. /\ TypesInv /\ CallTypes /\ marks \subseteq Marks /\ amt \in Amounts
      /\ BufferOK(buf) /\ hasDecoded \in BOOLEAN /\ buf.size \in Nat /\ call = Idle
      /\ Chunked => ~TakenInChunks
  BY GoingFacts, TypesFacts, ShapeFacts, WayFacts DEF Amounts, Read1
<1>2. more \in BOOLEAN
  BY <1>1 DEF HasTail, HasDecoder, HasUnconsumedTail
<1>3. /\ dec' = (IF more THEN r.dec ELSE dec) /\ NoRead /\ UNCHANGED hasDecoded
      /\ \/ more /\ r.error /\ Raise("read1", amt) /\ UNCHANGED buf
         \/ /\ ~(more /\ r.error) /\ hasDecoded /\ b.size > 0 /\ buf' = g.buf
            /\ Answer("read1", amt, g.out) /\ UNCHANGED marks
         \/ /\ ~(more /\ r.error) /\ ~(hasDecoded /\ b.size > 0) /\ buf' = b
            /\ GoOn("read1", amt, "fetch1", TRUE) /\ UNCHANGED marks
  BY DEF Read1
<1>4. more => hasDecoded /\ HasTail
  OBVIOUS
<1>5. ~more /\ buf.size = 0 => ~hasDecoded \/ ~HasTail
  BY <1>1, NoneAssumption DEF Amounts
<1> HIDE DEF more
<1>6. /\ BufferOK(b) /\ r.out \in Bytes /\ DecodeTyped(<<>>, Wanted(amt), FALSE, r)
      /\ b.size = buf.size + (IF more THEN Len(r.out) ELSE 0)
  BY <1>1, <1>2, BeginReadFacts
<1>7. Len(r.out) \in Nat /\ b.size \in Nat
  BY <1>6, BytesFacts DEF BufferOK
<1>8. b.size > 0 /\ (amt = All \/ b.size <= amt) => g.buf.size = 0
  BY <1>1, <1>6, ServedKeeps
<1>9. more /\ ~r.error /\ buf.size = 0 =>
        /\ amt = All \/ Len(r.out) <= amt
        /\ Len(r.out) = 0 => Pending(dec') = <<>>
  <2> SUFFICES ASSUME more, ~r.error, buf.size = 0
               PROVE  /\ amt = All \/ Len(r.out) <= amt
                      /\ Len(r.out) = 0 => Pending(dec') = <<>>
    OBVIOUS
  <2> DEFINE w == Wanted(amt)
  <2>1. Decoded(dec, <<>>, w, r)
    BY <1>4, <1>6, TailFacts DEF DecodeTyped
  <2>2. w = (IF amt = All THEN -1 ELSE amt) /\ (amt # All => amt \in Nat \ {0})
    BY <1>1 DEF Wanted, Amounts
  <2> HIDE DEF w, r
  <2>3. /\ amt = All \/ Len(r.out) <= amt
        /\ Len(r.out) = 0 => Pending(r.dec) = <<>>
    BY <1>7, <2>1, <2>2 DEF Decoded
  <2> QED
    BY <1>3, <2>3 DEF r
<1> HIDE DEF r, b, g
<1>10. Counts'
  BY <1>3, RestCounts DEF NoRead
<1>11. ~Raise("read1", amt)
  BY <1>1, GoingFacts, RaiseTyped
<1>12. Drained'
  <2>1. marks' = marks
    BY <1>3, <1>11
  <2> QED
    BY <1>1, <2>1, WholeDrained DEF TakenInChunks
<1>13. Trailing => Behind /\ buf.size = 0
  BY <1>1, GoingFacts DEF Behind, Idle
<1>14. CASE /\ ~(more /\ r.error) /\ hasDecoded /\ b.size > 0 /\ buf' = g.buf
            /\ Answer("read1", amt, g.out)
  <2>1. call' = Idle /\ answer'.op = "read1"
    BY <1>14 DEF Answer
  <2>2. Trailing => Behind'
    <3> SUFFICES ASSUME Trailing PROVE Behind'
      OBVIOUS
    <3>1. more
      BY <1>6, <1>13, <1>14
    <3>2. b.size = Len(r.out)
      BY <1>6, <1>7, <1>13, <3>1
    <3>3. buf'.size = 0
      BY <1>8, <1>9, <1>13, <1>14, <3>1, <3>2
    <3> QED
      BY <1>3, <1>14, <2>1, <3>3 DEF Behind, Idle
  <2> QED
    BY <1>10, <1>12, <2>1, <2>2, TellsNothing DEF Fulfilled
<1>15. CASE /\ ~(more /\ r.error) /\ ~(hasDecoded /\ b.size > 0) /\ buf' = b
            /\ GoOn("read1", amt, "fetch1", TRUE)
  <2>1. call'.phase = "fetch1" /\ call' # Idle
    BY <1>15 DEF GoOn, Idle
  <2>2. Trailing => Behind'
    <3> SUFFICES ASSUME Trailing PROVE Behind'
      OBVIOUS
    <3>1. CASE more
      <4>1. b.size = Len(r.out) /\ b.size = 0
        BY <1>4, <1>6, <1>7, <1>13, <1>15, <3>1
      <4>2. Pending(dec') = <<>>
        BY <1>9, <1>13, <1>15, <3>1, <4>1
      <4> QED
        BY <1>15, <2>1, <4>1, <4>2 DEF Behind
    <3>2. CASE ~more
      <4>1. ~hasDecoded \/ ~HasTail
        BY <1>5, <1>13, <3>2
      <4>2. Pending(dec) = <<>>
        BY <1>13, <4>1, TailFacts DEF Behind
      <4>3. b.size = 0
        BY <1>6, <1>13, <3>2
      <4> QED
        BY <1>3, <1>15, <2>1, <3>2, <4>2, <4>3 DEF Behind
    <3> QED
      BY <3>1, <3>2
  <2> QED
    BY <1>10, <1>12, <2>1, <2>2, TellsNothing DEF Fulfilled
<1> QED
  BY <1>3, <1>11, <1>14, <1>15

LEMMA Fetch1Fulfils ==
  ASSUME Going, Fetch1
  PROVE  Fulfilled
<1> DEFINE asked == IF call.first THEN call.amt ELSE Large
<1>1. PICK r \in RawReads(asked, TRUE) :
       LET flush == r.data = <<>>
           d     == Decode(r.data, MaxLength(call.amt), flush)
           b     == PutChunk(buf, d.out)
           g     == Served(b, call.amt)
       IN  /\ DoRead(r)
           /\ \/ /\ r.error
                 /\ Raise("read1", call.amt)
              \/ /\ ~r.error /\ ~shape.decode
                 /\ Answer("read1", call.amt, Payload(r.data))
                 /\ marks' = Taken("whole") \cup Unreported(r)
                 /\ UNCHANGED <<dec, hasDecoded, buf>>
              \/ /\ d.error
                 /\ Raise("read1", call.amt)
              \/ /\ ~r.error /\ shape.decode /\ ~d.error
                 /\ dec' = d.dec
                 /\ hasDecoded' = HasDecoder
                 /\ marks' = Taken("whole") \cup Unreported(r)
                 /\ IF d.out = <<>> /\ ~flush
                    THEN /\ buf' = b
                         /\ GoOn("read1", call.amt, "fetch1", FALSE)
                    ELSE /\ buf' = g.buf
                         /\ Answer("read1", call.amt, g.out)
  BY DEF Fetch1
<1> DEFINE flush == r.data = <<>>
           d     == Decode(r.data, MaxLength(call.amt), flush)
           b     == PutChunk(buf, d.out)
           g     == Served(b, call.amt)
<1>2. /\ TypesInv /\ CallTypes /\ marks \subseteq Marks /\ BufferOK(buf) /\ buf.size \in Nat
      /\ call.amt \in Amounts /\ MaxLength(call.amt) \in Int /\ call.phase = "fetch1"
      /\ shape.decode \in BOOLEAN
      /\ Chunked => ~TakenInChunks
  <2>1. TypesInv /\ call.phase = "fetch1"
    BY GoingFacts DEF Fetch1
  <2> QED
    BY <2>1, TypesFacts, ShapeFacts DEF Ways
<1>3. asked \in Amounts /\ DoRead(r) /\ TRUE \in BOOLEAN
  <2>1. Large \in Nat \ {0}
    <3>1. Large \in Nat /\ Large > Len(shape.wire) /\ Len(shape.wire) \in Nat
      BY GoingFacts, LargeAssumption
    <3> QED
      BY <3>1
  <2> QED
    BY <1>1, <1>2, <2>1 DEF Amounts
<1>4. /\ r.data \in Units /\ fp'.left \in Units
      /\ DecodeTyped(r.data, MaxLength(call.amt), flush, d) /\ DecodeMoves(r.data, fp'.left, d)
      /\ DecOK(d.dec) /\ d.out \in Bytes
  <2>1. flush \in BOOLEAN
    OBVIOUS
  <2> HIDE DEF asked, flush
  <2> QED
    BY <1>2, <1>3, <2>1, ReadDecodes
<1>5. \/ /\ r.error
         /\ Raise("read1", call.amt)
      \/ /\ ~r.error /\ ~shape.decode
         /\ Answer("read1", call.amt, Payload(r.data))
         /\ marks' = Taken("whole") \cup Unreported(r)
         /\ UNCHANGED <<dec, hasDecoded, buf>>
      \/ /\ d.error
         /\ Raise("read1", call.amt)
      \/ /\ ~r.error /\ shape.decode /\ ~d.error
         /\ dec' = d.dec
         /\ hasDecoded' = HasDecoder
         /\ marks' = Taken("whole") \cup Unreported(r)
         /\ IF d.out = <<>> /\ ~flush
            THEN /\ buf' = b
                 /\ GoOn("read1", call.amt, "fetch1", FALSE)
            ELSE /\ buf' = g.buf
                 /\ Answer("read1", call.amt, g.out)
  BY <1>1
<1> HIDE DEF asked, d
<1>6. /\ b.chunks # <<>> /\ BufferOK(b) /\ b.size = buf.size + Len(d.out) /\ Len(d.out) \in Nat
  BY <1>2, <1>4, PutChunkKeeps, BytesFacts
<1>7. call.amt = All \/ b.size <= call.amt => g.buf.size = 0
  BY <1>2, <1>6, ServedKeeps
<1> HIDE DEF b, g
<1>8. ~Raise("read1", call.amt)
  BY <1>2, GoingFacts, RaiseTyped
<1>9. ~r.error /\ marks' = Taken("whole") \cup Unreported(r)
  BY <1>5, <1>8
<1>10. Unreported(r) = {}
  <2>1. "unreported" \notin marks'
    BY GoingFacts DEF Intact
  <2> QED
    BY <1>9, <2>1 DEF Unreported
<1>11. Counts'
  <2>1. r.data = <<>> => remaining \in {0, NoLength}
    BY <1>10 DEF Unreported
  <2> QED
    BY <1>3, <1>9, <2>1, ReadCounts
<1>12. Drained'
  <2>1. marks' = Taken("whole")
    BY <1>9, <1>10
  <2> QED
    BY <1>2, <2>1, WayFacts, WholeDrained
<1>13. Trailing => Behind /\ buf.size = 0 /\ Pending(dec) = <<>>
  BY <1>2, GoingFacts DEF Behind
<1>14. CASE /\ ~shape.decode
            /\ Answer("read1", call.amt, Payload(r.data))
            /\ UNCHANGED <<dec, hasDecoded, buf>>
  <2>1. call' = Idle /\ answer'.op = "read1"
    BY <1>14 DEF Answer
  <2>2. Trailing => Behind'
    BY <1>13, <1>14, <2>1 DEF Behind, Idle
  <2> QED
    BY <1>11, <1>12, <2>1, <2>2, TellsNothing DEF Fulfilled
<1>15. shape.decode /\ Trailing => Decoding /\ HasDecoder /\ shape.enc # "raw"
  BY DEF Trailing, Decoding, HasDecoder
<1>16. Decoding /\ ~flush /\ ~d.error =>
         /\ call.amt = All \/ Len(d.out) <= call.amt
         /\ d.out = <<>> => Pending(d.dec) = <<>>
  <2> SUFFICES ASSUME Decoding, ~flush, ~d.error
               PROVE  /\ call.amt = All \/ Len(d.out) <= call.amt
                      /\ d.out = <<>> => Pending(d.dec) = <<>>
    OBVIOUS
  <2> DEFINE w == MaxLength(call.amt)
  <2>1. Decoded(dec, r.data, w, d)
    BY <1>4 DEF DecodeTyped
  <2>2. w = (IF call.amt = All THEN -1 ELSE call.amt) /\ (call.amt # All => call.amt \in Nat \ {0})
    BY <1>2 DEF MaxLength, Amounts
  <2>3. d.out = <<>> => Len(d.out) = 0
    OBVIOUS
  <2> HIDE DEF w
  <2> QED
    BY <1>6, <2>1, <2>2, <2>3 DEF Decoded
<1>17. CASE /\ shape.decode /\ ~d.error
            /\ dec' = d.dec
            /\ hasDecoded' = HasDecoder
            /\ d.out = <<>> /\ ~flush
            /\ buf' = b
            /\ GoOn("read1", call.amt, "fetch1", FALSE)
  <2>1. call'.phase = "fetch1" /\ call' # Idle
    BY <1>17 DEF GoOn, Idle
  <2>2. Trailing => Behind'
    <3> SUFFICES ASSUME Trailing PROVE Behind'
      OBVIOUS
    <3>1. Len(d.out) = 0
      BY <1>17
    <3>2. b.size = 0
      BY <1>6, <1>13, <3>1
    <3>3. buf'.size = 0
      BY <1>17, <3>2
    <3> QED
      BY <1>15, <1>16, <1>17, <2>1, <3>3 DEF Behind
  <2> QED
    BY <1>11, <1>12, <2>1, <2>2, TellsNothing DEF Fulfilled
<1>18. CASE /\ shape.decode /\ ~d.error
            /\ dec' = d.dec
            /\ hasDecoded' = HasDecoder
            /\ buf' = g.buf
            /\ Answer("read1", call.amt, g.out)
  <2>1. call' = Idle /\ answer'.op = "read1"
    BY <1>18 DEF Answer
  <2>2. Trailing => Behind'
    <3> SUFFICES ASSUME Trailing PROVE Behind'
      OBVIOUS
    <3>1. call.amt = All \/ b.size <= call.amt
      <4>1. CASE ~flush
        BY <1>2, <1>6, <1>13, <1>15, <1>16, <1>18, <4>1
      <4>2. CASE flush
        <5>1. fp.left = <<>> /\ fp'.left = <<>> /\ ~CutShort(shape)
          <6>1. fp.left = <<>> /\ fp'.left = <<>> /\ (Chunked /\ ~shape.empty => Whole)
            BY <1>3, <1>9, <4>2, ReadNothing
          <6>2. remaining \in {0, NoLength}
            BY <1>10, <4>2 DEF Unreported
          <6> QED
            BY <6>1, <6>2, AllBefore
        <5>2. DecodeMoves(<<>>, fp'.left, d)
          BY <1>4, <4>2
        <5>3. d.out = <<>>
          BY <1>4, <1>13, <1>15, <1>18, <5>1, <5>2, FlushedNothing
        <5>4. Len(d.out) = 0 /\ (call.amt # All => call.amt \in Nat)
          BY <1>2, <5>3 DEF Amounts
        <5> QED
          BY <1>2, <1>6, <1>13, <5>4
      <4> QED
        BY <4>1, <4>2
    <3> QED
      BY <1>7, <1>15, <1>18, <2>1, <3>1 DEF Behind, Idle
  <2> QED
    BY <1>11, <1>12, <2>1, <2>2, TellsNothing DEF Fulfilled
<1> QED
  BY <1>5, <1>8, <1>14, <1>17, <1>18

LEMMA ReadChunkedFulfils ==
  ASSUME Going, NEW amt \in shape.amts \cup {All}, ReadChunked(amt)
  PROVE  Fulfilled
<1>1. /\ call = Idle /\ Chunked /\ Way("chunks")
      /\ marks' = marks \cup {"chunks"}
      /\ UNCHANGED <<shape, dec, hasDecoded, buf>>
      /\ \/ /\ shape.empty \/ fp.state # "open"
            /\ IF shape.empty THEN LeaveCatcher(FALSE) ELSE ReturnEnded
            /\ Answer("chunks", amt, <<>>)
         \/ /\ ~shape.empty /\ fp.state = "open"
            /\ GoOn("chunks", amt, "turn", FALSE)
            /\ NoRead
  BY DEF ReadChunked
<1>2. /\ TypesInv /\ FileInv /\ Order /\ shape \in Shapes /\ BufferOK(buf) /\ DecOK(dec)
      /\ Counts /\ Drained /\ remaining \in Int \cup {NoLength} /\ fp.left \in Units
      /\ delivered \in Bytes
  BY GoingFacts, TypesFacts
<1>3. ~TakenWhole /\ ~TakenWhole'
  BY <1>1, <1>2, WayFacts DEF TakenWhole
<1>4. buf.size = 0
  BY <1>1, <1>2, <1>3 DEF Order, Unbuffered
<1>5. remaining = NoLength
  BY <1>1, <1>2 DEF Counts, Counted, InitLength, Chunked
<1>6. Trailing => Behind'
  <2> SUFFICES ASSUME Trailing PROVE Behind'
    OBVIOUS
  <2>1. Behind
    BY GoingFacts
  <2>2. call'.phase \in {"idle", "turn"}
    <3>1. CASE GoOn("chunks", amt, "turn", FALSE)
      BY <3>1 DEF GoOn
    <3>2. CASE Answer("chunks", amt, <<>>)
      BY <3>2 DEF Answer, Idle
    <3> QED
      BY <1>1, <3>1, <3>2
  <2> QED
    BY <1>1, <1>4, <2>1, <2>2 DEF Behind
<1>7. CASE ~shape.empty /\ fp.state = "open" /\ GoOn("chunks", amt, "turn", FALSE) /\ NoRead
  <2>1. call'.phase = "turn" /\ call' # Idle /\ fp' = fp /\ remaining' = remaining
    BY <1>7 DEF GoOn, Idle, NoRead
  <2>2. Counts'
    BY <2>1, RestCounts
  <2>3. Drained'
    BY <1>7, <2>1 DEF Drained
  <2> QED
    BY <1>6, <2>1, <2>2, <2>3, TellsNothing DEF Fulfilled
<1>8. CASE /\ shape.empty \/ fp.state # "open"
           /\ IF shape.empty THEN LeaveCatcher(FALSE) ELSE ReturnEnded
           /\ Answer("chunks", amt, <<>>)
  <2>1. fp'.left = fp.left /\ remaining' = remaining /\ fp.left = <<>>
    <3>1. CASE shape.empty
      <4>1. fp' = [fp EXCEPT !.state = Caught("closed", FALSE).state] /\ remaining' = remaining
        BY <1>8, <3>1 DEF LeaveCatcher
      <4>2. fp'.left = fp.left
        BY <1>2, <4>1 DEF FileInv, FileTypes
      <4> QED
        BY <1>2, <3>1, <4>1, <4>2 DEF FileInv, Lengths
    <3>2. CASE ~shape.empty
      BY <1>2, <1>8, <3>2 DEF ReturnEnded, Counts, Ended
    <3> QED
      BY <3>1, <3>2
  <2>2. Chunked /\ ~shape.empty => Whole
    BY <1>2, <1>8 DEF Counts, Ended
  <2>3. Counts'
    <3>1. <<>> \in Units /\ fp.left = <<>> \o fp'.left
      BY <2>1, UnitsFacts
    <3> QED
      BY <1>1, <2>1, <2>2, <3>1, ChunkCounts
  <2>4. Undelivered(dec') = <<>>
    <3>1. CASE shape.empty
      <4>1. Body = <<>>
        BY <1>2, <3>1, ShapeFacts, PayloadEmpty DEF Body
      <4>2. ((delivered \o Contents(buf)) \o Undelivered(dec)) \o Payload(fp.left) = <<>>
        BY <1>2, <4>1 DEF Order, InOrder
      <4>3. /\ Contents(buf) \in Bytes /\ Undelivered(dec) \in Bytes /\ Payload(fp.left) \in Bytes
            /\ delivered \in Bytes
        BY <1>2, ContentsTyped, DecFacts, PayloadTyped
      <4> DEFINE had == delivered \o Contents(buf)
      <4>4. had \in Bytes /\ had \o Undelivered(dec) \in Bytes
        BY <4>3, BytesFacts
      <4> HIDE DEF had
      <4>5. had \o Undelivered(dec) = <<>>
        BY <4>2, <4>3, <4>4, BytesEmptyParts DEF had
      <4> QED
        BY <1>1, <4>3, <4>4, <4>5, BytesEmptyParts
    <3>2. CASE ~shape.empty
      BY <1>1, <1>2, <1>3, <1>8, <3>2 DEF Drained
    <3> QED
      BY <3>1, <3>2
  <2>5. Drained'
    BY <2>4 DEF Drained
  <2>6. Complete'
    BY <1>1, <1>4, <1>5, <2>1, <2>2, <2>3, <2>4, Finishes
  <2> QED
    BY <1>6, <2>3, <2>5, <2>6 DEF Fulfilled
<1> QED
  BY <1>1, <1>7, <1>8

\* A turn of read_chunked that goes on.
LEMMA YieldFulfils ==
  ASSUME Going, call.phase = "turn", NEW bytes, Yield(bytes), buf' = buf,
         fp'.state = "open", Counts', Trailing /\ Pending(dec') # <<>> => hasDecoded'
  PROVE  Fulfilled
<1>1. call \in Calls
  BY GoingFacts, TypesFacts
<1>2. call'.phase = "turn"
  BY <1>1 DEF Yield, Calls
<1>3. Drained'
  BY DEF Drained
<1>4. call' # Idle
  BY <1>2 DEF Idle
<1>5. Trailing => Behind'
  BY <1>2, GoingFacts DEF Behind
<1> QED
  BY <1>3, <1>4, <1>5, TellsNothing DEF Fulfilled

LEMMA ChunkFromTailFulfils ==
  ASSUME Going, ChunkFromTail
  PROVE  Fulfilled
<1> DEFINE d == Decode(<<>>, MaxLength(call.amt), FALSE)
<1>1. /\ call.phase = "turn" /\ HasTail /\ dec' = d.dec
      /\ UNCHANGED <<shape, hasDecoded, buf>>
      /\ \/ d.error /\ LeaveCatcher(TRUE) /\ Raise("chunks", call.amt)
         \/ ~d.error /\ NoRead /\ Yield(d.out)
  BY DEF ChunkFromTail
<1> HIDE DEF d
<1>2. TypesInv /\ CallTypes /\ marks \subseteq Marks /\ call.amt \in Amounts /\ fp.state = "open"
  BY <1>1, GoingFacts, TypesFacts, TurnFacts
<1>3. ~Raise("chunks", call.amt)
  BY <1>2, GoingFacts, RaiseTyped
<1>4. NoRead /\ Yield(d.out)
  BY <1>1, <1>3
<1>5. Counts' /\ fp'.state = "open"
  BY <1>2, <1>4, RestCounts DEF NoRead
<1>6. Trailing => hasDecoded'
  BY <1>1, GoingFacts, TailFacts DEF Behind
<1> QED
  BY <1>1, <1>4, <1>5, <1>6, YieldFulfils

LEMMA ChunkTurnFulfils ==
  ASSUME Going, ChunkTurn
  PROVE  Fulfilled
<1> DEFINE n == ToRead(call.amt)
           d == Decode(Take(fp.left, n), MaxLength(call.amt), FALSE)
<1>1. /\ call.phase = "turn" /\ ~NoSize /\ ThisSize # 0 /\ n <= Len(fp.left) /\ dec' = d.dec
      /\ hasDecoded' = (hasDecoded \/ (HasDecoder /\ shape.decode /\ ~d.error))
      /\ UNCHANGED <<shape, buf>>
      /\ \/ /\ ~d.error
            /\ fp' = [fp EXCEPT !.left = Drop(@, n)]
            /\ UNCHANGED <<remaining, sock, conn>>
            /\ Yield(d.out)
         \/ Raise("chunks", call.amt)
  BY DEF ChunkTurn
<1> HIDE DEF d
<1>2. /\ TypesInv /\ FileInv /\ CallTypes /\ marks \subseteq Marks /\ call.amt \in Amounts
      /\ Chunked /\ fp.state = "open" /\ fp.left \in Units
  BY <1>1, GoingFacts, TypesFacts, TurnFacts
<1>3. n \in Nat
  <2>1. ThisSize \in Nat
    BY <1>1, <1>2, SizesLeft
  <2> QED
    BY <1>1, <1>2, <2>1, ToReadFacts
<1> HIDE DEF n
<1>4. ~Raise("chunks", call.amt)
  BY <1>2, GoingFacts, RaiseTyped
<1>5. /\ ~d.error /\ fp' = [fp EXCEPT !.left = Drop(@, n)] /\ remaining' = remaining
      /\ Yield(d.out)
  BY <1>1, <1>4
<1>6. /\ Take(fp.left, n) \in Units /\ fp.left = Take(fp.left, n) \o Drop(fp.left, n)
  <2>1. n \in 0..Len(fp.left)
    BY <1>1, <1>2, <1>3, UnitsFacts
  <2> QED
    BY <1>2, <2>1, TakeDropUnits
<1>7. fp'.left = Drop(fp.left, n) /\ fp'.state = "open"
  BY <1>2, <1>5 DEF FileInv, FileTypes
<1>8. Counts'
  BY <1>2, <1>5, <1>6, <1>7, ChunkCounts
<1>9. Pending(dec') # <<>> => hasDecoded'
  <2>1. ~Decoding => Pending(dec') = <<>>
    BY TailFacts
  <2> QED
    BY <1>1, <1>5, <2>1 DEF Decoding
<1> QED
  BY <1>1, <1>5, <1>7, <1>8, <1>9, YieldFulfils

\* The last chunk: the decoder is flushed, and that is the end.
LEMMA ChunkEndFulfils ==
  ASSUME Going, ChunkEnd
  PROVE  Fulfilled
<1> DEFINE f == FlushDecoder(dec)
<1>1. /\ call.phase = "turn" /\ ~HasTail /\ ~NoSize /\ ThisSize = 0
      /\ dec' = IF HasDecoder /\ shape.decode THEN f.dec ELSE dec
      /\ LeaveCatcher(FALSE) /\ call' = Idle
      /\ UNCHANGED <<shape, hasDecoded, buf, marks>>
  BY DEF ChunkEnd
<1>2. /\ TypesInv /\ FileInv /\ Order /\ DecOK(dec) /\ Chunked /\ ~TakenWhole
      /\ fp.state = "open" /\ fp.left \in Units /\ Counts
  BY <1>1, GoingFacts, TypesFacts, TurnFacts
<1>3. fp.left = <<>> /\ Whole
  BY <1>1, <1>2, LastSize
<1>4. fp'.left = fp.left /\ remaining' = remaining
  <2>1. fp' = [fp EXCEPT !.state = Caught("closed", FALSE).state] /\ remaining' = remaining
    BY <1>1 DEF LeaveCatcher
  <2> QED
    BY <1>2, <2>1 DEF FileInv, FileTypes
<1>5. Counts'
  <2>1. <<>> \in Units /\ fp.left = <<>> \o fp'.left
    BY <1>3, <1>4, UnitsFacts
  <2> QED
    BY <1>2, <1>3, <1>4, <2>1, ChunkCounts
<1>6. remaining' = NoLength
  BY <1>2, <1>4 DEF Counts, Counted, InitLength, Chunked
<1>7. Pending(dec') = <<>> /\ Undelivered(dec') = <<>>
  <2>1. CASE ~Decoding
    BY <2>1, TailFacts
  <2>2. CASE Decoding
    <3>1. Pending(dec) = <<>>
      BY <1>1, TailFacts
    <3>2. ~f.error
      BY <1>2, <3>1, FlushesNothing
    <3>3. DecOK(f.dec) /\ (~f.error => Pending(f.dec) = <<>> /\ f.dec.obj.inner = <<>>)
      <4>1. <<>> \in Units
        BY UnitsFacts
      <4> QED
        BY <1>2, <4>1, FlushKeeps
    <3> HIDE DEF f
    <3>4. dec' = f.dec
      BY <1>1, <2>2 DEF Decoding
    <3>5. Undelivered(dec') = <<>> \o <<>>
      BY <3>2, <3>3, <3>4, DecFacts, PayloadEmpty
    <3> QED
      BY <3>2, <3>3, <3>4, <3>5, UnitsFacts
  <2> QED
    BY <2>1, <2>2
<1>8. buf'.size = 0
  BY <1>1, <1>2 DEF Order, Unbuffered
<1>9. Drained'
  BY <1>7 DEF Drained
<1>10. Trailing => Behind'
  BY <1>1, <1>7, <1>8 DEF Behind, Idle
<1>11. Complete'
  BY <1>3, <1>4, <1>5, <1>6, <1>7, <1>8, Finishes
<1> QED
  BY <1>5, <1>9, <1>10, <1>11 DEF Fulfilled

LEMMA ReleaseConnFulfils ==
  ASSUME Going, ReleaseConn
  PROVE  Fulfilled
<1>1. /\ UNCHANGED <<shape, fp, remaining, dec, hasDecoded, buf, call, delivered, answer>>
      /\ marks' = marks \cup {"released"}
  BY DEF ReleaseConn
<1>2. TakenWhole' = TakenWhole
  BY <1>1 DEF TakenWhole
<1>3. Counts'
  BY <1>1, RestCounts
<1>4. Drained'
  BY <1>1, <1>2, GoingFacts DEF Drained
<1>5. Trailing => Behind'
  BY <1>1, GoingFacts DEF Behind
<1>6. Told' => Complete'
  <2>1. Told' => Told
    BY <1>1 DEF Told, SaidOver
  <2>2. Complete => Complete'
    BY <1>1 DEF Complete, Body, InitLength, Chunked, Whole
  <2> QED
    BY <2>1, <2>2, GoingFacts
<1> QED
  BY <1>3, <1>4, <1>5, <1>6 DEF Fulfilled

\* The steps after which nothing is promised.
LEMMA PromiseBroken ==
  ASSUME Going
  PROVE  ~DrainConn /\ ~Close /\ ~ChunkDrop /\ ~ChunkBroken
<1>1. marks' \subseteq {"released", "whole", "chunks"}
  BY GoingFacts DEF Intact
<1>2. "drained" \notin marks' /\ "closed" \notin marks' /\ "failed" \notin marks'
  BY <1>1
<1>3. DrainConn => "drained" \in marks'
  BY DEF DrainConn
<1>4. Close => "closed" \in marks'
  BY DEF Close
<1>5. ChunkDrop => "closed" \in marks'
  BY DEF ChunkDrop
<1>6. ChunkBroken => "failed" \in marks'
  BY DEF ChunkBroken, Raise
<1> QED
  BY <1>2, <1>3, <1>4, <1>5, <1>6

LEMMA NextFulfils ==
  ASSUME Going, [Next]_vars
  PROVE  Fulfilled
<1>1. CASE UNCHANGED vars
  <2>1. UNCHANGED <<shape, fp, remaining, dec, hasDecoded, buf, call, delivered, answer, marks>>
    BY <1>1 DEF vars
  <2>2. Counts'
    BY <2>1, RestCounts
  <2>3. Drained'
    BY <2>1, GoingFacts DEF Drained, TakenWhole
  <2>4. Trailing => Behind'
    BY <2>1, GoingFacts DEF Behind
  <2>5. Told' => Complete'
    <3>1. (Told' => Told) /\ (Complete => Complete')
      BY <2>1 DEF Told, SaidOver, Complete, Body, InitLength, Chunked, Whole
    <3> QED
      BY <3>1, GoingFacts
  <2> QED
    BY <2>2, <2>3, <2>4, <2>5 DEF Fulfilled
<1>2. CASE \E amt \in shape.amts : Read(amt) \/ Stream(amt)
  BY <1>2, ReadFulfils, StreamFulfils
<1>3. CASE \E amt \in shape.amts \cup {All} : Read1(amt) \/ ReadChunked(amt)
  BY <1>3, Read1Fulfils, ReadChunkedFulfils
<1>4. CASE Turn
  BY <1>4, FetchFulfils, StreamNextFulfils, StreamEndFulfils, Fetch1Fulfils, PromiseBroken,
     ChunkFromTailFulfils, ChunkTurnFulfils, ChunkEndFulfils DEF Turn
<1>5. CASE ReadAll \/ ChunkDrop \/ DrainConn \/ ReleaseConn \/ Close
  BY <1>5, ReadAllFulfils, ReleaseConnFulfils, PromiseBroken
<1> QED
  BY <1>1, <1>2, <1>3, <1>4, <1>5 DEF Next

LEMMA PromisesStep ==
  ASSUME TypesInv, OrderInv, PromisesInv, [Next]_vars
  PROVE  PromisesInv'
<1>1. Stepped /\ OrderInv'
  BY NextSteps, OrderStep
<1>2. shape' = shape /\ (Intact' => Intact)
  BY <1>1, WayFacts DEF Stepped
<1>3. Regular(shape)' <=> Regular(shape)
  BY <1>2
<1>4. ASSUME Regular(shape), Intact'
      PROVE  (Counts /\ Drained /\ (Trailing => Behind) /\ (Told => Complete))'
  <2>1. OneMember(shape) /\ OneMember(shape)'
    BY <1>2, <1>4 DEF Regular
  <2>2. Order /\ Order'
    BY <1>1, <1>2, <1>4, <2>1 DEF OrderInv
  <2>3. Going
    BY <1>1, <1>2, <1>4, <2>2 DEF Going, PromisesInv
  <2>4. Fulfilled
    BY <2>3, NextFulfils
  <2> QED
    BY <1>2, <2>4 DEF Fulfilled, Trailing
<1> QED
  BY <1>3, <1>4 DEF PromisesInv

LEMMA InitPromises ==
  ASSUME Init
  PROVE  PromisesInv
<1>1. /\ shape \in Shapes /\ call = Idle /\ buf = EmptyBuffer /\ dec = NewDecoder(shape.enc)
      /\ fp = [state  |-> IF shape.empty /\ Http THEN "ended" ELSE "open",
               left   |-> shape.wire,
               length |-> IF Http THEN InitLength(shape) ELSE NoLength]
      /\ remaining = InitLength(shape)
      /\ answer = [op |-> "none", asked |-> All, got |-> 0, raised |-> FALSE]
  BY DEF Init
<1>2. /\ shape.enc \in Kinds /\ shape.wire \in Units /\ Len(shape.wire) \in Nat
      /\ shape.empty => shape.wire = <<>>
      /\ shape.length \in Nat \cup {NoLength}
      /\ InitLength(shape) \in Nat \cup {NoLength} /\ NoLength \notin Int
  BY <1>1, ShapeFacts, UnitsFacts, NoneAssumption
<1>3. fp.left = shape.wire /\ (fp.state # "open" => shape.empty)
  BY <1>1
<1>4. ASSUME Regular(shape) PROVE Counts
  <2>1. Ended
    <3>1. shape.empty => InitLength(shape) \in {0, NoLength}
      BY DEF InitLength
    <3> QED
      BY <1>1, <1>2, <1>3, <3>1 DEF Ended
  <2>2. Counted
    <3>1. InitLength(shape) # NoLength => Len(shape.wire) <= InitLength(shape)
      <4>1. CASE shape.empty /\ shape.chunks = <<>>
        <5>1. InitLength(shape) = 0 /\ Len(shape.wire) = 0
          BY <1>2, <4>1, UnitsFacts DEF InitLength
        <5> QED
          BY <5>1
      <4>2. CASE ~(shape.empty /\ shape.chunks = <<>>)
        BY <1>4, <4>2 DEF InitLength, Regular, NoExcess
      <4> QED
        BY <4>1, <4>2
    <3>2. \A i, n \in Nat : i = (i - n) + n
      OBVIOUS
    <3> QED
      BY <1>1, <1>2, <1>3, <3>1, <3>2 DEF Counted
  <2>3. ~Decoding => OneByOne(fp.left)
    <3>1. Bytewise(shape) /\ DOMAIN shape.wire = 1..Len(shape.wire)
      BY <1>1, <1>2, ShapeAssumption DEF Units
    <3> QED
      BY <1>3, <3>1 DEF Bytewise, OneByOne, Decoding, HasDecoder
  <2> QED
    BY <2>1, <2>2, <2>3 DEF Counts
<1>5. Pending(dec) = <<>> /\ Undelivered(dec) = <<>>
  BY <1>1, <1>2, NewDecoderFacts
<1>6. Drained
  BY <1>5 DEF Drained
<1>7. Behind
  BY <1>1, <1>5 DEF Behind, EmptyBuffer, Idle
<1>8. ~Told
  BY <1>1 DEF Told, SaidOver
<1> QED
  BY <1>4, <1>6, <1>7, <1>8 DEF PromisesInv

\* The file is counted to its end, decoding stays behind the reader, and what
\* the user has been told of the end is true: together this is inductive.
THEOREM ResponsePromises == Spec => []PromisesInv
<1>1. Init => PromisesInv
  BY InitPromises
<1>2. Init => OrderInv
  BY InitTypes DEF OrderInv, Order
<1>3. TypesInv /\ OrderInv /\ [Next]_vars => OrderInv'
  BY OrderStep
<1>4. TypesInv /\ OrderInv /\ PromisesInv /\ [Next]_vars => PromisesInv'
  BY PromisesStep
<1> QED
  BY <1>1, <1>2, <1>3, <1>4, ResponseTypes, PTL DEF Spec

\* Between two calls the buffer of decoded bytes is empty: read and read1 decode
\* no more than they are asked for (max_length), whatever mix of calls is made,
\* where every gzip or zlib body is one member that ends with its trailer.
THEOREM ResponseDecodedOnDemand == Spec => [](Regular(shape) => DecodedOnDemand)
<1>1. PromisesInv => (Regular(shape) => DecodedOnDemand)
  BY DEF PromisesInv, DecodedOnDemand, Trailing, Behind, Idle
<1> QED
  BY <1>1, ResponsePromises, PTL

\* A read or a stream that comes up short, and a chunked body that ends, has
\* given the user the whole body, and all that Content-Length or the chunks
\* announced.
THEOREM ResponseShortReadMeansEnd == Spec => [](Regular(shape) => ShortReadMeansEnd)
<1>1. PromisesInv => (Regular(shape) => ShortReadMeansEnd)
  BY DEF PromisesInv, ShortReadMeansEnd, Told, Complete
<1> QED
  BY <1>1, ResponsePromises, PTL
=============================================================================
