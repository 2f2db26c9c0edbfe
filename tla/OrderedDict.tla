----------------------------- MODULE OrderedDict -----------------------------
(* Python's OrderedDict as RecentlyUsedContainer uses it: a sequence of      *)
(* [key, val] entries in insertion order, no key twice.                      *)
EXTENDS Integers, Sequences, FiniteSets, SequencesExt

KeysOf(d)   == {d[i].key : i \in 1..Len(d)}
ValuesOf(d) == {d[i].val : i \in 1..Len(d)}
Has(d, k)   == k \in KeysOf(d)

\* Where k is; d[k]
Position(d, k) == CHOOSE i \in 1..Len(d) : d[i].key = k
At(d, k) == d[Position(d, k)].val

\* d after d.pop(k)
Without(d, k) == IF Has(d, k) THEN RemoveAt(d, Position(d, k)) ELSE d

\* d after d[k] = v of a key it does not have
WithLast(d, k, v) == Append(d, [key |-> k, val |-> v])

\* Mutated: a lookup leaves the entry where it is.
Untouched(d, k) == d

\* __getitem__ of RecentlyUsedContainer: pop and insert again as the newest.
Touched(d, k) == WithLast(Without(d, k), k, At(d, k))

\* __setitem__: the new contents, before an entry too many is popped.
Stored(d, k, v) == WithLast(Without(d, k), k, v)

\* Mutated: off by one.
OverflowsLate(d, k, max) == ~Has(d, k) /\ Len(d) > max

\* __setitem__: whether the oldest entry must go.  Overwriting never evicts.
Overflows(d, k, max) == ~Has(d, k) /\ Len(d) + 1 > max

\* __setitem__: the contents it leaves.
AfterSet(d, k, v, max) ==
  IF Overflows(d, k, max) THEN Tail(Stored(d, k, v)) ELSE Stored(d, k, v)

\* Mutated: a value that is overwritten is not disposed of.
TakenByEviction(d, k, v, max) ==
  IF Overflows(d, k, max) THEN {Head(Stored(d, k, v)).val} ELSE {}

\* __setitem__: the values it takes out, at most one.
TakenBySet(d, k, v, max) ==
  IF Has(d, k) THEN {At(d, k)}
  ELSE IF Overflows(d, k, max) THEN {Head(Stored(d, k, v)).val}
  ELSE {}
=============================================================================
