------------------------ MODULE RecentlyUsedContainer ------------------------
(***************************************************************************)
(* RecentlyUsedContainer of datastructures.py: a mapping of at most        *)
(* MaxSize entries that throws out the least recently used one, shared by  *)
(* several threads.  Each operation changes the OrderedDict while it holds *)
(* the container's lock, which is one step here, and calls dispose_func on *)
(* the values it took out after it has released it: other threads'         *)
(* operations come in between.  A lookup or deletion of a missing key      *)
(* raises KeyError and changes nothing.                                    *)
(***************************************************************************)
EXTENDS OrderedDict

CONSTANTS
  Threads,
  Keys,
  Values,     \* the objects stored, each at most once
  MaxSize,    \* maxsize
  MaxOps      \* BOUND: operations on the container, all threads together

ASSUME ContainerAssumption == MaxSize \in Nat /\ MaxOps \in Nat

VARIABLES
  container,  \* the OrderedDict, least recently used entry first
  pending,    \* per thread: values it has taken out and not yet disposed of
  disposed,   \* per value: how often dispose_func was called on it
  stored,     \* values that have been stored (history)
  clock,      \* operations so far (history)
  lastUse     \* per key: the operation that last used it (history)

vars == <<container, pending, disposed, stored, clock, lastUse>>

Init ==
  /\ container = <<>>
  /\ pending  = [t \in Threads |-> <<>>]
  /\ disposed = [v \in Values |-> 0]
  /\ stored   = {}
  /\ clock    = 0
  /\ lastUse  = [k \in Keys |-> 0]

\* Thread t is free for an operation, which takes the next tick.
Operate(t) ==
  /\ pending[t] = <<>>
  /\ clock < MaxOps
  /\ clock' = clock + 1

Uses(k) == lastUse' = [lastUse EXCEPT ![k] = clock']

GetItem(t, k) ==
  /\ Operate(t)
  /\ Has(container, k)
  /\ container' = Touched(container, k)
  /\ Uses(k)
  /\ UNCHANGED <<pending, disposed, stored>>

SetItem(t, k) ==
  /\ Operate(t)
  /\ \E v \in Values \ stored :
       /\ container' = AfterSet(container, k, v, MaxSize)
       /\ pending' = [pending EXCEPT ![t] =
                        SetToSeq(TakenBySet(container, k, v, MaxSize))]
       /\ stored' = stored \cup {v}
  /\ Uses(k)
  /\ UNCHANGED disposed

DelItem(t, k) ==
  /\ Operate(t)
  /\ Has(container, k)
  /\ container' = Without(container, k)
  /\ pending' = [pending EXCEPT ![t] = <<At(container, k)>>]
  /\ UNCHANGED <<disposed, stored, lastUse>>

\* Mutated: the values cleared are not disposed of.
ClearOnly(t) ==
  /\ Operate(t)
  /\ container' = <<>>
  /\ UNCHANGED <<pending, disposed, stored, lastUse>>

Clear(t) ==
  /\ Operate(t)
  /\ container' = <<>>
  /\ pending' = [pending EXCEPT ![t] = [i \in DOMAIN container |-> container[i].val]]
  /\ UNCHANGED <<disposed, stored, lastUse>>

\* dispose_func on the next value, outside the lock.
Dispose(t) ==
  /\ pending[t] # <<>>
  /\ disposed' = [disposed EXCEPT ![Head(pending[t])] = @ + 1]
  /\ pending' = [pending EXCEPT ![t] = Tail(@)]
  /\ UNCHANGED <<container, stored, clock, lastUse>>

Next ==
  \E t \in Threads :
    \/ \E k \in Keys : GetItem(t, k) \/ SetItem(t, k) \/ DelItem(t, k)
    \/ Clear(t)
    \/ Dispose(t)

Spec == Init /\ [][Next]_vars

\* A thread that has taken values out goes on to dispose of them.
FairSpec == Spec /\ \A t \in Threads : WF_vars(Dispose(t))

------------------------------------------------------------------------------

\* Types; and the container never holds more than maxsize entries.
TypeOK ==
  /\ container \in Seq([key : Keys, val : Values]) /\ Len(container) <= MaxSize
  /\ pending \in [Threads -> Seq(Values)]
  /\ disposed \in [Values -> Nat]
  /\ stored \subseteq Values
  /\ clock \in 0..MaxOps
  /\ lastUse \in [Keys -> 0..MaxOps]

\* Storing a new key in a full container throws out the key used longest ago,
\* and no other.
EvictsLeastRecentlyUsed ==
  [][\A k \in KeysOf(container) :
       /\ k \notin KeysOf(container')
       /\ stored' # stored
       => \A other \in KeysOf(container) : lastUse[k] <= lastUse[other]]_vars

\* A value that was stored is in exactly one place: in the container, with the
\* thread that took it out, or disposed of once.  None is disposed of twice or
\* while it can still be looked up, and none is forgotten.
DisposedExactlyOnce ==
  \A v \in stored :
    LET inside  == Cardinality({i \in DOMAIN container : container[i].val = v})
        waiting == Cardinality({at \in Threads \X (1..MaxSize + 1) :
                                  /\ at[2] <= Len(pending[at[1]])
                                  /\ pending[at[1]][at[2]] = v})
    IN  inside + waiting + disposed[v] = 1

\* What leaves the container is disposed of in the end.
RemovedIsDisposed ==
  \A v \in Values :
    (v \in stored /\ v \notin ValuesOf(container)) ~> disposed[v] = 1
=============================================================================
