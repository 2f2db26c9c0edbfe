----------------------------- MODULE BoundedPool -----------------------------
(***************************************************************************)
(* What a connection pool with block=True promises its users, without      *)
(* connections, sockets or the steps of a call: at most Size of them use   *)
(* the pool's host at a time; one that finishes hands its slot on, and one *)
(* that fails takes its slot with it, be it while using the slot (Forfeit) *)
(* or before it can (Spoil); lost counts those.  A pool that is closed is  *)
(* never open again, and only a closed pool throws slots away, free ones   *)
(* (Scrap) and those handed on (Retire).                                   *)
(***************************************************************************)
EXTENDS Integers

CONSTANTS
  Workers,   \* the threads that use the pool
  Size       \* its slots

VARIABLES
  free,      \* slots nobody uses
  users,     \* workers using a slot each
  lost,      \* slots lost to failures
  open       \* whether the pool is open

slots == <<free, users, lost, open>>

Init ==
  /\ free  = Size
  /\ users = {}
  /\ lost  = 0
  /\ open  = TRUE

Acquire(w) ==
  /\ w \notin users /\ free > 0
  /\ free'  = free - 1
  /\ users' = users \cup {w}
  /\ UNCHANGED <<lost, open>>

Release(w) ==
  /\ w \in users
  /\ free'  = free + 1
  /\ users' = users \ {w}
  /\ UNCHANGED <<lost, open>>

Forfeit(w) ==
  /\ w \in users
  /\ users' = users \ {w}
  /\ lost'  = lost + 1
  /\ UNCHANGED <<free, open>>

Spoil(w) ==
  /\ w \notin users /\ free > 0
  /\ free' = free - 1
  /\ lost' = lost + 1
  /\ UNCHANGED <<users, open>>

Retire(w) ==
  /\ ~open /\ w \in users
  /\ users' = users \ {w}
  /\ UNCHANGED <<free, lost, open>>

Shut ==
  /\ open' = FALSE
  /\ UNCHANGED <<free, users, lost>>

Scrap ==
  /\ ~open /\ free > 0
  /\ free' = free - 1
  /\ UNCHANGED <<users, lost, open>>

Next ==
  \/ \E w \in Workers : Acquire(w) \/ Release(w) \/ Forfeit(w) \/ Spoil(w) \/ Retire(w)
  \/ Shut
  \/ Scrap

Spec == Init /\ [][Next]_slots
=============================================================================
