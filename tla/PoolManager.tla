----------------------------- MODULE PoolManager -----------------------------
(***************************************************************************)
(* PoolManager and ProxyManager of poolmanager.py: threads ask for the     *)
(* pool of a (scheme, host, port) and share one per PoolKey, kept in a     *)
(* RecentlyUsedContainer of num_pools entries.  _connection_from_context   *)
(* holds the container's lock over lookup, creation and store; the steps   *)
(* are cut inside it, so that the model shows what the lock is for.        *)
(*                                                                         *)
(*   Ask -> Acquire -> Lookup -> Create -> Store                           *)
(*                                                                         *)
(* The container is made without a dispose_func: an evicted or cleared     *)
(* pool is left to whoever still uses it, open.                            *)
(***************************************************************************)
EXTENDS OrderedDict

CONSTANTS
  Threads,
  Requests,   \* [scheme, host, port] a thread may ask with
  Proxies,    \* what the manager's proxy may be, as a request; NoProxy: there
              \* is none, the manager is a PoolManager
  NoProxy,
  NoOne,      \* nobody holds the lock
  NoHost, NoPort,
  NumPools,   \* num_pools
  MaxAsks,    \* BOUND: requests, all threads together
  MayFail     \* whether the pool's constructor may raise (a timeout that Timeout
              \* refuses, a maxsize that is no number)

ASSUME ManagerAssumption ==
  /\ NumPools \in Nat /\ MaxAsks \in Nat /\ MayFail \in BOOLEAN
  /\ Requests # {}
  /\ NoOne \notin Threads

VARIABLES
  proxy,    \* self.proxy, never changed
  cache,    \* pools: an OrderedDict of PoolKey -> pool, a pool being an index of made
  lock,     \* pools.lock: its owner
  made,     \* the scheme, host and port of each pool ever made (history)
  pc,       \* per thread: "idle", "asking", "locked", "creating", "storing"
  req,      \* per thread: the request it asks with
  got,      \* per thread: the pool its last request got, 0 for none
  gone,     \* pools evicted or cleared (history)
  asks      \* requests so far

vars == <<proxy, cache, lock, made, pc, req, got, gone, asks>>

Lower(s) == CASE s = "HTTP" -> "http" [] s = "HTTPS" -> "https" [] s = "A" -> "a"
            [] OTHER -> s

Schemes == {"http", "https"}
SchemePort == [s \in Schemes |-> IF s = "http" THEN 80 ELSE 443]

\* ProxyManager.connection_from_host: anything but https goes to the proxy.
Target(r) ==
  IF proxy = NoProxy \/ r.scheme = "https" THEN r
  ELSE proxy

\* connection_from_host: a missing port is the scheme's, or 80.
Port(r) ==
  IF r.port # NoPort THEN r.port
  ELSE IF Lower(r.scheme) \in Schemes THEN SchemePort[Lower(r.scheme)] ELSE 80

\* Mutated: the port is left out of the key.
PoolKeyWithoutPort(r) == <<Lower(r.scheme), Lower(r.host), 80>>

\* _pool_key: no pool_kwargs in it, so a hit ignores those of the request.
PoolKey(r) == <<Lower(r.scheme), Lower(r.host), Port(r)>>

\* _new_pool: the class for the scheme, whose constructor normalises the host,
\* with the port that connection_from_host has filled in.
NewPool(r) == [scheme |-> Lower(r.scheme), host |-> Lower(r.host), port |-> Port(r)]

Init ==
  /\ proxy \in Proxies
  /\ cache = <<>>
  /\ lock  = NoOne
  /\ made  = <<>>
  /\ pc    = [t \in Threads |-> "idle"]
  /\ req   = [t \in Threads |-> CHOOSE r \in Requests : TRUE]
  /\ got   = [t \in Threads |-> 0]
  /\ gone  = {}
  /\ asks  = 0

Goto(t, step) == pc' = [pc EXCEPT ![t] = step]
Gets(t, p)    == got' = [got EXCEPT ![t] = p]

\* connection_from_host up to the lock: no host, or a scheme without a pool
\* class, raises.
Ask(t) ==
  /\ pc[t] = "idle"
  /\ asks < MaxAsks
  /\ asks' = asks + 1
  /\ \E r \in Requests :
       /\ req' = [req EXCEPT ![t] = r]
       /\ IF Target(r).host = NoHost \/ Lower(Target(r).scheme) \notin Schemes
            THEN UNCHANGED pc
            ELSE Goto(t, "asking")
  /\ Gets(t, 0)
  /\ UNCHANGED <<proxy, cache, lock, made, gone>>

Acquire(t) ==
  /\ pc[t] = "asking"
  /\ lock = NoOne
  /\ lock' = t
  /\ Goto(t, "locked")
  /\ UNCHANGED <<proxy, cache, made, req, got, gone, asks>>

Key(t) == PoolKey(Target(req[t]))

\* Mutated: the lock is held over the lookup and not over what follows a miss.
LookupUnlocks(t) ==
  /\ pc[t] = "locked"
  /\ lock' = NoOne
  /\ \/ /\ Has(cache, Key(t))
        /\ Gets(t, At(cache, Key(t)))
        /\ cache' = Touched(cache, Key(t))
        /\ Goto(t, "idle")
     \/ /\ ~Has(cache, Key(t))
        /\ Goto(t, "creating")
        /\ UNCHANGED <<cache, got>>
  /\ UNCHANGED <<proxy, made, req, gone, asks>>

\* pools.get: a hit is the newest entry from now on.
Lookup(t) ==
  /\ pc[t] = "locked"
  /\ \/ /\ Has(cache, Key(t))
        /\ Gets(t, At(cache, Key(t)))
        /\ cache' = Touched(cache, Key(t))
        /\ lock' = NoOne
        /\ Goto(t, "idle")
     \/ /\ ~Has(cache, Key(t))
        /\ Goto(t, "creating")
        /\ UNCHANGED <<cache, lock, got>>
  /\ UNCHANGED <<proxy, made, req, gone, asks>>

\* Mutated: the lock is taken without with, and an exception keeps it.
CreateKeepsLock(t) ==
  /\ pc[t] = "creating"
  /\ \/ /\ made' = Append(made, NewPool(Target(req[t])))
        /\ Gets(t, Len(made'))
        /\ Goto(t, "storing")
     \/ /\ MayFail
        /\ Goto(t, "idle")
        /\ UNCHANGED <<made, got>>
  /\ UNCHANGED <<proxy, cache, lock, req, gone, asks>>

\* _new_pool; an exception leaves the with block, which releases the lock.
Create(t) ==
  /\ pc[t] = "creating"
  /\ \/ /\ made' = Append(made, NewPool(Target(req[t])))
        /\ Gets(t, Len(made'))
        /\ Goto(t, "storing")
        /\ UNCHANGED lock
     \/ /\ MayFail
        /\ lock' = NoOne
        /\ Goto(t, "idle")
        /\ UNCHANGED <<made, got>>
  /\ UNCHANGED <<proxy, cache, req, gone, asks>>

Store(t) ==
  /\ pc[t] = "storing"
  /\ cache' = AfterSet(cache, Key(t), got[t], NumPools)
  /\ gone' = IF Has(cache, Key(t)) THEN gone
             ELSE gone \cup TakenBySet(cache, Key(t), got[t], NumPools)
  /\ lock' = NoOne
  /\ Goto(t, "idle")
  /\ UNCHANGED <<proxy, made, req, got, asks>>

\* clear(), also at the end of a with block: takes the lock by itself.
Clear(t) ==
  /\ pc[t] = "idle"
  /\ lock = NoOne
  /\ cache # <<>>
  /\ gone' = gone \cup ValuesOf(cache)
  /\ cache' = <<>>
  /\ UNCHANGED <<proxy, lock, made, pc, req, got, asks>>

Next ==
  \/ \E t \in Threads :
       Ask(t) \/ Acquire(t) \/ Lookup(t) \/ Create(t) \/ Store(t) \/ Clear(t)
  \/ asks = MaxAsks /\ (\A t \in Threads : pc[t] = "idle") /\ UNCHANGED vars

Spec == Init /\ [][Next]_vars

\* A thread that has asked runs on; the lock goes to each that keeps waiting
\* for it, since every other thread asks a bounded number of times.
FairSpec == Spec /\ \A t \in Threads :
  WF_vars(Acquire(t) \/ Lookup(t) \/ Create(t) \/ Store(t))

------------------------------------------------------------------------------

\* Types; and at most num_pools pools are cached, no key twice.
TypeOK ==
  /\ proxy \in Proxies
  /\ Len(cache) <= NumPools
  /\ \A i, j \in 1..Len(cache) : cache[i].key = cache[j].key => i = j
  /\ cache \in Seq([key : {PoolKey(Target(r)) : r \in Requests}, val : DOMAIN made])
  /\ lock \in Threads \cup {NoOne}
  /\ made \in Seq({NewPool(Target(r)) : r \in Requests})
  /\ pc \in [Threads -> {"idle", "asking", "locked", "creating", "storing"}]
  /\ req \in [Threads -> Requests]
  /\ got \in [Threads -> 0..Len(made)]
  /\ gone \subseteq DOMAIN made
  /\ asks \in 0..MaxAsks

\* Two live pools never serve one server: of the pools made for one scheme, host
\* and port, all but one have been evicted or cleared.
OneLivePoolPerKey ==
  \A p, q \in DOMAIN made \ gone : made[p] = made[q] => p = q

\* The server a request is for: the proxy, or the one its URL names, the default
\* port written out or not.  "https" is what the code's own test asks for, to
\* the letter: a caller of connection_from_host that writes HTTPS is proxied.
Serves(p, r) ==
  LET direct == proxy = NoProxy \/ r.scheme = "https"
      server == IF direct THEN r ELSE proxy
      default == IF Lower(server.scheme) = "https" THEN 443 ELSE 80
  IN  /\ p.scheme = Lower(server.scheme)
      /\ p.host = Lower(server.host)
      /\ p.port = IF server.port = NoPort THEN default ELSE server.port

\* The pool a thread gets, made for it or found under the key of its request,
\* connects to the server it asked for.
HandedPoolServes ==
  \A t \in Threads : pc[t] = "idle" /\ got[t] # 0 => Serves(made[got[t]], req[t])

\* Who asks gets a pool, or an exception: no lock is held for ever.
EveryAskReturns == \A t \in Threads : pc[t] = "asking" ~> pc[t] = "idle"
=============================================================================
