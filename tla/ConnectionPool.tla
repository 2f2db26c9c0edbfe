--------------------------- MODULE ConnectionPool ---------------------------
(***************************************************************************)
(* HTTPPool / HTTPSPool of connectionpool.py: the LIFO queue of            *)
(* connections of one (scheme, host, port), used by several threads.       *)
(*                                                                         *)
(* A caller runs urlopen():                                                *)
(*                                                                         *)
(*   Begin -> Pop -> Send -> Receive -> Preload -> Return -> Put           *)
(*                                                                         *)
(* and a closer runs close(): CloseCheck -> CloseLoad -> CloseStore ->     *)
(* Drain*.  The steps are cut where the code touches state another thread  *)
(* can touch: each read of self.pool, each operation on the queue (atomic, *)
(* it holds the queue's own mutex), each use of the socket.  _get_conn and *)
(* _return_conn test self.pool and then load it again for the call; close  *)
(* between the two ends as if the test had seen it (AttributeError, the    *)
(* same outcome), so the two reads are one step here.  What does matter is *)
(* that the queue is loaded in one step and operated on in a later one.    *)
(*                                                                         *)
(* There is one queue object per pool: close() sets self.pool to None and  *)
(* empties the old queue, which threads that loaded it before still use.   *)
(***************************************************************************)
EXTENDS Integers, Sequences, FiniteSets, SequencesExt

CONSTANTS
  Callers,     \* threads that call urlopen
  Closers,     \* threads that call close
  Conns,       \* identities of HTTPConnection objects (of live ones: see Fresh)
  NoConn,      \* Python's None, as an entry of the queue and as "no connection"
  MaxSize,     \* maxsize; 0 is an unbounded queue with no placeholders
  Block,       \* block
  Timed,       \* callers that pass _get_conn a timeout (direct callers of it do)
  MaxCalls,    \* BOUND: calls one caller makes
  Outcomes,    \* how a call may go: "unmade", its connection's constructor raises;
               \* its exchange keeps the connection ("keep"), says it closes
               \* ("close") or raises ("error")
  PeerCloses   \* whether the server may close a kept-alive connection

ASSUME SizeAssumption    == MaxSize \in Nat
ASSUME BoundAssumption   == MaxCalls \in Nat
ASSUME BlockAssumption   == Block \in BOOLEAN /\ PeerCloses \in BOOLEAN
ASSUME NoConnAssumption  == NoConn \notin Conns
ASSUME ThreadAssumption  == Callers \cap Closers = {} /\ Timed \subseteq Callers
ASSUME FiniteAssumption  == IsFiniteSet(Callers)

VARIABLES
  pool,    \* self.pool: "open" (it refers to the queue) or "closed" (None)
  queue,   \* the LifoQueue's contents, the top last
  sock,    \* per connection: what conn.sock is, see SockStates
  pc,      \* per thread: the step it takes next
  held,    \* per caller: the connection its local variable conn refers to
  result,  \* per thread: how its last call ended
  failures,\* history: calls that ended in an exception after their get
  calls    \* per caller: calls begun so far

vars == <<pool, queue, sock, pc, held, result, failures, calls>>

\* "none"  conn.sock is None       "idle"  connected, no response outstanding
\* "busy"  a response is unread    "stale" idle, but the server has closed it
SockStates == {"none", "idle", "busy", "stale"}

CallerSteps == {"idle", "popping", "ready", "sent", "reading", "returning", "putting"}
CloserSteps == {"idle", "loading", "storing", "draining", "done"}

\* Steps at which a caller has taken its slot out of the queue.
Using == {"ready", "sent", "reading", "returning", "putting"}

Results == {"none", "ok", "error", "ClosedPoolError", "EmptyPoolError",
            "FullPoolError", "AttributeError"}

\* How a call ends that has taken an entry and gives none back.
Failed == {"error", "FullPoolError"}

Users  == {t \in Callers : held[t] # NoConn}
Queued == {i \in 1..Len(queue) : queue[i] # NoConn}

\* An object nobody refers to is garbage; its identity may be used again.
Fresh == {c \in Conns : /\ sock[c] = "none"
                        /\ \A t \in Callers : held[t] # c
                        /\ \A i \in 1..Len(queue) : queue[i] # c}

Init ==
  /\ pool   = "open"
  /\ queue  = [i \in 1..MaxSize |-> NoConn]
  /\ sock   = [c \in Conns |-> "none"]
  /\ pc     = [t \in Callers \cup Closers |-> "idle"]
  /\ held   = [t \in Callers |-> NoConn]
  /\ result = [t \in Callers \cup Closers |-> "none"]
  /\ failures = 0
  /\ calls  = [t \in Callers |-> 0]

Goto(t, step) == pc' = [pc EXCEPT ![t] = step]

\* The call of thread t is over.
End(t, how, step) ==
  /\ Goto(t, step)
  /\ result' = [result EXCEPT ![t] = how]
  /\ failures' = IF how \in Failed THEN failures + 1 ELSE failures

------------------------------------------------------------------------------
(* _get_conn *)

\* urlopen enters _get_conn: a closed pool raises, an open one is loaded.
Begin(t) ==
  /\ pc[t] = "idle"
  /\ calls[t] < MaxCalls
  /\ calls' = [calls EXCEPT ![t] = @ + 1]
  /\ \/ /\ pool = "open"
        /\ Goto(t, "popping")
        /\ result' = [result EXCEPT ![t] = "none"]
        /\ UNCHANGED failures
     \/ /\ pool = "closed"
        /\ End(t, "ClosedPoolError", "idle")
  /\ UNCHANGED <<pool, queue, sock, held>>

\* _new_conn: the new object has no socket yet.  That its constructor may
\* raise is NewConnFails.
HoldNew(t) == \E c \in Fresh : held' = [held EXCEPT ![t] = c]

\* "if conn and is_connection_dropped(conn)" finds nothing to reset.
Reusable(c) == c # NoConn /\ sock[c] # "none"

\* Mutated: the entry is used but stays in the queue.
PopPeeks(t) ==
  /\ pc[t] = "popping"
  /\ queue # <<>>
  /\ LET c == Last(queue)
     IN  \/ Reusable(c) /\ held' = [held EXCEPT ![t] = c]
         \/ ~Reusable(c) /\ HoldNew(t)
  /\ Goto(t, "ready")
  /\ UNCHANGED <<pool, queue, sock, result, failures, calls>>

\* Mutated: a dropped connection is thrown away and the next entry taken.
PopSkipsDropped(t) ==
  /\ pc[t] = "popping"
  /\ queue # <<>>
  /\ queue' = Front(queue)
  /\ \/ /\ Last(queue) # NoConn /\ ~Reusable(Last(queue))
        /\ UNCHANGED <<pc, held>>
     \/ /\ Reusable(Last(queue)) /\ held' = [held EXCEPT ![t] = Last(queue)]
        /\ Goto(t, "ready")
     \/ /\ Last(queue) = NoConn /\ HoldNew(t)
        /\ Goto(t, "ready")
  /\ UNCHANGED <<pool, sock, result, failures, calls>>

\* queue.get finds an entry: a live connection is reused, and a placeholder
\* or a connection without a socket is replaced by a new connection.
Pop(t) ==
  /\ pc[t] = "popping"
  /\ queue # <<>>
  /\ queue' = Front(queue)
  /\ LET c == Last(queue)
     IN  \/ Reusable(c) /\ held' = [held EXCEPT ![t] = c]
         \/ ~Reusable(c) /\ HoldNew(t)
  /\ Goto(t, "ready")
  /\ UNCHANGED <<pool, sock, result, failures, calls>>

\* Mutated: the test of block dropped, so a blocking pool opens one more, too.
PopEmptyThoughBlocking(t) ==
  /\ pc[t] = "popping"
  /\ queue = <<>>
  /\ HoldNew(t)
  /\ Goto(t, "ready")
  /\ UNCHANGED <<pool, queue, sock, result, failures, calls>>

\* Mutated: a new connection without a look into the queue.
PopEmptyWithoutLooking(t) ==
  /\ pc[t] = "popping"
  /\ ~Block
  /\ HoldNew(t)
  /\ Goto(t, "ready")
  /\ UNCHANGED <<pool, queue, sock, result, failures, calls>>

\* queue.get raises Empty at once: a pool that does not block opens one more.
PopEmpty(t) ==
  /\ pc[t] = "popping"
  /\ queue = <<>>
  /\ ~Block
  /\ HoldNew(t)
  /\ Goto(t, "ready")
  /\ UNCHANGED <<pool, queue, sock, result, failures, calls>>

\* _new_conn raises: the connection's constructor refuses a keyword of conn_kw,
\* which nobody checked, or the host and port.  urlopen's try has not begun, so
\* an entry that queue.get took is not put back.
NewConnFails(t) ==
  /\ pc[t] = "popping"
  /\ "unmade" \in Outcomes
  /\ \/ queue # <<>> /\ ~Reusable(Last(queue)) /\ queue' = Front(queue)
     \/ queue = <<>> /\ ~Block /\ UNCHANGED queue
  /\ End(t, "error", "idle")
  /\ UNCHANGED <<pool, sock, held, calls>>

\* queue.get has waited for the caller's timeout.
TimeOut(t) ==
  /\ pc[t] = "popping"
  /\ queue = <<>>
  /\ Block /\ t \in Timed
  /\ End(t, "EmptyPoolError", "idle")
  /\ UNCHANGED <<pool, queue, sock, held, calls>>

------------------------------------------------------------------------------
(* The exchange *)

\* conn.request: connects if there is no socket.  Writing to a socket the
\* server has closed can succeed; http.client refuses one with a response
\* outstanding, which is left to Fail.
Send(t) ==
  /\ pc[t] = "ready"
  /\ sock[held[t]] # "busy"
  /\ sock' = [sock EXCEPT ![held[t]] = IF @ = "stale" THEN @ ELSE "busy"]
  /\ Goto(t, "sent")
  /\ UNCHANGED <<pool, queue, held, result, failures, calls>>

\* conn.getresponse: when the response says the connection closes, http.client
\* hands the socket to the response and conn.sock becomes None.
Receive(t) ==
  /\ pc[t] = "sent"
  /\ sock[held[t]] = "busy"
  /\ \/ "keep" \in Outcomes /\ UNCHANGED sock
     \/ "close" \in Outcomes /\ sock' = [sock EXCEPT ![held[t]] = "none"]
  /\ Goto(t, "reading")
  /\ UNCHANGED <<pool, queue, held, result, failures, calls>>

\* Mutated: the connection goes back with its response unread.
PreloadNothing(t) ==
  /\ pc[t] = "reading"
  /\ Goto(t, "returning")
  /\ UNCHANGED <<pool, queue, sock, held, result, failures, calls>>

\* WaterHTTPResponse.from_httplib reads the body to its end.
Preload(t) ==
  /\ pc[t] = "reading"
  /\ sock' = [sock EXCEPT ![held[t]] = IF @ = "busy" THEN "idle" ELSE @]
  /\ Goto(t, "returning")
  /\ UNCHANGED <<pool, queue, held, result, failures, calls>>

\* conn.close() and the caller's reference to it gone.
Discard(t) ==
  /\ sock' = [sock EXCEPT ![held[t]] = "none"]
  /\ held' = [held EXCEPT ![t] = NoConn]

\* A step of the exchange may raise; it must on a connection whose last
\* response is unread, and on one the server has closed.
MayRaise(t) ==
  \/ "error" \in Outcomes
  \/ pc[t] = "ready" /\ sock[held[t]] = "busy"
  \/ pc[t] = "sent"  /\ sock[held[t]] = "stale"

\* Any exception of the exchange: close the connection and raise.
Fail(t) ==
  /\ pc[t] \in {"ready", "sent", "reading"}
  /\ MayRaise(t)
  /\ Discard(t)
  /\ End(t, "error", "idle")
  /\ UNCHANGED <<pool, queue, calls>>

------------------------------------------------------------------------------
(* _return_conn *)

\* A closed pool closes the connection; an open one is loaded.
Return(t) ==
  /\ pc[t] = "returning"
  /\ \/ /\ pool = "open"
        /\ Goto(t, "putting")
        /\ UNCHANGED <<sock, held, result, failures>>
     \/ /\ pool = "closed"
        /\ Discard(t)
        /\ End(t, "ok", "idle")
  /\ UNCHANGED <<pool, queue, calls>>

IsFull == MaxSize > 0 /\ Len(queue) >= MaxSize

\* Mutated: a connection the queue has no room for is dropped, not closed.
PutForgets(t) ==
  /\ pc[t] = "putting"
  /\ held' = [held EXCEPT ![t] = NoConn]
  /\ queue' = IF IsFull THEN queue ELSE Append(queue, held[t])
  /\ End(t, IF IsFull /\ Block THEN "FullPoolError" ELSE "ok", "idle")
  /\ UNCHANGED <<pool, sock, calls>>

\* Mutated: a connection that the response closed does not go back.
PutIfConnected(t) ==
  /\ pc[t] = "putting"
  /\ held' = [held EXCEPT ![t] = NoConn]
  /\ queue' = IF IsFull \/ sock[held[t]] = "none" THEN queue
              ELSE Append(queue, held[t])
  /\ End(t, "ok", "idle")
  /\ UNCHANGED <<pool, sock, calls>>

\* Mutated: put without a look at the room there is.
PutAnyway(t) ==
  /\ pc[t] = "putting"
  /\ queue' = Append(queue, held[t])
  /\ held' = [held EXCEPT ![t] = NoConn]
  /\ End(t, "ok", "idle")
  /\ UNCHANGED <<pool, sock, calls>>

\* Mutated: first in, first out.
PutAtBottom(t) ==
  /\ pc[t] = "putting"
  /\ ~IsFull
  /\ queue' = <<held[t]>> \o queue
  /\ held' = [held EXCEPT ![t] = NoConn]
  /\ End(t, "ok", "idle")
  /\ UNCHANGED <<pool, sock, calls>>

\* queue.put without waiting; a full queue closes the connection.
Put(t) ==
  /\ pc[t] = "putting"
  /\ \/ /\ ~IsFull
        /\ queue' = Append(queue, held[t])
        /\ held' = [held EXCEPT ![t] = NoConn]
        /\ UNCHANGED sock
        /\ End(t, "ok", "idle")
     \/ /\ IsFull
        /\ Discard(t)
        /\ End(t, IF Block THEN "FullPoolError" ELSE "ok", "idle")
        /\ UNCHANGED queue
  /\ UNCHANGED <<pool, calls>>

------------------------------------------------------------------------------
(* close *)

CloseCheck(x) ==
  /\ pc[x] = "idle"
  /\ \/ pool = "open" /\ Goto(x, "loading") /\ UNCHANGED <<result, failures>>
     \/ pool = "closed" /\ End(x, "ok", "done")
  /\ UNCHANGED <<pool, queue, sock, held, calls>>

\* old_pool = self.pool: None if another close came in between, and then
\* old_pool.get raises after self.pool has been set to None once more.
CloseLoad(x) ==
  /\ pc[x] = "loading"
  /\ \/ pool = "open" /\ Goto(x, "storing") /\ UNCHANGED <<result, failures>>
     \/ pool = "closed" /\ End(x, "AttributeError", "done")
  /\ UNCHANGED <<pool, queue, sock, held, calls>>

CloseStore(x) ==
  /\ pc[x] = "storing"
  /\ pool' = "closed"
  /\ Goto(x, "draining")
  /\ UNCHANGED <<queue, sock, held, result, failures, calls>>

\* Mutated: close() closes every connection of the pool, those in use, too.
DrainEverything(x) ==
  /\ pc[x] = "draining"
  /\ queue' = <<>>
  /\ sock' = [c \in Conns |-> "none"]
  /\ End(x, "ok", "done")
  /\ UNCHANGED <<pool, held, calls>>

\* Mutated: get without block=False waits for one entry more.
DrainWaits(x) ==
  /\ pc[x] = "draining"
  /\ queue # <<>>
  /\ queue' = Front(queue)
  /\ sock' = [c \in Conns |-> IF c = Last(queue) THEN "none" ELSE sock[c]]
  /\ UNCHANGED <<pool, pc, result, failures, held, calls>>

\* One turn of the loop: take an entry and close it, or find the queue empty.
Drain(x) ==
  /\ pc[x] = "draining"
  /\ \/ /\ queue # <<>>
        /\ queue' = Front(queue)
        /\ sock' = [c \in Conns |-> IF c = Last(queue) THEN "none" ELSE sock[c]]
        /\ UNCHANGED <<pc, result, failures>>
     \/ /\ queue = <<>>
        /\ End(x, "ok", "done")
        /\ UNCHANGED <<queue, sock>>
  /\ UNCHANGED <<pool, held, calls>>

------------------------------------------------------------------------------
(* The environment *)

\* The server closes a connection it kept alive; nothing tells the client.
PeerClose(c) ==
  /\ PeerCloses
  /\ sock[c] = "idle"
  /\ sock' = [sock EXCEPT ![c] = "stale"]
  /\ UNCHANGED <<pool, queue, pc, held, result, failures, calls>>

\* Every call has been made and has ended.
Finished ==
  /\ \A t \in Callers : pc[t] = "idle" /\ calls[t] = MaxCalls
  /\ \A x \in Closers : pc[x] = "done"

Terminated == Finished /\ UNCHANGED vars

------------------------------------------------------------------------------

\* Mutated: queue.get waits whatever block says.
GetConnWaits(t) ==
  \/ Pop(t) \/ TimeOut(t)
  \/ queue # <<>> /\ NewConnFails(t)

GetConn(t)    == Pop(t) \/ PopEmpty(t) \/ NewConnFails(t) \/ TimeOut(t)
Exchange(t)   == Send(t) \/ Receive(t) \/ Preload(t) \/ Fail(t)
ReturnConn(t) == Return(t) \/ Put(t)
Close(x)      == CloseCheck(x) \/ CloseLoad(x) \/ CloseStore(x) \/ Drain(x)

Next ==
  \/ \E t \in Callers : Begin(t) \/ GetConn(t) \/ Exchange(t) \/ ReturnConn(t)
  \/ \E x \in Closers : Close(x)
  \/ \E c \in Conns : PeerClose(c)
  \/ Terminated

Spec == Init /\ [][Next]_vars

\* A runnable thread runs.  An exchange ends (the network answers or the
\* socket times out), but no one promises that a call is ever made, and a
\* waiter that loses every race for an entry is not promised one.
FairSpec ==
  /\ Spec
  /\ \A t \in Callers : WF_vars(GetConn(t) \/ Exchange(t) \/ ReturnConn(t))
  /\ \A x \in Closers : WF_vars(pc[x] # "idle" /\ Close(x))

------------------------------------------------------------------------------
(* Invariants *)

\* Types; and a queue with a maxsize never holds more entries than that.
TypeOK ==
  /\ pool \in {"open", "closed"}
  /\ queue \in Seq(Conns \cup {NoConn})
  /\ MaxSize > 0 => Len(queue) <= MaxSize
  /\ sock \in [Conns -> SockStates]
  /\ pc \in [Callers \cup Closers -> CallerSteps \cup CloserSteps]
  /\ held \in [Callers -> Conns \cup {NoConn}]
  /\ result \in [Callers \cup Closers -> Results]
  /\ failures \in Nat
  /\ calls \in [Callers -> 0..MaxCalls]

\* A connection object has one owner: one caller, or one entry of the queue.
\* Pop, put, discard and drain of any number of threads never make two callers
\* share a connection, nor leave one in the queue while a caller uses it.
ExclusiveUse ==
  /\ \A t, u \in Callers : t # u /\ held[t] # NoConn => held[t] # held[u]
  /\ \A i, j \in Queued : i # j => queue[i] # queue[j]
  /\ \A t \in Callers, i \in Queued : held[t] # queue[i]

\* With block=True, the entries of the queue and the connections in use never
\* exceed maxsize together, so that a return always finds room, whatever
\* errors, timeouts and closes came before.
SlotBound == Block => Len(queue) + Cardinality(Users) <= MaxSize

\* Connections are reused before new ones are made: the entries of the queue
\* and the connections in use never exceed maxsize, or the number of callers
\* if that is larger.  With maxsize=0 nothing else bounds the queue.
ConnectionsBounded ==
  LET sum == Len(queue) + Cardinality(Users)
  IN  sum <= MaxSize \/ sum <= Cardinality(Callers)

\* With block=True no caller's urlopen ends in FullPoolError: each returns
\* into the room its own get left.
NeverFullPoolError == \A t \in Callers : result[t] # "FullPoolError"

\* A connection in the queue, and one just taken from it, has no response
\* outstanding: the next request on it cannot read the last one's answer.
HandedOutIdle ==
  /\ \A i \in Queued : sock[queue[i]] # "busy"
  /\ \A t \in Callers : pc[t] = "ready" => sock[held[t]] # "busy"

\* No socket is leaked: an open one belongs to a caller or is in the queue.
NoOrphanedSocket ==
  \A c \in Conns : sock[c] # "none" =>
     \/ \E t \in Callers : held[t] = c
     \/ \E i \in Queued : queue[i] = c

\* A blocking pool that is open accounts for every slot: it is in the queue,
\* with a caller, or gone with a call that ended in an exception after its get;
\* timeouts, dropped connections and closed responses cost none, and no failed
\* call costs more than the one it took.
SlotsAccounted ==
  pool = "open" /\ Block => Len(queue) + Cardinality(Users) + failures = MaxSize

\* A blocking pool that is open has every slot in the queue or with a caller.
SlotsConserved ==
  pool = "open" /\ Block => Len(queue) + Cardinality(Users) = MaxSize

------------------------------------------------------------------------------
(* Action properties *)

\* A connection in use is closed by its user alone: not by close(), and not by
\* another caller that finds the queue full or a connection dropped.
InUseUntouched ==
  [][\A t \in Callers :
       held[t] # NoConn /\ pc'[t] = pc[t] =>
         /\ held'[t] = held[t]
         /\ sock[held[t]] # "none" => sock'[held[t]] # "none"]_vars

\* Reuse before creation: a caller gets a new connection only if the queue has
\* no usable connection above its first placeholder or dropped one, i.e. a live
\* connection is never buried under a placeholder.
ReuseFirst ==
  [][\A t \in Callers :
       pc[t] = "popping" /\ pc'[t] = "ready" /\ sock[held'[t]] = "none" =>
         \/ queue # <<>> /\ Last(queue) # NoConn
         \/ Queued = {}]_vars

------------------------------------------------------------------------------
(* The abstract pool *)

\* The queue's entries are the free slots, a caller with a connection is a user.
Slots == INSTANCE BoundedPool WITH
           Workers <- Callers, Size <- MaxSize,
           free <- Len(queue), users <- Users, lost <- failures,
           open <- (pool = "open")

\* With block=True the pool is the bounded pool of BoundedPool: each step of
\* each thread is one step of it or none.
ImplementsBoundedPool == Slots!Spec

------------------------------------------------------------------------------
(* After close *)

AllReturned == \A t \in Callers : pc[t] = "idle"

\* Once close() has returned and the calls in flight are over, the pool keeps
\* no connection open.
NothingPooledAfterClose ==
  (\E x \in Closers : pc[x] = "done") /\ AllReturned
     => \A c \in Conns : sock[c] = "none"

------------------------------------------------------------------------------
(* Liveness *)

\* A call that has begun ends.
EveryCallReturns == \A t \in Callers : pc[t] # "idle" ~> pc[t] = "idle"

\* In a pool that blocks and stays open, a caller waits only while others use
\* every slot: while a single slot is left that no failed call has taken with
\* it, each waiter gets a connection in the end, or its timeout ends the wait.
WaitersServed ==
  [](pool = "open" /\ failures < MaxSize) => EveryCallReturns

\* close() ends, whatever is returned to the queue while it drains it.
CloseReturns == \A x \in Closers : pc[x] = "loading" ~> pc[x] = "done"

=============================================================================
