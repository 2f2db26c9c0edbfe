# waterhttp in TLA+

Specifications of the core of the HTTP client library in `src/src/waterhttp`: its
connection pool, connections and timeouts, pool manager, retry and redirect logic, the
container behind the pool manager, and the reading of response bodies. TLC checks them on
small instances; TLAPS proves theorems about all of them, for any number of threads,
connections, keys, requests and hops, and for response bodies of any length.

`PROJECT.json` says which lines each definition models, what each run checks, which
mutation of the model each property detects, and which hazards of the code the properties
cover. Definitions called "Mutated" in the modules are not part of the specifications:
each is a plausible bug, put in place of the definition after it to see a property fail.

    tlc -workers 2 -config PoolBlocking.cfg MCConnectionPool.tla
    tlapm ConnectionPoolProofs.tla      (and the other seven *Proofs.tla)

## The system

| Part | State | Operations | Talks to |
|---|---|---|---|
| `HTTPPool`, `HTTPSPool` (connectionpool.py) | `self.pool`, a LIFO queue of connections and `None` placeholders, or `None` when closed | `_get_conn`, `urlopen`, `_return_conn`, `close` | its threads, `HTTPConnection`, `WaterHTTPResponse` |
| `PoolManager`, `ProxyManager` (poolmanager.py) | a cache of pools by (scheme, host, port); the headers and retries a redirect carries along | `connection_from_host`, `urlopen`, `clear` | the container and its lock, the pools, `Retry` |
| `RecentlyUsedContainer` (datastructures.py) | an `OrderedDict` under a lock | get, set, delete, clear, `dispose_func` | the pool manager |
| `Retry` (retry.py) | immutable counters and a history | `increment`, `is_exhausted`, `get_backoff_time`, `from_int` | redirects of the pool manager |
| `WaterHTTPResponse`, `BytesQueueBuffer`, decoders (response.py) | file object, bytes promised, decoder, buffer of decoded bytes, chunk in progress, connection | `read`, `read1`, `stream`, `read_chunked`, `drain_conn`, `release_conn`, `close` | http.client's response, zlib, the pool |
| `HTTPConnection`, `HTTPSConnection` (connection.py, ssl_helpers.py) | socket, tunnel, TLS settings, `is_verified`, an SSLContext that connections may share | `connect`, `close`, `request` | sockets, `Timeout`, http.client |
| `Timeout` (timeout.py) | limits and a clock started at connect | `clone`, `start_connect`, `connect_timeout`, `read_timeout` | pool, connection |
| `HTTPHeaderDict` (datastructures.py) | an ordered multi-dictionary that ignores case | add, extend, set, delete | requests, responses |
| url.py, request_helpers.py, request_methods.py, multipart.py | none | parsing, header and body building, encoding | pool, manager |

**How a request runs.** `PoolManager.urlopen` takes the pool of the URL's server from the
container (made under the lock if missing) and calls its `urlopen`, which takes a
connection from the queue, sends the request, reads the response to its end and puts the
connection back. A redirect leads to a recursive call with what the last hop left in its
keyword arguments. Any number of threads share managers and pools.

**What is hard about it, and what makes each part correct.**

- *Pool.* Threads interleave between loading the queue and using it; `close` swaps
  `self.pool` for `None` and drains the old queue meanwhile; exchanges fail, and so do the
  constructors of connections; servers close idle connections; a blocking pool can leave its callers waiting. Correct: a connection has one owner,
  `maxsize` bounds what a blocking pool uses, connections are reused before new ones are
  opened and handed out without a response outstanding, sockets are not leaked, calls end.
- *Connection.* `connect` tries the addresses of a host in turn, then sets up tunnel, TLS
  and the checks of the certificate, and any step may raise with a socket already stored
  in the connection; connections share and change an SSLContext. Correct: a request goes out only on a connection that passed every step its
  settings ask for, no socket is lost, `is_verified` does not claim too much, the
  read timeout fits into the total, and `connect` ends.
- *Manager.* A lookup, the creation of a pool and its storing must be one step for other
  threads; creation can raise in the middle. Correct: one live pool per key, the right
  server's pool for each request, and the lock is released whatever happens.
- *Container.* Values are disposed of outside the lock. Correct: the least recently used
  entry goes, and each value that leaves is disposed of exactly once.
- *Retry and redirect.* Long mixed sequences of events, counters that may be `None`,
  `False` or 0, arguments carried from hop to hop. Correct: limits kept and used up, each
  event charged to its own counter, a 303's rewriting kept for the rest of the chain.
- *Response.* Bytes wait in four places (file, decoder's tail, zlib itself, buffer), reads
  of all kinds alternate, and bodies end early or are corrupt. Correct: no byte is lost,
  doubled or moved, the end of a body is told from a cut, decoding stays behind the
  reader, the connection goes back at the end and not before, loops end.

## Modules

| Module | Models | Correspondence |
|---|---|---|
| `BoundedPool` | nothing; it is the abstract promise of a blocking pool | `Acquire`, `Release`, `Forfeit` (an exchange failed), `Spoil` (a connection could not be made), `Shut`, `Scrap` and `Retire` (a slot goes because the pool is closed) on a count of free slots, the set of users and a count of lost slots |
| `ConnectionPool` | `HTTPPool` | `pool`, `queue`: `self.pool` and the queue's contents; `sock`: what `conn.sock` is; `pc`, `held`: a thread's place in the code and its local `conn`. `Begin`/`Pop`/`PopEmpty`/`NewConnFails`/`TimeOut`: `_get_conn`; `Send`/`Receive`/`Preload`/`Fail`: the try block of `urlopen`; `Return`/`Put`: `_return_conn`; `CloseCheck`/`CloseLoad`/`CloseStore`/`Drain`: `close` |
| `ConnectionPoolProofs` | | theorems about it: owners and counts; the state of the sockets |
| `Timeout` | the class, as operators | a record of the limits and of `ran`, the time since `start_connect` |
| `Connection` | both connection classes, `create_ssl_context`, `assert_fingerprint`, and the part of `urlopen` that drives them | `Resolve`/`Dial`/`Connected`/`DialFails`/`GiveUp`: `_create_connection`; `Tunnel`/`Secure`/`Wrap`/`Verify`: the rest of `connect`; `Send`/`Receive`/`Break`/`CloseAfterError`: the exchange. `sock` is `conn.sock`, `trying` the local `sock` of `_create_connection`, `open` the sockets the system has open, `done` the steps each has been through |
| `ConnectionProofs` | | theorems about it |
| `OrderedDict` | the operations of Python's `OrderedDict` that the container uses | operators on a sequence of entries, the oldest first |
| `OrderedDictProofs` | | lemmas about those operators: keys stay unique, order is kept |
| `RecentlyUsedContainer` | the class | one action per method; `Dispose` is one call of `dispose_func` |
| `RecentlyUsedContainerProofs` | | theorems about it |
| `PoolManager` | the cache of pools | `Ask`: the checks and key of `connection_from_host`; `Acquire` to `Store`: `_connection_from_context`; `Clear`: `clear` |
| `PoolManagerProofs` | | theorems about it |
| `Retry` | the class, as operators | used by `RetryBudget` and `Redirect` |
| `RetryBudget` | a client that reports events to `increment` | the sequence of Retry objects of one request |
| `RetryBudgetProofs` | | theorems about it: the counters, the back-off |
| `Redirect` | `urlopen` of both managers | `SendHop`/`FailHop`: the call of the pool; `ReturnResponse`/`FollowRedirect`: what follows it |
| `RedirectProofs` | | theorems about it |
| `BytesQueueBuffer` | the class, as operators | chunks and a count |
| `Decoders` | `GzipDecoder`, `DeflateDecoder` over `zlib.decompressobj` | encoded data is a sequence of units, each the bytes it decodes to |
| `Response` | `WaterHTTPResponse` | `Read`+`Fetch`: `read(amt)`; `ReadAll`: `read()`; `Read1`+`Fetch1`: `read1`; `Stream`, `StreamNext`, `StreamEnd`: `stream`; `ReadChunked` and the `Chunk*` actions: `read_chunked`; `DrainConn`, `ReleaseConn`, `Close`. `RawReads` is `_raw_read` within `_error_catcher` |
| `ResponseProofs` | | lemmas about the operators of the three modules above; theorems about `Response` |

`Redirect` and `RetryBudget` extend `Retry`; `RecentlyUsedContainer` and `PoolManager`
extend `OrderedDict`; `Connection` extends `Timeout`; `Response` extends `Decoders`, which extends `BytesQueueBuffer`.
`ConnectionPool` instantiates `BoundedPool` (`Slots`) with free slots as the queue's
length, the users as the callers that hold a connection, lost slots as `failures` and open
as `pool = "open"`.
The `MC*` modules give each specification its small sets.

### What the steps stand for

- *Pool.* A step is one read of `self.pool`, one queue operation (the queue has a mutex
  of its own), or one use of a socket. `_get_conn` and `_return_conn` read `self.pool` twice in
  a row; a close between the reads ends in the same error or discard as one before them,
  so the two are one step. `urlopen` reads responses to their end before it returns the
  connection (`from_httplib` does not pass the pool on), so a call is one pass through
  the caller's steps. Connection objects that nobody refers to may be used again for new
  ones (`Fresh`): no code compares them. Python's garbage collector, which closes sockets
  of dead objects at a time of its own, is not relied on.
  `_get_conn` makes a connection after its `queue.get` and before `urlopen`'s try block.
  The constructor is given `**conn_kw`, which nobody checks, and may raise; then the entry
  is gone and no connection has taken its place (`NewConnFails`, the outcome "unmade").
  `failures` counts the calls that ended in an exception after the pool gave them something:
  these, failed exchanges and `FullPoolError`.
- *Connection.* Users are threads in `urlopen` or, in `Direct`, programs that use an
  `HTTPConnection` of their own. The pool replaces a connection without a socket by a new
  object; a direct user keeps it, with the attributes the last attempt left in it. Both
  close the connection after an exception: `urlopen` does so itself, for the direct user it
  is an assumption. A step is cut where the network is waited for and where the shared
  SSLContext is read or written; each request has a timer of its own, since `urlopen`
  clones the `Timeout` it is given. Time is what a timer shows when it is
  read (`ran`), any amount from the last value on; an
  address that times out takes the whole of the socket's timeout. A handshake fails, or proves
  what the context asks for at that moment; the pin of a fingerprint matches or does not.
- *Container.* A method's work under the lock is one step, since every access to the
  dictionary holds the lock; each disposal is a step of its own.
- *Manager.* The steps are cut *inside* the lock, which is a variable, so that the runs
  show what it is for. `made` keeps what `_new_pool` hands to `pool_cls` (scheme, host and
  port, by `NewPool`), so that a key and a pool that do not fit could be told. `MayFail` lets
  that constructor raise. `Serves` decides what goes to the proxy as the code does, by
  comparing the scheme with "https" as it is written (poolmanager.py:257).
- *Response.* One user reads a response, so a call is one step, or one step per turn of its
  loop. A byte is its position in the body, and Content-Length, chunk sizes and reads
  count units of encoded data. zlib may hold back decoded bytes beyond the limit of a
  call in a store no attribute shows; `inner` is that store. `unconsumed_tail`,
  `unused_data` and `eof` are modelled with what further calls do to them after the end
  of a stream: an object that has failed, for one, keeps the data it refuses in its tail.
  `decode` is `decode_content`. `read` and `read1` take the response's own where the caller
  gives none; `stream` and `read_chunked` do not, so for a chunked body `decode` says that
  the user passes `decode_content=True`. `empty` is a status without a body, or HEAD where
  the response knows its `request_method`: `urlopen` passes none (connectionpool.py:223), so a
  HEAD response of a pool keeps its Content-Length in `length_remaining`, which the models
  do not show. Only HEAD makes a chunked response empty for `read_chunked`.
  A file is http.client's response, a file that reads all it is asked for,
  or one that may read less. `ShapeAssumption` says what a response can be: http.client
  hands on no more than Content-Length or the chunk sizes announce (`Announced`,
  `Framed`), a body that says it is empty is, and what is not encoded comes byte by byte
  (`Bytewise`).

  `marks` records what ends the guarantees: an exception, `close`, `drain_conn`, the
  user's own `release_conn`, `read()` while the buffer holds something (it leaves those
  bytes out), and `read1()` without an amount at a premature end (it does not
  raise). A chunked body is read through http.client or through `read_chunked`, as
  mixing the two makes two parsers share one stream.

## Runs

Every bound is a constant of the model and named in its cfg.

| Run | Instance | Shows |
|---|---|---|
| `PoolBlocking` | block, 2 slots, 3 callers with 2 calls each, one of them with a timeout, 1 closer, 3 connections, every outcome | `ExclusiveUse`, `SlotBound`, `SlotsAccounted`, `NeverFullPoolError`, `HandedOutIdle`, `InUseUntouched`, `ReuseFirst`; that the pool implements `BoundedPool` (`ImplementsBoundedPool`); that every waiter is served while the pool stays open and fewer calls than slots have failed (`WaitersServed`) |
| `PoolClosing` | no block, size 1, 2 callers with 2 calls each, 2 closers, 3 connections, servers that close | `TypeOK`, `NoOrphanedSocket`, `ConnectionsBounded`; `EveryCallReturns`, `CloseReturns` |
| `Connecting` | a pool's thread and a direct user, 2 requests each, 2 addresses, 4 sockets; 6 scenarios that between them have a tunnel, every mode of `cert_reqs`, a fingerprint, `assert_hostname=False`, certificate files, a shared SSLContext, and three mixes of limits | `RequestOnCheckedConnection`, `SocketsAccounted`, `IsVerifiedTruthful`, `ReadTimeoutFillsTotal`; `EveryRequestEnds` |
| `Container` | 2 threads, 3 keys, 4 values, size 2, 5 operations | `TypeOK`, `DisposedExactlyOnce`, `EvictsLeastRecentlyUsed`, `RemovedIsDisposed` |
| `Manager` | 2 threads, 6 requests (equivalent ones, another port and scheme, two invalid), proxy or none, 2 pools, 4 asks | `OneLivePoolPerKey`, `HandedPoolServes`, `EveryAskReturns` |
| `RetryCounters` | 312 mixes of limits, 5 events | `CountersMatchHistory`, `GivesUpOnlyWhenSpent`, `StopsWhenSpent`, `BackoffDoubles` |
| `RedirectBudget` | a proxy, an http and an https server; `None`, `False`, numbers and Retry objects; 5 hops | `HopsWithinBudget`, `GivesUpAfterBudget`, `HopsRewritten`, `HistoryRecordsRedirects` |
| `ResponseReads` | 27 bodies of up to 5 bytes, amounts 1 to 4 and none, calls in any order without a bound on their number | `TypeOK`, `BytesInOrder`, `DecodedOnDemand`, `ShortReadMeansEnd`, `ReturnedWhenDone`, `EveryCallReturns` |

**Why the bounds are enough.** Three callers and two slots is the smallest pool where two
users fill it while a third waits; two calls per caller let a connection go round; three
connections are as many as the callers can hold at once. Two callers and two closers give every race of get and
put with close and of close with close. Two threads race for a lock or a key as any
number do (in `Connecting`, for an SSLContext), two pools and three keys force evictions with a choice of victim. Five events
exceed every limit used by two. Two addresses
are one that fails and one after it; two requests of a user are one that leaves its
connection in some state and one that finds it so; four sockets let each user hold one
while another is tried. The bodies have more bytes than the smallest amount and
fewer than the largest, with one for each path: cut with and without their trailer, empty,
not decoded, corrupt
at the start, in the middle and after the end, of two gzip members, raw and zlib deflate,
from every kind of file, chunked and not. The response's state space is finite by itself.

**Deadlock** is checked where the system must not stop. It is not in `PoolBlocking`
(callers can wait for ever after a close or errors, see below), nor in `Container`,
`RetryCounters` and `RedirectBudget`, which end at their bounds or when the request does.
The pool, the manager and the connection have a final stutter for the state in which all
calls are over.

**Fairness.** `ConnectionPool!FairSpec`: a caller that has begun a call keeps taking
steps it can take, because threads get scheduled and the network either answers or the
socket operation fails; so does a closer that has begun. Nothing is assumed of making a
call, nor strong fairness for a waiter. `WaitersServed` is an implication: it promises
waiters an end only if the pool stays open and a slot is left that no failure took
(`failures < MaxSize`), since `close` wakes
nobody and a failed call takes its slot with it (see below); the waiters are then
served because the others make a bounded number of calls. `Connection!FairSpec`: a request
in progress takes its next step, for the same reason, and each wait ends in an answer, an
error or the timeout. `RecentlyUsedContainer`: a
thread that took values out goes on to dispose of them. `PoolManager`: a thread that has asked
keeps running; locks need no strong fairness, again since others ask a bounded number of
times. `Response`: a call in progress takes its next turn, and a user who iterates over
a stream takes its next item. It is weak fairness of `Turn`, written out, since `Turn` is enabled
whenever a call is in progress (the deadlock check sees to that) and always changes
`call.odd`.

## Disagreements between code and documentation

Four runs check a statement of the repository that the code does not keep; TLC prints
the behaviour.

1. `PoolLosesSlots` (`SlotsConserved`): the except clause of `urlopen`
   (connectionpool.py:227) closes the connection and returns neither it nor a placeholder.
   After `maxsize` failed exchanges a blocking pool has no slot left and its next caller
   waits for ever. acceptance.md:11 promises that connections go back after use.
   A slot goes the same way when the constructor of a connection raises (line 132, before
   the try block). `SlotsAccounted` and `ImplementsBoundedPool` show that there is no third
   way while the pool is open: each failed call (`Forfeit`, `Spoil`) costs exactly the slot
   it took, and timeouts, dropped connections and closed responses cost none. `Scrap` and
   `Retire` are close.
2. `PoolCloseRace` (`NothingPooledAfterClose`): a return that loaded the queue before
   `close` set `self.pool` to `None`, and puts after `close` found it empty, leaves an
   open connection in a queue nobody looks at again (acceptance.md:15).
3. `DefaultTimeout` (`DefaultTimeoutAccepted`): `urlopen` without a timeout puts
   `DEFAULT_TIMEOUT`, a sentinel object, into `conn.timeout` (connectionpool.py:217), and
   `_create_connection` hands it to `settimeout`: the request ends in TypeError. The
   sentinel is meant to stand for the system's default (tests/test_timeout.py:158-165,
   connection.py:83-85). The TypeError also leaves the socket it was raised on open, so
   `SocketsAccounted` is about requests with a timeout.
4. `GzipMembers` (`PrefixDelivered`): when the limit of a `decompress` falls on the end of
   a gzip member, the decoder keeps the member's finished object and `unused_data` as its tail;
   the next call feeds the tail to that object, which appends it to `unused_data` once
   more. The user gets the next member twice (acceptance.md:31). `BytesInOrder` reads its
   two-member body by amounts that do not meet that point.

The hazards in `PROJECT.json` with a note and no property are behaviour the code has and
no text contradicts: an idle connection that the server has closed is handed out; keyword
arguments are not in the pool's key; behind a proxy the Host header of the first URL is
carried over to a redirect's; a file body is not rewound for a redirect; `urlopen` retries
no error; a socket keeps the connect timeout of the request that opened it, and
`read_timeout` is never applied; `stream(None)` does not end; the end of a raw deflate
body can stay inside zlib; `read1()` without an amount does not enforce Content-Length;
`read()` leaves out what the buffer holds.

## Proofs

Each proof module holds one component's theorems. Unless the table says otherwise a
theorem is `Spec => []P` for the property P it is named after, for every value of the
constants.

| Module | Theorem | States |
|---|---|---|
| `ConnectionPoolProofs` | `TypeCorrect` | `[]TypeOK` |
| | `ExclusiveUseHolds` | a connection has one user |
| | `BlockingPoolImplementsBoundedPool` | `Spec => ImplementsBoundedPool`, if `Block` is true |
| | `SlotsAccountedHolds` | every slot is queued, in use or gone with one failed call |
| | `SlotBoundHolds`, `ConnectionsBoundedHolds`, `NeverFullPoolErrorHolds` | the counts |
| | `HandedOutIdleHolds` | no queued connection has a response outstanding |
| | `NoOrphanedSocketHolds` | every open socket has an owner or is queued |
| | `InUseUntouchedHolds` | action property: no thread closes another's connection |
| | `ReuseFirstHolds` | action property: no new connection above a live one |
| `ConnectionProofs` | `TypeCorrect` | `[]TypeOK` |
| | `RequestOnCheckedHolds`, `SocketsAccountedHolds`, `IsVerifiedTruthfulHolds` | the sockets of `connect` |
| | `ReadTimeoutFillsTotalHolds` | the read timeout |
| `RecentlyUsedContainerProofs` | `ContainerTypeCorrect` | `[]TypeOK` |
| | `DisposedExactlyOnceHolds` | values inside, due or disposed of once |
| | `EvictsLeastRecentlyUsedHolds` | action property: the victim was used longest ago |
| `PoolManagerProofs` | `ManagerTypeCorrect` | `[]TypeOK` |
| | `OneLivePoolPerKeyHolds`, `HandedPoolServesHolds` | the cache under its lock |
| `RetryBudgetProofs` | `CountersMatchHistoryHolds`, `StopsWhenSpentHolds` | the counters; the second is an action property |
| | `GivesUpOnlyWhenSpentHolds` | under `NoneNegative` |
| | `BackoffDoublesHolds` | action property: the wait between attempts, for any factor and maximum |
| `RedirectProofs` | `HopsWithinBudgetHolds`, `HistoryRecordsRedirectsHolds`, `HopsRewrittenHolds` | the redirect loop |
| | `GivesUpAfterBudgetHolds` | under `NoneNegative` |
| `ResponseProofs` | `ResponseTypeOK` | `[]TypeOK`, for every response |
| | `ResponseReturnedWhenDone` | the connection's way back, for every response |
| | `ResponseBytesInOrder` | no byte lost, doubled or moved, for every response that is `OneMember` |
| | `ResponseDecodedOnDemand`, `ResponseShortReadMeansEnd` | for every response that is `Regular` |
| | `ResponseTypes`, `ResponsePromises` | the inductive invariants behind them |

They rest on the named assumptions of the modules, which TLC evaluates in every run: the
bounds are natural numbers, flags Booleans, `None` and the other sentinels are not values
of the kind they stand beside (`NoConnAssumption`, `SockAssumption`, `UserAssumption`,
`NotNumbers`, `TimeoutAssumption`), no thread is both caller and closer, there are
finitely many callers (used by the theorems that count them), and what a user passes is
what the constructors make: `ScenarioAssumption`, `InitialsAssumption`,
`RedirectAssumption` and `ShapeAssumption`. `NoneNegative` is a premise and not an assumption: a `Retry` made with a
negative counter is exhausted before it is used, and then the two theorems do not hold.

### The pool

*Owners.* `ExclusiveUse` alone is not inductive: a caller about to take a connection
must hold none, or the one it held would vanish, and one about to put must hold one, or
`None` would enter the queue as a connection. `Ownership` adds `TypeOK` and
`HoldsWhileUsing`: a caller holds a connection exactly between the pop and the put. The
lemmas `TakeKeepsExclusive`, `DropKeepsExclusive` and `FrontQueued` carry ownership
through the ways in which a connection moves; `StepOwnership` has a step for each action.

*Refinement.* `SlotInv` adds `ClosedWhileDraining`: a closer that drains has closed
the pool, which makes each `Drain` a `Scrap`. `StepOfSlots` maps every step of the pool
to a step of `BoundedPool` or to none; the only exceptions it leaves (`BeyondSlots`) are those of a
pool that does not block: a connection made for an empty queue and one dropped at a full
queue. Pops map to `Acquire`, puts to `Release`, failed exchanges to
`Forfeit`, failed constructors to `Spoil`, returns to a closed pool to `Retire`,
`CloseStore` to `Shut`.

*Counts.* `SlotStepCounts` bounds what a step of the abstract pool does to the number of slots
and users, and `BoundInv` puts `SlotInv`, both bounds, `SlotsAccounted` and `NeverFullPoolError` together. They
need each other: `RoomToReturn` derives from `SlotBound` that a caller about to put finds
room, so `FullPoolError` cannot be reached. `ConnectionsBounded` holds in the
remaining case, a new connection of a non-blocking pool, because the queue is empty then
and every connection counted belongs to a caller.

*Sockets.* `SockInv` says of each place in the code what the socket of the caller's
connection may be (`Calm`), of the queue that none of its sockets is busy (`QueueCalm`), and of
every open socket that it has an owner. `OwnSocketOnly` separates a thread's own steps on
its socket from everyone else's, which needs `Ownership`. For `ReuseFirst`,
`PlaceholdersBelow` adds that a placeholder never gets above a connection: the pool
starts full of placeholders and only connections are pushed.

### The connection

`IInv` says for each user what the step it is at implies: its socket (`SockOK`: what
`sock` and `trying` are, open or not), what has been done to it (`ProgressOK`), and when
`is_verified` may be true (`VerifiedOK`); and for all of them together that no two share a
socket (`Apart`) and every open one is somebody's (`NoneLost`). The properties are not inductive without `Apart`:
a user that closes its socket would take another's. Three lemmas keep the proof small.
`OthersLeftAlone` says what no step of one user does to another (a
shared context may change, but its `verify_mode` is never made stricter), `OthersStayOK` that the others' parts of `IInv` hold then, and `OwnStaysOK` goes
through the user's own steps; `SocketMoves` lists the few ways a socket goes from one
variable to another, from which `Apart` and `NoneLost` follow.

### Container and manager

A value is in one place: unknown, inside, waiting for a thread to dispose of it, or
disposed of. `OnePlace` says so; `CachedOnce` and `DueOnce` say that it is there once. All
operations but `Dispose` move values from one place to another, and `MoveKeepsDInv` covers
them. `CountPlaces` turns places into the count that `DisposedExactlyOnce` states.
`UseOrder` is the invariant behind the eviction: the entries are ordered by the time of
their last use. `OrderedDictProofs` has what the operators on the sequence of entries
preserve.

`MInv` of the manager: whoever is between `Acquire` and the end holds the lock
(`LockHeld`); what it found missing is still missing (`StillMissing`); each cached pool
is under the key it was made for (`Labelled`), each live pool is in the cache or about to be
stored (`Kept`), and what a thread was given was made for its request (`GotRight`). Without
`StillMissing` the store could replace a pool that another thread had just been handed.

### Retry and redirect

`CountersMatchHistory` counts events in a history; `OneMoreUse` says what one more event
adds to the count, and `NextRetry` what `increment` does to each counter. `BInv` adds that
`redirect` is never `False` (`__init__` made it 0) and what the history is made of.

`Budget` relates the `Retry` object of the loop to the one the user gave: each limit is
smaller by the redirects followed so far (`Followed`) and, once there was one, not
negative. The three theorems about limits and history follow from it. `Rewriting` relates
the request under way to the answers so far: method and body are those of the user until
a 303 and GET without a body after it, the URL is the last location.

`BackoffDoubles` needs two facts about operators that hold by induction: `TwoToDoubles`, that
each power of two is twice the one before (`TwoTo` is a recursive function, since the
provers know nothing of `^`), and `OneMoreError`, that one more event adds one to the
errors in a row or, if it is a redirect, leaves none. What remains is that doubling and
the cut at `backoff_max` commute, also when the factor or the maximum is 0.

### The response

*Which bodies.* The promises about order and end are not true of every body, so the
theorems name those they are about, and each premise is there because TLC shows the
property violated without it:

- `OneMember`: no data follows a trailer (refused data may). With a second member
  `GzipMembers`, the fourth disagreement above, loses the order.
- `HasTrailer`: a gzip or zlib body that comes complete has its trailer. Without one zlib
  may hold back decoded bytes with an empty `unconsumed_tail` when the file has ended, and
  a short read then is not the end. A body whose file is cut short of its length or its chunks needs none:
  the read raises.
- `NoExcess`: a file other than http.client's holds no more than Content-Length says.
  `read1` closes the file when the count is used up, and what the file still had is lost.
  http.client cannot hand on more, which is part of `Framed`.

`Regular` is the three together. 26 of the 27 bodies of `ResponseReads` are `Regular`; the one
with two members is checked by amounts that do not meet the point. Raw deflate
bodies are `Regular`, but the last two properties leave them out.

*Operators.* Most of the work is what the operators compute over whole sequences.
The library's induction theorems take an operator as a parameter, which the provers cannot
instantiate; induction over a set needs none: `NatSetInduction` derives from the least element of its
complement (`WFMin`) that a set with 0 and with every successor has all numbers, and a
recursive function is shown to exist up to n for every n (`JoinsExist`, `SumsExist`,
`TurnsExist`) before anything is said of it. From there

- `FlattenConcat`: joining sequences of bytes distributes over concatenation;
- `GetBytesKeeps`, `GetAllKeeps`: the buffer returns its first bytes and keeps the rest,
  and its count is right, however chunks are split;
- `InflateKeeps`, `InflateKeepsOrder`: what zlib returns, holds back and leaves as its tail is what it was
  given, in order, and it returns no more than its limit;
- `GzipLoopConserves`, `DecompressKeeps`, `FlushKeeps`: the same of the loop over members, of both decoders,
  and of `_flush_decoder`, and when they leave no tail.

*Invariants.* None of the five properties is inductive.

`TypesInv` holds of every response. `FileInv` relates the file, `length_remaining`, the chunk
sizes still to come and the connection: http.client counts what the response counts
(`Lengths`), what is left of a chunked body is at most what the sizes still to come say
(`InChunks`), and a file that is not open, or whose connection has gone back, has nothing
left or a closed socket (`Finished`). `ReturnedWhenDone` follows; it needs
`InChunks` because `read_chunked` gives the connection back on a size of 0 without looking
at the file. `CallInv` has the types of the rest and says what each phase of a call
implies (`Ways`).

`OrderInv` adds to `BytesInOrder` that the decoder and the file are at the same place
(`InStep`: what the decoder has pending and the file has left is still one member, or the
decoder is over and what follows is no data) and which ways of reading never use the
buffer (`Unbuffered`). Without `InStep` a decoder could start a new member in the middle
of the data.

`PromisesInv` adds that the file is read to its end and counted (`Counts`), that a body
read in chunks has left the decoder when the file closes (`Drained`), that decoding is
behind the reader in each phase (`Behind`), and that the user was told of the end only
when all was delivered (`Told => Complete`). They need each other: `read1` keeps the
buffer empty because nothing is pending when it fetches (`Behind`), and a flush at the
end yields nothing because the file was counted to its end (`Counts`, then `EndIsClean`).

Each action has a lemma `...Steps`, that it keeps `TypesInv` and carries the bytes on in
order, and a lemma `...Fulfils`, that it keeps the promises; `NextSteps` and `NextFulfils` put
them together. TLC has checked the three invariants on the bodies of `ResponseReads` and
three more before they were proved. Four details of the model are there because a proof
failed without them: an object of zlib that has failed fails again on the same data;
`ShapeAssumption` spells out what framing allows; where nothing is decoded only an *empty*
answer means the end, as `read(amt)` then hands on what one read of the file returned; and
`length_remaining` goes below zero where a file holds more than its length.

*Checked by TLC only.* Liveness (`EveryCallReturns`, `WaitersServed`, `CloseReturns`,
`EveryRequestEnds`, `RemovedIsDisposed`, `EveryAskReturns`), which is out of the prover's
reach, as are ENABLED and fairness. Every invariant and every action property of the
runs is a theorem, with the premises the table names.

## Not modelled

- *Connection.* Socket options, source address, ALPN and cipher settings are passed through
  to the socket and the SSLContext; `ssl_wrap_socket` has no caller. `ConnectionPool`
  knows a connection by its socket's state alone: connecting is part of its `Send`.
- *Timeout.* The ValueErrors of bad limits; `read_timeout` before `start_connect`.
- *HTTPHeaderDict.* A dictionary of lists with one user at a time; nothing in the library
  shares one between threads, and each operation is over in its call.
- *url.py.* A regular expression, percent-encoding and the removal of dot segments: one pass
  over a string. A model would spell strings out character by character.
- *Response.* Brotli and zstd (optional libraries); `json`, `data`, `readinto` and the iteration
  by lines, which only call `read`; a `decode_content` that changes from call to call.
- *Retry.* `Retry-After`, the sleeps and `is_retry`: nothing in the source calls them.
  True as a counter, which is 1 to Python.
- *Pool.* `is_same_host`, `connection_from_url`, and the request counters nobody reads.
- *request_helpers.py, request_methods.py, multipart.py, exceptions.py, `__init__.py`.*
  Functions of a single call without state, and definitions.

## Plan

Order: what threads share first, then what one request goes through.

1. Done: `BoundedPool` and `ConnectionPool` with its proofs; `OrderedDict`,
   `RecentlyUsedContainer`, `PoolManager`; `Retry`, `RetryBudget`, `Redirect`;
   `BytesQueueBuffer`, `Decoders`, `Response`.
2. Done: `Timeout` and `Connection` with proofs.
3. Done: theorems about the sockets of the pool, the container, the manager, the retry
   counters and the redirect loop.
4. Done: theorems about the response, and about the back-off.
5. Left: pool and connection in one module, which would show how long a socket keeps a
   timeout across the requests of several threads; gzip bodies of several members read by
   amounts that do not end at a member, as a theorem.
