----------------------------- MODULE Connection -----------------------------
(***************************************************************************)
(* HTTPConnection and HTTPSConnection of connection.py with the context    *)
(* that ssl_helpers.py makes, and the part of urlopen that drives them.    *)
(*                                                                         *)
(* Each user has one connection at a time and sends requests over it:      *)
(*                                                                         *)
(*   Begin -> [ Resolve -> (Dial -> Connected | DialFails)* -> Tunnel      *)
(*              -> Secure -> Wrap -> Verify ] -> Send -> Receive           *)
(*                                                                         *)
(* where the steps in brackets are connect(), run by http.client when the  *)
(* connection has no socket.  A user in Direct works with a connection     *)
(* object of its own, and keeps it when it has no socket any more; the     *)
(* others are threads in HTTPPool.urlopen, which replaces such an object.  *)
(* Both close the connection after an exception: urlopen does so itself.   *)
(*                                                                         *)
(* Users pass the same limits, which urlopen clones for each request, and  *)
(* share the SSLContext where their settings say so; a step is cut where   *)
(* that is read or written and where the network is waited for.            *)
(***************************************************************************)
EXTENDS Timeout, FiniteSets

CONSTANTS
  Users,          \* threads, each with its connection
  Direct,         \* those that use an HTTPConnection without a pool
  Socks,          \* identities of sockets
  NoSock,         \* Python's None
  SharedContext,  \* the identity of the SSLContext that users share
  Scenarios,      \* settings of the users' connections, and the Timeout they pass
  MaxAddresses,   \* BOUND: addresses of a host
  MaxRequests     \* BOUND: requests of one user

Modes == {"NONE", "OPTIONAL", "REQUIRED"}

\* The constructor's arguments.  cert_reqs: a string resolve_cert_reqs does
\* not know, None, or one of the modes.
Settings ==
  [ https : BOOLEAN, tunnel : BOOLEAN,
    cert_reqs : Modes \cup {"unknown", "unset"},
    fingerprint : BOOLEAN,      \* assert_fingerprint is given
    hostname : BOOLEAN,         \* FALSE: assert_hostname=False
    shared : BOOLEAN,           \* ssl_context is given
    files : BOOLEAN ]           \* cert_file or ca_certs and the like are given

ASSUME UserAssumption == Direct \subseteq Users /\ SharedContext \notin Users
ASSUME SockAssumption == NoSock \notin Socks
ASSUME ScenarioAssumption ==
  /\ Scenarios \subseteq [settings : [Users -> Settings], given : Timeouts]
  /\ MaxAddresses \in Nat /\ MaxRequests \in Nat

VARIABLES
  settings,     \* per user: the settings of its connections
  given,        \* the Timeout the users pass, which no request changes
  pc,           \* per user: the step it takes next
  sock,         \* per user: conn.sock
  trying,       \* per user: the local sock of _create_connection
  left,         \* per user: addresses not tried yet
  err,          \* per user: the local err of _create_connection
  limit,        \* per user: conn.timeout
  timer,        \* per user: urlopen's timeout_obj
  is_verified,  \* per user: conn.is_verified
  context,      \* per user, and shared: the SSLContext
  open,         \* the sockets open
  done,         \* per socket: what has been done on it
  result,       \* per user: how its last request ended
  requests      \* per user: requests begun so far

vars == <<settings, given, pc, sock, trying, left, err, limit, timer, is_verified,
          context, open, done, result, requests>>

\* What belongs to the address loop, to the TLS layer, and to the request.
dialVars == <<trying, left, err>>
tlsVars  == <<is_verified, context>>
reqVars  == <<settings, given, limit, requests>>

Steps == {"connected", "tunnelled", "wrapped", "chain", "name", "pin"}

Connecting == {"resolving", "dialling", "connecting", "tunnelling", "securing",
               "wrapping", "verifying"}
Talking    == {"sending", "receiving"}
Places     == Connecting \cup Talking \cup {"idle", "failed"}

Results == {"none", "ok", "error", "SSLError", "TypeError", "ConnectTimeoutError",
            "NewConnectionError"}

Contexts == [verify_mode : Modes, check_hostname : BOOLEAN]

------------------------------------------------------------------------------
(* ssl_helpers *)

ResolveCertReqs(candidate) == IF candidate \in Modes THEN candidate ELSE "REQUIRED"

CreateSSLContext(cert_reqs) ==
  [verify_mode |-> cert_reqs, check_hostname |-> cert_reqs = "REQUIRED"]

ContextOf(u) == IF settings[u].shared THEN SharedContext ELSE u

\* What connect() makes of the context before it wraps the socket.
Prepared(c, s) ==
  [ verify_mode    |-> IF s.fingerprint THEN "NONE" ELSE c.verify_mode,
    check_hostname |-> c.check_hostname /\ ~s.fingerprint /\ s.hostname ]

------------------------------------------------------------------------------

Init ==
  /\ \E x \in Scenarios : settings = x.settings /\ given = x.given
  /\ pc = [u \in Users |-> "idle"]
  /\ sock = [u \in Users |-> NoSock]
  /\ trying = [u \in Users |-> NoSock]
  /\ left = [u \in Users |-> 0]
  /\ err = [u \in Users |-> "none"]
  /\ limit = [u \in Users |-> Resolved(ConnectTimeout(given))]
  /\ timer = [u \in Users |-> Clone(given)]
  /\ is_verified = [u \in Users |-> FALSE]
  /\ context = [x \in Users \cup {SharedContext} |-> CreateSSLContext("REQUIRED")]
  /\ open = {}
  /\ done = [s \in Socks |-> {}]
  /\ result = [u \in Users |-> "none"]
  /\ requests = [u \in Users |-> 0]

Goto(u, place) == pc' = [pc EXCEPT ![u] = place]

\* An exception leaves the code of u with what it has stored so far.
Raise(u, exception) ==
  /\ Goto(u, "failed")
  /\ result' = [result EXCEPT ![u] = exception]

Wait(u, d) == timer' = [timer EXCEPT ![u] = After(@, d)]

\* The socket s is closed, and the work done on it is void.
CloseSock(s) ==
  /\ open' = open \ {s}
  /\ done' = [x \in Socks |-> IF x = s THEN {} ELSE done[x]]

\* The next place of a request that has entered the code of http.client.
OnSocket(u) == IF sock[u] = NoSock THEN "resolving" ELSE "sending"

\* HTTPSPool._new_conn: an object without a socket has been replaced by one that
\* has the same settings, and has not been verified.
Renewed(u) == is_verified' = [is_verified EXCEPT ![u] = @ /\ sock[u] # NoSock]

\* urlopen's own part: the Timeout is cloned, started and asked for the connect
\* timeout.  The timer of a clone does not run, so start_connect never raises here.
BeginPooled(u) ==
  /\ u \notin Direct
  /\ Renewed(u)
  /\ timer' = [timer EXCEPT ![u] = Started(Clone(given))]
  /\ limit' = [limit EXCEPT ![u] = ConnectTimeout(given)]
  /\ Goto(u, OnSocket(u))
  /\ result' = [result EXCEPT ![u] = "none"]

\* The user's own object keeps the timeout it was made with.
BeginDirect(u) ==
  /\ u \in Direct
  /\ Goto(u, OnSocket(u))
  /\ result' = [result EXCEPT ![u] = "none"]
  /\ UNCHANGED <<is_verified, timer, limit>>

Begin(u) ==
  /\ pc[u] = "idle"
  /\ requests[u] < MaxRequests
  /\ requests' = [requests EXCEPT ![u] = @ + 1]
  /\ BeginPooled(u) \/ BeginDirect(u)
  /\ UNCHANGED <<settings, given, sock, dialVars, context, open, done>>

------------------------------------------------------------------------------
(* _create_connection *)

\* socket.getaddrinfo; its gaierror and an empty list end in OSError, which
\* connect() turns into NewConnectionError.
Resolve(u) ==
  /\ pc[u] = "resolving"
  /\ err' = [err EXCEPT ![u] = "none"]
  /\ \/ /\ \E n \in 1..MaxAddresses : left' = [left EXCEPT ![u] = n]
        /\ Goto(u, "dialling")
        /\ UNCHANGED result
     \/ /\ Raise(u, "NewConnectionError")
        /\ UNCHANGED left
  /\ UNCHANGED <<reqVars, sock, trying, timer, tlsVars, open, done>>

\* _create_connection is over and its locals are gone.
LoopOver(u) ==
  /\ trying' = [trying EXCEPT ![u] = NoSock]
  /\ left' = [left EXCEPT ![u] = 0]
  /\ err' = [err EXCEPT ![u] = "none"]

\* A socket nobody has or refers to.
Unused  == Socks \ (open \cup {sock[v] : v \in Users})
NewSock == CHOOSE s \in Unused : TRUE

\* Mutated: every turn of the loop tries the first address.
DialFirst(u) ==
  /\ pc[u] = "dialling"
  /\ left[u] > 0
  /\ Unused # {}
  /\ open' = open \cup {NewSock}
  /\ \/ /\ limit[u] # Default
        /\ trying' = [trying EXCEPT ![u] = NewSock]
        /\ Goto(u, "connecting")
        /\ UNCHANGED <<left, err, result>>
     \/ /\ limit[u] = Default
        /\ LoopOver(u)
        /\ Raise(u, "TypeError")
  /\ UNCHANGED <<reqVars, sock, timer, tlsVars, done>>

\* The loop makes a socket for the next address and sets its options; the
\* sentinel as a timeout raises TypeError, which no except clause here knows.
Dial(u) ==
  /\ pc[u] = "dialling"
  /\ left[u] > 0
  /\ Unused # {}
  /\ open' = open \cup {NewSock}
  /\ \/ /\ limit[u] # Default
        /\ trying' = [trying EXCEPT ![u] = NewSock]
        /\ left' = [left EXCEPT ![u] = @ - 1]
        /\ Goto(u, "connecting")
        /\ UNCHANGED <<err, result>>
     \/ /\ limit[u] = Default
        /\ LoopOver(u)
        /\ Raise(u, "TypeError")
  /\ UNCHANGED <<reqVars, sock, timer, tlsVars, done>>

\* sock.connect succeeds, within the limit: connect() stores the socket.
Connected(u) ==
  /\ pc[u] = "connecting"
  /\ sock' = [sock EXCEPT ![u] = trying[u]]
  /\ LoopOver(u)
  /\ done' = [done EXCEPT ![trying[u]] = {"connected"}]
  /\ \E d \in {0, 1} : Wait(u, d)
  /\ Goto(u, IF settings[u].tunnel THEN "tunnelling"
             ELSE IF settings[u].https THEN "securing" ELSE "sending")
  /\ UNCHANGED <<reqVars, tlsVars, open, result>>

\* How long an attempt takes that times out; without a limit the system ends it.
Patience(u) == IF limit[u] = NoLimit THEN 1 ELSE limit[u]

\* Mutated: the socket of a failed attempt is not closed.
DialFailsOpen(u) ==
  /\ pc[u] = "connecting"
  /\ trying' = [trying EXCEPT ![u] = NoSock]
  /\ \/ Wait(u, Patience(u)) /\ err' = [err EXCEPT ![u] = "timeout"]
     \/ UNCHANGED timer /\ err' = [err EXCEPT ![u] = "refused"]
  /\ Goto(u, "dialling")
  /\ UNCHANGED <<reqVars, sock, left, tlsVars, open, done, result>>

\* An address times out, or fails in another way at once.
DialFails(u) ==
  /\ pc[u] = "connecting"
  /\ CloseSock(trying[u])
  /\ trying' = [trying EXCEPT ![u] = NoSock]
  /\ \/ Wait(u, Patience(u)) /\ err' = [err EXCEPT ![u] = "timeout"]
     \/ UNCHANGED timer /\ err' = [err EXCEPT ![u] = "refused"]
  /\ Goto(u, "dialling")
  /\ UNCHANGED <<reqVars, sock, left, tlsVars, result>>

\* The loop is over; connect() looks at the error of the last address alone.
GiveUp(u) ==
  /\ pc[u] = "dialling"
  /\ left[u] = 0
  /\ Raise(u, IF err[u] = "timeout" THEN "ConnectTimeoutError"
              ELSE "NewConnectionError")
  /\ LoopOver(u)
  /\ UNCHANGED <<reqVars, sock, timer, tlsVars, open, done>>

------------------------------------------------------------------------------
(* The tunnel and TLS *)

\* _tunnel: the proxy agrees; or it refuses, which closes the connection and
\* raises OSError; or the exchange breaks, which leaves the socket in place.
Tunnel(u) ==
  /\ pc[u] = "tunnelling"
  /\ \/ /\ done' = [done EXCEPT ![sock[u]] = @ \cup {"tunnelled"}]
        /\ Goto(u, IF settings[u].https THEN "securing" ELSE "sending")
        /\ UNCHANGED <<sock, open, result>>
     \/ /\ CloseSock(sock[u])
        /\ sock' = [sock EXCEPT ![u] = NoSock]
        /\ Raise(u, "error")
     \/ /\ Raise(u, "error")
        /\ UNCHANGED <<sock, open, done>>
  /\ UNCHANGED <<reqVars, dialVars, timer, tlsVars>>

\* The context: a new one for each connect, or the user's, which stays changed
\* for all who share it.  Loading certificates and keys may raise.
Secure(u) ==
  /\ pc[u] = "securing"
  /\ \/ /\ context' = [context EXCEPT ![ContextOf(u)] =
              Prepared(IF settings[u].shared THEN @
                       ELSE CreateSSLContext(ResolveCertReqs(settings[u].cert_reqs)),
                       settings[u])]
        /\ Goto(u, "wrapping")
        /\ UNCHANGED result
     \/ /\ settings[u].files
        /\ Raise(u, "error")
        /\ UNCHANGED context
  /\ UNCHANGED <<reqVars, sock, dialVars, timer, is_verified, open, done>>

\* What a handshake under the context c proves of the peer.
Proved(c) ==
  {"wrapped"} \cup (IF c.verify_mode = "NONE" THEN {} ELSE {"chain"})
              \cup (IF c.check_hostname THEN {"name"} ELSE {})

\* wrap_socket: the handshake proves what the context asks for at this moment;
\* or it fails and the socket is closed, while conn.sock still refers to it.
Wrap(u) ==
  /\ pc[u] = "wrapping"
  /\ \/ /\ done' = [done EXCEPT ![sock[u]] = @ \cup Proved(context[ContextOf(u)])]
        /\ Goto(u, "verifying")
        /\ UNCHANGED <<open, result>>
     \/ /\ CloseSock(sock[u])
        /\ Raise(u, "error")
  /\ UNCHANGED <<reqVars, sock, dialVars, timer, tlsVars>>

\* assert_fingerprint finds the digest it expects.
PinMatches(u) ==
  done' = IF settings[u].fingerprint
          THEN [done EXCEPT ![sock[u]] = @ \cup {"pin"}] ELSE done

\* It raises SSLError: another digest, or a length no hash function has.  The
\* socket stays stored and open.
PinRefused(u) ==
  /\ settings[u].fingerprint
  /\ Raise(u, "SSLError")
  /\ UNCHANGED <<is_verified, done>>

\* Mutated: a connection once verified stays so.
VerifySticks(u) ==
  /\ pc[u] = "verifying"
  /\ PinMatches(u)
  /\ is_verified' = [is_verified EXCEPT
                       ![u] = @ \/ context[ContextOf(u)].verify_mode = "REQUIRED"]
  /\ Goto(u, "sending")
  /\ UNCHANGED <<reqVars, sock, dialVars, timer, context, open, result>>

\* The fingerprint, and then is_verified from what the context says by now.
Verify(u) ==
  /\ pc[u] = "verifying"
  /\ \/ /\ PinMatches(u)
        /\ is_verified' = [is_verified EXCEPT
                             ![u] = context[ContextOf(u)].verify_mode = "REQUIRED"]
        /\ Goto(u, "sending")
        /\ UNCHANGED result
     \/ PinRefused(u)
  /\ UNCHANGED <<reqVars, sock, dialVars, timer, context, open>>

------------------------------------------------------------------------------
(* The exchange *)

\* The request is over, and with it its Timeout.
Leave(u) ==
  /\ Goto(u, "idle")
  /\ timer' = [timer EXCEPT ![u] = Clone(given)]

Send(u) ==
  /\ pc[u] = "sending"
  /\ Goto(u, "receiving")
  /\ UNCHANGED <<reqVars, sock, dialVars, timer, tlsVars, open, done, result>>

\* The response, read to its end; if it says so the connection is closed.
Receive(u) ==
  /\ pc[u] = "receiving"
  /\ Leave(u)
  /\ \/ UNCHANGED <<sock, open, done>>
     \/ /\ CloseSock(sock[u])
        /\ sock' = [sock EXCEPT ![u] = NoSock]
  /\ result' = [result EXCEPT ![u] = "ok"]
  /\ UNCHANGED <<reqVars, dialVars, tlsVars>>

\* The network or the server breaks the exchange, or a read times out.
Break(u) ==
  /\ pc[u] \in Talking
  /\ Raise(u, "error")
  /\ UNCHANGED <<reqVars, sock, dialVars, timer, tlsVars, open, done>>

\* Mutated: an exception leaves the connection as it is.
CloseAfterErrorForgotten(u) ==
  /\ pc[u] = "failed"
  /\ Leave(u)
  /\ UNCHANGED <<reqVars, sock, dialVars, tlsVars, open, done, result>>

\* The except clause of urlopen, and what a direct user does: conn.close().
CloseAfterError(u) ==
  /\ pc[u] = "failed"
  /\ IF sock[u] = NoSock THEN UNCHANGED <<sock, open, done>>
     ELSE /\ CloseSock(sock[u])
          /\ sock' = [sock EXCEPT ![u] = NoSock]
  /\ Leave(u)
  /\ UNCHANGED <<reqVars, dialVars, tlsVars, result>>

Finished == \A u \in Users : pc[u] = "idle" /\ requests[u] = MaxRequests

Terminated == Finished /\ UNCHANGED vars

------------------------------------------------------------------------------

Connect(u) == \/ Resolve(u) \/ Dial(u) \/ Connected(u) \/ DialFails(u) \/ GiveUp(u)
              \/ Tunnel(u) \/ Secure(u) \/ Wrap(u) \/ Verify(u)
Talk(u)    == Send(u) \/ Receive(u) \/ Break(u)

Next ==
  \/ \E u \in Users : Begin(u) \/ Connect(u) \/ Talk(u) \/ CloseAfterError(u)
  \/ Terminated

Spec == Init /\ [][Next]_vars

\* A thread in a request runs; each wait for the network ends in one way or
\* the other.  Nobody is obliged to make a request.
FairSpec ==
  /\ Spec
  /\ \A u \in Users : WF_vars(Connect(u) \/ Talk(u) \/ CloseAfterError(u))

------------------------------------------------------------------------------
(* Invariants *)

TypeOK ==
  /\ settings \in [Users -> Settings]
  /\ given \in Timeouts
  /\ pc \in [Users -> Places]
  /\ sock \in [Users -> Socks \cup {NoSock}]
  /\ trying \in [Users -> Socks \cup {NoSock}]
  /\ left \in [Users -> 0..MaxAddresses]
  /\ err \in [Users -> {"none", "timeout", "refused"}]
  /\ limit \in [Users -> Given]
  /\ timer \in [Users -> Timeouts]
  /\ is_verified \in [Users -> BOOLEAN]
  /\ context \in [Users \cup {SharedContext} -> Contexts]
  /\ open \subseteq Socks
  /\ done \in [Socks -> SUBSET Steps]
  /\ result \in [Users -> Results]
  /\ requests \in [Users -> 0..MaxRequests]

\* What the settings promise of a connection with a context of its own, and
\* what those with a shared one promise whatever the others do to it.
Promised(s) ==
  {"connected"}
    \cup (IF s.tunnel THEN {"tunnelled"} ELSE {})
    \cup (IF s.https THEN {"wrapped"} ELSE {})
    \cup (IF s.https /\ s.fingerprint THEN {"pin"} ELSE {})
    \cup (IF s.https /\ ~s.fingerprint /\ ~s.shared /\ s.cert_reqs # "NONE"
          THEN {"chain"} ELSE {})
    \cup (IF s.https /\ ~s.fingerprint /\ ~s.shared /\ s.hostname
               /\ s.cert_reqs \notin {"NONE", "OPTIONAL"}
          THEN {"name"} ELSE {})

\* No request goes out on a socket that has not been through every step its
\* settings ask for: an attempt that failed half-way leaves nothing that a
\* later request takes for a connection.
RequestOnCheckedConnection ==
  \A u \in Users : pc[u] \in Talking =>
    sock[u] \in open /\ Promised(settings[u]) \subseteq done[sock[u]]

\* Every open socket is some connection's, or the one _create_connection is
\* trying; and a connection between requests never keeps a closed one.
SocketsAccounted ==
  ConnectTimeout(given) # Default =>
    /\ \A s \in open : \E u \in Users : s \in {sock[u], trying[u]}
    /\ \A u \in Users : pc[u] = "idle" /\ sock[u] # NoSock => sock[u] \in open

\* is_verified is never true of a connection in use whose peer's certificate
\* was not verified, whatever other users of the same context do meanwhile
\* and however often the connection is opened again.
IsVerifiedTruthful ==
  \A u \in Users : pc[u] \in Talking /\ is_verified[u] => "chain" \in done[sock[u]]

\* While a request runs, the time its Timeout leaves for reading is the whole
\* rest of the total and no more, and never more than the read timeout.
ReadTimeoutFillsTotal ==
  \A u \in Users :
    LET t == timer[u]
        r == ReadTimeout(t)
    IN  t.ran # NotStarted /\ t.total # NoLimit =>
          /\ ConnectTimeout(t) <= t.total
          /\ r = 0 \/ t.ran + r <= t.total
          /\ t.ran + r < t.total => r = t.read

\* A request that leaves the timeout to the library is not refused for it.
DefaultTimeoutAccepted == \A u \in Users : result[u] # "TypeError"

------------------------------------------------------------------------------
(* Liveness *)

\* A request ends, whichever addresses fail and whatever step breaks.
EveryRequestEnds == \A u \in Users : pc[u] # "idle" ~> pc[u] = "idle"
=============================================================================
