-------------------------- MODULE ConnectionProofs --------------------------
(***************************************************************************)
(* Theorems about Connection, for any number of users, sockets, addresses  *)
(* and requests, and for whatever settings and timeouts they have.         *)
(***************************************************************************)
EXTENDS Connection, TLAPS

------------------------------------------------------------------------------
(* The inductive invariant, user by user *)

Unconnected == {"resolving", "dialling", "connecting"}
Handshaking == {"tunnelling", "securing", "wrapping", "verifying"}

\* The connection of u is one that a request may use as it is.
Ready(u) == pc[u] \in Talking \/ (pc[u] = "idle" /\ sock[u] # NoSock)

\* Where the socket of u is, step by step.
SockOK(u) ==
  /\ pc[u] \in Unconnected => sock[u] = NoSock
  /\ trying[u] # NoSock <=> pc[u] = "connecting"
  /\ pc[u] = "connecting" => trying[u] \in open
  /\ pc[u] \in Handshaking \/ Ready(u) => sock[u] \in open

\* No two users have or try one socket.
Apart(u, v) ==
  /\ u # v /\ sock[u] # NoSock => sock[u] # sock[v]
  /\ u # v /\ trying[u] # NoSock => trying[u] # trying[v]
  /\ trying[u] # NoSock => trying[u] # sock[v]

\* What has been done on the socket of u, step by step.
BeforeTls(s) == {"connected"} \cup (IF s.tunnel THEN {"tunnelled"} ELSE {})

OwnContext(s) == Prepared(CreateSSLContext(ResolveCertReqs(s.cert_reqs)), s)

ProgressOK(u) ==
  /\ pc[u] = "tunnelling" => "connected" \in done[sock[u]]
  /\ pc[u] \in {"securing", "wrapping", "verifying"} =>
       settings[u].https /\ BeforeTls(settings[u]) \subseteq done[sock[u]]
  /\ pc[u] = "wrapping" /\ ~settings[u].shared =>
       context[u] = OwnContext(settings[u])
  /\ pc[u] = "verifying" => Promised(settings[u]) \ {"pin"} \subseteq done[sock[u]]
  /\ Ready(u) => Promised(settings[u]) \subseteq done[sock[u]]

\* What is_verified says, and what it is about to say.
VerifiedOK(u) ==
  /\ pc[u] = "verifying" /\ context[ContextOf(u)].verify_mode = "REQUIRED" =>
       "chain" \in done[sock[u]]
  /\ ~settings[u].https => ~is_verified[u]
  /\ Ready(u) /\ is_verified[u] => "chain" \in done[sock[u]]

\* With a timeout that a socket takes no socket is lost.
NoneLost ==
  ConnectTimeout(given) # Default =>
    /\ \A u \in Users : limit[u] # Default
    /\ \A s \in open : \E u \in Users : s \in {sock[u], trying[u]}

UserOK(u) == SockOK(u) /\ ProgressOK(u) /\ VerifiedOK(u)

\* Attempts are timed: the sentinel never gets as far as sock.connect.
TypeInv == TypeOK /\ \A u \in Users : pc[u] = "connecting" => limit[u] # Default

IInv ==
  /\ TypeInv
  /\ \A u \in Users : UserOK(u)
  /\ \A u, v \in Users : Apart(u, v)
  /\ NoneLost

------------------------------------------------------------------------------
(* Timeouts *)

LEMMA TimeoutTypes ==
  ASSUME NEW t \in Timeouts
  PROVE  /\ Clone(t) \in Timeouts
         /\ Clone(t).ran = NotStarted
         /\ Started(Clone(t)) \in Timeouts
         /\ ConnectTimeout(t) \in Given
         /\ Resolved(ConnectTimeout(t)) \in Limits
         /\ \A d \in Nat : After(t, d) \in Timeouts
<1>1. /\ t.connect \in Given /\ t.read \in Given /\ t.total \in Limits
      /\ t.ran \in Nat \cup {NotStarted}
  BY DEF Timeouts
<1>2. Clone(t) \in Timeouts /\ Clone(t).ran = NotStarted
  BY <1>1 DEF Clone, NewTimeout, Timeouts
<1>3. Started(Clone(t)) \in Timeouts
  BY <1>1 DEF Clone, NewTimeout, Started, TimerAt, Timeouts
<1>4. ConnectTimeout(t) \in Given
  BY <1>1, TimeoutAssumption DEF ConnectTimeout, Given, Limits, Smaller
<1>5. Resolved(ConnectTimeout(t)) \in Limits
  BY <1>4 DEF Resolved, Given, Limits
<1>6. ASSUME NEW d \in Nat PROVE After(t, d) \in Timeouts
  BY <1>1, TimeoutAssumption DEF After, TimerAt, Timeouts
<1> QED
  BY <1>2, <1>3, <1>4, <1>5, <1>6

------------------------------------------------------------------------------
(* Type correctness *)

LEMMA InitTypeInv == Init => TypeInv
<1> SUFFICES ASSUME Init PROVE TypeInv
  OBVIOUS
<1>1. PICK x \in Scenarios : settings = x.settings /\ given = x.given
  BY DEF Init
<1>2. settings \in [Users -> Settings] /\ given \in Timeouts
  BY <1>1, ScenarioAssumption
<1>3. /\ Resolved(ConnectTimeout(given)) \in Given
      /\ Clone(given) \in Timeouts
  BY <1>2, TimeoutTypes DEF Given, Limits
<1>4. CreateSSLContext("REQUIRED") \in Contexts
  BY DEF CreateSSLContext, Contexts, Modes
<1> QED
  BY <1>2, <1>3, <1>4, ScenarioAssumption
  DEF Init, TypeInv, TypeOK, Places, Connecting, Talking, Results

LEMMA ContextTypes ==
  ASSUME TypeOK, NEW u \in Users
  PROVE  /\ ContextOf(u) \in Users \cup {SharedContext}
         /\ settings[u] \in Settings
         /\ \A c \in Contexts : Prepared(c, settings[u]) \in Contexts
         /\ \A r : CreateSSLContext(ResolveCertReqs(r)) \in Contexts
<1>1. settings[u] \in Settings
  BY DEF TypeOK
<1>2. \A c \in Contexts : Prepared(c, settings[u]) \in Contexts
  BY <1>1 DEF Prepared, Contexts, Settings, Modes
<1>3. \A r : CreateSSLContext(ResolveCertReqs(r)) \in Contexts
  BY DEF CreateSSLContext, ResolveCertReqs, Contexts, Modes
<1> QED
  BY <1>1, <1>2, <1>3 DEF ContextOf

LEMMA StepTypeInv == TypeInv /\ [Next]_vars => TypeInv'
<1> SUFFICES ASSUME TypeInv, [Next]_vars PROVE TypeInv'
  OBVIOUS
<1> USE DEF TypeInv, TypeOK, Goto, Raise, reqVars, dialVars, tlsVars,
        Places, Connecting, Talking, Results
<1>1. ASSUME NEW u \in Users, Begin(u) PROVE TypeInv'
  <2>1. requests' \in [Users -> 0..MaxRequests]
    <3>1. requests[u] + 1 \in 0..MaxRequests
      BY <1>1, ScenarioAssumption DEF Begin
    <3> QED
      BY <1>1, <3>1 DEF Begin
  <2>2. OnSocket(u) \in Places /\ OnSocket(u) # "connecting"
    BY DEF OnSocket
  <2>3. CASE BeginPooled(u)
    <3>1. /\ Clone(given) \in Timeouts
          /\ Clone(given).ran = NotStarted
          /\ Started(Clone(given)) \in Timeouts
          /\ ConnectTimeout(given) \in Given
      BY TimeoutTypes
    <3>2. /\ timer' = [timer EXCEPT ![u] = Started(Clone(given))]
          /\ limit' = [limit EXCEPT ![u] = ConnectTimeout(given)]
          /\ pc' = [pc EXCEPT ![u] = OnSocket(u)]
          /\ result' = [result EXCEPT ![u] = "none"]
          /\ is_verified' = [is_verified EXCEPT ![u] = @ /\ sock[u] # NoSock]
      BY <2>3, <3>1 DEF BeginPooled, Renewed
    <3>3. is_verified' \in [Users -> BOOLEAN]
      <4>1. (is_verified[u] /\ sock[u] # NoSock) \in BOOLEAN
        OBVIOUS
      <4> QED
        BY <3>2, <4>1, Zenon
    <3>4. pc' \in [Users -> Places] /\ \A v \in Users : pc'[v] = "connecting" => v # u
      BY <2>2, <3>2
    <3>5. \A v \in Users : v # u => limit'[v] = limit[v] /\ pc'[v] = pc[v]
      BY <3>2
    <3> QED
      BY <1>1, <2>1, <3>1, <3>2, <3>3, <3>4, <3>5 DEF Begin
  <2>4. CASE BeginDirect(u)
    BY <1>1, <2>1, <2>2, <2>4 DEF Begin, BeginDirect
  <2> QED
    BY <1>1, <2>3, <2>4 DEF Begin
<1>2. ASSUME NEW u \in Users, Resolve(u) PROVE TypeInv'
  BY <1>2, ScenarioAssumption DEF Resolve
<1>3. ASSUME NEW u \in Users, Dial(u) PROVE TypeInv'
  <2>1. NewSock \in Socks
    BY <1>3 DEF Dial, NewSock, Unused
  <2>2. CASE limit[u] = Default
    BY <1>3, <2>1, <2>2, ScenarioAssumption DEF Dial, LoopOver
  <2>3. CASE limit[u] # Default
    <3>1. left[u] - 1 \in 0..MaxAddresses
      BY <1>3, ScenarioAssumption DEF Dial
    <3> QED
      BY <1>3, <2>1, <2>3, <3>1 DEF Dial
  <2> QED
    BY <2>2, <2>3
<1>4. ASSUME NEW u \in Users, Connected(u) PROVE TypeInv'
  <2>1. timer' \in [Users -> Timeouts]
    <3>1. PICK d \in {0, 1} : Wait(u, d)
      BY <1>4 DEF Connected
    <3>2. After(timer[u], d) \in Timeouts
      BY TimeoutTypes
    <3> QED
      BY <3>1, <3>2 DEF Wait
  <2>2. done' \in [Socks -> SUBSET Steps]
    <3>1. {"connected"} \in SUBSET Steps
      BY DEF Steps
    <3> QED
      BY <1>4, <3>1 DEF Connected
  <2>3. /\ pc' \in [Users -> Places]
        /\ \A v \in Users : pc'[v] = "connecting" => pc[v] = "connecting"
    BY <1>4 DEF Connected
  <2>4. UNCHANGED <<settings, given, limit, is_verified, context, open, result, requests>>
    BY <1>4 DEF Connected
  <2>5. /\ sock' \in [Users -> Socks \cup {NoSock}]
        /\ trying' \in [Users -> Socks \cup {NoSock}]
        /\ left' \in [Users -> 0..MaxAddresses]
        /\ err' \in [Users -> {"none", "timeout", "refused"}]
    BY <1>4, ScenarioAssumption DEF Connected, LoopOver
  <2> QED
    BY <2>1, <2>2, <2>3, <2>4, <2>5
<1>5. ASSUME NEW u \in Users, DialFails(u) PROVE TypeInv'
  <2>1. Patience(u) \in Nat
    <3>1. limit[u] \in Given /\ limit[u] # Default
      BY <1>5 DEF DialFails
    <3> QED
      BY <3>1 DEF Patience, Given
  <2>2. timer' \in [Users -> Timeouts]
    <3>1. After(timer[u], Patience(u)) \in Timeouts
      BY <2>1, TimeoutTypes
    <3> QED
      BY <1>5, <3>1 DEF DialFails, Wait
  <2> QED
    BY <1>5, <2>2 DEF DialFails, CloseSock
<1>6. ASSUME NEW u \in Users, GiveUp(u) PROVE TypeInv'
  BY <1>6, ScenarioAssumption DEF GiveUp, LoopOver
<1>7. ASSUME NEW u \in Users, Tunnel(u) PROVE TypeInv'
  BY <1>7 DEF Tunnel, CloseSock, Steps
<1>8. ASSUME NEW u \in Users, Secure(u) PROVE TypeInv'
  <2>1. context' \in [Users \cup {SharedContext} -> Contexts]
    BY <1>8, ContextTypes DEF Secure
  <2> QED
    BY <1>8, <2>1 DEF Secure
<1>9. ASSUME NEW u \in Users, Wrap(u) PROVE TypeInv'
  BY <1>9 DEF Wrap, CloseSock, Steps, Proved
<1>10. ASSUME NEW u \in Users, Verify(u) PROVE TypeInv'
  <2>1. is_verified' \in [Users -> BOOLEAN]
    <3>1. (context[ContextOf(u)].verify_mode = "REQUIRED") \in BOOLEAN
      OBVIOUS
    <3> QED
      BY <1>10, <3>1, Zenon DEF Verify, PinRefused
  <2>2. done' \in [Socks -> SUBSET Steps]
    BY <1>10 DEF Verify, PinMatches, PinRefused, Steps
  <2> QED
    BY <1>10, <2>1, <2>2 DEF Verify, PinRefused
<1>11. ASSUME NEW u \in Users, Send(u) PROVE TypeInv'
  BY <1>11 DEF Send
<1>12. ASSUME NEW u \in Users, Receive(u) PROVE TypeInv'
  <2>1. timer' \in [Users -> Timeouts] /\ pc' = [pc EXCEPT ![u] = "idle"]
    BY <1>12, TimeoutTypes DEF Receive, Leave
  <2> QED
    BY <1>12, <2>1 DEF Receive, CloseSock
<1>13. ASSUME NEW u \in Users, Break(u) PROVE TypeInv'
  BY <1>13 DEF Break
<1>14. ASSUME NEW u \in Users, CloseAfterError(u) PROVE TypeInv'
  <2>1. timer' \in [Users -> Timeouts] /\ pc' = [pc EXCEPT ![u] = "idle"]
    BY <1>14, TimeoutTypes DEF CloseAfterError, Leave
  <2> QED
    BY <1>14, <2>1 DEF CloseAfterError, CloseSock
<1>15. CASE UNCHANGED vars
  BY <1>15 DEF vars
<1> QED
  BY <1>1, <1>2, <1>3, <1>4, <1>5, <1>6, <1>7, <1>8, <1>9, <1>10, <1>11, <1>12,
     <1>13, <1>14, <1>15
  DEF Next, Connect, Talk, Terminated

------------------------------------------------------------------------------
(* What a step of one user leaves alone *)

Acts(u) == Begin(u) \/ Connect(u) \/ Talk(u) \/ CloseAfterError(u)

\* Of another user's connection: everything but a context that both share, and
\* of that context verify_mode is never made stricter.
LeavesAlone(u, v) ==
  /\ settings' = settings /\ given' = given
  /\ pc'[v] = pc[v] /\ sock'[v] = sock[v] /\ trying'[v] = trying[v]
  /\ is_verified'[v] = is_verified[v]
  /\ \A s \in open \ {sock[u], trying[u]} : s \in open' /\ done'[s] = done[s]
  /\ ~settings[v].shared => context'[v] = context[v]
  /\ context'[ContextOf(v)].verify_mode = "REQUIRED" =>
       context[ContextOf(v)].verify_mode = "REQUIRED"

LEMMA OthersLeftAlone ==
  ASSUME TypeInv, NEW u \in Users, NEW v \in Users, u # v, Acts(u)
  PROVE  LeavesAlone(u, v)
<1> USE DEF TypeInv, TypeOK, Goto, Raise, reqVars, dialVars, tlsVars, LeavesAlone
<1>1. CASE Begin(u)
  BY <1>1 DEF Begin, BeginPooled, BeginDirect, Renewed
<1>2. CASE Resolve(u)
  BY <1>2 DEF Resolve
<1>3. CASE Dial(u)
  BY <1>3 DEF Dial, LoopOver
<1>4. CASE Connected(u)
  BY <1>4 DEF Connected, LoopOver
<1>5. CASE DialFails(u)
  BY <1>5 DEF DialFails, CloseSock
<1>6. CASE GiveUp(u)
  BY <1>6 DEF GiveUp, LoopOver
<1>7. CASE Tunnel(u)
  BY <1>7 DEF Tunnel, CloseSock
<1>8. CASE Secure(u)
  <2>1. /\ UNCHANGED <<settings, given, sock, trying, is_verified, open, done>>
        /\ pc'[v] = pc[v]
    BY <1>8 DEF Secure
  <2>2. CASE UNCHANGED context
    BY <2>1, <2>2
  <2>3. CASE ~UNCHANGED context
    <3> DEFINE own == CreateSSLContext(ResolveCertReqs(settings[u].cert_reqs))
               old == IF settings[u].shared THEN context[ContextOf(u)] ELSE own
    <3>1. context' = [context EXCEPT ![ContextOf(u)] = Prepared(old, settings[u])]
      BY <1>8, <2>3 DEF Secure
    <3>2. ~settings[v].shared => context'[v] = context[v]
      BY <3>1, UserAssumption DEF ContextOf
    <3>3. CASE ContextOf(v) # ContextOf(u)
      BY <2>1, <3>1, <3>2, <3>3, ContextTypes
    <3>4. CASE ContextOf(v) = ContextOf(u)
      <4>1. settings[u].shared
        BY <3>4, UserAssumption DEF ContextOf
      <4>2. context'[ContextOf(u)] = Prepared(context[ContextOf(u)], settings[u])
        BY <3>1, <4>1, ContextTypes
      <4>3. context'[ContextOf(u)].verify_mode = "REQUIRED" =>
              context[ContextOf(u)].verify_mode = "REQUIRED"
        BY <4>2 DEF Prepared
      <4> QED
        BY <2>1, <3>2, <3>4, <4>3
    <3> QED
      BY <3>3, <3>4
  <2> QED
    BY <2>2, <2>3
<1>9. CASE Wrap(u)
  BY <1>9 DEF Wrap, CloseSock
<1>10. CASE Verify(u)
  BY <1>10 DEF Verify, PinMatches, PinRefused
<1>11. CASE Send(u)
  BY <1>11 DEF Send
<1>12. CASE Receive(u)
  BY <1>12 DEF Receive, Leave, CloseSock
<1>13. CASE Break(u)
  BY <1>13 DEF Break
<1>14. CASE CloseAfterError(u)
  BY <1>14 DEF CloseAfterError, Leave, CloseSock
<1> QED
  BY <1>1, <1>2, <1>3, <1>4, <1>5, <1>6, <1>7, <1>8, <1>9, <1>10, <1>11, <1>12,
     <1>13, <1>14
  DEF Acts, Connect, Talk

\* So what holds of the other users goes on holding.
LEMMA OthersStayOK ==
  ASSUME IInv, NEW u \in Users, NEW v \in Users, u # v, LeavesAlone(u, v)
  PROVE  UserOK(v)'
<1>1. /\ UserOK(v) /\ UserOK(u) /\ TypeOK
      /\ Apart(u, v) /\ Apart(v, u)
  BY DEF IInv, TypeInv
<1>2. /\ settings' = settings
      /\ pc'[v] = pc[v] /\ sock'[v] = sock[v] /\ trying'[v] = trying[v]
      /\ is_verified'[v] = is_verified[v]
  BY DEF LeavesAlone
<1>3. ASSUME sock[v] \in open
      PROVE  sock[v] \in open' /\ done'[sock[v]] = done[sock[v]]
  <2>1. sock[v] # NoSock
    BY <1>1, <1>3, SockAssumption DEF TypeOK
  <2>2. sock[v] # sock[u] /\ sock[v] # trying[u]
    BY <1>1, <2>1 DEF Apart
  <2> QED
    BY <1>3, <2>2 DEF LeavesAlone
<1>4. ASSUME trying[v] \in open, trying[v] # NoSock
      PROVE  trying[v] \in open'
  <2>1. trying[v] # sock[u] /\ trying[v] # trying[u]
    BY <1>1, <1>4 DEF Apart
  <2> QED
    BY <1>4, <2>1 DEF LeavesAlone
<1>5. SockOK(v)'
  BY <1>1, <1>2, <1>3, <1>4 DEF UserOK, SockOK, Ready
<1>6. ProgressOK(v)'
  <2>1. pc[v] \in Handshaking \/ Ready(v) =>
          sock[v] \in open /\ done'[sock'[v]] = done[sock[v]]
    BY <1>1, <1>2, <1>3 DEF UserOK, SockOK
  <2>2. ~settings[v].shared => context'[v] = context[v]
    BY DEF LeavesAlone
  <2> QED
    BY <1>1, <1>2, <2>1, <2>2 DEF UserOK, ProgressOK, Handshaking, Ready
<1>7. VerifiedOK(v)'
  <2>1. pc[v] \in Handshaking \/ Ready(v) =>
          sock[v] \in open /\ done'[sock'[v]] = done[sock[v]]
    BY <1>1, <1>2, <1>3 DEF UserOK, SockOK
  <2>2. /\ ContextOf(v)' = ContextOf(v)
        /\ context'[ContextOf(v)].verify_mode = "REQUIRED" =>
             context[ContextOf(v)].verify_mode = "REQUIRED"
    BY <1>2 DEF LeavesAlone, ContextOf
  <2> QED
    BY <1>1, <1>2, <2>1, <2>2 DEF UserOK, VerifiedOK, Handshaking, Ready
<1> QED
  BY <1>5, <1>6, <1>7 DEF UserOK

------------------------------------------------------------------------------
(* What a step does to the connection of its own user *)

LEMMA OwnStaysOK ==
  ASSUME IInv, NEW u \in Users, Acts(u)
  PROVE  UserOK(u)'
<1>0. TypeOK /\ SockOK(u) /\ ProgressOK(u) /\ VerifiedOK(u)
  BY DEF IInv, TypeInv, UserOK
<1> USE DEF SockOK, ProgressOK, VerifiedOK, Ready, Unconnected, Handshaking, Talking,
        Goto, Raise, reqVars, dialVars, tlsVars
<1>1. CASE Begin(u)
  <2>1. /\ pc[u] = "idle"
        /\ UNCHANGED <<settings, sock, trying, context, open, done>>
    BY <1>1 DEF Begin
  <2>2. pc'[u] \in {OnSocket(u), "failed"}
    BY <1>0, <1>1 DEF Begin, BeginPooled, BeginDirect, TypeOK
  <2>3. is_verified'[u] => is_verified[u]
    BY <1>0, <1>1 DEF Begin, BeginPooled, BeginDirect, Renewed, TypeOK
  <2> QED
    BY <1>0, <2>1, <2>2, <2>3 DEF UserOK, OnSocket
<1>2. CASE Resolve(u)
  <2>1. /\ pc[u] = "resolving" /\ pc'[u] \in {"dialling", "failed"}
        /\ UNCHANGED <<settings, sock, trying, is_verified, context, open, done>>
    BY <1>0, <1>2 DEF Resolve, TypeOK
  <2> QED
    BY <1>0, <2>1 DEF UserOK
<1>3. CASE Dial(u)
  <2>1. NewSock \in Unused
    BY <1>3 DEF Dial, NewSock
  <2>2. /\ pc[u] = "dialling"
        /\ \/ pc'[u] = "connecting" /\ trying'[u] = NewSock
           \/ pc'[u] = "failed" /\ trying'[u] = NoSock
        /\ open' = open \cup {NewSock}
        /\ UNCHANGED <<settings, sock, is_verified, context, done>>
    BY <1>0, <1>3 DEF Dial, LoopOver, TypeOK
  <2> QED
    BY <1>0, <2>1, <2>2, SockAssumption DEF UserOK, Unused
<1>4. CASE Connected(u)
  <2>1. /\ pc[u] = "connecting" /\ sock'[u] = trying[u] /\ trying'[u] = NoSock
        /\ trying[u] \in open /\ trying[u] \in Socks
        /\ pc'[u] = IF settings[u].tunnel THEN "tunnelling"
                    ELSE IF settings[u].https THEN "securing" ELSE "sending"
        /\ UNCHANGED <<settings, is_verified, context, open>>
    BY <1>0, <1>4 DEF Connected, LoopOver, TypeOK
  <2>2. done'[sock'[u]] = {"connected"}
    BY <1>0, <1>4, <2>1 DEF Connected, TypeOK
  <2> QED
    BY <1>0, <2>1, <2>2 DEF UserOK, BeforeTls, Promised
<1>5. CASE DialFails(u)
  <2>1. /\ pc[u] = "connecting" /\ pc'[u] = "dialling" /\ trying'[u] = NoSock
        /\ UNCHANGED <<settings, sock, is_verified, context>>
    BY <1>0, <1>5 DEF DialFails, TypeOK
  <2> QED
    BY <1>0, <2>1 DEF UserOK
<1>6. CASE GiveUp(u)
  <2>1. /\ pc[u] = "dialling" /\ pc'[u] = "failed" /\ trying'[u] = NoSock
        /\ UNCHANGED <<settings, sock, is_verified, context>>
    BY <1>0, <1>6 DEF GiveUp, LoopOver, TypeOK
  <2> QED
    BY <1>0, <2>1 DEF UserOK
<1>7. CASE Tunnel(u)
  <2>1. /\ pc[u] = "tunnelling" /\ sock[u] \in open /\ sock[u] \in Socks
        /\ UNCHANGED <<settings, trying, is_verified, context>>
    BY <1>0, <1>7 DEF Tunnel, TypeOK
  <2>2. \/ /\ pc'[u] = IF settings[u].https THEN "securing" ELSE "sending"
           /\ UNCHANGED <<sock, open>>
           /\ done'[sock[u]] = done[sock[u]] \cup {"tunnelled"}
        \/ pc'[u] = "failed"
    BY <1>0, <1>7, <2>1 DEF Tunnel, TypeOK
  <2> QED
    BY <1>0, <2>1, <2>2 DEF UserOK, BeforeTls, Promised
<1>8. CASE Secure(u)
  <2>1. /\ pc[u] = "securing"
        /\ UNCHANGED <<settings, sock, trying, is_verified, open, done>>
        /\ pc'[u] \in {"wrapping", "failed"}
    BY <1>0, <1>8 DEF Secure, TypeOK
  <2>2. pc'[u] = "wrapping" /\ ~settings[u].shared =>
          context'[u] = OwnContext(settings[u])
    BY <1>0, <1>8 DEF Secure, TypeOK, ContextOf, OwnContext
  <2> QED
    BY <1>0, <2>1, <2>2 DEF UserOK
<1>9. CASE Wrap(u)
  <2>1. /\ pc[u] = "wrapping" /\ sock[u] \in open /\ sock[u] \in Socks
        /\ settings[u] \in Settings
        /\ UNCHANGED <<settings, sock, trying, is_verified, context>>
    BY <1>0, <1>9 DEF Wrap, TypeOK
  <2>2. CASE pc'[u] = "failed"
    BY <1>0, <2>1, <2>2 DEF UserOK
  <2>3. CASE pc'[u] # "failed"
    <3> DEFINE c == context[ContextOf(u)]
    <3>1. /\ pc'[u] = "verifying" /\ UNCHANGED open
          /\ done'[sock[u]] = done[sock[u]] \cup Proved(c)
      BY <1>0, <1>9, <2>1, <2>3 DEF Wrap, TypeOK
    <3>2. ~settings[u].shared => c = OwnContext(settings[u])
      BY <1>0, <2>1 DEF ContextOf
    <3>3. Promised(settings[u]) \ {"pin"} \subseteq BeforeTls(settings[u]) \cup Proved(c)
      <4>1. ~settings[u].shared /\ ~settings[u].fingerprint
              /\ settings[u].cert_reqs # "NONE" => c.verify_mode # "NONE"
        BY <2>1, <3>2
        DEF OwnContext, Prepared, CreateSSLContext, ResolveCertReqs, Settings, Modes
      <4>2. ~settings[u].shared /\ ~settings[u].fingerprint /\ settings[u].hostname
              /\ settings[u].cert_reqs \notin {"NONE", "OPTIONAL"} => c.check_hostname
        BY <2>1, <3>2
        DEF OwnContext, Prepared, CreateSSLContext, ResolveCertReqs, Settings, Modes
      <4> QED
        BY <1>0, <2>1, <4>1, <4>2 DEF Promised, BeforeTls, Proved
    <3>4. c.verify_mode = "REQUIRED" => "chain" \in Proved(c)
      BY DEF Proved
    <3>5. ContextOf(u)' = ContextOf(u)
      BY <2>1 DEF ContextOf
    <3> QED
      BY <1>0, <2>1, <3>1, <3>3, <3>4, <3>5 DEF UserOK
  <2> QED
    BY <2>2, <2>3
<1>10. CASE Verify(u)
  <2>1. /\ pc[u] = "verifying" /\ sock[u] \in open /\ sock[u] \in Socks
        /\ UNCHANGED <<settings, sock, trying, context, open>>
    BY <1>0, <1>10 DEF Verify, TypeOK
  <2>2. CASE PinRefused(u)
    BY <1>0, <2>1, <2>2 DEF UserOK, PinRefused, TypeOK
  <2>3. CASE ~PinRefused(u)
    <3>1. /\ pc'[u] = "sending"
          /\ is_verified'[u] <=> context[ContextOf(u)].verify_mode = "REQUIRED"
          /\ PinMatches(u)
      BY <1>0, <1>10, <2>3 DEF Verify, TypeOK
    <3>2. /\ done[sock[u]] \subseteq done'[sock[u]]
          /\ settings[u].fingerprint => "pin" \in done'[sock[u]]
      BY <1>0, <2>1, <3>1 DEF PinMatches, TypeOK
    <3>3. Promised(settings[u]) \subseteq done'[sock[u]]
      <4>1. "pin" \in Promised(settings[u]) => settings[u].fingerprint
        BY DEF Promised
      <4> QED
        BY <1>0, <2>1, <3>2, <4>1
    <3> QED
      BY <1>0, <2>1, <3>1, <3>2, <3>3 DEF UserOK
  <2> QED
    BY <2>2, <2>3
<1>11. CASE Send(u)
  BY <1>0, <1>11 DEF Send, UserOK, TypeOK
<1>12. CASE Receive(u)
  <2>1. /\ pc[u] = "receiving" /\ pc'[u] = "idle"
        /\ UNCHANGED <<settings, trying, is_verified, context>>
        /\ sock'[u] = NoSock \/ UNCHANGED <<sock, open, done>>
    BY <1>0, <1>12 DEF Receive, Leave, TypeOK
  <2> QED
    BY <1>0, <2>1 DEF UserOK
<1>13. CASE Break(u)
  BY <1>0, <1>13 DEF Break, UserOK, TypeOK
<1>14. CASE CloseAfterError(u)
  <2>1. /\ pc[u] = "failed" /\ pc'[u] = "idle" /\ sock'[u] = NoSock
        /\ UNCHANGED <<settings, trying, is_verified, context>>
    BY <1>0, <1>14 DEF CloseAfterError, Leave, TypeOK
  <2> QED
    BY <1>0, <2>1 DEF UserOK
<1> QED
  BY <1>1, <1>2, <1>3, <1>4, <1>5, <1>6, <1>7, <1>8, <1>9, <1>10, <1>11, <1>12,
     <1>13, <1>14
  DEF Acts, Connect, Talk

------------------------------------------------------------------------------
(* Where the sockets go *)

\* A step of u leaves its sockets, gives up some of them, makes a new one, or
\* turns the one it tries into the connection's.
Moves(u) ==
  /\ \A v \in Users \ {u} : sock'[v] = sock[v] /\ trying'[v] = trying[v]
  /\ \/ /\ sock'[u] \in {sock[u], NoSock} /\ trying'[u] \in {trying[u], NoSock}
        /\ open' \subseteq open
        /\ sock'[u] # sock[u] => sock[u] \notin open'
        /\ trying'[u] # trying[u] => trying[u] \notin open'
     \/ /\ sock'[u] = sock[u] /\ trying[u] = NoSock
        /\ trying'[u] = NewSock \/ (limit[u] = Default /\ trying'[u] = NoSock)
        /\ NewSock \in Unused /\ open' = open \cup {NewSock}
     \/ /\ sock'[u] = trying[u] /\ trying'[u] = NoSock
        /\ sock[u] = NoSock /\ trying[u] # NoSock /\ open' = open

LEMMA SocketMoves ==
  ASSUME IInv, NEW u \in Users, Acts(u)
  PROVE  Moves(u)
<1>0. TypeOK /\ SockOK(u)
  BY DEF IInv, TypeInv, UserOK
<1> USE DEF TypeOK, dialVars
<1>1. CASE Begin(u)
  BY <1>0, <1>1 DEF Begin, Moves
<1>2. CASE Resolve(u)
  BY <1>0, <1>2 DEF Resolve, Moves
<1>3. CASE Dial(u)
  <2>1. trying[u] = NoSock
    BY <1>0, <1>3 DEF Dial, SockOK
  <2>2. NewSock \in Unused
    BY <1>3 DEF Dial, NewSock
  <2>3. /\ UNCHANGED sock /\ open' = open \cup {NewSock}
        /\ \/ trying' = [trying EXCEPT ![u] = NewSock]
           \/ limit[u] = Default /\ trying' = [trying EXCEPT ![u] = NoSock]
    BY <1>3 DEF Dial, LoopOver
  <2>4. \A v \in Users \ {u} : sock'[v] = sock[v] /\ trying'[v] = trying[v]
    BY <1>0, <2>3
  <2>5. /\ sock'[u] = sock[u]
        /\ trying'[u] = NewSock \/ (limit[u] = Default /\ trying'[u] = NoSock)
    BY <1>0, <2>3
  <2> HIDE DEF TypeOK
  <2> QED
    BY <2>1, <2>2, <2>3, <2>4, <2>5 DEF Moves
<1>4. CASE Connected(u)
  BY <1>0, <1>4 DEF Connected, LoopOver, SockOK, Unconnected, Moves
<1>5. CASE DialFails(u)
  BY <1>0, <1>5 DEF DialFails, CloseSock, Moves
<1>6. CASE GiveUp(u)
  <2>1. trying[u] = NoSock
    BY <1>0, <1>6 DEF GiveUp, SockOK
  <2> QED
    BY <1>0, <1>6, <2>1 DEF GiveUp, LoopOver, Moves
<1>7. CASE Tunnel(u)
  BY <1>0, <1>7 DEF Tunnel, CloseSock, Moves
<1>8. CASE Secure(u)
  BY <1>0, <1>8 DEF Secure, Moves
<1>9. CASE Wrap(u)
  BY <1>0, <1>9 DEF Wrap, CloseSock, Moves
<1>10. CASE Verify(u)
  BY <1>0, <1>10 DEF Verify, Moves
<1>11. CASE Send(u)
  BY <1>0, <1>11 DEF Send, Moves
<1>12. CASE Receive(u)
  BY <1>0, <1>12 DEF Receive, CloseSock, Moves
<1>13. CASE Break(u)
  BY <1>0, <1>13 DEF Break, Moves
<1>14. CASE CloseAfterError(u)
  BY <1>0, <1>14 DEF CloseAfterError, CloseSock, Moves
<1> QED
  BY <1>1, <1>2, <1>3, <1>4, <1>5, <1>6, <1>7, <1>8, <1>9, <1>10, <1>11, <1>12,
     <1>13, <1>14
  DEF Acts, Connect, Talk

LEMMA StayApart ==
  ASSUME IInv, NEW u \in Users, Moves(u)
  PROVE  \A v, w \in Users : Apart(v, w)'
<1> SUFFICES ASSUME NEW v \in Users, NEW w \in Users PROVE Apart(v, w)'
  OBVIOUS
<1>1. \A x, y \in Users : Apart(x, y)
  BY DEF IInv
<1>2. \A x \in Users : trying[x] # NoSock => trying[x] \in open
  BY DEF IInv, UserOK, SockOK
<1>3. \A x \in Users \ {u} : sock'[x] = sock[x] /\ trying'[x] = trying[x]
  BY DEF Moves
<1>4. CASE /\ sock'[u] \in {sock[u], NoSock} /\ trying'[u] \in {trying[u], NoSock}
  BY <1>1, <1>3, <1>4 DEF Apart
<1>5. CASE /\ sock'[u] = sock[u] /\ trying[u] = NoSock
           /\ trying'[u] \in {NewSock, NoSock} /\ NewSock \in Unused
  <2>1. \A x \in Users : NewSock # sock[x] /\ NewSock # trying[x]
    BY <1>2, <1>5, SockAssumption DEF Unused
  <2> QED
    BY <1>1, <1>3, <1>5, <2>1 DEF Apart
<1>6. CASE sock'[u] = trying[u] /\ trying'[u] = NoSock /\ trying[u] # NoSock
  BY <1>1, <1>3, <1>6 DEF Apart
<1> QED
  BY <1>4, <1>5, <1>6 DEF Moves

LEMMA StayAccounted ==
  ASSUME IInv, NEW u \in Users, Acts(u), Moves(u)
  PROVE  NoneLost'
<1> SUFFICES ASSUME ConnectTimeout(given)' # Default PROVE
      /\ \A v \in Users : limit'[v] # Default
      /\ \A s \in open' : \E v \in Users : s \in {sock'[v], trying'[v]}
  BY DEF NoneLost
<1>1. given' = given
  BY DEF Acts, Connect, Talk, reqVars, Begin, Resolve, Dial, Connected, DialFails,
         GiveUp, Tunnel, Secure, Wrap, Verify, Send, Receive, Break, CloseAfterError
<1>2. ConnectTimeout(given) # Default
  BY <1>1 DEF ConnectTimeout
<1>3. /\ \A v \in Users : limit[v] # Default
      /\ \A s \in open : \E v \in Users : s \in {sock[v], trying[v]}
      /\ TypeOK
  BY <1>2 DEF IInv, NoneLost, TypeInv
<1>4. ASSUME NEW v \in Users PROVE limit'[v] # Default
  <2>1. CASE Begin(u)
    BY <1>2, <1>3, <2>1 DEF Begin, BeginPooled, BeginDirect, TypeOK
  <2>2. CASE ~Begin(u)
    <3>1. UNCHANGED limit
      BY <2>2 DEF Acts, Connect, Talk, reqVars, Resolve, Dial, Connected, DialFails,
         GiveUp, Tunnel, Secure, Wrap, Verify, Send, Receive, Break, CloseAfterError
    <3> QED
      BY <1>3, <3>1
  <2> QED
    BY <2>1, <2>2
<1>5. ASSUME NEW s \in open'
      PROVE  \E v \in Users : s \in {sock'[v], trying'[v]}
  <2>1. CASE s \in open
    <3>1. PICK v \in Users : s \in {sock[v], trying[v]}
      BY <1>3, <2>1
    <3>2. CASE v # u
      BY <3>1, <3>2 DEF Moves
    <3>3. CASE v = u
      <4>1. s # NoSock
        BY <1>3, <2>1, SockAssumption DEF TypeOK
      <4> QED
        BY <1>3, <1>5, <3>1, <3>3, <4>1 DEF Moves
    <3> QED
      BY <3>2, <3>3
  <2>2. CASE s \notin open
    BY <1>3, <1>5, <2>2 DEF Moves
  <2> QED
    BY <2>1, <2>2
<1> QED
  BY <1>4, <1>5

------------------------------------------------------------------------------
(* The invariant *)

LEMMA InitIInv == Init => IInv
<1> SUFFICES ASSUME Init PROVE IInv
  OBVIOUS
<1>1. TypeInv
  BY InitTypeInv
<1>2. ASSUME NEW u \in Users PROVE UserOK(u)
  BY DEF Init, UserOK, SockOK, ProgressOK, VerifiedOK, Ready, Unconnected, Handshaking,
         Talking
<1>3. ASSUME NEW u \in Users, NEW v \in Users PROVE Apart(u, v)
  BY DEF Init, Apart
<1>4. NoneLost
  <2>1. Resolved(ConnectTimeout(given)) \in Limits
    BY <1>1, TimeoutTypes DEF TypeInv, TypeOK
  <2>2. Default \notin Limits
    BY TimeoutAssumption DEF Limits
  <2> QED
    BY <2>1, <2>2 DEF NoneLost, Init
<1> QED
  BY <1>1, <1>2, <1>3, <1>4 DEF IInv

LEMMA NobodyActs ==
  ASSUME IInv, UNCHANGED vars
  PROVE  (\A u \in Users : UserOK(u)') /\ (\A u, v \in Users : Apart(u, v)') /\ NoneLost'
<1>1. UNCHANGED <<settings, given, pc, sock, trying, limit, is_verified, context, open, done>>
  BY DEF vars, dialVars, tlsVars
<1>2. ASSUME NEW u \in Users PROVE UserOK(u)'
  BY <1>1, <1>2 DEF IInv, UserOK, SockOK, ProgressOK, VerifiedOK, Ready, ContextOf
<1>3. ASSUME NEW u \in Users, NEW v \in Users PROVE Apart(u, v)'
  BY <1>1 DEF IInv, Apart
<1>4. NoneLost'
  BY <1>1 DEF IInv, NoneLost, ConnectTimeout
<1> QED
  BY <1>2, <1>3, <1>4

LEMMA StepIInv == IInv /\ [Next]_vars => IInv'
<1> SUFFICES ASSUME IInv, [Next]_vars PROVE IInv'
  OBVIOUS
<1>1. TypeInv'
  BY StepTypeInv DEF IInv
<1>2. ASSUME NEW u \in Users, Acts(u) PROVE IInv'
  <2>1. ASSUME NEW v \in Users PROVE UserOK(v)'
    <3>1. CASE v = u
      BY <1>2, <3>1, OwnStaysOK
    <3>2. CASE v # u
      <4>1. LeavesAlone(u, v)
        BY <1>2, <3>2, OthersLeftAlone DEF IInv
      <4> QED
        BY <3>2, <4>1, OthersStayOK
    <3> QED
      BY <3>1, <3>2
  <2>2. Moves(u)
    BY <1>2, SocketMoves
  <2>3. \A v, w \in Users : Apart(v, w)'
    BY <2>2, StayApart
  <2>4. NoneLost'
    BY <1>2, <2>2, StayAccounted
  <2> QED
    BY <1>1, <2>1, <2>3, <2>4 DEF IInv
<1>3. CASE UNCHANGED vars
  BY <1>1, <1>3, NobodyActs DEF IInv
<1> QED
  BY <1>2, <1>3 DEF Next, Acts, Terminated

LEMMA Invariance == Spec => []IInv
<1> QED
  BY InitIInv, StepIInv, PTL DEF Spec

------------------------------------------------------------------------------
(* Theorems *)

\* Every variable keeps its type: in particular a Timeout is never given a value
\* that _check_timeout would refuse.
THEOREM TypeCorrect == Spec => []TypeOK
<1>1. IInv => TypeOK
  BY DEF IInv, TypeInv
<1> QED
  BY Invariance, <1>1, PTL

\* A request goes out on an open socket that has been through the tunnel, the
\* handshake and the checks that the settings of its connection ask for,
\* whatever attempts failed before it: connect(), _new_conn and urlopen.
THEOREM RequestOnCheckedHolds == Spec => []RequestOnCheckedConnection
<1>1. IInv => RequestOnCheckedConnection
  BY DEF IInv, UserOK, SockOK, ProgressOK, Ready, RequestOnCheckedConnection
<1> QED
  BY Invariance, <1>1, PTL

\* No socket is left open that no connection has: the loop over the addresses
\* closes what it does not use, and the except clause of urlopen the rest.
THEOREM SocketsAccountedHolds == Spec => []SocketsAccounted
<1>1. IInv => SocketsAccounted
  BY DEF IInv, NoneLost, UserOK, SockOK, Ready, SocketsAccounted
<1> QED
  BY Invariance, <1>1, PTL

\* A connection in use that is_verified calls verified has had the chain of its
\* peer's certificate verified, whoever else changes a shared SSLContext.
THEOREM IsVerifiedTruthfulHolds == Spec => []IsVerifiedTruthful
<1>1. IInv => IsVerifiedTruthful
  BY DEF IInv, UserOK, VerifiedOK, Ready, IsVerifiedTruthful
<1> QED
  BY Invariance, <1>1, PTL

\* read_timeout is what is left of the total, bounded by the read timeout, for
\* every value of the limits and at every time.
THEOREM ReadTimeoutFillsTotalHolds == Spec => []ReadTimeoutFillsTotal
<1>1. ASSUME TypeOK PROVE ReadTimeoutFillsTotal
  <2> SUFFICES ASSUME NEW u \in Users, timer[u].ran # NotStarted,
                      timer[u].total # NoLimit
               PROVE  LET t == timer[u]
                          r == ReadTimeout(t)
                      IN  /\ ConnectTimeout(t) <= t.total
                          /\ r = 0 \/ t.ran + r <= t.total
                          /\ t.ran + r < t.total => r = t.read
    BY DEF ReadTimeoutFillsTotal
  <2> DEFINE t == timer[u]
  <2>1. /\ t.total \in Nat \ {0} /\ t.ran \in Nat
        /\ t.connect \in Given /\ t.read \in Given
    BY <1>1 DEF TypeOK, Timeouts, Limits
  <2>2. ConnectTimeout(t) <= t.total
    BY <2>1, TimeoutAssumption DEF ConnectTimeout, Given, Smaller
  <2>3. CASE t.read \in {NoLimit, Default}
    <3>1. ReadTimeout(t) = AtLeast0(t.total - t.ran)
      BY <2>1, <2>3, TimeoutAssumption DEF ReadTimeout
    <3> QED
      BY <2>1, <2>2, <3>1 DEF AtLeast0
  <2>4. CASE t.read \in Nat \ {0}
    <3>1. ReadTimeout(t) = AtLeast0(Smaller(t.total - t.ran, t.read))
      BY <2>1, <2>4, TimeoutAssumption DEF ReadTimeout
    <3> QED
      BY <2>1, <2>2, <2>4, <3>1 DEF AtLeast0, Smaller
  <2> QED
    BY <2>1, <2>3, <2>4 DEF Given
<1> QED
  BY TypeCorrect, <1>1, PTL
=============================================================================
