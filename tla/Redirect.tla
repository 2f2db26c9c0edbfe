------------------------------ MODULE Redirect ------------------------------
(***************************************************************************)
(* PoolManager.urlopen and ProxyManager.urlopen of poolmanager.py: one     *)
(* request of a user and the redirects followed for it.  Each hop is a     *)
(* call of HTTPPool.urlopen, which sends one request and raises on any     *)
(* error; a redirect ends in a recursive call with the method, the         *)
(* location and the keyword arguments the hop has left in kw.              *)
(***************************************************************************)
EXTENDS Retry, FiniteSets

CONSTANTS
  Methods,    \* the methods a user asks with
  Urls,       \* [scheme, netloc]
  Bodies,     \* what kw["body"] may be; "none" is None
  RetryArgs,  \* what a user may pass as retries: None, an integer, a Retry
  UsesProxy,  \* whether the manager is a ProxyManager
  MayFail,    \* whether a hop may fail with an error
  MaxHops     \* BOUND: requests sent for one call

ASSUME RedirectAssumption ==
  /\ \A u \in Urls : u.scheme \in {"http", "https"}
  /\ UsesProxy \in BOOLEAN /\ MayFail \in BOOLEAN /\ MaxHops \in Nat
  /\ \A x \in RetryArgs :
       IF x.isRetry THEN IsRetry(x.value) ELSE x.value \in CounterValues

VARIABLES
  asked,     \* the user's request (history)
  method, url,
  body,      \* kw["body"]
  retries,   \* kw["retries"]
  host,      \* kw["headers"]["Host"]; None if there is none
  sent,      \* the requests sent (history)
  answers,   \* the responses to them (history)
  outcome    \* "going", "answered", "returned", "MaxRetryError", "error"

vars == <<asked, method, url, body, retries, host, sent, answers, outcome>>

Number(n) == [isRetry |-> FALSE, value |-> n]
Object(r) == [isRetry |-> TRUE, value |-> r]

\* Retry.from_int(retries, redirect=True)
FromInt(arg) ==
  IF arg.isRetry THEN arg.value
  ELSE IF arg.value = None THEN DEFAULT
  ELSE RetryOf(arg.value)

\* What a server may answer: a response, a redirect without and with a
\* location.  302 stands for 301, 302, 307 and 308, which are treated alike.
Answers ==
  {[status |-> 200, location |-> None], [status |-> 302, location |-> None]}
    \cup [status : {302, 303}, location : Urls]

LastOf(seq) == seq[Len(seq)]

Init ==
  /\ asked \in [method : Methods, url : Urls, body : Bodies, retries : RetryArgs,
                redirect : BOOLEAN]
  /\ method = asked.method /\ url = asked.url /\ body = asked.body
  /\ retries = asked.retries
  /\ host = None
  /\ sent = <<>> /\ answers = <<>>
  /\ outcome = "going"

\* ProxyManager.urlopen: a request for the proxy gets a Host header, which a
\* Host header already in headers overrides.
ProxyHost ==
  IF UsesProxy /\ url.scheme # "https" /\ host = None THEN url.netloc ELSE host

\* conn.urlopen sends the request.  Without a Host header http.client writes
\* the connection's own host, the URL's.
SendHop ==
  /\ outcome = "going"
  /\ Len(sent) < MaxHops
  /\ host' = ProxyHost
  /\ sent' = Append(sent,
       [ method |-> method,
         url    |-> url,
         host   |-> IF ProxyHost = None THEN url.netloc ELSE ProxyHost,
         body   |-> body ])
  /\ \E a \in Answers : answers' = Append(answers, a)
  /\ outcome' = "answered"
  /\ UNCHANGED <<asked, method, url, body, retries>>

\* conn.urlopen raises, before or after the request has gone out; nothing
\* between it and the user catches the error.
FailHop ==
  /\ outcome = "going"
  /\ MayFail
  /\ outcome' = "error"
  /\ UNCHANGED <<asked, method, url, body, retries, host, sent, answers>>

Follows == asked.redirect /\ LastOf(answers).location # None

ReturnResponse ==
  /\ outcome = "answered"
  /\ ~Follows
  /\ outcome' = "returned"
  /\ UNCHANGED <<asked, method, url, body, retries, host, sent, answers>>

SeeOther == LastOf(answers).status = 303

\* Mutated: the incremented Retry object is not passed on.
FollowRedirectForgets ==
  /\ outcome = "answered"
  /\ Follows
  /\ method' = IF SeeOther THEN "GET" ELSE method
  /\ body'   = IF SeeOther THEN "none" ELSE body
  /\ IF IsExhausted(Incremented(FromInt(retries), "redirect"))
       THEN outcome' = "MaxRetryError" /\ UNCHANGED url
       ELSE outcome' = "going" /\ url' = LastOf(answers).location
  /\ UNCHANGED <<asked, retries, host, sent, answers>>

\* Mutated: a 303 changes the method and not the body.
FollowRedirectKeepsBody ==
  /\ outcome = "answered"
  /\ Follows
  /\ method' = IF SeeOther THEN "GET" ELSE method
  /\ LET next == Incremented(FromInt(retries), "redirect")
     IN  /\ ~IsExhausted(next)
         /\ retries' = Object(next)
         /\ url' = LastOf(answers).location
         /\ outcome' = "going"
  /\ UNCHANGED <<asked, body, host, sent, answers>>

\* A 303 changes method and body before increment() may raise; the recursive
\* call gets them, the location and the new Retry object.
FollowRedirect ==
  /\ outcome = "answered"
  /\ Follows
  /\ method' = IF SeeOther THEN "GET" ELSE method
  /\ body'   = IF SeeOther THEN "none" ELSE body
  /\ LET current == FromInt(retries)
         next    == Incremented(current, "redirect")
     IN  \/ /\ IsExhausted(next)
            /\ outcome' = IF current.raiseOnRedirect THEN "MaxRetryError"
                          ELSE "returned"
            /\ UNCHANGED <<retries, url>>
         \/ /\ ~IsExhausted(next)
            /\ retries' = Object(next)
            /\ url' = LastOf(answers).location
            /\ outcome' = "going"
  /\ UNCHANGED <<asked, host, sent, answers>>

Next == SendHop \/ FailHop \/ ReturnResponse \/ FollowRedirect

Spec == Init /\ [][Next]_vars

------------------------------------------------------------------------------

\* The user's Retry object; with redirects off it is never looked at.
Given == FromInt(asked.retries)

\* One call sends at most one request more than the total and the redirects it
\* was given, however the redirects are strung together.
HopsWithinBudget ==
  \A c \in {"total", "redirect"} :
    Given.counters[c] \in Nat => Len(sent) <= Given.counters[c] + 1

\* The budget is used, too: MaxRetryError, or a redirect returned to the user
\* who wanted redirects followed, comes only after every hop it allows.
GivesUpAfterBudget ==
  /\ outcome = "MaxRetryError"
       => \E c \in {"total", "redirect"} : Given.counters[c] = Len(sent) - 1
  /\ outcome = "returned" /\ Follows
       => \/ Given.counters.total = PyFalse
          \/ \E c \in {"total", "redirect"} : Given.counters[c] = Len(sent) - 1

\* After a 303 every request of the call is a GET without a body; before one,
\* each is the user's method and body, at the location of the last redirect.
HopsRewritten ==
  \A i \in DOMAIN sent :
    LET seeOther == \E j \in 1..(i - 1) : answers[j].status = 303
    IN  /\ sent[i].method = IF seeOther THEN "GET" ELSE asked.method
        /\ sent[i].body   = IF seeOther THEN "none" ELSE asked.body
        /\ sent[i].url = IF i = 1 THEN asked.url ELSE answers[i - 1].location

\* The history of the Retry object is the redirects that were followed.
HistoryRecordsRedirects ==
  retries.isRetry =>
    LET followed == Len(retries.value.history) - Len(Given.history)
    IN  followed = Len(sent) - (IF outcome \in {"going", "error"} THEN 0 ELSE 1)
=============================================================================
