------------------------------- MODULE Server -------------------------------
(***************************************************************************)
(* The HTTP server: the handlers of internal/api and the middleware of     *)
(* internal/auth run one goroutine per request over the session store and  *)
(* the connection pool, which cmd/fetchr/main.go wires together: one ttl   *)
(* for both, and the pool's Disconnect as the store's onEvict.             *)
(*                                                                         *)
(* Every step is one critical section of the store or of the pool, one     *)
(* acquisition of a connection's lock, or one exchange with an SFTP server *)
(* or a client; anything may happen between two steps.  A browser is its   *)
(* cookie jar: a request carries the cookie of the time it was sent, and a *)
(* Set-Cookie takes effect when the response arrives, if it does.          *)
(***************************************************************************)
EXTENDS ConnPool, SessionStore

CONSTANTS
    Requests,   \* handler goroutines; they bound the requests in flight
    Sweeper,    \* the store's janitor, which calls onEvict
    Clients,    \* browsers, each with one cookie jar
    SkipLogin,  \* --skip-login
    MayStop     \* bound: whether the behaviours include a shutdown

ASSUME ServerAssumption ==
    /\ Callers = Requests \cup {Sweeper}
    /\ Sweeper \notin Requests
    /\ SkipLogin \in BOOLEAN
    /\ MayStop \in BOOLEAN
    /\ Ttl = IdleTimeout

VARIABLES
    req,      \* what each handler goroutine is doing
    cookie,   \* the session cookie each client holds, or NoSession
    phase     \* of main: serving, draining, closing, failing, exited

serverVars == <<req, cookie, phase>>
vars == <<poolVars, storeVars, serverVars>>

\* at: where the handler is.  client: who sent the request.  sid: the session
\* it works for.  conn: the *Conn it got from Get.  parts: it is an upload and
\* goes on to the next file.  set: the cookie its response will set, if any;
\* NoSession clears it.  The route is not part of the state: which one it is
\* shows when the handler first does something that depends on it.
Blank == [at |-> "idle", client |-> "none", sid |-> NoSession, conn |-> NoConn,
          parts |-> FALSE, set |-> {}]

ServerTyped ==
    /\ PoolTyped
    /\ StoreTypeOK
    /\ req \in [Requests ->
         [at : {"idle", "arrived", "authed", "reading", "evicting", "connecting",
                "closing", "resolved", "using", "reply"},
          client : Clients \cup {"none"},
          sid : Sessions \cup {NoSession},
          conn : Conns \cup {NoConn},
          parts : BOOLEAN,
          set : SUBSET (Sessions \cup {NoSession})]]
    /\ \A r \in Requests :
         pc[r] = "idle" <=> req[r].at \notin {"connecting", "closing"}
    /\ cookie \in [Clients -> Sessions \cup {NoSession}]
    /\ phase \in {"serving", "draining", "closing", "failing", "exited"}

\* The places past the middleware at which no connection is held yet.
Inside == {"authed", "reading", "connecting"}

\* What a handler has at each place.
HandlerState ==
    \A r \in Requests :
      /\ req[r].at \in Inside => req[r].sid \in Sessions
      /\ req[r].conn # NoConn => req[r].at \in {"resolved", "using"}
      /\ req[r].at = "connecting" => callSess[r] = req[r].sid

(***************************************************************************)
(* The types, and what a handler has at each place: past the middleware a  *)
(* session, a connection only between Server.conn and its answer, and a    *)
(* call of the pool under way only for its own session (middleware.go:27,  *)
(* handlers_sftp.go:60, :113).                                             *)
(***************************************************************************)
ServerTypeOK == ServerTyped /\ CallState /\ HandlerState

\* A client may come with a cookie of an earlier process.
ServerInit ==
    /\ PoolInit
    /\ StoreInit
    /\ req = [r \in Requests |-> Blank]
    /\ cookie \in [Clients -> Sessions \cup {NoSession}]
    /\ phase = "serving"

-----------------------------------------------------------------------------
Go(r, at) == req' = [req EXCEPT ![r].at = at]

\* The handler returns.  Only a response that sets a cookie matters later.
Finish(r) ==
    req' = [req EXCEPT ![r] =
              IF @.set = {} THEN Blank
              ELSE [Blank EXCEPT !.at = "reply", !.client = req[r].client,
                                 !.set = req[r].set]]

\* 256 random bits: no one who is still around knows the new id.
Fresh(s) ==
    /\ \A c \in Conns : cred[c] # s
    /\ \A t \in Callers : callSess[t] # s
    /\ \A r \in Requests : s # req[r].sid /\ s \notin req[r].set
    /\ \A k \in Clients : cookie[k] # s

(***************************************************************************)
(* A request arrives, and the /auth routes answer it.                      *)
(***************************************************************************)
\* Also on a connection that was kept alive when the listener failed, as long
\* as main is at its deferred closes.
Arrive(r, k) ==
    /\ phase \in {"serving", "draining", "failing"}
    /\ req[r].at = "idle"
    /\ req' = [req EXCEPT ![r] = [Blank EXCEPT !.at = "arrived", !.client = k,
                                               !.sid = cookie[k]]]
    /\ UNCHANGED <<poolVars, storeVars, cookie, phase>>

\* handleMe: a session that is found is refreshed.
Me(r) ==
    /\ req[r].at = "arrived"
    /\ Lookup(req[r].sid) \/ (~Valid(req[r].sid) /\ UNCHANGED storeVars)
    /\ Finish(r)
    /\ UNCHANGED <<poolVars, cookie, phase>>

\* Mutant: the user gets the session that is there already.
LoginShared(r, s) ==
    /\ req[r].at = "arrived"
    /\ \/ live = {} /\ Fresh(s) /\ Create(s)
       \/ s \in live /\ UNCHANGED storeVars
    /\ req' = [req EXCEPT ![r] = [Blank EXCEPT !.at = "reply", !.client = req[r].client,
                                               !.set = {s}]]
    /\ UNCHANGED <<poolVars, cookie, phase>>

\* handleLogin with --skip-login, or an OIDC callback that succeeds.  The
\* session of the cookie the request came with is left as it is.
Login(r, s) ==
    /\ req[r].at = "arrived"
    /\ Fresh(s)
    /\ Create(s)
    /\ req' = [req EXCEPT ![r] = [Blank EXCEPT !.at = "reply", !.client = req[r].client,
                                               !.set = {s}]]
    /\ UNCHANGED <<poolVars, cookie, phase>>

\* handleLogout.  The cookie is cleared whether the session existed or not.
Logout(r) ==
    /\ req[r].at = "arrived"
    /\ LET s == req[r].sid
       IN  \/ /\ Delete(s)
              /\ req' = [req EXCEPT ![r] = [@ EXCEPT !.at = "evicting", !.set = {NoSession}]]
           \/ /\ s \notin live
              /\ req' = [req EXCEPT ![r] = [@ EXCEPT !.at = "reply", !.set = {NoSession}]]
              /\ UNCHANGED storeVars
    /\ UNCHANGED <<poolVars, cookie, phase>>

\* Mutant: the connection of the session the browser has by now is dropped.
EvictByCookie(r) ==
    LET s == cookie[req[r].client]
    IN  /\ req[r].at = "evicting"
        /\ EvictDeleted(req[r].sid)
        /\ \/ s # NoSession /\ Disconnect(r, s) /\ Go(r, "closing")
           \/ s = NoSession /\ Finish(r) /\ UNCHANGED poolVars
        /\ UNCHANGED <<cookie, phase>>

\* onEvict is pool.Disconnect.
LogoutEvict(r) ==
    LET s == req[r].sid
    IN  /\ req[r].at = "evicting"
        /\ EvictDeleted(s)
        /\ \/ Disconnect(r, s) /\ Go(r, "closing")
           \/ conns[s] = NoConn /\ Finish(r) /\ UNCHANGED poolVars
        /\ UNCHANGED <<cookie, phase>>

\* The response reaches the browser, or is lost with the connection to it.
Reply(r) ==
    /\ req[r].at = "reply"
    /\ \/ \E v \in req[r].set : cookie' = [cookie EXCEPT ![req[r].client] = v]
       \/ UNCHANGED cookie
    /\ req' = [req EXCEPT ![r] = Blank]
    /\ UNCHANGED <<poolVars, storeVars, phase>>

(***************************************************************************)
(* The middleware of the /sftp routes.                                     *)
(***************************************************************************)
AuthOk(r) ==
    /\ req[r].at = "arrived"
    /\ Lookup(req[r].sid)
    /\ Go(r, "authed")
    /\ UNCHANGED <<poolVars, cookie, phase>>

\* Mutant: only a cookie that is there is checked.
AuthRejectCookie(r) ==
    /\ req[r].at = "arrived"
    /\ ~Valid(req[r].sid)
    /\ ~SkipLogin
    /\ IF req[r].sid = NoSession THEN Go(r, "authed") ELSE Finish(r)
    /\ UNCHANGED <<poolVars, storeVars, cookie, phase>>

AuthReject(r) ==
    /\ req[r].at = "arrived"
    /\ ~Valid(req[r].sid)
    /\ ~SkipLogin
    /\ Finish(r)
    /\ UNCHANGED <<poolVars, storeVars, cookie, phase>>

AuthMint(r, s) ==
    /\ req[r].at = "arrived"
    /\ ~Valid(req[r].sid)
    /\ SkipLogin
    /\ Fresh(s)
    /\ Create(s)
    /\ req' = [req EXCEPT ![r] = [@ EXCEPT !.at = "authed", !.sid = s, !.set = {s}]]
    /\ UNCHANGED <<poolVars, cookie, phase>>

(***************************************************************************)
(* The /sftp handlers, past the middleware.                                *)
(***************************************************************************)
\* connect, mkdir and rename read the request's body before they ask the pool.
\* The client may never send it, and the server sets no limit to the wait: what
\* follows from "reading" is a step of the client's as well.
ReadBody(r) ==
    /\ req[r].at = "authed"
    /\ Go(r, "reading")
    /\ UNCHANGED <<poolVars, storeVars, cookie, phase>>

\* A malformed body, or a client that is gone.
BadRequest(r) ==
    /\ req[r].at = "reading"
    /\ Finish(r)
    /\ UNCHANGED <<poolVars, storeVars, cookie, phase>>

ConnectRefused(r, h) ==
    /\ req[r].at = "reading"
    /\ Refused(req[r].sid, h)
    /\ Finish(r)
    /\ UNCHANGED <<poolVars, storeVars, cookie, phase>>

ConnectBegin(r, h) ==
    /\ req[r].at = "reading"
    /\ ConnectCheck(r, req[r].sid, h)
    /\ Go(r, "connecting")
    /\ UNCHANGED <<storeVars, cookie, phase>>

\* The name of a connection is not used again while a handler points to it.
ConnectOpen(r, c) ==
    /\ req[r].at = "connecting"
    /\ \A q \in Requests : req[q].conn # c
    /\ DialOk(r, c)
    /\ UNCHANGED <<req, storeVars, cookie, phase>>

ConnectGoOn(r) ==
    /\ req[r].at = "connecting"
    /\ StartOk(r)
    /\ UNCHANGED <<req, storeVars, cookie, phase>>

ConnectFail(r) ==
    /\ req[r].at = "connecting"
    /\ DialFail(r) \/ StartFail(r)
    /\ Finish(r)
    /\ UNCHANGED <<storeVars, cookie, phase>>

ConnectDone(r) ==
    /\ req[r].at = "connecting"
    /\ Publish(r)
    /\ Finish(r)
    /\ UNCHANGED <<storeVars, cookie, phase>>

DisconnectBegin(r) ==
    /\ req[r].at = "authed"
    /\ \/ Disconnect(r, req[r].sid) /\ Go(r, "closing")
       \/ conns[req[r].sid] = NoConn /\ Finish(r) /\ UNCHANGED poolVars
    /\ UNCHANGED <<storeVars, cookie, phase>>

\* The victim of a logout or a disconnect is closed by the handler itself.
CloseVictim(r) ==
    /\ req[r].at = "closing"
    /\ DisconnectClose(r)
    /\ Finish(r)
    /\ UNCHANGED <<storeVars, cookie, phase>>

\* handleStatus, and the other handlers when the session is not connected.
Answer(r) ==
    /\ req[r].at \in {"authed", "reading"}
    /\ Get(r, req[r].sid) \/ (conns[req[r].sid] = NoConn /\ UNCHANGED poolVars)
    /\ Finish(r)
    /\ UNCHANGED <<storeVars, cookie, phase>>

\* Mutant: the session is looked up again, by the cookie of now.
ResolveByCookie(r) ==
    LET s == cookie[req[r].client]
    IN  /\ req[r].at = "authed"
        /\ s # NoSession
        /\ Get(r, s)
        /\ req' = [req EXCEPT ![r] = [@ EXCEPT !.at = "resolved", !.conn = conns[s]]]
        /\ UNCHANGED <<storeVars, cookie, phase>>

\* Server.conn: list, download, upload and remove, and once they have their
\* body mkdir and rename, go on with the pointer they got.
Resolve(r) ==
    /\ req[r].at \in {"authed", "reading"}
    /\ Get(r, req[r].sid)
    /\ \E parts \in BOOLEAN :
         /\ parts => req[r].at = "authed"
         /\ req' = [req EXCEPT ![r] = [@ EXCEPT !.at = "resolved", !.parts = parts,
                                                !.conn = conns[req[r].sid]]]
    /\ UNCHANGED <<storeVars, cookie, phase>>

\* Mutant: the lock is taken with the pointer and kept until the answer.
InUseLong(c) ==
    \E r \in Requests : req[r].at \in {"resolved", "using"} /\ req[r].conn = c

InUse(c) == \E r \in Requests : req[r].at = "using" /\ req[r].conn = c

\* c.Lock(), then the SFTP calls.
LockConn(r) ==
    /\ req[r].at = "resolved"
    /\ ~InUse(req[r].conn)
    /\ Go(r, "using")
    /\ UNCHANGED <<poolVars, storeVars, cookie, phase>>

\* c.Unlock(): an upload goes on with its next part or with removing this one.
UnlockConn(r) ==
    /\ req[r].at = "using"
    /\ \/ ~req[r].parts /\ Finish(r)
       \/ req[r].parts /\ Go(r, "resolved")
    /\ UNCHANGED <<poolVars, storeVars, cookie, phase>>

\* A bad path, no multipart body, or the end of the upload.
LeaveConn(r) ==
    /\ req[r].at = "resolved"
    /\ Finish(r)
    /\ UNCHANGED <<poolVars, storeVars, cookie, phase>>

(***************************************************************************)
(* The janitors, the clock, and main.                                      *)
(***************************************************************************)
StoreSweep ==
    /\ pc[Sweeper] = "idle"
    /\ Sweep
    /\ UNCHANGED <<poolVars, serverVars>>

\* onEvict for one id of the list; the next one waits for the close.
SweepEvict(s) ==
    /\ pc[Sweeper] = "idle"
    /\ EvictExpired(s)
    /\ Disconnect(Sweeper, s) \/ (conns[s] = NoConn /\ UNCHANGED poolVars)
    /\ UNCHANGED serverVars

SweepClose ==
    /\ DisconnectClose(Sweeper)
    /\ UNCHANGED <<storeVars, serverVars>>

\* Mutant: the janitor leaves the connections of ended sessions to the store.
EvictKnown ==
    /\ IdleSessions \subseteq live
    /\ EvictIdle
    /\ UNCHANGED <<storeVars, serverVars>>

PoolEvict ==
    /\ EvictIdle
    /\ UNCHANGED <<storeVars, serverVars>>

PoolShut(c) ==
    /\ CloseReplaced(c) \/ CloseDead(c) \/ CloseDrained(c)
    /\ UNCHANGED <<storeVars, serverVars>>

JanitorsStop ==
    /\ JanitorStop
    /\ UNCHANGED <<storeVars, serverVars>>

\* One clock for both ages.
Tick ==
    /\ PoolTick
    /\ StoreTick
    /\ UNCHANGED serverVars

\* A signal closes the listener; a connection accepted before it may still
\* bring its first request.
ShutdownBegin ==
    /\ MayStop
    /\ phase = "serving"
    /\ phase' = "draining"
    /\ UNCHANGED <<poolVars, storeVars, req, cookie>>

\* Mutant: the wait for the requests has no limit.
ShutdownIdle ==
    /\ phase = "draining"
    /\ \A r \in Requests : req[r].at = "idle"
    /\ PoolClose
    /\ phase' = "closing"
    /\ UNCHANGED <<storeVars, req, cookie>>

\* All requests have ended, or 15 seconds have passed: Shutdown returns.
ShutdownPool ==
    /\ phase = "draining"
    /\ PoolClose
    /\ phase' = "closing"
    /\ UNCHANGED <<storeVars, req, cookie>>

\* ListenAndServe failed: no Shutdown, the deferred closes run at once.
ListenerFails ==
    /\ MayStop
    /\ phase = "serving"
    /\ PoolClose
    /\ phase' = "failing"
    /\ UNCHANGED <<storeVars, req, cookie>>

Exit ==
    /\ phase \in {"closing", "failing"}
    /\ drained = {}
    /\ StoreClose
    /\ phase' = "exited"
    /\ UNCHANGED <<poolVars, req, cookie>>

-----------------------------------------------------------------------------
\* What the handler of r does next by itself.
Handle(r) ==
    \/ Me(r)
    \/ \E s \in Sessions : Login(r, s)
    \/ Logout(r)
    \/ LogoutEvict(r)
    \/ AuthOk(r)
    \/ AuthReject(r)
    \/ \E s \in Sessions : AuthMint(r, s)
    \/ ReadBody(r)
    \/ DisconnectBegin(r)
    \/ req[r].at = "authed" /\ (Answer(r) \/ Resolve(r))
    \/ ConnectDone(r)
    \/ Reply(r)

\* What it does when the SFTP server answers, or the client sends its body.
Exchange(r) ==
    \/ BadRequest(r)
    \/ \E h \in Hosts : ConnectRefused(r, h) \/ ConnectBegin(r, h)
    \/ req[r].at = "reading" /\ (Answer(r) \/ Resolve(r))
    \/ \E c \in Conns : ConnectOpen(r, c)
    \/ ConnectGoOn(r)
    \/ ConnectFail(r)
    \/ CloseVictim(r)
    \/ UnlockConn(r)
    \/ LeaveConn(r)

Running ==
    \/ \E r \in Requests : \/ \E k \in Clients : Arrive(r, k)
                           \/ Handle(r)
                           \/ LockConn(r)
                           \/ Exchange(r)
    \/ StoreSweep
    \/ \E s \in Sessions : SweepEvict(s)
    \/ SweepClose
    \/ PoolEvict
    \/ \E c \in Conns : PoolShut(c)
    \/ JanitorsStop
    \/ Tick
    \/ ShutdownBegin
    \/ ShutdownPool
    \/ ListenerFails
    \/ Exit

\* After Exit there is no process left.
Next == \/ phase # "exited" /\ Running
        \/ phase = "exited" /\ UNCHANGED vars

Spec == ServerInit /\ [][Next]_vars

\* Goroutines are scheduled, Go's mutex lets no waiter starve, time passes,
\* the tickers tick, and the pool's own closes return.  The peers of Exchange
\* owe nothing: a dial, an SFTP call, a request's body or the rest of an upload
\* may never come.  The provider owes nothing either, and a callback that waits
\* for it is still at "arrived": this fairness is for --skip-login, where no
\* request does (oidc.go:100).
ServerFairness ==
    /\ \A r \in Requests : WF_vars(Handle(r)) /\ SF_vars(LockConn(r))
    /\ WF_vars(StoreSweep)
    /\ \A s \in Sessions : WF_vars(SweepEvict(s))
    /\ WF_vars(SweepClose)
    /\ WF_vars(PoolEvict)
    /\ \A c \in Conns : WF_vars(PoolShut(c))
    /\ WF_vars(Tick)
    /\ WF_vars(ShutdownPool)
    /\ WF_vars(Exit)

FairSpec == Spec /\ ServerFairness

-----------------------------------------------------------------------------
(***************************************************************************)
(* A handler that holds a connection holds one opened with its own         *)
(* session's credentials, or one that has been closed meanwhile; never     *)
(* another session's (the *Conn that Server.conn returns is used after the *)
(* pool's lock is released, and the slot may have changed hands twice).    *)
(***************************************************************************)
OwnConnection ==
    \A r \in Requests :
      req[r].conn # NoConn => cred[req[r].conn] \in {req[r].sid, NoSession}

(***************************************************************************)
(* A connection leaves its session's slot only because the session ended,  *)
(* because a request of that very session disconnects or stores a new one, *)
(* for idleness, or on shutdown: no other client's request takes it away.  *)
(***************************************************************************)
Changes(s) ==
    \E r \in Requests :
      /\ req[r].sid = s
      /\ \/ req[r].at = "authed" /\ req'[r].at = "closing"
         \/ req[r].at = "connecting" /\ conns'[s] = callConn[r]

DroppedForCause ==
    [][\A s \in Pooled :
         conns'[s] # conns[s] =>
           \/ s \notin live
           \/ Changes(s)
           \/ age[conns[s]] > IdleTimeout
           \/ phase' \in {"closing", "failing"}]_vars

(***************************************************************************)
(* An expired or ended session stays so: an id becomes valid only with a   *)
(* login, which draws one that nobody knows and nothing is left of, never  *)
(* because a late cookie finds it while the map, a report of its end or a  *)
(* dial still has it (session.go:65: Get sees what the janitor has not     *)
(* swept yet).                                                             *)
(***************************************************************************)
NoRevival ==
    [][\A s \in Sessions :
         Valid(s)' => Valid(s) \/ (s \notin live \cup Dying /\ Fresh(s))]_vars

(***************************************************************************)
(* The server uses the pool and the store only through their operations,   *)
(* so what is proved of ConnPool and SessionStore alone holds here.        *)
(***************************************************************************)
ImplementsPool == PoolSpec

ImplementsStore == StoreSpec

(***************************************************************************)
(* What a browser knows of sessions: its cookie, and what travels with its *)
(* requests and their responses.                                           *)
(***************************************************************************)
Knows(k, s) ==
    \/ cookie[k] = s
    \/ \E r \in Requests : req[r].client = k /\ (req[r].sid = s \/ s \in req[r].set)

(***************************************************************************)
(* A session is one browser's: as long as the server has it in its map, is *)
(* reporting its end, or holds a connection opened for it, no two browsers *)
(* know its id, whatever cookies of earlier sessions they still send and   *)
(* whatever responses overtake each other (session.go:44, middleware.go:31,*)
(* handlers_auth.go:30: every login draws a new id).                       *)
(***************************************************************************)
OneBrowser ==
    \A s \in live \cup Dying \cup ({cred[c] : c \in Conns} \ {NoSession}) :
      \A k, l \in Clients : Knows(k, s) /\ Knows(l, s) => k = l

(***************************************************************************)
(* Requests check the ceiling together, but the store's janitor, which     *)
(* calls the pool too, never connects: the server exceeds the ceiling by   *)
(* less than the number of its requests in flight (pool.go:79).            *)
(***************************************************************************)
RequestOvershoot ==
    MaxConnections > 0 =>
      Cardinality(Pooled) <= MaxConnections + Cardinality(Requests) - 1

(***************************************************************************)
(* Shutdown leaves little behind: Close takes the whole map while requests *)
(* are still dialling, and of what is stored after it every connection is  *)
(* that of another request that was in flight at the time (pool.go:153,    *)
(* main.go:87).                                                            *)
(***************************************************************************)
MayConnect(r) == req[r].at \in {"arrived"} \cup Inside

StopLeaves ==
    phase = "closing" =>
      Cardinality(Pooled) <= Cardinality({r \in Requests : ~MayConnect(r)})

(***************************************************************************)
(* The server implements SessionLifecycle: a new session has no request    *)
(* and no connection of an old one, a session's end takes its connection   *)
(* along whoever reports it, and an ended session gets a connection only   *)
(* from a request that was let in while it lived.                          *)
(***************************************************************************)
SessionStage(s) ==
    IF s \in live THEN "live" ELSE IF s \in Dying THEN "ending" ELSE "none"

Admitted == {req[r].sid : r \in {q \in Requests : req[q].at \in Inside}}

SessionLife == INSTANCE SessionLifecycle
                 WITH stage <- [s \in Sessions |-> SessionStage(s)],
                      admitted <- Admitted, linked <- Pooled

ImplementsSessions == SessionLife!SessionsSpec

(***************************************************************************)
(* "Both the session and its connection are evicted after --session-ttl of *)
(* inactivity, on logout, and on shutdown" (README.md:24): once the end of *)
(* a session has been reported, it has no connection.                      *)
(***************************************************************************)
LogoutEvicts == \A s \in Sessions \ (live \cup Dying) : conns[s] = NoConn

(***************************************************************************)
(* By the same line the janitor evicts a connection for inactivity: one    *)
(* that a handler is using under its lock is not on the janitor's list.    *)
(***************************************************************************)
BusyNotEvicted == \A c \in Conns : InUse(c) => c \notin dead

(***************************************************************************)
(* A connection left behind under a session that has ended, or that no     *)
(* browser knows, is dropped in the end: the janitors catch what a logout  *)
(* during a dial, a second login or a lost Set-Cookie leaves over.         *)
(***************************************************************************)
Unknown(s) == \A k \in Clients : ~Knows(k, s)

LeftoverDropped ==
    \A s \in Sessions :
      conns[s] # NoConn /\ (s \notin live \/ Unknown(s))
        ~> conns[s] = NoConn \/ ~running

(***************************************************************************)
(* A request comes to an end unless its own SFTP server or client keeps it *)
(* waiting for ever, or it queues for the lock of a connection on which    *)
(* another request is kept so: a dial or a body that never comes stops     *)
(* that request alone (pool.go:94 dials outside the lock), and the one     *)
(* lock of a connection that many requests share is released on every path *)
(* and starves nobody (handlers_sftp.go:162, :227).                        *)
(***************************************************************************)
OnPeer(r) ==
    \/ req[r].at = "reading"
    \/ req[r].at = "connecting" /\ pc[r] # "ready"
    \/ req[r].at \in {"closing", "using"}
    \/ req[r].at = "resolved" /\ req[r].parts

Queues(r, q) ==
    /\ req[r].at = "resolved"
    /\ req[q].at = "using"
    /\ req[q].conn = req[r].conn

RequestEnds ==
    \A r \in Requests :
      \/ []<>(req[r].at = "idle")
      \/ <>[]OnPeer(r)
      \/ \E q \in Requests : <>[]Queues(r, q)
      \/ <>(phase = "exited")

(***************************************************************************)
(* A shutdown ends, though a transfer may hang: the wait for the requests  *)
(* is bounded, and Close takes no connection's lock (main.go:87, :47).     *)
(***************************************************************************)
ShutdownEnds == phase = "draining" ~> phase = "exited"
=============================================================================
