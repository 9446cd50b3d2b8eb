------------------------ MODULE ServerSessionsProofs ------------------------
(***************************************************************************)
(* What Server promises of a session, for any number of requests, clients, *)
(* sessions and connections: no two browsers ever know the id of one that  *)
(* is in use (OneBrowser), and the server implements SessionLifecycle.     *)
(*                                                                         *)
(* Both rest on the draw of a new id: Login and the middleware's AuthMint  *)
(* take one that no browser knows, and of which neither the store nor a    *)
(* request nor an open connection is left.                                 *)
(***************************************************************************)
EXTENDS ServerProofs

\* A new session for the browser of r.
Mints(r, s) == Login(r, s) \/ AuthMint(r, s)

\* r may still open a connection for its session.
LetIn(r) == req[r].at \in Inside

USE DEF Inside

-----------------------------------------------------------------------------
(***************************************************************************)
(* One browser.  The inductive invariant speaks of every session that the  *)
(* server may still do something for: besides the ids in the store, those  *)
(* of requests that were let in, of dials, and of open connections.        *)
(***************************************************************************)
Granted ==
    (live \cup Dying \cup {cred[c] : c \in Conns} \cup {callSess[t] : t \in Callers}
       \cup Admitted) \ {NoSession}

KnownOnce ==
    \A s \in Granted : \A k, l \in Clients : Knows(k, s) /\ Knows(l, s) => k = l

\* What a browser learns when the record of a request changes.
LEMMA RecordTells ==
    ASSUME ReqTyped, NEW r \in Requests, NEW new \in Records,
           req' = [req EXCEPT ![r] = new], UNCHANGED cookie,
           NEW k \in Clients, NEW s \in Sessions, Knows(k, s)',
           new.client = k /\ (new.sid = s \/ s \in new.set) => Knows(k, s)
    PROVE  Knows(k, s)
<1>1. req'[r] = new /\ \A q \in Requests \ {r} : req'[q] = req[q]
  BY RecordMoves
<1> QED
  BY <1>1 DEF Knows

\* A handler moves alone, and tells its browser nothing new unless it mints.
LEMMA HandlerTells ==
    ASSUME ReqTyped, JarTyped, NEW r \in Requests, NEW k \in Clients, NEW s \in Sessions,
           Handle(r) \/ Exchange(r) \/ LockConn(r) \/ (\E l \in Clients : Arrive(r, l)),
           ~Mints(r, s), Knows(k, s)'
    PROVE  Knows(k, s)
<1> USE SessionIdsAssumption
<1>1. CASE Finish(r) /\ UNCHANGED cookie
  BY <1>1 DEF Finish, Blank, ReqTyped, Records, Knows
<1>2. CASE (\E at \in Places : Go(r, at)) /\ UNCHANGED cookie
  BY <1>2 DEF Go, ReqTyped, Records, Knows
<1>3. CASE UNCHANGED <<req, cookie>>
  BY <1>3 DEF Knows
<1>4. ASSUME NEW q \in Sessions, Login(r, q) PROVE Knows(k, s)
  <2> DEFINE new == [Blank EXCEPT !.at = "reply", !.client = req[r].client, !.set = {q}]
  <2>1. req' = [req EXCEPT ![r] = new] /\ q # s /\ UNCHANGED cookie
    BY <1>4 DEF Login, Mints
  <2>2. new \in Records /\ new.sid = NoSession /\ new.set = {q}
    BY DEF Blank, ReqTyped, Records, Places
  <2> HIDE DEF new
  <2> QED
    BY <2>1, <2>2, RecordTells
<1>5. ASSUME NEW q \in Sessions, AuthMint(r, q) PROVE Knows(k, s)
  <2> DEFINE new == [req[r] EXCEPT !.at = "authed", !.sid = q, !.set = {q}]
  <2>1. req' = [req EXCEPT ![r] = new] /\ q # s /\ UNCHANGED cookie
    BY <1>5 DEF AuthMint, Mints, ReqTyped
  <2>2. new \in Records /\ new.sid = q /\ new.set = {q}
    BY DEF ReqTyped, Records, Places
  <2> HIDE DEF new
  <2> QED
    BY <2>1, <2>2, RecordTells
<1>6. CASE Logout(r)
  <2>1. PICK at \in {"evicting", "reply"} :
          req' = [req EXCEPT ![r] = [req[r] EXCEPT !.at = at, !.set = {NoSession}]]
    BY <1>6 DEF Logout, ReqTyped
  <2>2. req[r] \in Records /\ UNCHANGED cookie
    BY <1>6 DEF Logout, ReqTyped
  <2> DEFINE new == [req[r] EXCEPT !.at = at, !.set = {NoSession}]
  <2>3. /\ new \in Records /\ new.client = req[r].client
        /\ new.sid = req[r].sid /\ new.set = {NoSession}
    BY <2>2 DEF Records, Places
  <2>4. new.client = k /\ (new.sid = s \/ s \in new.set) => Knows(k, s)
    BY <2>3 DEF Knows
  <2> QED
    BY <2>1, <2>2, <2>3, <2>4, RecordTells
<1>7. CASE Reply(r)
  <2>1. \A q \in Requests \ {r} : req'[q] = req[q]
    BY <1>7 DEF Reply, ReqTyped
  <2>2. req'[r].sid # s /\ s \notin req'[r].set
    BY <1>7 DEF Reply, Blank, ReqTyped
  <2>3. cookie'[k] = cookie[k] \/ (req[r].client = k /\ cookie'[k] \in req[r].set)
    BY <1>7 DEF Reply, JarTyped
  <2> QED
    BY <2>1, <2>2, <2>3 DEF Knows
<1>8. CASE Resolve(r)
  BY <1>8 DEF Resolve, ReqTyped, Records, Knows
<1>9. ASSUME NEW l \in Clients, Arrive(r, l) PROVE Knows(k, s)
  <2> DEFINE new == [Blank EXCEPT !.at = "arrived", !.client = l, !.sid = cookie[l]]
  <2>1. req' = [req EXCEPT ![r] = new] /\ UNCHANGED cookie
    BY <1>9 DEF Arrive
  <2>2. /\ new \in Records /\ new.client = l /\ new.sid = cookie[l]
        /\ new.set = {}
    BY DEF Blank, Records, Places, JarTyped
  <2>3. new.client = k /\ (new.sid = s \/ s \in new.set) => Knows(k, s)
    BY <2>2 DEF Knows
  <2> HIDE DEF new
  <2> QED
    BY <2>1, <2>2, <2>3, RecordTells
<1> QED
  BY <1>1, <1>2, <1>3, <1>4, <1>5, <1>6, <1>7, <1>8, <1>9
     DEF Handle, Exchange, LockConn, Me, LogoutEvict, AuthOk, AuthReject, ReadBody,
         BadRequest, ConnectRefused, ConnectBegin, DisconnectBegin, Answer, ConnectDone, ConnectOpen,
         ConnectGoOn, ConnectFail, CloseVictim, UnlockConn, LeaveConn, Places

\* Nor does the rest of the server.
LEMMA OthersTell ==
    ASSUME \/ StoreSweep \/ (\E e \in Sessions : SweepEvict(e)) \/ SweepClose
           \/ PoolEvict \/ (\E c \in Conns : PoolShut(c)) \/ JanitorsStop
           \/ Tick \/ ShutdownBegin \/ ShutdownPool \/ ListenerFails \/ Exit \/ UNCHANGED vars
    PROVE  UNCHANGED <<req, cookie>>
BY DEF StoreSweep, SweepEvict, SweepClose, PoolEvict, PoolShut, JanitorsStop, Tick,
       ShutdownBegin, ShutdownPool, ListenerFails, Exit, vars, serverVars

\* A minted id is known to the browser it was minted for.
LEMMA MintTells ==
    ASSUME ReqTyped, NEW r \in Requests, NEW s \in Sessions, Mints(r, s),
           NEW k \in Clients, Knows(k, s)'
    PROVE  k = req[r].client
<1>1. /\ \A l \in Clients : cookie[l] # s
      /\ \A q \in Requests : s # req[q].sid /\ s \notin req[q].set
      /\ cookie' = cookie
  BY DEF Mints, Login, AuthMint, Fresh
<1>2. \A q \in Requests \ {r} : req'[q] = req[q]
  BY DEF Mints, Login, AuthMint, ReqTyped
<1>3. req'[r].client = req[r].client
  BY DEF Mints, Login, AuthMint, Blank, ReqTyped, Records
<1> QED
  BY <1>1, <1>2, <1>3 DEF Knows

\* What the store, the pool and the handlers take up that is new to them.
LEMMA StoreTakes ==
    ASSUME StoreTypeOK, [Next]_vars, NEW s \in Sessions,
           \A r \in Requests : ~Mints(r, s), s \in (live \cup Dying)'
    PROVE  s \in live \cup Dying
<1> USE DEF Dying
<1>1. ASSUME NEW r \in Requests, Handle(r) PROVE s \in live \cup Dying
  <2>1. CASE \E q \in Sessions : Mints(r, q)
    BY <2>1 DEF Mints, Login, AuthMint, Create
  <2>2. CASE Logout(r) \/ LogoutEvict(r)
    BY <2>2 DEF Logout, Delete, LogoutEvict, EvictDeleted, storeVars
  <2>3. CASE ~Logout(r) /\ ~LogoutEvict(r) /\ ~\E q \in Sessions : Mints(r, q)
    BY <1>1, <2>3 DEF Mints, Handle, Me, AuthOk, Lookup, AuthReject, ReadBody,
       DisconnectBegin, Answer, Resolve, ConnectDone, Reply, storeVars
  <2> QED
    BY <2>1, <2>2, <2>3
<1>2. ASSUME NEW r \in Requests, Exchange(r) \/ LockConn(r) \/ \E k \in Clients : Arrive(r, k)
      PROVE  s \in live \cup Dying
  BY <1>2 DEF Exchange, LockConn, Arrive, BadRequest, ConnectRefused, ConnectBegin, Answer,
              Resolve, ConnectOpen, ConnectGoOn, ConnectFail, CloseVictim, UnlockConn,
              LeaveConn, storeVars
<1>3. CASE StoreSweep \/ (\E e \in Sessions : SweepEvict(e))
  BY <1>3 DEF StoreSweep, Sweep, SweepEvict, EvictExpired
<1>4. CASE SweepClose \/ PoolEvict \/ (\E c \in Conns : PoolShut(c)) \/ JanitorsStop \/ Tick
           \/ ShutdownBegin \/ ShutdownPool \/ ListenerFails \/ Exit \/ UNCHANGED vars
  BY <1>4 DEF SweepClose, PoolEvict, PoolShut, JanitorsStop, Tick, StoreTick, ShutdownBegin,
              ShutdownPool, ListenerFails, Exit, StoreClose, vars, storeVars
<1> QED
  BY <1>1, <1>2, <1>3, <1>4 DEF Next, Running

LEMMA DialTakes ==
    ASSUME ServerInv, [Next]_vars, NEW c \in Conns
    PROVE  cred'[c] \in {cred[c], NoSession} \cup {callSess[t] : t \in Callers}
<1>0. PoolTyped /\ [PoolNext]_poolVars
  BY ServerInvParts, PoolStep DEF ReqInv, PoolInv
<1>1. ASSUME NEW t \in Callers, CallerStep(t)
      PROVE  cred'[c] \in {cred[c], NoSession} \cup {callSess[u] : u \in Callers}
  BY <1>0, <1>1 DEF CallerStep, ConnectCheck, DialFail, DialOk, StartFail, StartOk, Publish,
     Get, Disconnect, DisconnectClose, Shut, PoolTyped
<1>2. CASE (\E d \in Conns : CloseReplaced(d) \/ CloseDead(d) \/ CloseDrained(d))
           \/ EvictIdle \/ JanitorStop \/ PoolClose \/ PoolTick \/ UNCHANGED poolVars
  BY <1>0, <1>2 DEF CloseReplaced, CloseDead, CloseDrained, EvictIdle, JanitorStop,
     PoolClose, PoolTick, Shut, PoolTyped, poolVars
<1> QED
  BY <1>0, <1>1, <1>2 DEF PoolNext

LEMMA CallTakes ==
    ASSUME ServerInv, [Next]_vars, NEW t \in Callers
    PROVE  callSess'[t] \in {callSess[t], NoSession} \cup Admitted
<1>0. PoolTyped /\ Requests \subseteq Callers /\ Sweeper \in Callers
  BY ServerAssumption DEF ServerInv, PoolInv
<1>1. ASSUME NEW r \in Requests, Handle(r)
      PROVE  callSess'[t] \in {callSess[t], NoSession} \cup Admitted
  BY <1>0, <1>1 DEF Handle, Me, Login, Logout, LogoutEvict, AuthOk, AuthReject, AuthMint,
        ReadBody, DisconnectBegin, Answer, Get, Resolve, ConnectDone, Publish, Return,
        Reply, Disconnect, poolVars, PoolTyped, Admitted
<1>2. ASSUME NEW r \in Requests, Exchange(r) \/ LockConn(r) \/ \E k \in Clients : Arrive(r, k)
      PROVE  callSess'[t] \in {callSess[t], NoSession} \cup Admitted
  <2>1. CASE \E h \in Hosts : ConnectBegin(r, h)
    BY <1>0, <2>1 DEF ConnectBegin, ConnectCheck, PoolTyped, Admitted
  <2>2. CASE ~\E h \in Hosts : ConnectBegin(r, h)
    BY <1>0, <1>2, <2>2 DEF Exchange, LockConn, Arrive, BadRequest, ConnectRefused, Answer,
          Get, Resolve, ConnectOpen, ConnectGoOn, ConnectFail, CloseVictim, UnlockConn,
          LeaveConn, DialOk, StartOk, DialFail, StartFail, DisconnectClose, Return,
          poolVars, PoolTyped
  <2> QED
    BY <2>1, <2>2
<1>3. CASE (\E s \in Sessions : SweepEvict(s)) \/ SweepClose
  BY <1>0, <1>3 DEF SweepEvict, SweepClose, Disconnect, DisconnectClose, Return, poolVars,
                    PoolTyped
<1>4. CASE StoreSweep \/ PoolEvict \/ (\E c \in Conns : PoolShut(c)) \/ JanitorsStop
           \/ Tick \/ ShutdownBegin \/ ShutdownPool \/ ListenerFails \/ Exit \/ UNCHANGED vars
  BY <1>4 DEF StoreSweep, PoolEvict, EvictIdle, PoolShut, CloseReplaced,
              CloseDead, CloseDrained, JanitorsStop, JanitorStop, Tick, PoolTick,
              ShutdownBegin, ShutdownPool, ListenerFails, PoolClose, Exit, vars, poolVars
<1> QED
  BY <1>1, <1>2, <1>3, <1>4 DEF Next, Running

-----------------------------------------------------------------------------
(***************************************************************************)
(* SessionLifecycle.  What a step does to the stage of every session, to   *)
(* the sessions that requests were let in for, and to the pool.            *)
(***************************************************************************)
sessionStages == [s \in Sessions |-> SessionStage(s)]

\* The record of r changes, and no other.
Moves(r) == ReqTyped /\ ReqTyped' /\ \A q \in Requests \ {r} : req'[q] = req[q]

LEMMA Enters ==
    ASSUME NEW r \in Requests, Moves(r), ~LetIn(r), LetIn(r)'
    PROVE  Admitted' = Admitted \cup {req'[r].sid}
BY DEF Moves, LetIn, Admitted

\* A handler goes on elsewhere, for the same session.
LEMMA GoesOn ==
    ASSUME ReqTyped, NEW r \in Requests, NEW at \in Places, Go(r, at)
    PROVE  /\ Moves(r)
           /\ req'[r].at = at /\ req'[r].sid = req[r].sid
<1>1. /\ ReqTyped' /\ req'[r] = [req[r] EXCEPT !.at = at]
      /\ \A q \in Requests \ {r} : req'[q] = req[q]
  BY GoMoves
<1> QED
  BY <1>1 DEF Moves, ReqTyped, Records

\* Another request of the same session may keep it admitted.
LEMMA Leaves ==
    ASSUME NEW r \in Requests, Moves(r), LetIn(r), ~LetIn(r)'
    PROVE  Admitted' \in {Admitted, Admitted \ {req[r].sid}}
<1> DEFINE s == req[r].sid
<1>1. CASE \E q \in Requests \ {r} : LetIn(q) /\ req[q].sid = s
  BY <1>1 DEF Moves, LetIn, Admitted
<1>2. CASE ~\E q \in Requests \ {r} : LetIn(q) /\ req[q].sid = s
  BY <1>2 DEF Moves, LetIn, Admitted
<1> QED
  BY <1>1, <1>2

LEMMA Stays ==
    ASSUME NEW r \in Requests, Moves(r), LetIn(r)' <=> LetIn(r),
           LetIn(r) => req'[r].sid = req[r].sid
    PROVE  Admitted' = Admitted
BY DEF Moves, LetIn, Admitted

\* A handler returns.
LEMMA FinishLeaves ==
    ASSUME ReqTyped, NEW r \in Requests, Finish(r)
    PROVE  /\ ~LetIn(r) => Admitted' = Admitted
           /\ LetIn(r) => Admitted' \in {Admitted, Admitted \ {req[r].sid}}
<1>1. Moves(r) /\ ~LetIn(r)'
  BY FinishMoves DEF Moves, LetIn
<1> QED
  BY <1>1, Leaves, Stays

\* The sessions' stages are those of the store.
LEMMA SameStages ==
    ASSUME live' = live, Dying' = Dying
    PROVE  sessionStages' = sessionStages
BY DEF sessionStages, SessionStage

\* A new session: no connection and no request of an old one is left.
LEMMA MintBegins ==
    ASSUME ServerInv, NEW r \in Requests, NEW s \in Sessions, Mints(r, s)
    PROVE  SessionLife!Begin(s)
<1>0. PoolTyped /\ OwnSession /\ ReqTyped /\ SessionIdsAssumption
  BY ServerInvParts, SessionIdsAssumption DEF ReqInv, PoolInv
<1>1. sessionStages[s] = "none" /\ Create(s) /\ UNCHANGED poolVars
  BY DEF Mints, Login, AuthMint, Create, sessionStages, SessionStage
<1>2. s \notin Admitted \cup Pooled
  BY <1>0 DEF Mints, Login, AuthMint, Fresh, Admitted, OwnSession, Pooled, PoolTyped
<1>3. sessionStages' = [sessionStages EXCEPT ![s] = "live"]
  BY <1>1 DEF Create, Dying, sessionStages, SessionStage
<1>4. Pooled' = Pooled
  BY <1>1 DEF Pooled, poolVars
<1>5. Admitted' \in {Admitted, Admitted \cup {s}}
  <2>1. CASE Login(r, s)
    <3> DEFINE new == [Blank EXCEPT !.at = "reply", !.client = req[r].client, !.set = {s}]
    <3>1. req' = [req EXCEPT ![r] = new] /\ ~LetIn(r)
      BY <2>1 DEF Login, LetIn
    <3>2. new \in Records /\ new.at = "reply"
      BY <1>0 DEF Blank, ReqTyped, Records, Places
    <3> HIDE DEF new
    <3>3. Moves(r) /\ ~LetIn(r)'
      BY <1>0, <3>1, <3>2, RecordMoves DEF Moves, LetIn
    <3> QED
      BY <3>1, <3>3, Stays
  <2>2. CASE AuthMint(r, s)
    <3> DEFINE new == [req[r] EXCEPT !.at = "authed", !.sid = s, !.set = {s}]
    <3>1. req' = [req EXCEPT ![r] = new] /\ ~LetIn(r)
      BY <1>0, <2>2 DEF AuthMint, LetIn, ReqTyped
    <3>2. new \in Records /\ new.at = "authed" /\ new.sid = s
      BY <1>0 DEF ReqTyped, Records, Places
    <3> HIDE DEF new
    <3>3. Moves(r) /\ LetIn(r)' /\ req'[r].sid = s
      BY <1>0, <3>1, <3>2, RecordMoves DEF Moves, LetIn
    <3> QED
      BY <3>1, <3>3, Enters
  <2> QED
    BY <2>1, <2>2 DEF Mints
<1> QED
  BY <1>1, <1>2, <1>3, <1>4, <1>5 DEF SessionLife!Begin, sessionStages

LEMMA LogoutEnds ==
    ASSUME ServerInv, NEW r \in Requests, Logout(r)
    PROVE  \/ SessionLife!End({req[r].sid}) /\ req[r].sid \in Sessions
           \/ UNCHANGED <<sessionStages, Admitted, Pooled>>
<1> DEFINE s == req[r].sid
<1>0. StoreTypeOK /\ ReqTyped /\ ReportedOnce
  BY ServerInvParts DEF ReqInv
<1>1. PICK at \in {"evicting", "reply"} :
        req' = [req EXCEPT ![r] = [req[r] EXCEPT !.at = at, !.set = {NoSession}]]
  BY <1>0 DEF Logout, ReqTyped
<1>2. Admitted' = Admitted
  <2> DEFINE new == [req[r] EXCEPT !.at = at, !.set = {NoSession}]
  <2>1. new \in Records /\ new.at = at
    BY <1>0 DEF ReqTyped, Records, Places
  <2> HIDE DEF new
  <2>2. Moves(r) /\ ~LetIn(r) /\ ~LetIn(r)'
    BY <1>0, <1>1, <2>1, RecordMoves DEF Moves, LetIn, Logout, new
  <2> QED
    BY <2>2, Stays
<1>3. Pooled' = Pooled
  BY DEF Logout, poolVars, Pooled
<1>4. CASE Delete(s)
  <2>1. s \in Sessions /\ sessionStages[s] = "live"
    BY <1>0, <1>4 DEF Delete, StoreTypeOK, sessionStages, SessionStage
  <2>2. ASSUME NEW e \in Sessions
        PROVE  SessionStage(e)' = IF e = s THEN "ending" ELSE SessionStage(e)
    BY <1>0, <1>4 DEF Delete, SessionStage, Dying
  <2>3. sessionStages' = [e \in Sessions |-> IF e \in {s} THEN "ending" ELSE sessionStages[e]]
    BY <2>2 DEF sessionStages
  <2> QED
    BY <1>2, <1>3, <2>1, <2>3 DEF SessionLife!End, sessionStages
<1>5. CASE UNCHANGED storeVars
  BY <1>2, <1>3, <1>5, SameStages DEF storeVars, Dying
<1> QED
  BY <1>4, <1>5 DEF Logout

\* The end of e is reported, by a logout or by the janitor: its connection goes.
LEMMA ReportTakes ==
    ASSUME PoolTyped, StoreTypeOK, ReportedOnce, NEW e \in Sessions, NEW t \in Callers,
           EvictDeleted(e) \/ EvictExpired(e),
           Disconnect(t, e) \/ (conns[e] = NoConn /\ UNCHANGED poolVars),
           Admitted' = Admitted
    PROVE  SessionLife!Report(e)
<1>1. sessionStages[e] = "ending"
  BY DEF EvictDeleted, EvictExpired, ReportedOnce, Dying, sessionStages, SessionStage
<1>2. ASSUME NEW s \in Sessions
      PROVE  SessionStage(s)' = IF s = e THEN "none" ELSE SessionStage(s)
  BY DEF EvictDeleted, EvictExpired, ReportedOnce, Dying, SessionStage
<1>3. sessionStages' = [sessionStages EXCEPT ![e] = "none"]
  BY <1>2 DEF sessionStages
<1>4. Pooled' = Pooled \ {e}
  BY DEF Disconnect, Pooled, PoolTyped, poolVars
<1> QED
  BY <1>1, <1>3, <1>4 DEF SessionLife!Report, sessionStages

\* A handler that was let in gets or gives up a connection, or neither.
LEMMA LetInSteps ==
    ASSUME ServerInv, NEW r \in Requests, NEW s \in Sessions, s = req[r].sid,
           UNCHANGED storeVars, LetIn(r)
    PROVE  /\ Finish(r) /\ Pooled' = Pooled =>
                SessionLife!Leave(s) \/ UNCHANGED <<sessionStages, Admitted, Pooled>>
           /\ ConnectDone(r) => SessionLife!Link(s)
           /\ Disconnect(r, s) /\ Go(r, "closing") => SessionLife!Unlink(s)
<1>0. /\ PoolTyped /\ CallState /\ ReqTyped /\ HandlerState /\ r \in Callers
      /\ NoConn \notin Conns
  BY PoolAssumption, ServerAssumption, ServerInvParts DEF ReqInv, PoolInv
<1>1. s \in Admitted /\ sessionStages' = sessionStages
  BY SameStages DEF LetIn, Admitted, storeVars, Dying
<1>2. Finish(r) => Admitted' \in {Admitted, Admitted \ {s}}
  BY <1>0, FinishLeaves
<1>3. ASSUME Finish(r), Pooled' = Pooled
      PROVE  SessionLife!Leave(s) \/ UNCHANGED <<sessionStages, Admitted, Pooled>>
  BY <1>1, <1>2, <1>3 DEF SessionLife!Leave, sessionStages
<1>4. ASSUME ConnectDone(r) PROVE SessionLife!Link(s)
  <2>1. callSess[r] = s /\ callConn[r] \in Conns
    BY <1>0, <1>4 DEF ConnectDone, Publish, HandlerState, CallState, PoolTyped
  <2>2. Pooled' = Pooled \cup {s}
    BY <1>0, <1>4, <2>1 DEF ConnectDone, Publish, Pooled, PoolTyped
  <2> QED
    BY <1>1, <1>2, <1>4, <2>2 DEF ConnectDone, SessionLife!Link, sessionStages
<1>5. ASSUME Disconnect(r, s), Go(r, "closing") PROVE SessionLife!Unlink(s)
  <2>1. Pooled' = Pooled \ {s}
    BY <1>0, <1>5 DEF Disconnect, Pooled, PoolTyped
  <2>2. Moves(r) /\ ~LetIn(r)'
    BY <1>0, <1>5, GoesOn DEF LetIn, Places
  <2> QED
    BY <1>1, <2>1, <2>2, Leaves DEF SessionLife!Unlink, sessionStages
<1> QED
  BY <1>3, <1>4, <1>5

\* Past the middleware, before or after the body has been read.
LEMMA ServeSession ==
    ASSUME ServerInv, NEW r \in Requests,
           \/ BadRequest(r) \/ Answer(r) \/ Resolve(r)
           \/ \E h \in Hosts : ConnectRefused(r, h) \/ ConnectBegin(r, h)
    PROVE  SessionLife!SessionsNext \/ UNCHANGED <<sessionStages, Admitted, Pooled>>
<1>0. PoolTyped /\ ReqTyped /\ HandlerState
  BY ServerInvParts DEF ReqInv, PoolInv
<1>1. CASE BadRequest(r) \/ (\E h \in Hosts : ConnectRefused(r, h)) \/ Answer(r)
  <2>1. /\ LetIn(r) /\ req[r].sid \in Sessions /\ UNCHANGED storeVars
        /\ Finish(r) /\ Pooled' = Pooled
    BY <1>0, <1>1 DEF BadRequest, ConnectRefused, Answer, Get, LetIn, HandlerState,
                      poolVars, Pooled
  <2> QED
    BY <2>1, LetInSteps DEF SessionLife!SessionsNext
<1>2. CASE \E h \in Hosts : ConnectBegin(r, h)
  <2>1. Moves(r) /\ LetIn(r) /\ LetIn(r)' /\ req'[r].sid = req[r].sid
    BY <1>0, <1>2, GoesOn DEF ConnectBegin, LetIn, Places
  <2>2. UNCHANGED storeVars /\ Pooled' = Pooled
    BY <1>2 DEF ConnectBegin, ConnectCheck, Pooled
  <2> QED
    BY <2>1, <2>2, Stays, SameStages DEF storeVars, Dying
<1>3. CASE Resolve(r)
  <2> PICK parts \in BOOLEAN :
         req' = [req EXCEPT ![r] = [req[r] EXCEPT !.at = "resolved", !.parts = parts,
                                                  !.conn = conns[req[r].sid]]]
    BY <1>0, <1>3 DEF Resolve, ReqTyped
  <2> DEFINE new == [req[r] EXCEPT !.at = "resolved", !.parts = parts,
                                   !.conn = conns[req[r].sid]]
             s == req[r].sid
  <2>1. s \in Sessions /\ LetIn(r) /\ UNCHANGED storeVars /\ Pooled' = Pooled
    BY <1>0, <1>3 DEF Resolve, Get, HandlerState, LetIn, Pooled
  <2>2. new \in Records /\ new.at = "resolved"
    BY <1>0, <2>1 DEF ReqTyped, Records, Places, PoolTyped
  <2>3. Moves(r) /\ ~LetIn(r)'
    BY <1>0, <2>2, RecordMoves DEF Moves, LetIn
  <2>4. Admitted' \in {Admitted, Admitted \ {s}} /\ sessionStages' = sessionStages
    BY <2>1, <2>3, Leaves, SameStages DEF storeVars, Dying
  <2>5. s \in Admitted
    BY <2>1 DEF LetIn, Admitted
  <2> HIDE DEF new
  <2> QED
    BY <2>1, <2>4, <2>5 DEF SessionLife!Leave, SessionLife!SessionsNext, sessionStages
<1> QED
  BY <1>1, <1>2, <1>3

\* The handlers, one operation at a time.
LEMMA HandleSession ==
    ASSUME ServerInv, NEW r \in Requests, Handle(r)
    PROVE  SessionLife!SessionsNext \/ UNCHANGED <<sessionStages, Admitted, Pooled>>
<1> DEFINE Same == UNCHANGED <<sessionStages, Admitted, Pooled>>
<1>0. /\ PoolTyped /\ CallState /\ StoreTypeOK /\ ReportedOnce /\ ReqTyped /\ HandlerState
      /\ r \in Callers
  BY ServerAssumption, ServerInvParts DEF ReqInv, PoolInv
<1>1. ASSUME Finish(r), ~LetIn(r), Pooled' = Pooled, live' = live, Dying' = Dying PROVE Same
  BY <1>0, <1>1, FinishLeaves, SameStages
<1>2. CASE Me(r) \/ AuthReject(r)
  BY <1>1, <1>2 DEF Me, AuthReject, LetIn, Lookup, storeVars, poolVars, Pooled, Dying
<1>3. ASSUME NEW s \in Sessions, Mints(r, s) PROVE SessionLife!SessionsNext
  BY <1>3, MintBegins DEF SessionLife!SessionsNext
<1>4. CASE Logout(r)
  <2>1. SessionLife!End({req[r].sid}) /\ req[r].sid \in Sessions => SessionLife!SessionsNext
    BY {req[r].sid} \in SUBSET Sessions \/ req[r].sid \notin Sessions
       DEF SessionLife!SessionsNext
  <2> QED
    BY <1>4, <2>1, LogoutEnds
<1>5. CASE LogoutEvict(r)
  <2> DEFINE s == req[r].sid
  <2>1. s \in Sessions /\ EvictDeleted(s) /\ ~LetIn(r)
    BY <1>0, <1>5 DEF LogoutEvict, EvictDeleted, StoreTypeOK, LetIn
  <2>2. Disconnect(r, s) \/ (conns[s] = NoConn /\ UNCHANGED poolVars)
    BY <1>5 DEF LogoutEvict
  <2>3. Admitted' = Admitted
    <3>1. CASE Finish(r)
      BY <1>0, <2>1, <3>1, FinishLeaves
    <3>2. CASE Go(r, "closing")
      <4>1. Moves(r) /\ ~LetIn(r)'
        BY <1>0, <3>2, GoesOn DEF LetIn, Places
      <4> QED
        BY <2>1, <4>1, Stays
    <3> QED
      BY <1>5, <3>1, <3>2 DEF LogoutEvict
  <2> QED
    BY <1>0, <2>1, <2>2, <2>3, ReportTakes DEF SessionLife!SessionsNext
<1>6. CASE AuthOk(r)
  <2> DEFINE s == req[r].sid
  <2>1. s \in Sessions /\ sessionStages[s] = "live" /\ ~LetIn(r)
    BY <1>0, <1>6 DEF AuthOk, Lookup, Valid, StoreTypeOK, sessionStages, SessionStage, LetIn
  <2>2. sessionStages' = sessionStages /\ Pooled' = Pooled
    BY <1>6, SameStages DEF AuthOk, Lookup, Dying, poolVars, Pooled
  <2>3. Moves(r) /\ LetIn(r)' /\ req'[r].sid = s
    BY <1>0, <1>6, GoesOn DEF AuthOk, LetIn, Places
  <2> QED
    BY <2>1, <2>2, <2>3, Enters DEF SessionLife!Admit, SessionLife!SessionsNext, sessionStages
<1>7. CASE ConnectDone(r) \/ DisconnectBegin(r)
  <2>1. LetIn(r) /\ req[r].sid \in Sessions /\ UNCHANGED storeVars
    BY <1>0, <1>7 DEF ConnectDone, DisconnectBegin, LetIn, HandlerState
  <2>2. \/ Finish(r) /\ Pooled' = Pooled
        \/ ConnectDone(r)
        \/ Disconnect(r, req[r].sid) /\ Go(r, "closing")
    BY <1>7 DEF DisconnectBegin, poolVars, Pooled
  <2> QED
    BY <2>1, <2>2, LetInSteps DEF SessionLife!SessionsNext
<1>8. CASE ReadBody(r)
  <2>1. Moves(r) /\ LetIn(r) /\ LetIn(r)' /\ req'[r].sid = req[r].sid
    BY <1>0, <1>8, GoesOn DEF ReadBody, LetIn, Places
  <2>2. UNCHANGED <<poolVars, storeVars>>
    BY <1>8 DEF ReadBody
  <2> QED
    BY <2>1, <2>2, Stays, SameStages DEF poolVars, Pooled, storeVars, Dying
<1>9. CASE Answer(r) \/ Resolve(r)
  BY <1>9, ServeSession
<1>10. CASE Reply(r)
  <2>1. Blank \in Records /\ Blank.at = "idle"
    BY DEF Blank, Records, Places
  <2>2. Moves(r) /\ ~LetIn(r) /\ ~LetIn(r)'
    BY <1>0, <1>10, <2>1, RecordMoves DEF Reply, Moves, LetIn
  <2>3. UNCHANGED <<poolVars, storeVars>>
    BY <1>10 DEF Reply
  <2> QED
    BY <2>2, <2>3, Stays, SameStages DEF poolVars, Pooled, storeVars, Dying
<1> QED
  BY <1>2, <1>3, <1>4, <1>5, <1>6, <1>7, <1>8, <1>9, <1>10 DEF Handle, Mints

\* The other steps: the exchanges with peers, the janitors, the clock, main.
LEMMA ExchangeSession ==
    ASSUME ServerInv, NEW r \in Requests,
           Exchange(r) \/ LockConn(r) \/ (\E k \in Clients : Arrive(r, k))
    PROVE  SessionLife!SessionsNext \/ UNCHANGED <<sessionStages, Admitted, Pooled>>
<1>0. ReqTyped /\ HandlerState
  BY ServerInvParts DEF ReqInv
<1>1. CASE \/ BadRequest(r) \/ Answer(r) \/ Resolve(r)
            \/ \E h \in Hosts : ConnectRefused(r, h) \/ ConnectBegin(r, h)
  BY <1>1, ServeSession
<1>2. SUFFICES ASSUME ~BadRequest(r), ~Answer(r), ~Resolve(r),
                       \A h \in Hosts : ~ConnectRefused(r, h) /\ ~ConnectBegin(r, h)
                PROVE  SessionLife!SessionsNext \/ UNCHANGED <<sessionStages, Admitted, Pooled>>
  BY <1>1
<1>3. UNCHANGED storeVars /\ sessionStages' = sessionStages /\ Pooled' = Pooled
  <2>1. UNCHANGED storeVars /\ conns' = conns
    BY <1>2 DEF Exchange, LockConn, Arrive, ConnectOpen, ConnectGoOn, ConnectFail, CloseVictim,
           UnlockConn, LeaveConn, DialOk, StartOk, DialFail, StartFail, DisconnectClose,
           poolVars
  <2> QED
    BY <2>1, SameStages DEF storeVars, Dying, Pooled
<1>4. CASE ConnectFail(r)
  <2>1. LetIn(r) /\ req[r].sid \in Sessions /\ Finish(r)
    BY <1>0, <1>4 DEF ConnectFail, LetIn, HandlerState
  <2> QED
    BY <1>3, <2>1, LetInSteps DEF SessionLife!SessionsNext
<1>5. CASE Finish(r) /\ ~LetIn(r)
  BY <1>0, <1>3, <1>5, FinishLeaves
<1>6. CASE (\E at \in {"using", "resolved"} : Go(r, at)) /\ ~LetIn(r)
  <2> PICK at \in {"using", "resolved"} : Go(r, at)
    BY <1>6
  <2>1. Moves(r) /\ ~LetIn(r)'
    BY <1>0, GoesOn DEF LetIn, Places
  <2> QED
    BY <1>3, <1>6, <2>1, Stays
<1>7. CASE UNCHANGED req
  BY <1>3, <1>7 DEF Admitted
<1>8. ASSUME NEW k \in Clients, Arrive(r, k)
      PROVE  UNCHANGED <<sessionStages, Admitted, Pooled>>
  <2> DEFINE new == [Blank EXCEPT !.at = "arrived", !.client = k, !.sid = cookie[k]]
  <2>1. new \in Records /\ new.at = "arrived"
    BY ServerInvParts DEF Blank, Records, Places, JarTyped
  <2> HIDE DEF new
  <2>2. Moves(r) /\ ~LetIn(r) /\ ~LetIn(r)'
    BY <1>0, <1>8, <2>1, RecordMoves DEF Arrive, Moves, LetIn, new
  <2> QED
    BY <1>3, <2>2, Stays
<1> QED
  BY <1>2, <1>4, <1>5, <1>6, <1>7, <1>8
     DEF Exchange, LockConn, ConnectOpen, ConnectGoOn, CloseVictim, UnlockConn, LeaveConn, LetIn

LEMMA BackgroundSession ==
    ASSUME ServerInv,
           \/ StoreSweep \/ (\E s \in Sessions : SweepEvict(s)) \/ SweepClose
           \/ PoolEvict \/ (\E c \in Conns : PoolShut(c)) \/ JanitorsStop
           \/ Tick \/ ShutdownBegin \/ ShutdownPool \/ ListenerFails \/ Exit \/ UNCHANGED vars
    PROVE  SessionLife!SessionsNext \/ UNCHANGED <<sessionStages, Admitted, Pooled>>
<1>0. /\ PoolTyped /\ StoreTypeOK /\ ReportedOnce /\ Sweeper \in Callers
      /\ Admitted' = Admitted
  BY OthersTell, ServerAssumption, ServerInvParts DEF Admitted, PoolInv
<1>1. CASE StoreSweep
  <2> DEFINE late == {s \in live : ~Valid(s)}
  <2>1. late \in SUBSET Sessions /\ \A s \in late : sessionStages[s] = "live"
    BY <1>0 DEF StoreTypeOK, sessionStages, SessionStage
  <2>2. ASSUME NEW s \in Sessions
        PROVE  SessionStage(s)' = IF s \in late THEN "ending" ELSE SessionStage(s)
    BY <1>0, <1>1 DEF StoreSweep, Sweep, ReportedOnce, Dying, SessionStage
  <2>3. sessionStages' = [s \in Sessions |-> IF s \in late THEN "ending" ELSE sessionStages[s]]
    BY <2>2 DEF sessionStages
  <2>4. Pooled' = Pooled
    BY <1>1 DEF StoreSweep, poolVars, Pooled
  <2>5. SessionLife!End(late)
    BY <1>0, <2>1, <2>3, <2>4 DEF SessionLife!End, sessionStages
  <2> QED
    BY <2>1, <2>5 DEF SessionLife!SessionsNext
<1>2. ASSUME NEW s \in Sessions, SweepEvict(s) PROVE SessionLife!SessionsNext
  <2>1. SessionLife!Report(s)
    BY <1>0, <1>2, ReportTakes DEF SweepEvict
  <2> QED
    BY <2>1 DEF SessionLife!SessionsNext
<1>3. CASE PoolEvict \/ ShutdownPool \/ ListenerFails
  <2> DEFINE S == Pooled \ Pooled'
  <2>1. Pooled' = Pooled \ S /\ S \in SUBSET Sessions
    BY <1>3 DEF PoolEvict, EvictIdle, ShutdownPool, ListenerFails, PoolClose, Pooled
  <2>2. sessionStages' = sessionStages
    BY <1>3, SameStages DEF PoolEvict, ShutdownPool, ListenerFails, storeVars, Dying
  <2>3. SessionLife!Evict(S)
    BY <1>0, <2>1, <2>2 DEF SessionLife!Evict, sessionStages
  <2> QED
    BY <2>1, <2>3 DEF SessionLife!SessionsNext
<1>4. CASE SweepClose \/ (\E c \in Conns : PoolShut(c)) \/ JanitorsStop \/ Tick
           \/ ShutdownBegin \/ Exit \/ UNCHANGED vars
  <2>1. live' = live /\ Dying' = Dying
    BY <1>4 DEF SweepClose, PoolShut, JanitorsStop, Tick, StoreTick, ShutdownBegin, Exit,
                StoreClose, vars, storeVars, Dying
  <2>2. Pooled' = Pooled
    BY <1>4 DEF SweepClose, DisconnectClose, PoolShut, CloseReplaced, CloseDead,
                CloseDrained, JanitorsStop, JanitorStop, Tick, PoolTick, ShutdownBegin, Exit,
                vars, poolVars, Pooled
  <2> QED
    BY <1>0, <2>1, <2>2, SameStages
<1> QED
  BY <1>1, <1>2, <1>3, <1>4

LEMMA SessionsStep ==
    ASSUME ServerInv, [Next]_vars
    PROVE  [SessionLife!SessionsNext]_(SessionLife!sessionVars)
<1>1. UNCHANGED <<sessionStages, Admitted, Pooled>> => UNCHANGED SessionLife!sessionVars
  BY DEF sessionStages, SessionLife!sessionVars
<1> QED
  BY <1>1, HandleSession, ExchangeSession, BackgroundSession DEF Next, Running

(***************************************************************************)
(* The server implements SessionLifecycle.  A session's end takes its      *)
(* connection along whoever reports it, a new session finds nothing of an  *)
(* old one, and a connection is opened only by a request that was let in   *)
(* while the session lived.                                                *)
(***************************************************************************)
THEOREM ServerImplementsSessions == Spec => ImplementsSessions
<1>1. ServerInit => SessionLife!SessionsInit
  <2> SUFFICES ASSUME ServerInit PROVE SessionLife!SessionsInit
    OBVIOUS
  <2>1. \A s \in Sessions : SessionStage(s) = "none"
    BY DEF ServerInit, StoreInit, Dying, SessionStage
  <2>2. Admitted = {} /\ Pooled = {}
    BY DEF ServerInit, PoolInit, Blank, Admitted, Pooled
  <2> QED
    BY <2>1, <2>2 DEF SessionLife!SessionsInit
<1>2. ServerInv /\ [Next]_vars => [SessionLife!SessionsNext]_(SessionLife!sessionVars)
  BY SessionsStep
<1> QED
  BY <1>1, <1>2, ServerInvariant, PTL DEF Spec, ImplementsSessions, SessionLife!SessionsSpec

-----------------------------------------------------------------------------
(***************************************************************************)
(* Back to the browsers.  Whatever the server takes up is granted already, *)
(* or minted by this step.                                                 *)
(***************************************************************************)
\* A request is let in for a session that lives.
LEMMA AdmitTakes ==
    ASSUME ServerInv, [Next]_vars, NEW s \in Admitted'
    PROVE  s \in Admitted \/ (s \in Sessions /\ s \in live \cup live')
<1>1. [SessionLife!SessionsNext]_(SessionLife!sessionVars)
  BY SessionsStep
<1>2. \A e \in Sessions : /\ sessionStages[e] = "live" => e \in live
                          /\ sessionStages'[e] = "live" => e \in live'
  BY DEF sessionStages, SessionStage
<1>3. ASSUME NEW e \in Sessions,
             SessionLife!Begin(e) \/ SessionLife!Admit(e) \/ SessionLife!Leave(e)
               \/ SessionLife!Link(e) \/ SessionLife!Unlink(e) \/ SessionLife!Report(e)
      PROVE  s \in Admitted \/ (s = e /\ e \in live \cup live')
  <2>1. SessionLife!Begin(e) => s \in Admitted \/ (s = e /\ sessionStages'[e] = "live")
    BY DEF SessionLife!Begin, sessionStages
  <2>2. SessionLife!Admit(e) => s \in Admitted \/ (s = e /\ sessionStages[e] = "live")
    BY DEF SessionLife!Admit, sessionStages
  <2>3. SessionLife!Leave(e) \/ SessionLife!Link(e) \/ SessionLife!Unlink(e)
          \/ SessionLife!Report(e) => s \in Admitted
    BY DEF SessionLife!Leave, SessionLife!Link, SessionLife!Unlink, SessionLife!Report
  <2> QED
    BY <1>2, <1>3, <2>1, <2>2, <2>3
<1>4. (\E S \in SUBSET Sessions : SessionLife!End(S) \/ SessionLife!Evict(S))
        \/ UNCHANGED SessionLife!sessionVars => s \in Admitted
  BY DEF SessionLife!End, SessionLife!Evict, SessionLife!sessionVars
<1> QED
  BY <1>1, <1>3, <1>4 DEF SessionLife!SessionsNext

LEMMA GrantedTyped == ServerInv => Granted \subseteq Sessions
<1> SUFFICES ASSUME ServerInv PROVE Granted \subseteq Sessions
  OBVIOUS
<1>1. PoolTyped /\ StoreTypeOK /\ ReqTyped
  BY ServerInvParts DEF ReqInv, PoolInv
<1> QED
  BY <1>1 DEF Granted, PoolTyped, StoreTypeOK, Dying, Admitted, ReqTyped, Records

LEMMA GrantTakes ==
    ASSUME ServerInv, ServerInv', [Next]_vars, NEW s \in Granted',
           \A r \in Requests : ~Mints(r, s)
    PROVE  s \in Granted
<1>0. (ServerInv => Granted \subseteq Sessions)'
  BY GrantedTyped, PTL
<1>1. s \in Sessions /\ s # NoSession
  BY <1>0, SessionIdsAssumption
<1>2. s \in (live \cup Dying)' => s \in live \cup Dying
  BY <1>1, StoreTakes, ServerInvParts
<1>3. s \in Admitted' => s \in Admitted \cup live \cup live'
  BY AdmitTakes
<1>4. ASSUME NEW c \in Conns, s = cred'[c] PROVE s \in Granted
  BY <1>1, <1>4, DialTakes DEF Granted
<1>5. ASSUME NEW t \in Callers, s = callSess'[t] PROVE s \in Granted
  BY <1>1, <1>5, CallTakes DEF Granted
<1> QED
  BY <1>1, <1>2, <1>3, <1>4, <1>5 DEF Granted

LEMMA KnownStep ==
    ASSUME ServerInv, ServerInv', KnownOnce, [Next]_vars
    PROVE  KnownOnce'
<1> SUFFICES ASSUME NEW s \in Granted', NEW k \in Clients, NEW l \in Clients,
                    Knows(k, s)', Knows(l, s)'
             PROVE  k = l
  BY DEF KnownOnce
<1>0. s \in Sessions /\ ReqTyped /\ JarTyped
  <2>1. (ServerInv => Granted \subseteq Sessions)'
    BY GrantedTyped, PTL
  <2> QED
    BY <2>1, ServerInvParts DEF ReqInv
<1>1. CASE \E r \in Requests : Mints(r, s)
  BY <1>0, <1>1, MintTells
<1>2. CASE \A r \in Requests : ~Mints(r, s)
  <2>1. ASSUME NEW m \in Clients, Knows(m, s)' PROVE Knows(m, s)
    <3>1. ASSUME NEW r \in Requests,
                 Handle(r) \/ Exchange(r) \/ LockConn(r) \/ (\E q \in Clients : Arrive(r, q))
          PROVE  Knows(m, s)
      BY <1>0, <1>2, <2>1, <3>1, HandlerTells
    <3>2. CASE UNCHANGED <<req, cookie>>
      BY <2>1, <3>2 DEF Knows
    <3> QED
      BY <3>1, <3>2, OthersTell DEF Next, Running
  <2>2. s \in Granted
    BY <1>2, GrantTakes
  <2> QED
    BY <2>1, <2>2 DEF KnownOnce
<1> QED
  BY <1>1, <1>2

(***************************************************************************)
(* As long as the server has a session in its map, is reporting its end or *)
(* holds a connection opened for it, no two browsers know its id: whatever *)
(* stale cookies are sent and whatever responses are lost or overtaken.    *)
(***************************************************************************)
THEOREM ServerOneBrowser == Spec => []OneBrowser
<1>1. ServerInit => KnownOnce
  <2>1. ServerInit => Granted = {}
    BY DEF ServerInit, StoreInit, PoolInit, Blank, Dying, Admitted, Granted
  <2> QED
    BY <2>1 DEF KnownOnce
<1>2. ServerInv /\ ServerInv' /\ KnownOnce /\ [Next]_vars => KnownOnce'
  BY KnownStep
<1>3. ServerInv /\ KnownOnce => OneBrowser
  <2> SUFFICES ASSUME ServerInv, KnownOnce, NEW s \in live \cup Dying \cup
                        ({cred[c] : c \in Conns} \ {NoSession})
               PROVE  s \in Granted
    BY DEF OneBrowser, KnownOnce
  <2>1. StoreTypeOK
    BY ServerInvParts
  <2> QED
    BY <2>1, SessionIdsAssumption DEF StoreTypeOK, Dying, Granted
<1> QED
  BY <1>1, <1>2, <1>3, ServerInvariant, PTL DEF Spec
=============================================================================
