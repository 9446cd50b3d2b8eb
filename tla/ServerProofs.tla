---------------------------- MODULE ServerProofs ----------------------------
(***************************************************************************)
(* Server for any number of requests, clients, sessions and connections.   *)
(* The server takes only steps of the pool and of the store, so the        *)
(* theorems about those hold of it; with them, a handler never touches     *)
(* another session's connection, and no connection is dropped without      *)
(* cause.                                                                  *)
(*                                                                         *)
(* ServerInv joins the invariants of the parts with what the place of a    *)
(* handler says of its session, its connection and its call of the pool    *)
(* (HandlerState).                                                         *)
(***************************************************************************)
EXTENDS Server, ConnPoolProofs, SessionStoreProofs

ServerInv == PoolInv /\ ReportedOnce /\ ServerTypeOK /\ OwnConnection

-----------------------------------------------------------------------------
(***************************************************************************)
(* The steps of the server, seen from the store and from the pool.         *)
(***************************************************************************)
LEMMA StoreStep ==
    ASSUME StoreTypeOK, [Next]_vars
    PROVE  [StoreNext]_storeVars
<1> USE DEF StoreTypeOK
<1>1. ASSUME NEW r \in Requests, Handle(r) PROVE [StoreNext]_storeVars
  <2>1. CASE Me(r) \/ AuthOk(r)
    BY <2>1 DEF Me, AuthOk, StoreNext, Lookup, Valid
  <2>2. CASE \E s \in Sessions : Login(r, s) \/ AuthMint(r, s)
    BY <2>2 DEF Login, AuthMint, StoreNext
  <2>3. CASE Logout(r)
    BY <2>3 DEF Logout, StoreNext, Delete
  <2>4. CASE LogoutEvict(r)
    BY <2>4 DEF LogoutEvict, StoreNext, EvictDeleted
  <2>5. CASE AuthReject(r) \/ ReadBody(r) \/ DisconnectBegin(r) \/ Answer(r)
             \/ Resolve(r) \/ ConnectDone(r) \/ Reply(r)
    BY <2>5 DEF AuthReject, ReadBody, DisconnectBegin, Answer, Resolve, ConnectDone, Reply
  <2> QED
    BY <1>1, <2>1, <2>2, <2>3, <2>4, <2>5 DEF Handle
<1>2. ASSUME NEW r \in Requests, Exchange(r) \/ LockConn(r) \/ (\E k \in Clients : Arrive(r, k))
      PROVE  UNCHANGED storeVars
  BY <1>2 DEF Exchange, LockConn, Arrive, BadRequest, ConnectRefused, ConnectBegin, Answer,
              Resolve, ConnectOpen, ConnectGoOn, ConnectFail, CloseVictim, UnlockConn,
              LeaveConn
<1>3. CASE StoreSweep \/ (\E s \in Sessions : SweepEvict(s)) \/ SweepClose
  BY <1>3 DEF StoreSweep, SweepEvict, SweepClose, StoreNext
<1>4. CASE PoolEvict \/ (\E c \in Conns : PoolShut(c)) \/ JanitorsStop
           \/ ShutdownBegin \/ ShutdownPool \/ ListenerFails \/ UNCHANGED vars
  BY <1>4 DEF PoolEvict, PoolShut, JanitorsStop, ShutdownBegin, ShutdownPool,
              ListenerFails, vars
<1>5. CASE Tick \/ Exit
  BY <1>5 DEF Tick, Exit, StoreNext
<1> QED
  BY <1>1, <1>2, <1>3, <1>4, <1>5 DEF Next, Running

LEMMA PoolStep ==
    ASSUME StoreTypeOK, HandlerState, [Next]_vars
    PROVE  [PoolNext]_poolVars
<1>0. ASSUME NEW t \in Callers, CallerStep(t) PROVE PoolNext
  BY <1>0 DEF PoolNext
<1>1. ASSUME NEW r \in Requests, Handle(r) PROVE [PoolNext]_poolVars
  <2>0. r \in Callers
    BY ServerAssumption
  <2>1. CASE Me(r) \/ Logout(r) \/ AuthOk(r) \/ AuthReject(r) \/ ReadBody(r) \/ Reply(r)
             \/ (\E s \in Sessions : Login(r, s) \/ AuthMint(r, s))
    BY <2>1 DEF Me, Logout, AuthOk, AuthReject, ReadBody, Reply, Login, AuthMint
  <2>2. CASE LogoutEvict(r)
    BY <1>0, <2>0, <2>2 DEF LogoutEvict, EvictDeleted, StoreTypeOK, CallerStep
  <2>3. CASE DisconnectBegin(r)
    BY <1>0, <2>0, <2>3 DEF DisconnectBegin, HandlerState, Inside, CallerStep
  <2>4. CASE Answer(r) \/ Resolve(r)
    BY <1>0, <2>0, <2>4 DEF Answer, Resolve, HandlerState, Inside, CallerStep
  <2>5. CASE ConnectDone(r)
    BY <1>0, <2>0, <2>5 DEF ConnectDone, CallerStep
  <2> QED
    BY <1>1, <2>1, <2>2, <2>3, <2>4, <2>5 DEF Handle
<1>2. ASSUME NEW r \in Requests, Exchange(r) PROVE [PoolNext]_poolVars
  <2>1. CASE BadRequest(r) \/ (\E h \in Hosts : ConnectRefused(r, h)) \/ UnlockConn(r)
             \/ LeaveConn(r)
    BY <2>1 DEF BadRequest, ConnectRefused, UnlockConn, LeaveConn
  <2>2. CASE (\E c \in Conns : ConnectOpen(r, c)) \/ ConnectGoOn(r) \/ ConnectFail(r)
             \/ CloseVictim(r)
    BY <1>0, <2>2, ServerAssumption
       DEF ConnectOpen, ConnectGoOn, ConnectFail, CloseVictim, CallerStep
  <2>3. CASE (\E h \in Hosts : ConnectBegin(r, h)) \/ Answer(r) \/ Resolve(r)
    BY <1>0, <2>3, ServerAssumption
       DEF ConnectBegin, Answer, Resolve, HandlerState, Inside, CallerStep
  <2> QED
    BY <1>2, <2>1, <2>2, <2>3 DEF Exchange
<1>3. ASSUME NEW r \in Requests, LockConn(r) \/ (\E k \in Clients : Arrive(r, k))
      PROVE  UNCHANGED poolVars
  BY <1>3 DEF LockConn, Arrive
<1>4. CASE StoreSweep \/ ShutdownBegin \/ Exit \/ UNCHANGED vars
  BY <1>4 DEF StoreSweep, ShutdownBegin, Exit, vars
<1>5. CASE (\E s \in Sessions : SweepEvict(s)) \/ SweepClose
  BY <1>0, <1>5, ServerAssumption DEF SweepEvict, SweepClose, CallerStep
<1>6. CASE PoolEvict \/ (\E c \in Conns : PoolShut(c)) \/ JanitorsStop \/ Tick
           \/ ShutdownPool \/ ListenerFails
  BY <1>6 DEF PoolEvict, PoolShut, JanitorsStop, Tick, ShutdownPool, ListenerFails, PoolNext
<1> QED
  BY <1>1, <1>2, <1>3, <1>4, <1>5, <1>6 DEF Next, Running

-----------------------------------------------------------------------------
(***************************************************************************)
(* The handlers' own state.                                                *)
(***************************************************************************)
Places == {"idle", "arrived", "authed", "reading", "evicting", "connecting", "closing",
           "resolved", "using", "reply"}

Records == [at : Places, client : Clients \cup {"none"},
            sid : Sessions \cup {NoSession}, conn : Conns \cup {NoConn},
            parts : BOOLEAN, set : SUBSET (Sessions \cup {NoSession})]

ReqTyped == req \in [Requests -> Records]

PcState == \A r \in Requests : pc[r] = "idle" <=> req[r].at \notin {"connecting", "closing"}

\* The part of ServerInv that is about req.
ReqInv == ReqTyped /\ PcState /\ HandlerState /\ OwnConnection

LEMMA RecordMoves ==
    ASSUME ReqTyped, NEW r \in Requests, NEW new \in Records,
           req' = [req EXCEPT ![r] = new]
    PROVE  /\ ReqTyped'
           /\ req'[r] = new
           /\ \A q \in Requests \ {r} : req'[q] = req[q]
BY DEF ReqTyped

LEMMA FinishMoves ==
    ASSUME ReqTyped, NEW r \in Requests, Finish(r)
    PROVE  /\ ReqTyped'
           /\ req'[r].at \in {"idle", "reply"} /\ req'[r].conn = NoConn
           /\ \A q \in Requests \ {r} : req'[q] = req[q]
<1> DEFINE new == IF req[r].set = {} THEN Blank
                  ELSE [Blank EXCEPT !.at = "reply", !.client = req[r].client,
                                     !.set = req[r].set]
<1>1. req' = [req EXCEPT ![r] = new]
  BY DEF Finish, ReqTyped
<1>2. /\ new \in Records
      /\ new.at \in {"idle", "reply"} /\ new.conn = NoConn
  BY DEF Blank, ReqTyped, Records, Places
<1> QED
  BY <1>1, <1>2, RecordMoves

LEMMA GoMoves ==
    ASSUME ReqTyped, NEW r \in Requests, NEW at \in Places, Go(r, at)
    PROVE  /\ ReqTyped'
           /\ req'[r] = [req[r] EXCEPT !.at = at]
           /\ \A q \in Requests \ {r} : req'[q] = req[q]
<1>1. [req[r] EXCEPT !.at = at] \in Records
  BY DEF ReqTyped, Records
<1> QED
  BY <1>1, RecordMoves DEF Go

\* One handler moves and the pool does nothing of note to the others.
LEMMA OneMoves ==
    ASSUME ReqInv, ReqTyped', NEW r \in Requests,
           \A q \in Requests \ {r} : /\ req'[q] = req[q]
                                     /\ pc'[q] = pc[q] /\ callSess'[q] = callSess[q],
           \A c \in Conns : cred'[c] = cred[c] \/ cred'[c] = NoSession
                              \/ \A q \in Requests : req[q].conn # c,
           pc'[r] = "idle" <=> req'[r].at \notin {"connecting", "closing"},
           req'[r].at \in {"authed", "reading", "connecting"} => req'[r].sid \in Sessions,
           req'[r].at = "connecting" => callSess'[r] = req'[r].sid,
           \/ req'[r].conn = NoConn
           \/ /\ req'[r].at \in {"resolved", "using"}
              /\ cred'[req'[r].conn] \in {req'[r].sid, NoSession}
    PROVE  ReqInv'
<1>1. PcState' /\ HandlerState'
  BY DEF ReqInv, PcState, HandlerState, Inside
<1>2. ASSUME NEW q \in Requests, req'[q].conn # NoConn
      PROVE  cred'[req'[q].conn] \in {req'[q].sid, NoSession}
  <2>1. CASE q = r
    BY <1>2, <2>1
  <2>2. CASE q # r
    <3>1. req'[q] = req[q] /\ req[q].conn \in Conns
      BY <1>2, <2>2 DEF ReqInv, ReqTyped, Records
    <3>2. cred[req[q].conn] \in {req[q].sid, NoSession}
      BY <1>2, <3>1 DEF ReqInv, OwnConnection
    <3> QED
      BY <3>1, <3>2
  <2> QED
    BY <2>1, <2>2
<1> QED
  BY <1>1, <1>2 DEF ReqInv, OwnConnection

\* No handler moves.
LEMMA NoneMoves ==
    ASSUME ReqInv, req' = req,
           \A q \in Requests : pc'[q] = pc[q] /\ callSess'[q] = callSess[q],
           \A c \in Conns : cred'[c] = cred[c] \/ cred'[c] = NoSession
    PROVE  ReqInv'
<1>1. PcState' /\ HandlerState' /\ ReqTyped'
  BY DEF ReqInv, PcState, HandlerState, Inside, ReqTyped
<1>2. OwnConnection'
  BY PoolAssumption DEF ReqInv, OwnConnection, ReqTyped, Records
<1> QED
  BY <1>1, <1>2 DEF ReqInv

\* A handler returns that was not in a call of the pool.
LEMMA QuietFinish ==
    ASSUME ReqInv, NEW r \in Requests, Finish(r),
           req[r].at \notin {"connecting", "closing"},
           UNCHANGED <<pc, callSess, cred>>
    PROVE  ReqInv'
<1>1. /\ ReqTyped'
      /\ req'[r].at \in {"idle", "reply"} /\ req'[r].conn = NoConn
      /\ \A q \in Requests \ {r} : req'[q] = req[q]
  BY FinishMoves DEF ReqInv
<1> QED
  BY <1>1, OneMoves DEF ReqInv, PcState

\* A handler returns from a call of the pool.
LEMMA CallFinish ==
    ASSUME PoolTyped, ReqInv, NEW r \in Requests, Finish(r), Return(r),
           \A c \in Conns : cred'[c] = cred[c] \/ cred'[c] = NoSession
    PROVE  ReqInv'
<1>1. /\ ReqTyped'
      /\ req'[r].at \in {"idle", "reply"} /\ req'[r].conn = NoConn
      /\ \A q \in Requests \ {r} : req'[q] = req[q]
  BY FinishMoves DEF ReqInv
<1>2. /\ pc'[r] = "idle"
      /\ \A q \in Requests \ {r} : pc'[q] = pc[q] /\ callSess'[q] = callSess[q]
  BY ServerAssumption DEF Return, PoolTyped
<1> QED
  BY <1>1, <1>2, OneMoves

\* What a handler does past the middleware, before or after it has its body.
LEMMA ServeKeeps ==
    ASSUME PoolInv, ReqInv, NEW r \in Requests,
           \/ BadRequest(r) \/ Answer(r) \/ Resolve(r)
           \/ \E h \in Hosts : ConnectRefused(r, h) \/ ConnectBegin(r, h)
    PROVE  ReqInv'
<1> USE DEF PoolInv
<1>0. r \in Callers
  BY ServerAssumption
<1>1. CASE BadRequest(r) \/ (\E h \in Hosts : ConnectRefused(r, h)) \/ Answer(r)
  BY <1>1, QuietFinish DEF BadRequest, ConnectRefused, Answer, Get, poolVars
<1>2. CASE \E h \in Hosts : ConnectBegin(r, h)
  <2> PICK h \in Hosts : ConnectBegin(r, h)
    BY <1>2
  <2>1. /\ ReqTyped' /\ req'[r] = [req[r] EXCEPT !.at = "connecting"]
        /\ \A q \in Requests \ {r} : req'[q] = req[q]
    BY GoMoves DEF ConnectBegin, ReqInv, Places
  <2>2. /\ pc'[r] = "dialing" /\ callSess'[r] = req[r].sid /\ UNCHANGED cred
        /\ \A q \in Requests \ {r} : pc'[q] = pc[q] /\ callSess'[q] = callSess[q]
    BY <1>0, ServerAssumption DEF ConnectBegin, ConnectCheck, PoolTyped
  <2>3. /\ req'[r].at = "connecting" /\ req'[r].sid = req[r].sid /\ req[r].sid \in Sessions
        /\ req'[r].conn = NoConn
    BY <2>1 DEF ConnectBegin, ReqInv, ReqTyped, Records, HandlerState, Inside
  <2> QED
    BY <2>1, <2>2, <2>3, OneMoves DEF Inside
<1>3. CASE Resolve(r)
  <2> DEFINE s == req[r].sid
  <2>1. PICK parts \in BOOLEAN :
          req' = [req EXCEPT ![r] = [@ EXCEPT !.at = "resolved", !.parts = parts,
                                              !.conn = conns[s]]]
    BY <1>3 DEF Resolve
  <2>2. /\ req[r].at \in {"authed", "reading"} /\ s \in Sessions /\ conns[s] # NoConn
        /\ UNCHANGED <<pc, callSess, cred>>
    BY <1>3 DEF Resolve, Get, ReqInv, HandlerState, Inside
  <2>3. conns[s] \in Conns /\ cred[conns[s]] = s
    BY <2>2 DEF PoolTyped, OwnSession, Pooled
  <2> DEFINE new == [req[r] EXCEPT !.at = "resolved", !.parts = parts, !.conn = conns[s]]
  <2>4. new \in Records /\ new.at = "resolved" /\ new.sid = s /\ new.conn = conns[s]
    BY <2>3 DEF ReqInv, ReqTyped, Records, Places
  <2>5. /\ ReqTyped' /\ req'[r] = new
        /\ \A q \in Requests \ {r} : req'[q] = req[q]
    BY <2>1, <2>4, RecordMoves DEF ReqInv
  <2> HIDE DEF new
  <2> QED
    BY <2>2, <2>3, <2>4, <2>5, OneMoves DEF ReqInv, PcState, Inside
<1> QED
  BY <1>1, <1>2, <1>3

LEMMA HandleKeeps ==
    ASSUME PoolInv, StoreTypeOK, ReqInv, NEW r \in Requests, Handle(r)
    PROVE  ReqInv'
<1> USE DEF PoolInv
<1>0. r \in Callers
  BY ServerAssumption
<1>1. CASE Me(r) \/ AuthReject(r)
  BY <1>1, QuietFinish DEF Me, AuthReject, poolVars
<1>2. CASE \E s \in Sessions : Login(r, s)
  <2> PICK s \in Sessions : Login(r, s)
    BY <1>2
  <2> DEFINE new == [Blank EXCEPT !.at = "reply", !.client = req[r].client, !.set = {s}]
  <2>1. /\ req' = [req EXCEPT ![r] = new]
        /\ req[r].at = "arrived" /\ UNCHANGED <<pc, callSess, cred>>
    BY DEF Login, poolVars
  <2>2. new \in Records /\ new.at = "reply" /\ new.conn = NoConn
    BY DEF ReqInv, ReqTyped, Records, Blank, Places
  <2>3. /\ ReqTyped' /\ req'[r] = new
        /\ \A q \in Requests \ {r} : req'[q] = req[q]
    BY <2>1, <2>2, RecordMoves DEF ReqInv
  <2> HIDE DEF new
  <2> QED
    BY <2>1, <2>2, <2>3, OneMoves DEF ReqInv, PcState
<1>3. CASE Logout(r)
  <2>1. /\ \E at \in {"evicting", "reply"} :
             req' = [req EXCEPT ![r] = [@ EXCEPT !.at = at, !.set = {NoSession}]]
        /\ req[r].at = "arrived" /\ UNCHANGED <<pc, callSess, cred>>
    BY <1>3 DEF Logout, poolVars
  <2>2. /\ ReqTyped' /\ req'[r].at \in {"evicting", "reply"} /\ req'[r].conn = req[r].conn
        /\ \A q \in Requests \ {r} : req'[q] = req[q]
    <3> PICK at \in {"evicting", "reply"} :
               req' = [req EXCEPT ![r] = [@ EXCEPT !.at = at, !.set = {NoSession}]]
      BY <2>1
    <3> DEFINE new == [req[r] EXCEPT !.at = at, !.set = {NoSession}]
    <3>1. new \in Records /\ new.at = at /\ new.conn = req[r].conn
      BY DEF ReqInv, ReqTyped, Records, Places
    <3> QED
      BY <3>1, RecordMoves DEF ReqInv
  <2> QED
    BY <2>1, <2>2, OneMoves DEF ReqInv, PcState, HandlerState
<1>4. CASE LogoutEvict(r) \/ DisconnectBegin(r)
  <2>1. CASE Finish(r) /\ UNCHANGED poolVars
    BY <1>4, <2>1, QuietFinish DEF LogoutEvict, DisconnectBegin, poolVars
  <2>2. CASE Disconnect(r, req[r].sid) /\ Go(r, "closing")
    <3>1. /\ ReqTyped' /\ req'[r] = [req[r] EXCEPT !.at = "closing"]
          /\ \A q \in Requests \ {r} : req'[q] = req[q]
      BY <2>2, GoMoves DEF ReqInv, Places
    <3>2. /\ pc'[r] = "closing" /\ UNCHANGED <<callSess, cred>>
          /\ \A q \in Requests \ {r} : pc'[q] = pc[q]
      BY <1>0, <2>2, ServerAssumption DEF Disconnect, PoolTyped
    <3>3. req'[r].at = "closing" /\ req'[r].conn = NoConn
      BY <1>4, <3>1 DEF LogoutEvict, DisconnectBegin, ReqInv, ReqTyped, Records, HandlerState
    <3> QED
      BY <3>1, <3>2, <3>3, OneMoves
  <2> QED
    BY <1>4, <2>1, <2>2 DEF LogoutEvict, DisconnectBegin
<1>5. CASE AuthOk(r)
  <2>1. /\ ReqTyped' /\ req'[r] = [req[r] EXCEPT !.at = "authed"]
        /\ \A q \in Requests \ {r} : req'[q] = req[q]
    BY <1>5, GoMoves DEF AuthOk, ReqInv, Places
  <2>2. /\ req[r].at = "arrived" /\ req[r].sid \in Sessions
        /\ UNCHANGED <<pc, callSess, cred>>
    BY <1>5 DEF AuthOk, Lookup, Valid, StoreTypeOK, poolVars
  <2>3. req'[r].at = "authed" /\ req'[r].sid \in Sessions /\ req'[r].conn = NoConn
    BY <2>1, <2>2 DEF ReqInv, ReqTyped, Records, HandlerState
  <2> QED
    BY <2>1, <2>2, <2>3, OneMoves DEF ReqInv, PcState
<1>6. CASE \E s \in Sessions : AuthMint(r, s)
  <2> PICK s \in Sessions : AuthMint(r, s)
    BY <1>6
  <2> DEFINE new == [req[r] EXCEPT !.at = "authed", !.sid = s, !.set = {s}]
  <2>1. /\ req' = [req EXCEPT ![r] = new]
        /\ req[r].at = "arrived" /\ UNCHANGED <<pc, callSess, cred>>
    BY DEF AuthMint, poolVars
  <2>2. new \in Records /\ new.at = "authed" /\ new.sid = s /\ new.conn = req[r].conn
    BY DEF ReqInv, ReqTyped, Records, Places
  <2>3. /\ ReqTyped' /\ req'[r] = new
        /\ \A q \in Requests \ {r} : req'[q] = req[q]
    BY <2>1, <2>2, RecordMoves DEF ReqInv
  <2> HIDE DEF new
  <2> QED
    BY <2>1, <2>2, <2>3, OneMoves DEF ReqInv, PcState, HandlerState
<1>7. CASE ReadBody(r)
  <2>1. /\ ReqTyped' /\ req'[r] = [req[r] EXCEPT !.at = "reading"]
        /\ \A q \in Requests \ {r} : req'[q] = req[q]
    BY <1>7, GoMoves DEF ReadBody, ReqInv, Places
  <2>2. /\ req[r].at = "authed" /\ req[r].sid \in Sessions
        /\ UNCHANGED <<pc, callSess, cred>>
    BY <1>7 DEF ReadBody, poolVars, ReqInv, HandlerState, Inside
  <2>3. req'[r].at = "reading" /\ req'[r].sid \in Sessions /\ req'[r].conn = NoConn
    BY <2>1, <2>2 DEF ReqInv, ReqTyped, Records, HandlerState
  <2> QED
    BY <2>1, <2>2, <2>3, OneMoves DEF ReqInv, PcState
<1>8. CASE Answer(r) \/ Resolve(r)
  BY <1>8, ServeKeeps
<1>9. CASE ConnectDone(r)
  BY <1>9, CallFinish DEF ConnectDone, Publish
<1>10. CASE Reply(r)
  <2>1. /\ req' = [req EXCEPT ![r] = Blank]
        /\ req[r].at = "reply" /\ UNCHANGED <<pc, callSess, cred>>
    BY <1>10 DEF Reply, poolVars
  <2>2. /\ ReqTyped' /\ req'[r].at = "idle" /\ req'[r].conn = NoConn
        /\ \A q \in Requests \ {r} : req'[q] = req[q]
    <3>1. Blank \in Records /\ Blank.at = "idle" /\ Blank.conn = NoConn
      BY DEF Blank, Records, Places
    <3> QED
      BY <2>1, <3>1, RecordMoves DEF ReqInv
  <2> QED
    BY <2>1, <2>2, OneMoves DEF ReqInv, PcState
<1> QED
  BY <1>1, <1>2, <1>3, <1>4, <1>5, <1>6, <1>7, <1>8, <1>9, <1>10 DEF Handle

LEMMA ExchangeKeeps ==
    ASSUME PoolInv, ReqInv, NEW r \in Requests, Exchange(r)
    PROVE  ReqInv'
<1> USE DEF PoolInv
<1>0. r \in Callers
  BY ServerAssumption
<1>1. CASE (\E c \in Conns : ConnectOpen(r, c)) \/ ConnectGoOn(r)
  <2>1. /\ pc'[r] # "idle" /\ callSess' = callSess /\ req' = req
        /\ \A q \in Requests \ {r} : pc'[q] = pc[q]
        /\ req[r].at = "connecting"
    BY <1>0, <1>1, ServerAssumption
       DEF ConnectOpen, ConnectGoOn, DialOk, StartOk, PoolTyped
  <2>2. \A c \in Conns : cred'[c] = cred[c] \/ \A q \in Requests : req[q].conn # c
    BY <1>1 DEF ConnectOpen, ConnectGoOn, DialOk, StartOk, PoolTyped
  <2>3. /\ ReqTyped' /\ req[r].conn = NoConn
        /\ req[r].sid \in Sessions /\ callSess[r] = req[r].sid
    BY <2>1 DEF ReqInv, ReqTyped, Records, HandlerState, Inside
  <2> QED
    BY <2>1, <2>2, <2>3, OneMoves
<1>2. CASE ConnectFail(r) \/ CloseVictim(r)
  <2>1. Return(r) /\ Finish(r)
    BY <1>2 DEF ConnectFail, CloseVictim, DialFail, StartFail, DisconnectClose
  <2>2. \A c \in Conns : cred'[c] = cred[c] \/ cred'[c] = NoSession
    BY <1>2 DEF ConnectFail, CloseVictim, DialFail, StartFail, DisconnectClose, Shut,
                PoolTyped
  <2> QED
    BY <2>1, <2>2, CallFinish
<1>3. CASE UnlockConn(r) /\ Go(r, "resolved")
  <2>1. /\ ReqTyped' /\ req'[r] = [req[r] EXCEPT !.at = "resolved"]
        /\ \A q \in Requests \ {r} : req'[q] = req[q]
    BY <1>3, GoMoves DEF ReqInv, Places
  <2>2. /\ req'[r].at = "resolved" /\ req'[r].conn = req[r].conn /\ req'[r].sid = req[r].sid
        /\ req[r].at = "using" /\ UNCHANGED <<pc, callSess, cred>>
    BY <1>3, <2>1 DEF UnlockConn, poolVars, ReqInv, ReqTyped, Records
  <2>3. req[r].conn = NoConn \/ cred[req[r].conn] \in {req[r].sid, NoSession}
    BY DEF ReqInv, OwnConnection
  <2> QED
    BY <2>1, <2>2, <2>3, OneMoves DEF ReqInv, PcState
<1>4. CASE (UnlockConn(r) /\ Finish(r)) \/ LeaveConn(r)
  BY <1>4, QuietFinish DEF UnlockConn, LeaveConn, poolVars
<1>5. CASE \/ BadRequest(r) \/ Answer(r) \/ Resolve(r)
           \/ \E h \in Hosts : ConnectRefused(r, h) \/ ConnectBegin(r, h)
  BY <1>5, ServeKeeps
<1> QED
  BY <1>1, <1>2, <1>3, <1>4, <1>5 DEF Exchange, UnlockConn

\* A request arrives, or its handler takes the lock of its connection.
LEMMA QuietKeeps ==
    ASSUME ReqInv, cookie \in [Clients -> Sessions \cup {NoSession}], NEW r \in Requests,
           LockConn(r) \/ (\E k \in Clients : Arrive(r, k))
    PROVE  ReqInv'
<1>0. UNCHANGED <<pc, callSess, cred>>
  BY DEF LockConn, Arrive, poolVars
<1>1. CASE LockConn(r)
  <2>1. /\ ReqTyped' /\ req'[r] = [req[r] EXCEPT !.at = "using"]
        /\ \A q \in Requests \ {r} : req'[q] = req[q]
    BY <1>1, GoMoves DEF LockConn, ReqInv, Places
  <2>2. /\ req'[r].at = "using" /\ req'[r].conn = req[r].conn /\ req'[r].sid = req[r].sid
        /\ req[r].at = "resolved"
    BY <1>1, <2>1 DEF LockConn, ReqInv, ReqTyped, Records
  <2>3. req[r].conn = NoConn \/ cred[req[r].conn] \in {req[r].sid, NoSession}
    BY DEF ReqInv, OwnConnection
  <2> QED
    BY <1>0, <2>1, <2>2, <2>3, OneMoves DEF ReqInv, PcState
<1>2. CASE \E k \in Clients : Arrive(r, k)
  <2> PICK k \in Clients : Arrive(r, k)
    BY <1>2
  <2> DEFINE new == [Blank EXCEPT !.at = "arrived", !.client = k, !.sid = cookie[k]]
  <2>1. req' = [req EXCEPT ![r] = new] /\ req[r].at = "idle"
    BY DEF Arrive
  <2>2. new \in Records /\ new.at = "arrived" /\ new.conn = NoConn
    BY DEF Records, Blank, Places
  <2>3. /\ ReqTyped' /\ req'[r] = new
        /\ \A q \in Requests \ {r} : req'[q] = req[q]
    BY <2>1, <2>2, RecordMoves DEF ReqInv
  <2> HIDE DEF new
  <2> QED
    BY <1>0, <2>1, <2>2, <2>3, OneMoves DEF ReqInv, PcState
<1> QED
  BY <1>1, <1>2

\* The janitors, the clock and main.
LEMMA BackgroundKeeps ==
    ASSUME PoolTyped, ReqInv,
           \/ StoreSweep \/ (\E s \in Sessions : SweepEvict(s)) \/ SweepClose
           \/ PoolEvict \/ (\E c \in Conns : PoolShut(c)) \/ JanitorsStop
           \/ Tick \/ ShutdownBegin \/ ShutdownPool \/ ListenerFails \/ Exit
           \/ UNCHANGED vars
    PROVE  ReqInv'
<1>0. Sweeper \in Callers /\ Requests \subseteq Callers \ {Sweeper}
  BY ServerAssumption
<1>1. req' = req
  BY DEF StoreSweep, SweepEvict, SweepClose, PoolEvict, PoolShut, JanitorsStop, Tick,
         ShutdownBegin, ShutdownPool, ListenerFails, Exit, vars, serverVars
<1>2. CASE StoreSweep \/ ShutdownBegin \/ Exit \/ UNCHANGED vars
  BY <1>1, <1>2, NoneMoves DEF StoreSweep, ShutdownBegin, Exit, vars, poolVars
<1>3. CASE (\E s \in Sessions : SweepEvict(s)) \/ SweepClose
  <2>1. \A q \in Requests : pc'[q] = pc[q] /\ callSess'[q] = callSess[q]
    BY <1>0, <1>3 DEF SweepEvict, SweepClose, Disconnect, DisconnectClose, Return,
                      poolVars, PoolTyped
  <2>2. \A c \in Conns : cred'[c] = cred[c] \/ cred'[c] = NoSession
    BY <1>3 DEF SweepEvict, SweepClose, Disconnect, DisconnectClose, Shut,
                poolVars, PoolTyped
  <2> QED
    BY <1>1, <2>1, <2>2, NoneMoves
<1>4. CASE PoolEvict \/ JanitorsStop \/ Tick \/ ShutdownPool \/ ListenerFails
  BY <1>1, <1>4, NoneMoves DEF PoolEvict, EvictIdle, JanitorsStop, JanitorStop, Tick,
                               PoolTick, ShutdownPool, ListenerFails, PoolClose
<1>5. CASE \E c \in Conns : PoolShut(c)
  <2>1. pc' = pc /\ callSess' = callSess
    BY <1>5 DEF PoolShut, CloseReplaced, CloseDead, CloseDrained
  <2>2. \A c \in Conns : cred'[c] = cred[c] \/ cred'[c] = NoSession
    BY <1>5 DEF PoolShut, CloseReplaced, CloseDead, CloseDrained, Shut, PoolTyped
  <2> QED
    BY <1>1, <2>1, <2>2, NoneMoves
<1> QED
  BY <1>2, <1>3, <1>4, <1>5

-----------------------------------------------------------------------------
(***************************************************************************)
(* Cookies, main, and the whole invariant.                                 *)
(***************************************************************************)
JarTyped ==
    /\ cookie \in [Clients -> Sessions \cup {NoSession}]
    /\ phase \in {"serving", "draining", "closing", "failing", "exited"}

LEMMA ServerInvParts ==
    ServerInv <=> PoolInv /\ StoreTypeOK /\ ReportedOnce /\ ReqInv /\ JarTyped
BY DEF ServerInv, PoolInv, ServerTypeOK, ServerTyped, ReqInv, ReqTyped, Records, Places,
       PcState, JarTyped

LEMMA JarKeeps ==
    ASSUME ReqTyped, JarTyped, [Next]_vars
    PROVE  JarTyped'
<1> USE DEF JarTyped
<1>1. ASSUME NEW r \in Requests, Reply(r) PROVE JarTyped'
  BY <1>1 DEF Reply, ReqTyped, Records
<1>2. ASSUME NEW r \in Requests, Handle(r), ~Reply(r) PROVE JarTyped'
  BY <1>2 DEF Handle, Me, Login, Logout, LogoutEvict, AuthOk, AuthReject, AuthMint,
              ReadBody, DisconnectBegin, Answer, Resolve, ConnectDone
<1>3. ASSUME NEW r \in Requests, Exchange(r) \/ LockConn(r) \/ \E k \in Clients : Arrive(r, k)
      PROVE  JarTyped'
  BY <1>3 DEF Exchange, LockConn, Arrive, BadRequest, ConnectRefused, ConnectBegin, Answer,
              Resolve, ConnectOpen, ConnectGoOn, ConnectFail, CloseVictim, UnlockConn,
              LeaveConn
<1>4. CASE StoreSweep \/ (\E s \in Sessions : SweepEvict(s)) \/ SweepClose
           \/ PoolEvict \/ (\E c \in Conns : PoolShut(c)) \/ JanitorsStop \/ Tick
           \/ UNCHANGED vars
  BY <1>4 DEF StoreSweep, SweepEvict, SweepClose, PoolEvict, PoolShut, JanitorsStop, Tick,
              vars, serverVars
<1>5. CASE ShutdownBegin \/ ShutdownPool \/ ListenerFails \/ Exit
  BY <1>5 DEF ShutdownBegin, ShutdownPool, ListenerFails, Exit
<1> QED
  BY <1>1, <1>2, <1>3, <1>4, <1>5 DEF Next, Running

LEMMA ServerInvStarts == ServerInit => ServerInv
<1> SUFFICES ASSUME ServerInit PROVE ServerInv
  OBVIOUS
<1>1. PoolInv
  BY InitHolds DEF ServerInit
<1>2. StoreTypeOK /\ ReportedOnce
  BY StoreAssumption DEF ServerInit, StoreInit, StoreTypeOK, Stale, ReportedOnce, Dying
<1>3. Blank \in Records /\ Blank.at = "idle" /\ Blank.conn = NoConn
  BY DEF Blank, Records, Places
<1>4. req = [r \in Requests |-> Blank] /\ \A r \in Requests : pc[r] = "idle"
  BY ServerAssumption DEF ServerInit, PoolInit
<1>5. ReqInv
  BY <1>3, <1>4 DEF ReqInv, ReqTyped, PcState, HandlerState, Inside, OwnConnection
<1>6. JarTyped
  BY DEF ServerInit, JarTyped
<1> QED
  BY <1>1, <1>2, <1>5, <1>6, ServerInvParts

LEMMA ServerInvKeeps == ServerInv /\ [Next]_vars => ServerInv'
<1> SUFFICES ASSUME ServerInv, [Next]_vars PROVE ServerInv'
  OBVIOUS
<1>0. PoolInv /\ StoreTypeOK /\ ReportedOnce /\ ReqInv /\ JarTyped
  BY ServerInvParts
<1>1. StoreTypeOK' /\ ReportedOnce'
  BY <1>0, StoreStep, StoreStepTyped, StoreStepReports
<1>2. PoolInv'
  BY <1>0, PoolStep, StepKeeps DEF ReqInv
<1>3. JarTyped'
  BY <1>0, JarKeeps DEF ReqInv
<1>4. ReqInv'
  <2>1. ASSUME NEW r \in Requests, Handle(r) \/ Exchange(r) PROVE ReqInv'
    BY <1>0, <2>1, HandleKeeps, ExchangeKeeps
  <2>2. ASSUME NEW r \in Requests, LockConn(r) \/ (\E k \in Clients : Arrive(r, k))
        PROVE  ReqInv'
    BY <1>0, <2>2, QuietKeeps DEF JarTyped
  <2>3. CASE \/ StoreSweep \/ (\E s \in Sessions : SweepEvict(s)) \/ SweepClose
             \/ PoolEvict \/ (\E c \in Conns : PoolShut(c)) \/ JanitorsStop
             \/ Tick \/ ShutdownBegin \/ ShutdownPool \/ ListenerFails \/ Exit
             \/ UNCHANGED vars
    BY <1>0, <2>3, BackgroundKeeps DEF PoolInv
  <2> QED
    BY <2>1, <2>2, <2>3 DEF Next, Running
<1>5. (PoolInv /\ StoreTypeOK /\ ReportedOnce /\ ReqInv /\ JarTyped)'
  BY <1>1, <1>2, <1>3, <1>4
<1> QED
  BY <1>5, ServerInvParts, PTL

LEMMA ServerInvariant == Spec => []ServerInv
BY ServerInvStarts, ServerInvKeeps, PTL DEF Spec

(***************************************************************************)
(* The variables of the server, the pool and the store keep their types,   *)
(* and a handler is inside a call of the pool exactly where its code is.   *)
(***************************************************************************)
THEOREM ServerTypeCorrect == Spec => []ServerTypeOK
<1>1. ServerInv => ServerTypeOK
  BY DEF ServerInv
<1> QED
  BY <1>1, ServerInvariant, PTL

(***************************************************************************)
(* The server drives the session store only through its operations.        *)
(***************************************************************************)
THEOREM ServerImplementsStore == Spec => ImplementsStore
<1>1. ServerInit => StoreInit
  BY DEF ServerInit
<1>2. ServerInv /\ [Next]_vars => [StoreNext]_storeVars
  BY ServerInvParts, StoreStep
<1> QED
  BY <1>1, <1>2, ServerInvariant, PTL DEF Spec, ImplementsStore, StoreSpec

(***************************************************************************)
(* The server drives the pool only through its operations: what holds of   *)
(* ConnPool, its invariants and its implementation of ConnLifecycle        *)
(* included, holds of the server.                                          *)
(***************************************************************************)
THEOREM ServerImplementsPool == Spec => ImplementsPool
<1>1. ServerInit => PoolInit
  BY DEF ServerInit
<1>2. ServerInv /\ [Next]_vars => [PoolNext]_poolVars
  BY ServerInvParts, PoolStep DEF ReqInv
<1> QED
  BY <1>1, <1>2, ServerInvariant, PTL DEF Spec, ImplementsPool, PoolSpec

(***************************************************************************)
(* The connection a handler works with was opened for its own session, or  *)
(* has been closed since: two sessions never share one.                    *)
(***************************************************************************)
THEOREM ServerSeparatesConnections == Spec => []OwnConnection
<1>1. ServerInv => OwnConnection
  BY DEF ServerInv
<1> QED
  BY <1>1, ServerInvariant, PTL

\* The operations that take a connection out of its session's slot.
LEMMA DropStep ==
    ASSUME ServerInv, [Next]_vars, NEW s \in Pooled, conns'[s] # conns[s]
    PROVE  \/ s \notin live
           \/ Changes(s)
           \/ age[conns[s]] > IdleTimeout
           \/ phase' \in {"closing", "failing"}
<1>0. PoolTyped /\ ReportedOnce /\ HandlerState /\ ReqTyped /\ s \in Sessions
  BY ServerInvParts DEF PoolInv, ReqInv, Pooled
<1>1. ASSUME NEW r \in Requests, Handle(r) PROVE s \notin live \/ Changes(s)
  <2>1. CASE LogoutEvict(r)
    <3>1. s = req[r].sid
      BY <1>0, <2>1 DEF LogoutEvict, Disconnect, PoolTyped, poolVars
    <3> QED
      BY <1>0, <2>1, <3>1 DEF LogoutEvict, EvictDeleted, ReportedOnce, Dying
  <2>2. CASE DisconnectBegin(r)
    <3>1. s = req[r].sid /\ req[r].at = "authed"
      BY <1>0, <2>2 DEF DisconnectBegin, Disconnect, PoolTyped, poolVars
    <3>2. req'[r].at = "closing"
      BY <1>0, <2>2 DEF DisconnectBegin, Go, ReqTyped, Records, poolVars
    <3> QED
      BY <3>1, <3>2 DEF Changes
  <2>3. CASE ConnectDone(r)
    <3>1. s = callSess[r] /\ req[r].at = "connecting" /\ conns'[s] = callConn[r]
      BY <1>0, <2>3 DEF ConnectDone, Publish, PoolTyped
    <3> QED
      BY <1>0, <3>1 DEF Changes, HandlerState
  <2>4. ~LogoutEvict(r) /\ ~DisconnectBegin(r) /\ ~ConnectDone(r) => conns' = conns
    BY <1>1 DEF Handle, Me, Login, Logout, AuthOk, AuthReject, AuthMint, ReadBody, Answer,
                Get, Resolve, Reply, poolVars
  <2> QED
    BY <2>1, <2>2, <2>3, <2>4
<1>2. ASSUME NEW r \in Requests, Exchange(r) \/ LockConn(r) \/ \E k \in Clients : Arrive(r, k)
      PROVE  FALSE
  BY <1>2 DEF Exchange, LockConn, Arrive, BadRequest, ConnectRefused, ConnectBegin,
              ConnectCheck, Answer, Get, Resolve, ConnectOpen, ConnectGoOn, ConnectFail,
              CloseVictim, UnlockConn, LeaveConn, DialOk, StartOk, DialFail, StartFail,
              DisconnectClose, poolVars
<1>3. ASSUME NEW e \in Sessions, SweepEvict(e) PROVE s \notin live
  <2>1. s = e
    BY <1>0, <1>3 DEF SweepEvict, Disconnect, PoolTyped, poolVars
  <2> QED
    BY <1>0, <1>3, <2>1 DEF SweepEvict, EvictExpired, ReportedOnce, Dying
<1>4. ASSUME PoolEvict PROVE age[conns[s]] > IdleTimeout
  BY <1>0, <1>4 DEF PoolEvict, EvictIdle, IdleSessions
<1>5. ASSUME StoreSweep \/ SweepClose \/ (\E c \in Conns : PoolShut(c)) \/ JanitorsStop
             \/ Tick \/ ShutdownBegin \/ Exit \/ UNCHANGED vars
      PROVE  FALSE
  BY <1>5 DEF StoreSweep, SweepClose, DisconnectClose, PoolShut, CloseReplaced, CloseDead,
              CloseDrained, JanitorsStop, JanitorStop, Tick, PoolTick, ShutdownBegin, Exit,
              vars, poolVars
<1>6. ASSUME ShutdownPool \/ ListenerFails PROVE phase' \in {"closing", "failing"}
  BY <1>6 DEF ShutdownPool, ListenerFails
<1> QED
  BY <1>1, <1>2, <1>3, <1>4, <1>5, <1>6 DEF Next, Running

\* The operations that make a session valid, and that give ids out.
LEMMA RevivalStep ==
    ASSUME ServerInv, [Next]_vars, NEW s \in Sessions, Valid(s)'
    PROVE  Valid(s) \/ (s \notin live \cup Dying /\ Fresh(s))
<1>0. StoreTypeOK
  BY ServerInvParts
<1>1. ASSUME NEW r \in Requests, Handle(r)
      PROVE  Valid(s) \/ (s \notin live \cup Dying /\ Fresh(s))
  <2>1. CASE \E e \in Sessions : Login(r, e) \/ AuthMint(r, e)
    BY <1>0, <2>1 DEF Login, AuthMint, Create, Valid, StoreTypeOK
  <2>2. CASE Me(r) \/ AuthOk(r)
    BY <1>0, <2>2 DEF Me, AuthOk, Lookup, Valid, StoreTypeOK, storeVars
  <2>3. CASE Logout(r) \/ LogoutEvict(r)
    BY <1>0, <2>3 DEF Logout, LogoutEvict, Delete, EvictDeleted, Valid, StoreTypeOK, storeVars
  <2>4. CASE AuthReject(r) \/ ReadBody(r) \/ DisconnectBegin(r) \/ Answer(r)
             \/ Resolve(r) \/ ConnectDone(r) \/ Reply(r)
    BY <2>4 DEF AuthReject, ReadBody, DisconnectBegin, Answer, Resolve, ConnectDone,
                Reply, Valid, storeVars
  <2> QED
    BY <1>1, <2>1, <2>2, <2>3, <2>4 DEF Handle
<1>2. ASSUME NEW r \in Requests, Exchange(r) \/ LockConn(r) \/ \E k \in Clients : Arrive(r, k)
      PROVE  Valid(s)
  BY <1>2 DEF Exchange, LockConn, Arrive, BadRequest, ConnectRefused, ConnectBegin, Answer,
              Resolve, ConnectOpen, ConnectGoOn, ConnectFail, CloseVictim, UnlockConn,
              LeaveConn, Valid, storeVars
<1>3. CASE StoreSweep \/ (\E e \in Sessions : SweepEvict(e)) \/ SweepClose
  BY <1>0, <1>3 DEF StoreSweep, SweepEvict, SweepClose, Sweep, EvictExpired, Valid,
                    StoreTypeOK, storeVars
<1>4. CASE Tick \/ Exit
  BY <1>0, <1>4, StoreAssumption DEF Tick, StoreTick, Exit, StoreClose, Valid, StoreTypeOK, Stale
<1>5. CASE PoolEvict \/ (\E c \in Conns : PoolShut(c)) \/ JanitorsStop \/ ShutdownBegin
           \/ ShutdownPool \/ ListenerFails \/ UNCHANGED vars
  BY <1>5 DEF PoolEvict, PoolShut, JanitorsStop, ShutdownBegin, ShutdownPool,
              ListenerFails, vars, Valid, storeVars
<1> QED
  BY <1>1, <1>2, <1>3, <1>4, <1>5 DEF Next, Running

(***************************************************************************)
(* A session keeps its connection until the session ends, one of its own   *)
(* requests changes it, it is idle, or the server shuts down.              *)
(***************************************************************************)
THEOREM ServerDropsForCause == Spec => DroppedForCause
<1>1. ServerInv /\ [Next]_vars
        => [\A s \in Pooled :
              conns'[s] # conns[s] =>
                \/ s \notin live
                \/ Changes(s)
                \/ age[conns[s]] > IdleTimeout
                \/ phase' \in {"closing", "failing"}]_vars
  BY DropStep
<1> QED
  BY <1>1, ServerInvariant, PTL DEF Spec, DroppedForCause

(***************************************************************************)
(* A session that has ended stays ended: an id is valid only from a login  *)
(* on that draws it while nothing of an earlier session with it is left.   *)
(***************************************************************************)
THEOREM ServerNoRevival == Spec => NoRevival
<1>1. ServerInv /\ [Next]_vars
        => [\A s \in Sessions :
              Valid(s)' => Valid(s) \/ (s \notin live \cup Dying /\ Fresh(s))]_vars
  BY RevivalStep
<1> QED
  BY <1>1, ServerInvariant, PTL DEF Spec, NoRevival

-----------------------------------------------------------------------------
(***************************************************************************)
(* The ceiling, and what is left of it at the end.                         *)
(***************************************************************************)
\* The store's janitor only ever disconnects.
SweeperCalls == pc[Sweeper] \in {"idle", "closing"}

LEMMA SweeperStep ==
    ASSUME ServerInv, SweeperCalls, [Next]_vars
    PROVE  SweeperCalls'
<1>0. /\ PoolTyped /\ Sweeper \in Callers /\ Requests \subseteq Callers \ {Sweeper}
  BY ServerAssumption DEF ServerInv, PoolInv
<1>1. ASSUME NEW r \in Requests, Handle(r) PROVE pc'[Sweeper] = pc[Sweeper]
  BY <1>0, <1>1 DEF Handle, Me, Login, Logout, LogoutEvict, AuthOk, AuthReject, AuthMint,
        ReadBody, DisconnectBegin, Answer, Get, Resolve, ConnectDone, Publish, Return, Reply,
        Disconnect, poolVars, PoolTyped
<1>2. ASSUME NEW r \in Requests, Exchange(r) \/ LockConn(r) \/ \E k \in Clients : Arrive(r, k)
      PROVE  pc'[Sweeper] = pc[Sweeper]
  BY <1>0, <1>2 DEF Exchange, LockConn, Arrive, BadRequest, ConnectRefused, ConnectBegin,
        ConnectCheck, Answer, Get, Resolve, ConnectOpen, ConnectGoOn, ConnectFail,
        CloseVictim, UnlockConn, LeaveConn, DialOk, StartOk, DialFail, StartFail,
        DisconnectClose, Return, poolVars, PoolTyped
<1>3. CASE (\E s \in Sessions : SweepEvict(s)) \/ SweepClose
  BY <1>0, <1>3 DEF SweeperCalls, SweepEvict, SweepClose, Disconnect, DisconnectClose,
                    Return, poolVars, PoolTyped
<1>4. CASE StoreSweep \/ PoolEvict \/ (\E c \in Conns : PoolShut(c)) \/ JanitorsStop
           \/ Tick \/ ShutdownBegin \/ ShutdownPool \/ ListenerFails \/ Exit
           \/ UNCHANGED vars
  BY <1>4 DEF SweeperCalls, StoreSweep, PoolEvict, EvictIdle, PoolShut, CloseReplaced,
              CloseDead, CloseDrained, JanitorsStop, JanitorStop, Tick, PoolTick,
              ShutdownBegin, ShutdownPool, ListenerFails, PoolClose, Exit, vars, poolVars
<1> QED
  BY <1>1, <1>2, <1>3, <1>4 DEF SweeperCalls, Next, Running

(***************************************************************************)
(* The server exceeds the ceiling by less than the number of its requests  *)
(* in flight: the calls of the store's janitor do not count.               *)
(***************************************************************************)
THEOREM ServerOvershoot == Spec => []RequestOvershoot
<1>0. Requests \in SUBSET Callers /\ IsFiniteSet(Requests) /\ Callers \ Requests = {Sweeper}
  BY PoolAssumption, ServerAssumption, FS_Subset
<1>1. ServerInit => CeilingInv(Requests) /\ SweeperCalls
  <2>1. PoolInit => CeilingInv(Requests)
    BY <1>0, CeilingStarts
  <2> QED
    BY <1>0, <2>1 DEF ServerInit, PoolInit, SweeperCalls
<1>2. ServerInv /\ CeilingInv(Requests) /\ SweeperCalls /\ [Next]_vars
        => CeilingInv(Requests)' /\ SweeperCalls'
  <2> SUFFICES ASSUME ServerInv, CeilingInv(Requests), SweeperCalls, [Next]_vars
               PROVE  CeilingInv(Requests)' /\ SweeperCalls'
    OBVIOUS
  <2>1. SweeperCalls'
    BY SweeperStep
  <2>2. ConnectOnly(Requests) /\ ConnectOnly(Requests)'
    BY <1>0, <2>1 DEF ConnectOnly, SweeperCalls
  <2>3. PoolInv /\ [PoolNext]_poolVars
    BY ServerInvParts, PoolStep DEF ReqInv
  <2> QED
    BY <1>0, <2>1, <2>2, <2>3, CeilingStep
<1>3. CeilingInv(Requests) => RequestOvershoot
  BY <1>0, CeilingBound DEF RequestOvershoot
<1> QED
  BY <1>1, <1>2, <1>3, ServerInvariant, PTL DEF Spec

\* The requests that will not connect any more.  After Close each of them has
\* left at most one connection in the pool.
Past == {r \in Requests : ~MayConnect(r)}

StopInv ==
    phase = "closing" =>
      IsFiniteSet(Pooled) /\ Cardinality(Pooled) <= Cardinality(Past)

\* A handler moves alone; once past connecting, it stays so to its end.
LEMMA HandlerGoes ==
    ASSUME ReqTyped, NEW r \in Requests, Handle(r) \/ Exchange(r) \/ LockConn(r)
    PROVE  Past \subseteq Past' /\ phase' = phase
<1>1. \A q \in Requests \ {r} : req'[q] = req[q]
  BY DEF ReqTyped, Handle, Exchange, LockConn, Me, Login, Logout, LogoutEvict, AuthOk,
         AuthReject, AuthMint, ReadBody, BadRequest, ConnectRefused, ConnectBegin, DisconnectBegin,
         Answer, Resolve, ConnectDone, Reply, ConnectOpen, ConnectGoOn, ConnectFail,
         CloseVictim, UnlockConn, LeaveConn, Finish, Go
<1>2. phase' = phase
  BY DEF Handle, Exchange, LockConn, Me, Login, Logout, LogoutEvict, AuthOk,
         AuthReject, AuthMint, ReadBody, BadRequest, ConnectRefused, ConnectBegin, DisconnectBegin,
         Answer, Resolve, ConnectDone, Reply, ConnectOpen, ConnectGoOn, ConnectFail,
         CloseVictim, UnlockConn, LeaveConn, serverVars
<1>3. ASSUME ~MayConnect(r) PROVE ~MayConnect(r)'
  <2>1. CASE Finish(r)
    BY <2>1, FinishMoves DEF MayConnect, Inside
  <2>2. CASE \E at \in {"closing", "using", "resolved"} : Go(r, at)
    BY <2>2 DEF Go, ReqTyped, Records, MayConnect, Inside
  <2>3. CASE Reply(r)
    BY <2>3 DEF Reply, Blank, ReqTyped, MayConnect, Inside
  <2> QED
    BY <1>3, <2>1, <2>2, <2>3
       DEF MayConnect, Inside, Handle, Exchange, LockConn, Me, Login, Logout, LogoutEvict, AuthOk,
           AuthReject, AuthMint, ReadBody, BadRequest, ConnectRefused, ConnectBegin, DisconnectBegin,
           Answer, Resolve, ConnectDone, ConnectOpen, ConnectGoOn, ConnectFail,
           CloseVictim, UnlockConn, LeaveConn
<1> QED
  BY <1>1, <1>2, <1>3 DEF Past, MayConnect

\* Nothing but ConnectDone gives a session a connection.
LEMMA PooledStep ==
    ASSUME ServerInv, [Next]_vars, \A r \in Requests : ~ConnectDone(r)
    PROVE  Pooled' \subseteq Pooled
<1>0. PoolTyped
  BY DEF ServerInv, PoolInv
<1>1. ASSUME NEW r \in Requests, Handle(r) PROVE Pooled' \subseteq Pooled
  BY <1>0, <1>1 DEF Handle, Me, Login, Logout, LogoutEvict, AuthOk, AuthReject, AuthMint,
        ReadBody, DisconnectBegin, Answer, Get, Resolve, Reply, Disconnect, poolVars,
        PoolTyped, Pooled
<1>2. ASSUME NEW r \in Requests, Exchange(r) \/ LockConn(r) \/ \E k \in Clients : Arrive(r, k)
      PROVE  Pooled' \subseteq Pooled
  BY <1>2 DEF Exchange, LockConn, Arrive, BadRequest, ConnectRefused, ConnectBegin,
        ConnectCheck, Answer, Get, Resolve, ConnectOpen, ConnectGoOn, ConnectFail,
        CloseVictim, UnlockConn, LeaveConn, DialOk, StartOk, DialFail, StartFail,
        DisconnectClose, poolVars, Pooled
<1>3. CASE (\E s \in Sessions : SweepEvict(s)) \/ SweepClose
  BY <1>0, <1>3 DEF SweepEvict, SweepClose, Disconnect, DisconnectClose, poolVars,
                    PoolTyped, Pooled
<1>4. CASE StoreSweep \/ PoolEvict \/ (\E c \in Conns : PoolShut(c)) \/ JanitorsStop
           \/ Tick \/ ShutdownBegin \/ ShutdownPool \/ ListenerFails \/ Exit
           \/ UNCHANGED vars
  BY <1>4 DEF StoreSweep, PoolEvict, EvictIdle, PoolShut, CloseReplaced, CloseDead,
              CloseDrained, JanitorsStop, JanitorStop, Tick, PoolTick, ShutdownBegin,
              ShutdownPool, ListenerFails, PoolClose, Exit, vars, poolVars, Pooled
<1> QED
  BY <1>1, <1>2, <1>3, <1>4 DEF Next, Running

LEMMA StopStep ==
    ASSUME ServerInv, StopInv, [Next]_vars
    PROVE  StopInv'
<1>0. /\ PoolTyped /\ ReqTyped /\ HandlerState
      /\ IsFiniteSet(Requests)
      /\ IsFiniteSet(Past) /\ IsFiniteSet(Past')
  <2>1. IsFiniteSet(Requests)
    BY PoolAssumption, ServerAssumption, FS_Subset
  <2>2. Past \in SUBSET Requests /\ Past' \in SUBSET Requests
    BY DEF Past
  <2> QED
    BY <2>1, <2>2, FS_Subset, ServerInvParts DEF ReqInv, PoolInv
\* Elsewhere the pool only shrinks, and no one gets back to connecting.
<1>1. ASSUME Pooled' \subseteq Pooled, Past \subseteq Past', phase' = phase
      PROVE  StopInv'
  <2> SUFFICES ASSUME phase' = "closing"
               PROVE  IsFiniteSet(Pooled') /\ Cardinality(Pooled') <= Cardinality(Past')
    BY DEF StopInv
  <2>1. IsFiniteSet(Pooled) /\ Cardinality(Pooled) <= Cardinality(Past)
    BY <1>1 DEF StopInv
  <2>2. /\ IsFiniteSet(Pooled') /\ Cardinality(Pooled') <= Cardinality(Pooled)
        /\ Cardinality(Past) <= Cardinality(Past')
    BY <1>0, <1>1, <2>1, FS_Subset
  <2> QED
    BY <1>0, <2>1, <2>2, FS_CardinalityType
<1>2. ASSUME NEW r \in Requests, ConnectDone(r) PROVE StopInv'
  <2> SUFFICES ASSUME phase' = "closing"
               PROVE  IsFiniteSet(Pooled') /\ Cardinality(Pooled') <= Cardinality(Past')
    BY DEF StopInv
  <2> DEFINE s == callSess[r]
  <2>1. /\ IsFiniteSet(Pooled) /\ Cardinality(Pooled) <= Cardinality(Past)
        /\ Cardinality(Pooled) \in Nat /\ Cardinality(Past) \in Nat
    BY <1>0, <1>2, FS_CardinalityType DEF StopInv, ConnectDone
  <2>2. Pooled' \subseteq Pooled \cup {s}
    BY <1>0, <1>2 DEF ConnectDone, Publish, PoolTyped, Pooled
  <2>3. r \notin Past /\ Past \cup {r} \subseteq Past'
    <3>1. Past \subseteq Past'
      BY <1>0, <1>2, HandlerGoes DEF Handle
    <3>2. r \notin Past /\ r \in Past'
      BY <1>0, <1>2, FinishMoves DEF ConnectDone, Past, MayConnect, Inside
    <3> QED
      BY <3>1, <3>2
  <2>4. /\ IsFiniteSet(Pooled \cup {s})
        /\ Cardinality(Pooled \cup {s}) <= Cardinality(Pooled) + 1
    <3>1. /\ IsFiniteSet(Pooled \cup {s})
          /\ Cardinality(Pooled \cup {s})
               = IF s \in Pooled THEN Cardinality(Pooled) ELSE Cardinality(Pooled) + 1
      BY <2>1, FS_AddElement
    <3> QED
      BY <2>1, <3>1
  <2>5. IsFiniteSet(Past \cup {r}) /\ Cardinality(Past \cup {r}) = Cardinality(Past) + 1
    BY <1>0, <2>3, FS_AddElement
  <2>6. IsFiniteSet(Pooled') /\ Cardinality(Pooled') <= Cardinality(Pooled \cup {s})
    BY <2>2, <2>4, FS_Subset
  <2>7. Cardinality(Past \cup {r}) <= Cardinality(Past')
    BY <1>0, <2>3, FS_Subset
  <2>8. /\ Cardinality(Pooled') \in Nat /\ Cardinality(Past') \in Nat
        /\ Cardinality(Pooled \cup {s}) \in Nat
    BY <1>0, <2>4, <2>6, FS_CardinalityType
  <2> QED
    BY <2>1, <2>4, <2>5, <2>6, <2>7, <2>8
<1>3. ASSUME NEW r \in Requests, Handle(r) \/ Exchange(r) \/ LockConn(r) PROVE StopInv'
  <2>1. Past \subseteq Past' /\ phase' = phase
    BY <1>0, <1>3, HandlerGoes
  <2>2. CASE \E q \in Requests : ConnectDone(q)
    BY <1>2, <2>2
  <2>3. CASE \A q \in Requests : ~ConnectDone(q)
    BY <1>1, <2>1, <2>3, PooledStep
  <2> QED
    BY <2>2, <2>3
<1>4. ASSUME NEW r \in Requests, NEW k \in Clients, Arrive(r, k) PROVE StopInv'
  BY <1>4 DEF Arrive, StopInv
<1>5. CASE StoreSweep \/ (\E s \in Sessions : SweepEvict(s)) \/ SweepClose \/ PoolEvict
           \/ (\E c \in Conns : PoolShut(c)) \/ JanitorsStop \/ Tick \/ UNCHANGED vars
  <2>1. Past' = Past /\ phase' = phase
    BY <1>5 DEF StoreSweep, SweepEvict, SweepClose, PoolEvict, PoolShut, JanitorsStop, Tick,
                vars, serverVars, Past, MayConnect
  <2>2. CASE \E q \in Requests : ConnectDone(q)
    BY <1>2, <2>2
  <2>3. CASE \A q \in Requests : ~ConnectDone(q)
    BY <1>1, <2>1, <2>3, PooledStep
  <2> QED
    BY <2>2, <2>3
<1>6. CASE ShutdownBegin \/ ListenerFails \/ Exit
  BY <1>6 DEF ShutdownBegin, ListenerFails, Exit, StopInv
<1>7. CASE ShutdownPool
  <2>1. Pooled' = {}
    BY <1>7 DEF ShutdownPool, PoolClose, Pooled
  <2> QED
    BY <1>0, <2>1, FS_EmptySet, FS_CardinalityType DEF StopInv
<1> QED
  BY <1>3, <1>4, <1>5, <1>6, <1>7 DEF Next, Running

(***************************************************************************)
(* After Close has taken the pool's map, each connection that is stored in *)
(* it is that of one request which was in flight then and has ended since: *)
(* a shutdown leaves no more connections than there were such requests.    *)
(***************************************************************************)
THEOREM ServerStopLeaves == Spec => []StopLeaves
<1>1. ServerInit => StopInv
  BY DEF ServerInit, StopInv
<1>2. StopInv => StopLeaves
  BY DEF StopInv, StopLeaves, Past
<1> QED
  BY <1>1, <1>2, StopStep, ServerInvariant, PTL DEF Spec

-----------------------------------------------------------------------------
(***************************************************************************)
(* The theorems about the parts, for the whole server.                     *)
(***************************************************************************)
(***************************************************************************)
(* Behind the handlers, too, the end of a session is reported once, a      *)
(* connection is in one hand, none leaks, and a slot holds a connection of *)
(* its own session.                                                        *)
(***************************************************************************)
THEOREM ServerKeepsParts == Spec => [](ReportedOnce /\ OwnedOnce /\ NoLeak /\ OwnSession)
<1>1. ServerInv => ReportedOnce /\ OwnedOnce /\ NoLeak /\ OwnSession
  BY DEF ServerInv, PoolInv
<1> QED
  BY <1>1, ServerInvariant, PTL

(***************************************************************************)
(* The server's connections live as ConnLifecycle says: each is opened for *)
(* one session, serves only that one, leaves the pool for good and is      *)
(* closed once.                                                            *)
(***************************************************************************)
THEOREM ServerFollowsLifecycle == Spec => Lifecycle!LifecycleSafe
BY ServerImplementsPool, PoolFollowsLifecycle, PTL DEF ImplementsPool
=============================================================================
