------------------------------ MODULE ConnPool ------------------------------
(***************************************************************************)
(* The pool of SFTP connections, internal/sftpconn/pool.go.  The pool maps *)
(* a session id to at most one connection.  Its mutex covers only the map: *)
(* dialling and closing happen outside it, so a Connect or a Disconnect    *)
(* takes several steps here, and a janitor, a goroutine started for every  *)
(* replaced connection and the shutdown run between them.                  *)
(*                                                                         *)
(* A connection is a member of Conns; a closed one may be dialled again    *)
(* under the same name, so Conns bounds how many are open at a time, never *)
(* how many are opened.  The clock is abstracted to the age of each        *)
(* connection (now - lastUsed), which saturates one past IdleTimeout.      *)
(***************************************************************************)
EXTENDS Integers, FiniteSets, SessionIds

CONSTANTS
    Callers,          \* goroutines that call Connect, Get and Disconnect
    Conns,            \* connections to SFTP servers
    NoConn,           \* the nil *Conn
    Hosts,            \* host names a client may ask for
    AllowedHosts,     \* Options.AllowedHosts; none listed allows them all
    InsecureHostKey,  \* Options.InsecureHostKey
    MaxConnections,   \* Options.MaxConnections; 0 is no ceiling
    IdleTimeout       \* Options.IdleTimeout in ticks; 0 turns eviction off

ASSUME PoolAssumption ==
    /\ NoConn \notin Conns
    /\ AllowedHosts \subseteq Hosts
    /\ InsecureHostKey \in BOOLEAN
    /\ MaxConnections \in Nat
    /\ IdleTimeout \in Nat
    /\ IsFiniteSet(Callers)

VARIABLES
    conns,      \* Pool.conns: the connection of each session, or NoConn
    link,       \* what the SFTP server sees of each connection
    age,        \* time since lastUsed, of the connections not yet closed
    cred,       \* the session whose credentials opened the connection
    pc,         \* how far each caller is in Connect or Disconnect
    callSess,   \* the sessionID argument of a Connect that is past its checks
    callConn,   \* the *Conn the call holds and no one else can reach
    replaced,   \* connections handed to a "go old.close()"
    dead,       \* evictIdle's list, not yet closed
    drained,    \* the map Close took, not yet closed
    running,    \* p.stop is still open
    janitorOn   \* the janitor's loop has not returned

poolVars == <<conns, link, age, cred, pc, callSess, callConn,
              replaced, dead, drained, running, janitorOn>>

Aged == IdleTimeout + 1

PoolTyped ==
    /\ conns \in [Sessions -> Conns \cup {NoConn}]
    /\ link \in [Conns -> {"open", "closed"}]
    /\ age \in [Conns -> 0..Aged]
    /\ cred \in [Conns -> Sessions \cup {NoSession}]
    /\ pc \in [Callers -> {"idle", "dialing", "starting", "ready", "closing"}]
    /\ callSess \in [Callers -> Sessions \cup {NoSession}]
    /\ callConn \in [Callers -> Conns \cup {NoConn}]
    /\ replaced \subseteq Conns
    /\ dead \subseteq Conns
    /\ drained \subseteq Conns
    /\ running \in BOOLEAN
    /\ janitorOn \in BOOLEAN

\* A call has a session from its checks to its return, a connection from the
\* dial (or from Disconnect's unlock) on, and it is one of its session.
CallState ==
    \A t \in Callers :
      /\ callConn[t] # NoConn <=> pc[t] \in {"starting", "ready", "closing"}
      /\ callSess[t] # NoSession <=> pc[t] \in {"dialing", "starting", "ready"}
      /\ pc[t] \in {"starting", "ready"} => cred[callConn[t]] = callSess[t]

(***************************************************************************)
(* The types, and what the locals of a call are at each place of Connect   *)
(* and Disconnect: no error path goes on with a nil connection, and none   *)
(* that returns keeps one (pool.go:97, :103, :144).                        *)
(***************************************************************************)
PoolTypeOK == PoolTyped /\ CallState

PoolInit ==
    /\ conns = [s \in Sessions |-> NoConn]
    /\ link = [c \in Conns |-> "closed"]
    /\ age = [c \in Conns |-> 0]
    /\ cred = [c \in Conns |-> NoSession]
    /\ pc = [t \in Callers |-> "idle"]
    /\ callSess = [t \in Callers |-> NoSession]
    /\ callConn = [t \in Callers |-> NoConn]
    /\ replaced = {}
    /\ dead = {}
    /\ drained = {}
    /\ running = TRUE
    /\ janitorOn = TRUE

(***************************************************************************)
(* Connect.                                                                *)
(***************************************************************************)
Pooled == {s \in Sessions : conns[s] # NoConn}

HostAllowed(h) == AllowedHosts = {} \/ h \in AllowedHosts

\* Mutant: the ceiling is off by one.
FullLate(s) ==
    conns[s] = NoConn /\ MaxConnections > 0 /\ Cardinality(Pooled) > MaxConnections

\* ErrPoolFull: a session that has a connection may always replace it.
Full(s) ==
    /\ conns[s] = NoConn
    /\ MaxConnections > 0
    /\ Cardinality(Pooled) >= MaxConnections

\* Connect returns an error before it dials.
Refused(s, h) == ~HostAllowed(h) \/ Full(s) \/ ~InsecureHostKey

\* The checks, the middle one under the lock, which is then released.
ConnectCheck(t, s, h) ==
    /\ pc[t] = "idle"
    /\ ~Refused(s, h)
    /\ pc' = [pc EXCEPT ![t] = "dialing"]
    /\ callSess' = [callSess EXCEPT ![t] = s]
    /\ UNCHANGED <<conns, link, age, cred, callConn, replaced, dead, drained,
                   running, janitorOn>>

\* The call returns, and holds nothing any more.
Return(t) ==
    /\ pc' = [pc EXCEPT ![t] = "idle"]
    /\ callSess' = [callSess EXCEPT ![t] = NoSession]
    /\ callConn' = [callConn EXCEPT ![t] = NoConn]

\* Mutant: the error of ssh.Dial is noted, but Connect does not return.
DialFailOn(t) ==
    /\ pc[t] = "dialing"
    /\ pc' = [pc EXCEPT ![t] = "starting"]
    /\ UNCHANGED <<conns, link, age, cred, callSess, callConn, replaced, dead,
                   drained, running, janitorOn>>

DialFail(t) ==
    /\ pc[t] = "dialing"
    /\ Return(t)
    /\ UNCHANGED <<conns, link, age, cred, replaced, dead, drained, running,
                   janitorOn>>

\* ssh.Dial succeeded: the server now holds a connection.
DialOk(t, c) ==
    /\ pc[t] = "dialing"
    /\ link[c] = "closed"
    /\ pc' = [pc EXCEPT ![t] = "starting"]
    /\ link' = [link EXCEPT ![c] = "open"]
    /\ cred' = [cred EXCEPT ![c] = callSess[t]]
    /\ callConn' = [callConn EXCEPT ![t] = c]
    /\ UNCHANGED <<conns, age, callSess, replaced, dead, drained, running,
                   janitorOn>>

\* c.close(): the connection is gone and its name may be dialled again.
Shut(c) ==
    /\ link' = [link EXCEPT ![c] = "closed"]
    /\ age' = [age EXCEPT ![c] = 0]
    /\ cred' = [cred EXCEPT ![c] = NoSession]

\* sftp.NewClient failed: the SSH connection is closed before the error.
StartFail(t) ==
    /\ pc[t] = "starting"
    /\ Shut(callConn[t])
    /\ Return(t)
    /\ UNCHANGED <<conns, replaced, dead, drained, running, janitorOn>>

\* The Conn is built, used now; the caller goes for the lock.
StartOk(t) ==
    /\ pc[t] = "starting"
    /\ pc' = [pc EXCEPT ![t] = "ready"]
    /\ age' = [age EXCEPT ![callConn[t]] = 0]
    /\ UNCHANGED <<conns, link, cred, callSess, callConn, replaced, dead,
                   drained, running, janitorOn>>

\* Mutant: the connection that was there is forgotten.
PublishOver(t) ==
    /\ pc[t] = "ready"
    /\ conns' = [conns EXCEPT ![callSess[t]] = callConn[t]]
    /\ Return(t)
    /\ UNCHANGED <<link, age, cred, replaced, dead, drained, running, janitorOn>>

\* Mutant: the session is kept in the pool, not in the call.
PublishForLast(t) ==
    /\ pc[t] = "ready"
    /\ \E s \in {callSess[u] : u \in Callers} \ {NoSession} :
         /\ replaced' = replaced \cup ({conns[s]} \ {NoConn})
         /\ conns' = [conns EXCEPT ![s] = callConn[t]]
    /\ Return(t)
    /\ UNCHANGED <<link, age, cred, dead, drained, running, janitorOn>>

\* Under the lock: whatever the slot holds by now is closed on the side.
Publish(t) ==
    LET s == callSess[t]
    IN  /\ pc[t] = "ready"
        /\ replaced' = replaced \cup ({conns[s]} \ {NoConn})
        /\ conns' = [conns EXCEPT ![s] = callConn[t]]
        /\ Return(t)
        /\ UNCHANGED <<link, age, cred, dead, drained, running, janitorOn>>

CloseReplaced(c) ==
    /\ c \in replaced
    /\ Shut(c)
    /\ replaced' = replaced \ {c}
    /\ UNCHANGED <<conns, pc, callSess, callConn, dead, drained, running,
                   janitorOn>>

(***************************************************************************)
(* Get and Disconnect.                                                     *)
(***************************************************************************)
Get(t, s) ==
    /\ pc[t] = "idle"
    /\ conns[s] # NoConn
    /\ age' = [age EXCEPT ![conns[s]] = 0]
    /\ UNCHANGED <<conns, link, cred, pc, callSess, callConn, replaced, dead,
                   drained, running, janitorOn>>

\* Mutant: the slot is not emptied.
DisconnectLate(t, s) ==
    /\ pc[t] = "idle"
    /\ conns[s] # NoConn
    /\ pc' = [pc EXCEPT ![t] = "closing"]
    /\ callConn' = [callConn EXCEPT ![t] = conns[s]]
    /\ UNCHANGED <<conns, link, age, cred, callSess, replaced, dead, drained,
                   running, janitorOn>>

\* The slot is emptied under the lock; the close follows outside it.
Disconnect(t, s) ==
    /\ pc[t] = "idle"
    /\ conns[s] # NoConn
    /\ pc' = [pc EXCEPT ![t] = "closing"]
    /\ callConn' = [callConn EXCEPT ![t] = conns[s]]
    /\ conns' = [conns EXCEPT ![s] = NoConn]
    /\ UNCHANGED <<link, age, cred, callSess, replaced, dead, drained, running,
                   janitorOn>>

DisconnectClose(t) ==
    /\ pc[t] = "closing"
    /\ Shut(callConn[t])
    /\ Return(t)
    /\ UNCHANGED <<conns, replaced, dead, drained, running, janitorOn>>

(***************************************************************************)
(* The janitor.  It closes one list before it can collect another.         *)
(***************************************************************************)
\* Mutant: the scan stops at the first connection that is in use.
IdleFirst == IF \E s \in Pooled : age[conns[s]] <= IdleTimeout THEN {} ELSE Pooled

IdleSessions == {s \in Pooled : age[conns[s]] > IdleTimeout}

EvictIdle ==
    /\ janitorOn
    /\ dead = {}
    /\ IdleTimeout > 0
    /\ IdleSessions # {}
    /\ dead' = {conns[s] : s \in IdleSessions}
    /\ conns' = [s \in Sessions |-> IF s \in IdleSessions THEN NoConn ELSE conns[s]]
    /\ UNCHANGED <<link, age, cred, pc, callSess, callConn, replaced, drained,
                   running, janitorOn>>

\* Mutant: only the first of the list is closed.
CloseFirst(c) ==
    /\ c \in dead
    /\ Shut(c)
    /\ dead' = {}
    /\ UNCHANGED <<conns, pc, callSess, callConn, replaced, drained, running,
                   janitorOn>>

CloseDead(c) ==
    /\ c \in dead
    /\ Shut(c)
    /\ dead' = dead \ {c}
    /\ UNCHANGED <<conns, pc, callSess, callConn, replaced, drained,
                   running, janitorOn>>

JanitorStop ==
    /\ janitorOn
    /\ ~running
    /\ dead = {}
    /\ janitorOn' = FALSE
    /\ UNCHANGED <<conns, link, age, cred, pc, callSess, callConn, replaced,
                   dead, drained, running>>

(***************************************************************************)
(* Close, and time.                                                        *)
(***************************************************************************)
\* Mutant: the map is closed but not replaced.
CloseOnly ==
    /\ running
    /\ running' = FALSE
    /\ drained' = {conns[s] : s \in Pooled}
    /\ UNCHANGED <<conns, link, age, cred, pc, callSess, callConn, replaced, dead,
                   janitorOn>>

PoolClose ==
    /\ running
    /\ running' = FALSE
    /\ drained' = {conns[s] : s \in Pooled}
    /\ conns' = [s \in Sessions |-> NoConn]
    /\ UNCHANGED <<link, age, cred, pc, callSess, callConn, replaced, dead,
                   janitorOn>>

CloseDrained(c) ==
    /\ c \in drained
    /\ Shut(c)
    /\ drained' = drained \ {c}
    /\ UNCHANGED <<conns, pc, callSess, callConn, replaced, dead,
                   running, janitorOn>>

\* A connection no one has closed ages, up to the bound Aged.
PoolTick ==
    /\ age' = [c \in Conns |-> IF link[c] = "open" /\ age[c] < Aged
                               THEN age[c] + 1 ELSE age[c]]
    /\ UNCHANGED <<conns, link, cred, pc, callSess, callConn, replaced, dead,
                   drained, running, janitorOn>>

-----------------------------------------------------------------------------
CallerStep(t) ==
    \/ \E s \in Sessions, h \in Hosts : ConnectCheck(t, s, h)
    \/ DialFail(t)
    \/ \E c \in Conns : DialOk(t, c)
    \/ StartFail(t)
    \/ StartOk(t)
    \/ Publish(t)
    \/ \E s \in Sessions : Get(t, s)
    \/ \E s \in Sessions : Disconnect(t, s)
    \/ DisconnectClose(t)

PoolNext ==
    \/ \E t \in Callers : CallerStep(t)
    \/ \E c \in Conns : CloseReplaced(c) \/ CloseDead(c) \/ CloseDrained(c)
    \/ EvictIdle
    \/ JanitorStop
    \/ PoolClose
    \/ PoolTick

PoolSpec == PoolInit /\ [][PoolNext]_poolVars

\* Goroutines are scheduled, a close returns, time passes and the ticker
\* ticks.  Nothing makes a remote server answer a dial, and nobody is obliged
\* to call Connect, Get, Disconnect or Close.
PoolFairness ==
    /\ \A t \in Callers : WF_poolVars(Publish(t)) /\ WF_poolVars(DisconnectClose(t))
    /\ \A c \in Conns : WF_poolVars(CloseReplaced(c))
    /\ \A c \in Conns : WF_poolVars(CloseDead(c))
    /\ \A c \in Conns : WF_poolVars(CloseDrained(c))
    /\ WF_poolVars(EvictIdle)
    /\ WF_poolVars(PoolTick)

PoolFairSpec == PoolSpec /\ PoolFairness

-----------------------------------------------------------------------------
InSlot(c) == \E s \in Sessions : conns[s] = c
InCall(c) == \E t \in Callers : callConn[t] = c
Retired == replaced \cup dead \cup drained

(***************************************************************************)
(* A connection is in one hand only: one slot of the map, one call of      *)
(* Connect or Disconnect, or one list waiting to be closed.  Every hand    *)
(* closes what it holds, so no connection is closed twice, and none that   *)
(* was closed is found by Get (pool.go: Connect, Disconnect, evictIdle,    *)
(* Close all move *Conn values out of p.conns).                            *)
(***************************************************************************)
OwnedOnce ==
    /\ \A r, s \in Sessions : conns[r] = conns[s] /\ conns[r] # NoConn => r = s
    /\ \A t, u \in Callers :
         callConn[t] = callConn[u] /\ callConn[t] # NoConn => t = u
    /\ \A s \in Sessions, t \in Callers :
         conns[s] = callConn[t] => conns[s] = NoConn
    /\ \A s \in Sessions : conns[s] \notin Retired
    /\ \A t \in Callers : callConn[t] \notin Retired
    /\ replaced \cap dead = {}
    /\ replaced \cap drained = {}
    /\ dead \cap drained = {}

(***************************************************************************)
(* No connection leaks and no dead one is pooled: the server holds a       *)
(* connection open exactly as long as some hand here does (the error paths *)
(* of Connect, the replaced connection, the janitor's list, Close).        *)
(***************************************************************************)
NoLeak ==
    \A c \in Conns :
      link[c] = "open" <=> InSlot(c) \/ InCall(c) \/ c \in Retired

(***************************************************************************)
(* A session's slot only ever holds a connection that was opened with the  *)
(* credentials sent on that session (Connect publishes after an unlocked   *)
(* dial, by when the slot and the pool may have changed).                  *)
(***************************************************************************)
OwnSession == \A s \in Pooled : cred[conns[s]] = s

\* Sessions for which a Connect is past its check.
Connecting == {callSess[t] : t \in {u \in Callers :
                                      pc[u] \in {"dialing", "starting", "ready"}}}

(***************************************************************************)
(* The ceiling of Connect is checked before the dial and not again, so     *)
(* every caller but one may slip past it; no more than that, whatever the  *)
(* order in which dials finish.                                            *)
(***************************************************************************)
CeilingOvershoot ==
    MaxConnections > 0 =>
      Cardinality(Pooled) <= MaxConnections + Cardinality(Callers) - 1

(***************************************************************************)
(* "FETCHR_MAX_CONNECTIONS: Concurrent SFTP connection ceiling"            *)
(* (README.md:86, config.go:59): the pool never holds more.                *)
(***************************************************************************)
Ceiling == MaxConnections > 0 => Cardinality(Pooled) <= MaxConnections

(***************************************************************************)
(* While the pool runs, a connection is closed sooner or later unless Get  *)
(* keeps handing it out or its dial never ends: evictIdle finds every idle *)
(* connection although it collects one list at a time.                     *)
(***************************************************************************)
Touched(c) == \E t \in Callers, s \in Sessions : conns[s] = c /\ Get(t, s)
Dialling(c) == \E t \in Callers : pc[t] = "starting" /\ callConn[t] = c

IdleCloses ==
    IdleTimeout > 0 =>
      \A c \in Conns :
        \/ []<>(link[c] = "closed")
        \/ []<><<Touched(c)>>_poolVars
        \/ <>[]Dialling(c)
        \/ <>~running

(***************************************************************************)
(* The pool implements ConnLifecycle: the same life of every connection,   *)
(* read off the map, the calls and the lists.  Whatever Disconnect, a      *)
(* replacing Connect, the janitor or Close take out of the pool is closed  *)
(* in the end, and nothing else leaves it.                                 *)
(***************************************************************************)
StageOf(c) ==
    IF InSlot(c) THEN "pooled"
    ELSE IF \E t \in Callers : callConn[t] = c /\ pc[t] \in {"starting", "ready"}
         THEN "opening"
    ELSE IF link[c] = "open" THEN "closing"
    ELSE "none"

Lifecycle == INSTANCE ConnLifecycle
               WITH stage <- [c \in Conns |-> StageOf(c)], owner <- cred

ImplementsLifecycle == Lifecycle!LifecycleSpec
=============================================================================
