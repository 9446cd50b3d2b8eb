--------------------------- MODULE ConnPoolProofs ---------------------------
(***************************************************************************)
(* ConnPool for any number of sessions, callers and connections: types,    *)
(* ownership, leaks, the session of each slot, the bound on overshooting   *)
(* the ceiling, and the implementation of ConnLifecycle.                   *)
(*                                                                         *)
(* OwnedOnce, NoLeak and OwnSession are not inductive alone.  PoolInv has  *)
(* with them PoolTypeOK, whose second part says what connection and        *)
(* session are in the hands of a call (CallState), and that Close has not  *)
(* taken the map as long as the pool runs (BeforeClose), or Close would    *)
(* forget a list of its own.                                               *)
(***************************************************************************)
EXTENDS ConnPool, FiniteSetTheorems, TLAPS

BeforeClose == running => drained = {}

PoolInv ==
    PoolTyped /\ CallState /\ BeforeClose /\ OwnedOnce /\ NoLeak /\ OwnSession

-----------------------------------------------------------------------------
\* Connect past its checks: only the call is recorded.
LEMMA ConnectCheckKeeps ==
    ASSUME PoolInv, NEW t \in Callers, NEW s \in Sessions, NEW h \in Hosts,
           ConnectCheck(t, s, h)
    PROVE  PoolInv'
<1> USE PoolAssumption, SessionIdsAssumption DEF PoolInv
<1>1. PoolTyped'
  BY DEF PoolTyped, ConnectCheck
<1>2. CallState'
  BY DEF PoolTyped, CallState, ConnectCheck
<1>3. BeforeClose'
  BY DEF BeforeClose, ConnectCheck
<1>4. OwnedOnce'
  BY DEF OwnedOnce, Retired, ConnectCheck
<1>5. NoLeak'
  BY DEF NoLeak, InSlot, InCall, Retired, ConnectCheck
<1>6. OwnSession'
  BY DEF OwnSession, Pooled, ConnectCheck
<1> QED
  BY <1>1, <1>2, <1>3, <1>4, <1>5, <1>6

\* The dial failed: the call held no connection yet.
LEMMA DialFailKeeps ==
    ASSUME PoolInv, NEW t \in Callers, DialFail(t)
    PROVE  PoolInv'
<1> USE PoolAssumption, SessionIdsAssumption DEF PoolInv
<1>1. PoolTyped'
  BY DEF PoolTyped, DialFail, Return
<1>2. CallState'
  BY DEF PoolTyped, CallState, DialFail, Return
<1>3. BeforeClose'
  BY DEF BeforeClose, DialFail, Return
<1>4. OwnedOnce'
  BY DEF PoolTyped, OwnedOnce, Retired, DialFail, Return
<1>5. NoLeak'
  BY DEF PoolTyped, CallState, NoLeak, InSlot, InCall, Retired, DialFail,
         Return
<1>6. OwnSession'
  BY DEF OwnSession, Pooled, DialFail, Return
<1> QED
  BY <1>1, <1>2, <1>3, <1>4, <1>5, <1>6

\* A closed connection is in no hand (NoLeak), so the caller is the first.
LEMMA DialOkKeeps ==
    ASSUME PoolInv, NEW t \in Callers, NEW c \in Conns, DialOk(t, c)
    PROVE  PoolInv'
<1> USE PoolAssumption, SessionIdsAssumption DEF PoolInv
<1>1. PoolTyped'
  BY DEF PoolTyped, DialOk
<1>2. CallState'
  BY DEF PoolTyped, CallState, NoLeak, InCall, DialOk
<1>3. BeforeClose'
  BY DEF BeforeClose, DialOk
<1>4. OwnedOnce'
  BY DEF PoolTyped, CallState, OwnedOnce, NoLeak, InSlot, InCall, Retired,
         DialOk
<1>5. NoLeak'
  BY DEF PoolTyped, CallState, NoLeak, InSlot, InCall, Retired, DialOk
<1>6. OwnSession'
  BY DEF PoolTyped, NoLeak, InSlot, OwnSession, Pooled, DialOk
<1> QED
  BY <1>1, <1>2, <1>3, <1>4, <1>5, <1>6

\* The caller's connection is closed and was in its hand alone.
LEMMA StartFailKeeps ==
    ASSUME PoolInv, NEW t \in Callers, StartFail(t)
    PROVE  PoolInv'
<1> USE PoolAssumption, SessionIdsAssumption DEF PoolInv
<1>1. PoolTyped'
  BY DEF PoolTyped, Aged, CallState, StartFail, Return, Shut
<1>2. CallState'
  BY DEF PoolTyped, CallState, OwnedOnce, StartFail, Return, Shut
<1>3. BeforeClose'
  BY DEF BeforeClose, StartFail, Return, Shut
<1>4. OwnedOnce'
  BY DEF PoolTyped, OwnedOnce, Retired, StartFail, Return, Shut
<1>5. NoLeak'
  BY DEF PoolTyped, OwnedOnce, NoLeak, InSlot, InCall, Retired, StartFail,
         Return, Shut
<1>6. OwnSession'
  BY DEF PoolTyped, OwnedOnce, OwnSession, Pooled, StartFail, Return, Shut
<1> QED
  BY <1>1, <1>2, <1>3, <1>4, <1>5, <1>6

\* The connection is built: its clock starts.
LEMMA StartOkKeeps ==
    ASSUME PoolInv, NEW t \in Callers, StartOk(t)
    PROVE  PoolInv'
<1> USE PoolAssumption, SessionIdsAssumption DEF PoolInv
<1>1. PoolTyped'
  BY DEF PoolTyped, Aged, CallState, StartOk
<1>2. CallState'
  BY DEF CallState, StartOk
<1>3. BeforeClose'
  BY DEF BeforeClose, StartOk
<1>4. OwnedOnce'
  BY DEF OwnedOnce, Retired, StartOk
<1>5. NoLeak'
  BY DEF NoLeak, InSlot, InCall, Retired, StartOk
<1>6. OwnSession'
  BY DEF OwnSession, Pooled, StartOk
<1> QED
  BY <1>1, <1>2, <1>3, <1>4, <1>5, <1>6

\* The caller's connection moves to the slot, the slot's to replaced.
LEMMA PublishKeeps ==
    ASSUME PoolInv, NEW t \in Callers, Publish(t)
    PROVE  PoolInv'
<1> USE PoolAssumption, SessionIdsAssumption DEF PoolInv
<1>1. PoolTyped'
  BY DEF PoolTyped, CallState, Publish, Return
<1>2. CallState'
  BY DEF PoolTyped, CallState, Publish, Return
<1>3. BeforeClose'
  BY DEF BeforeClose, Publish, Return
<1>4. OwnedOnce'
  BY DEF PoolTyped, CallState, OwnedOnce, Retired, Publish, Return
<1>5. NoLeak'
  BY DEF PoolTyped, CallState, NoLeak, InSlot, InCall, Retired, Publish,
         Return
<1>6. OwnSession'
  BY DEF PoolTyped, CallState, OwnSession, Pooled, Publish, Return
<1> QED
  BY <1>1, <1>2, <1>3, <1>4, <1>5, <1>6

\* Get only turns a clock back.
LEMMA GetKeeps ==
    ASSUME PoolInv, NEW t \in Callers, NEW s \in Sessions, Get(t, s)
    PROVE  PoolInv'
<1> USE PoolAssumption, SessionIdsAssumption DEF PoolInv
<1>1. PoolTyped'
  BY DEF PoolTyped, Aged, Get
<1>2. CallState'
  BY DEF CallState, Get
<1>3. BeforeClose'
  BY DEF BeforeClose, Get
<1>4. OwnedOnce'
  BY DEF OwnedOnce, Retired, Get
<1>5. NoLeak'
  BY DEF NoLeak, InSlot, InCall, Retired, Get
<1>6. OwnSession'
  BY DEF OwnSession, Pooled, Get
<1> QED
  BY <1>1, <1>2, <1>3, <1>4, <1>5, <1>6

\* The slot's connection moves to the caller.
LEMMA DisconnectKeeps ==
    ASSUME PoolInv, NEW t \in Callers, NEW s \in Sessions, Disconnect(t, s)
    PROVE  PoolInv'
<1> USE PoolAssumption, SessionIdsAssumption DEF PoolInv
<1>1. PoolTyped'
  BY DEF PoolTyped, Disconnect
<1>2. CallState'
  BY DEF PoolTyped, CallState, Disconnect
<1>3. BeforeClose'
  BY DEF BeforeClose, Disconnect
<1>4. OwnedOnce'
  BY DEF PoolTyped, OwnedOnce, Retired, Disconnect
<1>5. NoLeak'
  BY DEF PoolTyped, CallState, NoLeak, InSlot, InCall, Retired, Disconnect
<1>6. OwnSession'
  BY DEF OwnSession, Pooled, Disconnect
<1> QED
  BY <1>1, <1>2, <1>3, <1>4, <1>5, <1>6

\* The caller closes what it took out.
LEMMA DisconnectCloseKeeps ==
    ASSUME PoolInv, NEW t \in Callers, DisconnectClose(t)
    PROVE  PoolInv'
<1> USE PoolAssumption, SessionIdsAssumption DEF PoolInv
<1>1. PoolTyped'
  BY DEF PoolTyped, Aged, CallState, DisconnectClose, Return, Shut
<1>2. CallState'
  BY DEF PoolTyped, CallState, OwnedOnce, DisconnectClose, Return, Shut
<1>3. BeforeClose'
  BY DEF BeforeClose, DisconnectClose, Return, Shut
<1>4. OwnedOnce'
  BY DEF PoolTyped, OwnedOnce, Retired, DisconnectClose, Return, Shut
<1>5. NoLeak'
  BY DEF PoolTyped, OwnedOnce, NoLeak, InSlot, InCall, Retired,
         DisconnectClose, Return, Shut
<1>6. OwnSession'
  BY DEF PoolTyped, OwnedOnce, OwnSession, Pooled, DisconnectClose, Return,
         Shut
<1> QED
  BY <1>1, <1>2, <1>3, <1>4, <1>5, <1>6

\* A replaced connection is closed.
LEMMA CloseReplacedKeeps ==
    ASSUME PoolInv, NEW c \in Conns, CloseReplaced(c)
    PROVE  PoolInv'
<1> USE PoolAssumption, SessionIdsAssumption DEF PoolInv
<1>1. PoolTyped'
  BY DEF PoolTyped, Aged, CloseReplaced, Shut
<1>2. CallState'
  BY DEF PoolTyped, CallState, OwnedOnce, NoLeak, InSlot, InCall, Retired,
         CloseReplaced, Shut
<1>3. BeforeClose'
  BY DEF BeforeClose, CloseReplaced, Shut
<1>4. OwnedOnce'
  BY DEF OwnedOnce, Retired, CloseReplaced, Shut
<1>5. NoLeak'
  BY DEF PoolTyped, OwnedOnce, NoLeak, InSlot, InCall, Retired,
         CloseReplaced, Shut
<1>6. OwnSession'
  BY DEF PoolTyped, CallState, OwnedOnce, Retired, OwnSession, Pooled,
         CloseReplaced, Shut
<1> QED
  BY <1>1, <1>2, <1>3, <1>4, <1>5, <1>6

\* The janitor closes one connection of its list.
LEMMA CloseDeadKeeps ==
    ASSUME PoolInv, NEW c \in Conns, CloseDead(c)
    PROVE  PoolInv'
<1> USE PoolAssumption, SessionIdsAssumption DEF PoolInv
<1>1. PoolTyped'
  BY DEF PoolTyped, Aged, CloseDead, Shut
<1>2. CallState'
  BY DEF PoolTyped, CallState, OwnedOnce, NoLeak, InSlot, InCall, Retired,
         CloseDead, Shut
<1>3. BeforeClose'
  BY DEF BeforeClose, CloseDead, Shut
<1>4. OwnedOnce'
  BY DEF OwnedOnce, Retired, CloseDead, Shut
<1>5. NoLeak'
  BY DEF PoolTyped, OwnedOnce, NoLeak, InSlot, InCall, Retired, CloseDead,
         Shut
<1>6. OwnSession'
  BY DEF PoolTyped, CallState, OwnedOnce, Retired, OwnSession, Pooled,
         CloseDead, Shut
<1> QED
  BY <1>1, <1>2, <1>3, <1>4, <1>5, <1>6

\* Close closes one connection of the map it took.
LEMMA CloseDrainedKeeps ==
    ASSUME PoolInv, NEW c \in Conns, CloseDrained(c)
    PROVE  PoolInv'
<1> USE PoolAssumption, SessionIdsAssumption DEF PoolInv
<1>1. PoolTyped'
  BY DEF PoolTyped, Aged, CloseDrained, Shut
<1>2. CallState'
  BY DEF PoolTyped, CallState, OwnedOnce, NoLeak, InSlot, InCall, Retired,
         CloseDrained, Shut
<1>3. BeforeClose'
  BY DEF BeforeClose, CloseDrained, Shut
<1>4. OwnedOnce'
  BY DEF OwnedOnce, Retired, CloseDrained, Shut
<1>5. NoLeak'
  BY DEF PoolTyped, OwnedOnce, NoLeak, InSlot, InCall, Retired,
         CloseDrained, Shut
<1>6. OwnSession'
  BY DEF PoolTyped, CallState, OwnedOnce, Retired, OwnSession, Pooled,
         CloseDrained, Shut
<1> QED
  BY <1>1, <1>2, <1>3, <1>4, <1>5, <1>6

\* The idle connections move from their slots to the empty dead list.
LEMMA EvictIdleKeeps ==
    ASSUME PoolInv, EvictIdle
    PROVE  PoolInv'
<1> USE PoolAssumption, SessionIdsAssumption DEF PoolInv
<1>1. PoolTyped'
  BY DEF PoolTyped, EvictIdle, IdleSessions, Pooled
<1>2. CallState'
  BY DEF CallState, EvictIdle, IdleSessions, Pooled
<1>3. BeforeClose'
  BY DEF BeforeClose, EvictIdle, IdleSessions, Pooled
<1>4. OwnedOnce'
  BY DEF PoolTyped, OwnedOnce, Retired, EvictIdle, IdleSessions, Pooled
<1>5. NoLeak'
  BY DEF NoLeak, InSlot, InCall, Retired, EvictIdle, IdleSessions, Pooled
<1>6. OwnSession'
  BY DEF OwnSession, Pooled, EvictIdle, IdleSessions
<1> QED
  BY <1>1, <1>2, <1>3, <1>4, <1>5, <1>6

\* The janitor leaves.
LEMMA JanitorStopKeeps ==
    ASSUME PoolInv, JanitorStop
    PROVE  PoolInv'
<1> USE PoolAssumption, SessionIdsAssumption DEF PoolInv
<1>1. PoolTyped'
  BY DEF PoolTyped, JanitorStop
<1>2. CallState'
  BY DEF CallState, JanitorStop
<1>3. BeforeClose'
  BY DEF BeforeClose, JanitorStop
<1>4. OwnedOnce'
  BY DEF OwnedOnce, Retired, JanitorStop
<1>5. NoLeak'
  BY DEF NoLeak, InSlot, InCall, Retired, JanitorStop
<1>6. OwnSession'
  BY DEF OwnSession, Pooled, JanitorStop
<1> QED
  BY <1>1, <1>2, <1>3, <1>4, <1>5, <1>6

\* All slots move to drained, which is empty as long as the pool runs.
LEMMA PoolCloseKeeps ==
    ASSUME PoolInv, PoolClose
    PROVE  PoolInv'
<1> USE PoolAssumption, SessionIdsAssumption DEF PoolInv
<1>1. PoolTyped'
  <2>1. {conns[s] : s \in Pooled} \subseteq Conns
    BY DEF PoolTyped, Pooled
  <2> QED
    BY <2>1 DEF PoolTyped, PoolClose, Pooled
<1>2. CallState'
  BY DEF CallState, PoolClose, Pooled
<1>3. BeforeClose'
  BY DEF BeforeClose, PoolClose, Pooled
<1>4. OwnedOnce'
  BY DEF PoolTyped, OwnedOnce, Retired, PoolClose, Pooled
<1>5. NoLeak'
  BY DEF PoolTyped, BeforeClose, NoLeak, InSlot, InCall, Retired, PoolClose,
         Pooled
<1>6. OwnSession'
  BY DEF OwnSession, Pooled, PoolClose
<1> QED
  BY <1>1, <1>2, <1>3, <1>4, <1>5, <1>6

\* Time passes, for open connections.
LEMMA PoolTickKeeps ==
    ASSUME PoolInv, PoolTick
    PROVE  PoolInv'
<1> USE PoolAssumption, SessionIdsAssumption DEF PoolInv
<1>1. PoolTyped'
  BY DEF PoolTyped, Aged, PoolTick
<1>2. CallState'
  BY DEF CallState, PoolTick
<1>3. BeforeClose'
  BY DEF BeforeClose, PoolTick
<1>4. OwnedOnce'
  BY DEF OwnedOnce, Retired, PoolTick
<1>5. NoLeak'
  BY DEF NoLeak, InSlot, InCall, Retired, PoolTick
<1>6. OwnSession'
  BY DEF OwnSession, Pooled, PoolTick
<1> QED
  BY <1>1, <1>2, <1>3, <1>4, <1>5, <1>6

-----------------------------------------------------------------------------
\* The pool starts empty.
LEMMA InitHolds == PoolInit => PoolInv
<1> USE PoolAssumption, SessionIdsAssumption
<1>1. PoolInit => PoolTyped
  BY DEF PoolInit, PoolTyped, Aged
<1>2. PoolInit => CallState /\ BeforeClose
  BY DEF PoolInit, CallState, BeforeClose
<1>3. PoolInit => OwnedOnce /\ NoLeak
  BY DEF PoolInit, OwnedOnce, NoLeak, InSlot, InCall, Retired
<1>4. PoolInit => OwnSession
  BY DEF PoolInit, OwnSession, Pooled
<1> QED
  BY <1>1, <1>2, <1>3, <1>4 DEF PoolInv

\* Every step of the pool keeps the invariant.
LEMMA StepKeeps == PoolInv /\ [PoolNext]_poolVars => PoolInv'
<1> SUFFICES ASSUME PoolInv, [PoolNext]_poolVars PROVE PoolInv'
  OBVIOUS
<1>1. CASE UNCHANGED poolVars
  BY <1>1 DEF poolVars, PoolInv, PoolTyped, CallState, BeforeClose, OwnedOnce,
              NoLeak, OwnSession, InSlot, InCall, Retired, Pooled, Aged
<1>2. ASSUME NEW t \in Callers, CallerStep(t) PROVE PoolInv'
  BY <1>2, ConnectCheckKeeps, DialFailKeeps, DialOkKeeps, StartFailKeeps,
     StartOkKeeps, PublishKeeps, GetKeeps, DisconnectKeeps,
     DisconnectCloseKeeps DEF CallerStep
<1>3. ASSUME NEW c \in Conns, CloseReplaced(c) \/ CloseDead(c) \/ CloseDrained(c)
      PROVE  PoolInv'
  BY <1>3, CloseReplacedKeeps, CloseDeadKeeps, CloseDrainedKeeps
<1>4. CASE EvictIdle
  BY <1>4, EvictIdleKeeps
<1>5. CASE JanitorStop
  BY <1>5, JanitorStopKeeps
<1>6. CASE PoolClose
  BY <1>6, PoolCloseKeeps
<1>7. CASE PoolTick
  BY <1>7, PoolTickKeeps
<1> QED
  BY <1>1, <1>2, <1>3, <1>4, <1>5, <1>6, <1>7 DEF PoolNext

(***************************************************************************)
(* The invariant behind everything below, for any sessions, callers and    *)
(* connections and every configuration of the pool.                        *)
(***************************************************************************)
THEOREM PoolInvariant == PoolSpec => []PoolInv
<1> QED
  BY InitHolds, StepKeeps, PTL DEF PoolSpec

(***************************************************************************)
(* The variables of the pool keep their types.                             *)
(***************************************************************************)
THEOREM PoolTypeCorrect == PoolSpec => []PoolTypeOK
<1>1. PoolInv => PoolTypeOK
  BY DEF PoolInv, PoolTypeOK
<1> QED
  BY <1>1, PoolInvariant, PTL

(***************************************************************************)
(* A connection is in one hand only, so it is closed once and never found  *)
(* by Get afterwards.                                                      *)
(***************************************************************************)
THEOREM PoolOwnsOnce == PoolSpec => []OwnedOnce
<1>1. PoolInv => OwnedOnce
  BY DEF PoolInv
<1> QED
  BY <1>1, PoolInvariant, PTL

(***************************************************************************)
(* A connection is open exactly as long as the pool, a call or a list      *)
(* holds it: none leaks, and none in the pool has been closed.             *)
(***************************************************************************)
THEOREM PoolNeverLeaks == PoolSpec => []NoLeak
<1>1. PoolInv => NoLeak
  BY DEF PoolInv
<1> QED
  BY <1>1, PoolInvariant, PTL

(***************************************************************************)
(* A session's slot holds a connection opened with its own credentials.    *)
(***************************************************************************)
THEOREM PoolSeparatesSessions == PoolSpec => []OwnSession
<1>1. PoolInv => OwnSession
  BY DEF PoolInv
<1> QED
  BY <1>1, PoolInvariant, PTL

-----------------------------------------------------------------------------
(***************************************************************************)
(* The ceiling.  The inductive bound counts the sessions that hold a       *)
(* connection together with those a Connect is dialling for: the check of  *)
(* Connect leaves at most MaxConnections - 1 of the first kind, the other  *)
(* callers that ever connect, T, at most Cardinality(T) - 1 of the second. *)
(***************************************************************************)
Claimed == Pooled \cup Connecting

CeilingInv(T) ==
    MaxConnections > 0 =>
      /\ IsFiniteSet(Claimed)
      /\ Cardinality(Claimed) <= MaxConnections + Cardinality(T) - 1

\* No caller outside T is in a Connect.
ConnectOnly(T) == \A u \in Callers \ T : pc[u] \in {"idle", "closing"}

\* The image of a finite set is finite and no larger.
LEMMA ImageBound ==
    ASSUME NEW S, IsFiniteSet(S), NEW f
    PROVE  /\ IsFiniteSet({f[x] : x \in S})
           /\ Cardinality({f[x] : x \in S}) <= Cardinality(S)
<1> DEFINE T == {f[x] : x \in S}
           g == [x \in S |-> f[x]]
<1>1. g \in Surjection(S, T)
  BY DEF Surjection
<1> HIDE DEF g, T
<1>2. IsFiniteSet(T) /\ Cardinality(T) <= Cardinality(S)
  BY <1>1, FS_Surjection
<1> QED
  BY <1>2 DEF T

\* A step that claims no more sessions keeps the bound.
LEMMA FewerClaims ==
    ASSUME NEW T, IsFiniteSet(T), CeilingInv(T), Claimed' \subseteq Claimed
    PROVE  CeilingInv(T)'
<1> SUFFICES ASSUME MaxConnections > 0
             PROVE  /\ IsFiniteSet(Claimed')
                    /\ Cardinality(Claimed') <= MaxConnections + Cardinality(T) - 1
  BY DEF CeilingInv
<1>1. IsFiniteSet(Claimed) /\ Cardinality(Claimed) <= MaxConnections + Cardinality(T) - 1
  BY DEF CeilingInv
<1>2. IsFiniteSet(Claimed') /\ Cardinality(Claimed') <= Cardinality(Claimed)
  BY <1>1, FS_Subset
<1> QED
  BY <1>1, <1>2, FS_CardinalityType, PoolAssumption

\* The one step that claims a session.
LEMMA ConnectCheckClaims ==
    ASSUME PoolTyped, NEW T \in SUBSET Callers, CeilingInv(T), ConnectOnly(T),
           NEW t \in T, NEW s \in Sessions, NEW h \in Hosts, ConnectCheck(t, s, h)
    PROVE  CeilingInv(T)'
<1>0. IsFiniteSet(T) /\ t \in Callers
  BY PoolAssumption, FS_Subset
<1>1. Claimed' \subseteq Claimed \cup {s}
  BY <1>0 DEF ConnectCheck, Claimed, Pooled, Connecting, PoolTyped
<1>2. CASE s \in Pooled
  <2>1. Claimed' \subseteq Claimed
    BY <1>1, <1>2 DEF Claimed
  <2> QED
    BY <1>0, <2>1, FewerClaims
<1>3. CASE s \notin Pooled /\ MaxConnections > 0
  <2> DEFINE Others == {u \in T \ {t} : pc[u] \in {"dialing", "starting", "ready"}}
             n == Cardinality(T)
  <2>1. Connecting = {callSess[u] : u \in Others}
    BY DEF Connecting, ConnectCheck, ConnectOnly
  <2>2. /\ IsFiniteSet(T) /\ n \in Nat
        /\ IsFiniteSet(T \ {t}) /\ Cardinality(T \ {t}) = n - 1
    BY <1>0, FS_CardinalityType, FS_RemoveElement
  <2>3. IsFiniteSet(Others) /\ Cardinality(Others) <= n - 1
    BY <2>2, FS_Subset, Others \in SUBSET (T \ {t})
  <2>4. IsFiniteSet(Connecting) /\ Cardinality(Connecting) <= n - 1
    <3>1. /\ IsFiniteSet({callSess[u] : u \in Others})
          /\ Cardinality({callSess[u] : u \in Others}) <= Cardinality(Others)
      BY <2>3, ImageBound
    <3> QED
      BY <2>1, <2>2, <2>3, <3>1, FS_CardinalityType
  <2>5. IsFiniteSet(Pooled) /\ Cardinality(Pooled) \in Nat
    <3>1. IsFiniteSet(Claimed)
      BY <1>3 DEF CeilingInv
    <3> QED
      BY <3>1, FS_Subset, FS_CardinalityType, Pooled \in SUBSET Claimed DEF Claimed
  <2>6. Cardinality(Pooled) <= MaxConnections - 1
    BY <1>3, <2>5, PoolAssumption DEF ConnectCheck, Refused, Full, Pooled
  <2>7. /\ IsFiniteSet(Claimed)
        /\ Cardinality(Claimed) <= MaxConnections + n - 2
    <3>1. /\ Cardinality(Pooled \cap Connecting) \in Nat
          /\ Cardinality(Connecting) \in Nat
      BY <2>4, <2>5, FS_Subset, FS_CardinalityType, Pooled \cap Connecting \in SUBSET Pooled
    <3>2. /\ IsFiniteSet(Pooled \cup Connecting)
          /\ Cardinality(Pooled \cup Connecting)
               = Cardinality(Pooled) + Cardinality(Connecting) - Cardinality(Pooled \cap Connecting)
      BY <2>4, <2>5, FS_Union
    <3> QED
      BY <2>2, <2>4, <2>5, <2>6, <3>1, <3>2, PoolAssumption DEF Claimed
  <2>8. /\ IsFiniteSet(Claimed \cup {s})
        /\ Cardinality(Claimed \cup {s}) <= MaxConnections + n - 1
    <3>1. Cardinality(Claimed) \in Nat
      BY <2>7, FS_CardinalityType
    <3>2. /\ IsFiniteSet(Claimed \cup {s})
          /\ Cardinality(Claimed \cup {s})
               = IF s \in Claimed THEN Cardinality(Claimed) ELSE Cardinality(Claimed) + 1
      BY <2>7, FS_AddElement
    <3>3. Cardinality(Claimed \cup {s}) <= Cardinality(Claimed) + 1
      BY <3>1, <3>2
    <3> QED
      BY <2>2, <2>7, <3>1, <3>2, <3>3, PoolAssumption
  <2>9. /\ IsFiniteSet(Claimed')
        /\ Cardinality(Claimed') <= Cardinality(Claimed \cup {s})
    BY <1>1, <2>8, FS_Subset
  <2> QED
    BY <2>2, <2>8, <2>9, FS_CardinalityType, PoolAssumption DEF CeilingInv
<1>4. CASE ~(MaxConnections > 0)
  BY <1>4 DEF CeilingInv
<1> QED
  BY <1>2, <1>3, <1>4

\* Every step keeps the bound; Publish turns a session that is being dialled
\* for into one that holds a connection, the others only give sessions up.
LEMMA CeilingStep ==
    ASSUME NEW T \in SUBSET Callers, PoolInv, CeilingInv(T), ConnectOnly(T),
           ConnectOnly(T)', [PoolNext]_poolVars
    PROVE  CeilingInv(T)'
<1>0. IsFiniteSet(T)
  BY PoolAssumption, FS_Subset
<1> USE SessionIdsAssumption DEF PoolInv, PoolTyped, Claimed, Pooled, Connecting
<1>1. ASSUME NEW t \in Callers, NEW s \in Sessions, NEW h \in Hosts, ConnectCheck(t, s, h)
      PROVE  CeilingInv(T)'
  <2>1. t \in T
    BY <1>1 DEF ConnectCheck, ConnectOnly
  <2> QED
    BY <1>1, <2>1, ConnectCheckClaims
<1>2. ASSUME NEW t \in Callers, Publish(t) PROVE Claimed' \subseteq Claimed
  BY <1>2 DEF Publish, Return, CallState
<1>3. ASSUME NEW t \in Callers, DialFail(t) \/ StartFail(t) \/ DisconnectClose(t)
      PROVE  Claimed' \subseteq Claimed
  BY <1>3 DEF DialFail, StartFail, DisconnectClose, Return, Shut
<1>4. ASSUME NEW t \in Callers, StartOk(t) \/ (\E c \in Conns : DialOk(t, c))
      PROVE  Claimed' \subseteq Claimed
  BY <1>4 DEF StartOk, DialOk
<1>5. ASSUME NEW t \in Callers, NEW s \in Sessions, Get(t, s) \/ Disconnect(t, s)
      PROVE  Claimed' \subseteq Claimed
  BY <1>5 DEF Get, Disconnect
<1>6. ASSUME NEW c \in Conns, CloseReplaced(c) \/ CloseDead(c) \/ CloseDrained(c)
      PROVE  Claimed' \subseteq Claimed
  BY <1>6 DEF CloseReplaced, CloseDead, CloseDrained
<1>7. CASE EvictIdle \/ JanitorStop \/ PoolClose \/ PoolTick \/ UNCHANGED poolVars
  <2>1. Claimed' \subseteq Claimed
    BY <1>7 DEF EvictIdle, JanitorStop, PoolClose, PoolTick, poolVars
  <2> QED
    BY <1>0, <2>1, FewerClaims
<1> QED
  BY <1>0, <1>1, <1>2, <1>3, <1>4, <1>5, <1>6, <1>7, FewerClaims DEF PoolNext, CallerStep

\* Nobody has connected in the beginning, and the bound is the one stated.
LEMMA CeilingStarts ==
    ASSUME NEW T, IsFiniteSet(T), PoolInit
    PROVE  CeilingInv(T)
<1>1. Claimed = {}
  BY DEF PoolInit, Claimed, Pooled, Connecting
<1>2. Cardinality(T) \in Nat
  BY FS_CardinalityType
<1> QED
  BY <1>1, <1>2, FS_EmptySet, PoolAssumption DEF CeilingInv

LEMMA CeilingBound ==
    ASSUME NEW T, IsFiniteSet(T), CeilingInv(T), MaxConnections > 0
    PROVE  Cardinality(Pooled) <= MaxConnections + Cardinality(T) - 1
<1>1. /\ IsFiniteSet(Claimed)
      /\ Cardinality(Claimed) <= MaxConnections + Cardinality(T) - 1
  BY DEF CeilingInv
<1>2. IsFiniteSet(Pooled) /\ Cardinality(Pooled) <= Cardinality(Claimed)
  BY <1>1, FS_Subset DEF Claimed
<1> QED
  BY <1>1, <1>2, FS_CardinalityType, PoolAssumption

(***************************************************************************)
(* With n concurrent callers the pool holds at most n - 1 connections more *)
(* than the ceiling that Connect checks before it dials.                   *)
(***************************************************************************)
THEOREM PoolOvershoot == PoolSpec => []CeilingOvershoot
<1>1. PoolInit => CeilingInv(Callers)
  BY CeilingStarts, PoolAssumption
<1>2. PoolInv /\ CeilingInv(Callers) /\ [PoolNext]_poolVars => CeilingInv(Callers)'
  BY CeilingStep DEF ConnectOnly
<1>3. CeilingInv(Callers) => CeilingOvershoot
  BY CeilingBound, PoolAssumption DEF CeilingOvershoot
<1> QED
  BY <1>1, <1>2, <1>3, PoolInvariant, PTL DEF PoolSpec

-----------------------------------------------------------------------------
(***************************************************************************)
(* ConnPool implements the safety part of ConnLifecycle.  Under PoolInv    *)
(* the stage of a connection is told by the one hand that holds it.        *)
(***************************************************************************)
Opening(c) == \E t \in Callers : callConn[t] = c /\ pc[t] \in {"starting", "ready"}

stages == [c \in Conns |-> StageOf(c)]

LEMMA StageByHand ==
    ASSUME PoolInv, NEW c \in Conns
    PROVE  /\ StageOf(c) = "pooled" <=> InSlot(c)
           /\ StageOf(c) = "opening" <=> Opening(c)
           /\ StageOf(c) = "closing" <=> link[c] = "open" /\ ~InSlot(c) /\ ~Opening(c)
           /\ StageOf(c) = "none" <=> link[c] = "closed"
<1>1. ~(InSlot(c) /\ Opening(c))
  BY PoolAssumption DEF PoolInv, OwnedOnce, InSlot, Opening
<1>2. InSlot(c) \/ Opening(c) => link[c] = "open"
  BY DEF PoolInv, NoLeak, InSlot, InCall, Opening
<1>3. link[c] \in {"open", "closed"}
  BY DEF PoolInv, PoolTyped
<1> QED
  BY <1>1, <1>2, <1>3 DEF StageOf, Opening

\* Steps that no observer of the connections sees.
LEMMA Unseen ==
    ASSUME UNCHANGED <<conns, link, callConn>>,
           \A t \in Callers : pc'[t] = pc[t] \/ callConn[t] = NoConn
                              \/ {pc[t], pc'[t]} \subseteq {"starting", "ready"}
    PROVE  stages' = stages
<1>1. ASSUME NEW c \in Conns PROVE StageOf(c)' = StageOf(c)
  BY <1>1, PoolAssumption DEF StageOf, InSlot
<1> QED
  BY <1>1 DEF stages

\* What a step does to each connection, as a step of ConnLifecycle.
LEMMA DialOkOpens ==
    ASSUME PoolInv, NEW t \in Callers, NEW c \in Conns, DialOk(t, c)
    PROVE  Lifecycle!Open(c, callSess[t])
<1>1. StageOf(c) = "none"
  BY StageByHand DEF DialOk
<1>2. ASSUME NEW d \in Conns
      PROVE  StageOf(d)' = IF d = c THEN "opening" ELSE StageOf(d)
  BY <1>1, <1>2, StageByHand, PoolAssumption
     DEF StageOf, InSlot, DialOk, PoolInv, PoolTyped, CallState, NoLeak, InCall
<1> QED
  BY <1>1, <1>2 DEF Lifecycle!Open, DialOk

LEMMA StartFailAbandons ==
    ASSUME PoolInv, NEW t \in Callers, StartFail(t)
    PROVE  Lifecycle!Abandon(callConn[t])
<1> DEFINE c == callConn[t]
<1>1. c \in Conns /\ Opening(c)
  BY PoolAssumption DEF StartFail, PoolInv, PoolTyped, CallState, Opening
<1>2. StageOf(c) = "opening"
  BY <1>1, StageByHand
<1>3. ASSUME NEW d \in Conns
      PROVE  StageOf(d)' = IF d = c THEN "none" ELSE StageOf(d)
  BY <1>1, PoolAssumption
     DEF StageOf, InSlot, StartFail, Return, Shut, PoolInv, PoolTyped, CallState, OwnedOnce
<1> QED
  BY <1>1, <1>2, <1>3 DEF Lifecycle!Abandon, StartFail, Shut

LEMMA PublishAdopts ==
    ASSUME PoolInv, NEW t \in Callers, Publish(t)
    PROVE  Lifecycle!Adopt(callConn[t])
<1> DEFINE c == callConn[t]
           s == callSess[t]
<1>1. /\ c \in Conns /\ Opening(c) /\ s \in Sessions
      /\ cred[c] = s /\ link[c] = "open"
  BY PoolAssumption, SessionIdsAssumption
     DEF Publish, PoolInv, PoolTyped, CallState, Opening, NoLeak, InCall
<1>2. StageOf(c) = "opening"
  BY <1>1, StageByHand
<1>3. Lifecycle!PooledFor(s) = {conns[s]} \ {NoConn}
  <2>1. ASSUME NEW d \in Conns, StageOf(d) = "pooled", cred[d] = s PROVE d = conns[s]
    BY <2>1, StageByHand, PoolAssumption DEF InSlot, PoolInv, OwnSession, Pooled
  <2>2. ASSUME conns[s] # NoConn
        PROVE  conns[s] \in Conns /\ StageOf(conns[s]) = "pooled" /\ cred[conns[s]] = s
    BY <1>1, <2>2, StageByHand DEF InSlot, PoolInv, PoolTyped, OwnSession, Pooled
  <2> QED
    BY <2>1, <2>2, PoolAssumption DEF Lifecycle!PooledFor
<1>4. ASSUME NEW d \in Conns
      PROVE  StageOf(d)' = IF d = c THEN "pooled"
                           ELSE IF d = conns[s] THEN "closing" ELSE StageOf(d)
  <2>1. CASE d = c
    BY <1>1, <2>1 DEF StageOf, InSlot, Publish, PoolInv, PoolTyped
  <2>2. CASE d # c /\ d = conns[s]
    <3>1. link[d] = "open" /\ ~Opening(d)
      BY <1>1, <2>2, PoolAssumption
         DEF PoolInv, NoLeak, InSlot, OwnedOnce, Opening
    <3>2. ~InSlot(d)'
      BY <1>1, <2>2, PoolAssumption DEF InSlot, Publish, PoolInv, PoolTyped, OwnedOnce
    <3> QED
      BY <2>2, <3>1, <3>2, PoolAssumption
         DEF StageOf, Opening, Publish, Return, PoolInv, PoolTyped
  <2>3. CASE d # c /\ d # conns[s]
    <3>1. InSlot(d)' = InSlot(d)
      BY <1>1, <2>3 DEF InSlot, Publish, PoolInv, PoolTyped
    <3>2. Opening(d)' = Opening(d)
      BY <2>3, PoolAssumption DEF Opening, Publish, Return, PoolInv, PoolTyped
    <3> QED
      BY <2>3, <3>1, <3>2 DEF StageOf, Opening, Publish
  <2> QED
    BY <2>1, <2>2, <2>3
<1>5. \A d \in Conns : d \in Lifecycle!PooledFor(cred[c]) <=> d = conns[s]
  BY <1>1, <1>3, PoolAssumption
<1> QED
  BY <1>1, <1>2, <1>4, <1>5 DEF Lifecycle!Adopt, Publish

\* Disconnect, evictIdle and Close empty the slots of some connections.
LEMMA LeavingDrops ==
    ASSUME PoolInv, NEW D \in SUBSET Conns,
           \A c \in D : InSlot(c) /\ ~InSlot(c)',
           \A c \in Conns \ D : InSlot(c)' = InSlot(c),
           \A c \in Conns : Opening(c)' = Opening(c),
           UNCHANGED <<link, cred>>
    PROVE  Lifecycle!Drop(D)
<1>1. \A c \in D : StageOf(c) = "pooled" /\ link[c] = "open" /\ ~Opening(c)
  BY StageByHand, PoolAssumption DEF PoolInv, NoLeak, OwnedOnce, InSlot, Opening
<1>2. ASSUME NEW c \in Conns
      PROVE  StageOf(c)' = IF c \in D THEN "closing" ELSE StageOf(c)
  BY <1>1 DEF StageOf, Opening
<1> QED
  BY <1>1, <1>2 DEF Lifecycle!Drop

\* Whoever closes a connection that has left the pool finishes it.
LEMMA ClosingFinishes ==
    ASSUME PoolInv, NEW c \in Conns, link[c] = "open", ~InSlot(c), ~Opening(c),
           Shut(c), UNCHANGED conns,
           \A d \in Conns : Opening(d)' = Opening(d)
    PROVE  Lifecycle!Finish(c)
<1>1. StageOf(c) = "closing"
  BY StageByHand
<1>2. ASSUME NEW d \in Conns
      PROVE  StageOf(d)' = IF d = c THEN "none" ELSE StageOf(d)
  BY DEF StageOf, InSlot, Opening, Shut, PoolInv, PoolTyped
<1> QED
  BY <1>1, <1>2 DEF Lifecycle!Finish, Shut

\* Every step of the pool is a step of ConnLifecycle or changes nothing of it.
LEMMA LifecycleStep ==
    ASSUME PoolInv, [PoolNext]_poolVars
    PROVE  [Lifecycle!LifecycleNext]_(Lifecycle!lifecycleVars)
<1> DEFINE Same == stages' = stages /\ cred' = cred
           Goal == [Lifecycle!LifecycleNext]_(Lifecycle!lifecycleVars)
<1>0. Same => Goal
  BY DEF stages, Lifecycle!lifecycleVars
<1> USE PoolAssumption DEF PoolInv, PoolTyped
<1>1. ASSUME NEW t \in Callers, NEW s \in Sessions, NEW h \in Hosts, ConnectCheck(t, s, h)
      PROVE  Goal
  BY <1>0, <1>1, Unseen DEF ConnectCheck, CallState
<1>2. ASSUME NEW t \in Callers, DialFail(t) PROVE Goal
  <2>1. callConn' = callConn
    BY <1>2 DEF DialFail, Return, CallState
  <2> QED
    BY <1>0, <1>2, <2>1, Unseen DEF DialFail, Return, CallState
<1>3. ASSUME NEW t \in Callers, NEW c \in Conns, DialOk(t, c) PROVE Goal
  <2>1. callSess[t] \in Sessions
    BY <1>3 DEF DialOk, CallState
  <2> QED
    BY <1>3, <2>1, DialOkOpens DEF Lifecycle!LifecycleNext
<1>4. ASSUME NEW t \in Callers, StartFail(t) PROVE Goal
  <2>1. callConn[t] \in Conns
    BY <1>4 DEF StartFail, CallState
  <2> QED
    BY <1>4, <2>1, StartFailAbandons DEF Lifecycle!LifecycleNext
<1>5. ASSUME NEW t \in Callers, StartOk(t) PROVE Goal
  BY <1>0, <1>5, Unseen DEF StartOk
<1>6. ASSUME NEW t \in Callers, Publish(t) PROVE Goal
  <2>1. callConn[t] \in Conns
    BY <1>6 DEF Publish, CallState
  <2> QED
    BY <1>6, <2>1, PublishAdopts DEF Lifecycle!LifecycleNext
<1>7. ASSUME NEW t \in Callers, NEW s \in Sessions, Get(t, s) PROVE Goal
  BY <1>0, <1>7, Unseen DEF Get
<1>8. ASSUME NEW t \in Callers, NEW s \in Sessions, Disconnect(t, s) PROVE Goal
  <2>1. /\ {conns[s]} \in SUBSET Conns
        /\ \A c \in {conns[s]} : InSlot(c) /\ ~InSlot(c)'
    BY <1>8 DEF Disconnect, InSlot, OwnedOnce
  <2>2. /\ \A c \in Conns \ {conns[s]} : InSlot(c)' = InSlot(c)
        /\ \A c \in Conns : Opening(c)' = Opening(c)
    BY <1>8 DEF Disconnect, InSlot, Opening, CallState
  <2>3. Lifecycle!Drop({conns[s]})
    BY <1>8, <2>1, <2>2, LeavingDrops DEF Disconnect
  <2> QED
    BY <2>1, <2>3 DEF Lifecycle!LifecycleNext
<1>9. ASSUME NEW t \in Callers, DisconnectClose(t) PROVE Goal
  <2>1. /\ callConn[t] \in Conns /\ link[callConn[t]] = "open"
        /\ ~InSlot(callConn[t]) /\ ~Opening(callConn[t])
    BY <1>9 DEF DisconnectClose, CallState, NoLeak, InCall, InSlot, OwnedOnce, Opening
  <2>2. \A d \in Conns : Opening(d)' = Opening(d)
    BY <1>9 DEF DisconnectClose, Return, Opening, CallState
  <2>3. Lifecycle!Finish(callConn[t])
    BY <1>9, <2>1, <2>2, ClosingFinishes DEF DisconnectClose
  <2> QED
    BY <2>1, <2>3 DEF Lifecycle!LifecycleNext
<1>10. ASSUME NEW c \in Conns, CloseReplaced(c) \/ CloseDead(c) \/ CloseDrained(c)
       PROVE  Goal
  <2>1. c \in Retired /\ Shut(c) /\ UNCHANGED <<conns, pc, callConn>>
    BY <1>10 DEF CloseReplaced, CloseDead, CloseDrained, Retired
  <2>2. link[c] = "open" /\ ~InSlot(c) /\ ~Opening(c)
    BY <2>1 DEF NoLeak, OwnedOnce, InSlot, Opening
  <2>3. \A d \in Conns : Opening(d)' = Opening(d)
    BY <2>1 DEF Opening
  <2>4. Lifecycle!Finish(c)
    BY <2>1, <2>2, <2>3, ClosingFinishes
  <2> QED
    BY <2>4 DEF Lifecycle!LifecycleNext
<1>11. ASSUME EvictIdle PROVE Goal
  <2>1. /\ dead' \in SUBSET Conns
        /\ \A c \in dead' : InSlot(c) /\ ~InSlot(c)'
    BY <1>11 DEF EvictIdle, IdleSessions, Pooled, InSlot, OwnedOnce
  <2>2. \A c \in Conns \ dead' : InSlot(c)' = InSlot(c)
    BY <1>11 DEF EvictIdle, IdleSessions, Pooled, InSlot
  <2>3. (\A c \in Conns : Opening(c)' = Opening(c)) /\ UNCHANGED <<link, cred>>
    BY <1>11 DEF EvictIdle, Opening
  <2>4. Lifecycle!Drop(dead')
    BY <2>1, <2>2, <2>3, LeavingDrops
  <2> QED
    BY <2>1, <2>4 DEF Lifecycle!LifecycleNext
<1>12. ASSUME PoolClose PROVE Goal
  <2>1. /\ drained' \in SUBSET Conns
        /\ \A c \in drained' : InSlot(c) /\ ~InSlot(c)'
    BY <1>12 DEF PoolClose, Pooled, InSlot
  <2>2. \A c \in Conns \ drained' : InSlot(c)' = InSlot(c)
    BY <1>12 DEF PoolClose, Pooled, InSlot
  <2>3. (\A c \in Conns : Opening(c)' = Opening(c)) /\ UNCHANGED <<link, cred>>
    BY <1>12 DEF PoolClose, Opening
  <2>4. Lifecycle!Drop(drained')
    BY <2>1, <2>2, <2>3, LeavingDrops
  <2> QED
    BY <2>1, <2>4 DEF Lifecycle!LifecycleNext
<1>13. ASSUME JanitorStop \/ PoolTick \/ UNCHANGED poolVars PROVE Goal
  BY <1>0, <1>13, Unseen DEF JanitorStop, PoolTick, poolVars
<1> QED
  BY <1>1, <1>2, <1>3, <1>4, <1>5, <1>6, <1>7, <1>8, <1>9, <1>10, <1>11, <1>12,
     <1>13 DEF PoolNext, CallerStep

(***************************************************************************)
(* The pool implements the safety part of ConnLifecycle: a connection is   *)
(* opened for a session, serves that session only, leaves the pool for     *)
(* good, and is closed once.                                               *)
(***************************************************************************)
THEOREM PoolFollowsLifecycle == PoolSpec => Lifecycle!LifecycleSafe
<1>1. PoolInit => Lifecycle!LifecycleInit
  <2> SUFFICES ASSUME PoolInit PROVE Lifecycle!LifecycleInit
    OBVIOUS
  <2>1. \A c \in Conns : StageOf(c) = "none"
    BY PoolAssumption DEF PoolInit, StageOf, InSlot
  <2> QED
    BY <2>1 DEF Lifecycle!LifecycleInit, PoolInit
<1> QED
  BY <1>1, LifecycleStep, PoolInvariant, PTL DEF PoolSpec, Lifecycle!LifecycleSafe
=============================================================================
