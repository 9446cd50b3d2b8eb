------------------------- MODULE SessionStoreProofs -------------------------
(***************************************************************************)
(* SessionStore for any number of sessions and any ttl: types, and that    *)
(* the end of a session is reported once.                                  *)
(***************************************************************************)
EXTENDS SessionStore, TLAPS

\* The types, by the operation that changes them.
LEMMA StoreStepTyped == StoreTypeOK /\ [StoreNext]_storeVars => StoreTypeOK'
<1> SUFFICES ASSUME StoreTypeOK, [StoreNext]_storeVars PROVE StoreTypeOK'
  OBVIOUS
<1> USE StoreAssumption DEF StoreTypeOK, Stale
<1>1. ASSUME NEW s \in Sessions, Create(s) \/ Lookup(s) \/ Delete(s)
      PROVE  StoreTypeOK'
  BY <1>1 DEF Create, Lookup, Delete
<1>2. ASSUME NEW s \in Sessions, EvictDeleted(s) \/ EvictExpired(s)
      PROVE  StoreTypeOK'
  BY <1>2 DEF EvictDeleted, EvictExpired
<1>3. CASE Sweep
  BY <1>3 DEF Sweep
<1>4. CASE StoreClose \/ SweeperStop \/ UNCHANGED storeVars
  BY <1>4 DEF StoreClose, SweeperStop, storeVars
<1>5. CASE StoreTick
  BY <1>5 DEF StoreTick
<1> QED
  BY <1>1, <1>2, <1>3, <1>4, <1>5 DEF StoreNext

\* Delete and the janitor report only what they took out of the map, and
\* Create avoids the ids that are still to be reported.
LEMMA StoreStepReports == ReportedOnce /\ [StoreNext]_storeVars => ReportedOnce'
<1> SUFFICES ASSUME ReportedOnce, [StoreNext]_storeVars PROVE ReportedOnce'
  OBVIOUS
<1> USE DEF ReportedOnce, Dying
<1>1. ASSUME NEW s \in Sessions, Create(s) \/ Lookup(s) PROVE ReportedOnce'
  BY <1>1 DEF Create, Lookup
<1>2. ASSUME NEW s \in Sessions, Delete(s) PROVE ReportedOnce'
  BY <1>2 DEF Delete
<1>3. ASSUME NEW s \in Sessions, EvictDeleted(s) \/ EvictExpired(s)
      PROVE  ReportedOnce'
  BY <1>3 DEF EvictDeleted, EvictExpired
<1>4. CASE Sweep
  BY <1>4 DEF Sweep
<1>5. CASE StoreClose \/ SweeperStop \/ StoreTick \/ UNCHANGED storeVars
  BY <1>5 DEF StoreClose, SweeperStop, StoreTick, storeVars
<1> QED
  BY <1>1, <1>2, <1>3, <1>4, <1>5 DEF StoreNext

(***************************************************************************)
(* The variables of the store keep their types.                            *)
(***************************************************************************)
THEOREM StoreTypeCorrect == StoreSpec => []StoreTypeOK
<1>1. StoreInit => StoreTypeOK
  BY StoreAssumption DEF StoreInit, StoreTypeOK, Stale
<1> QED
  BY <1>1, StoreStepTyped, PTL DEF StoreSpec

(***************************************************************************)
(* A session that is reported as ended is no longer in the map, and Delete *)
(* and the janitor never report the same one.                              *)
(***************************************************************************)
THEOREM StoreReportsOnce == StoreSpec => []ReportedOnce
<1>1. StoreInit => ReportedOnce
  BY DEF StoreInit, ReportedOnce, Dying
<1> QED
  BY <1>1, StoreStepReports, PTL DEF StoreSpec
=============================================================================
