---------------------------- MODULE SessionStore ----------------------------
(***************************************************************************)
(* The login sessions, internal/auth/session.go.  One mutex covers the     *)
(* map; the onEvict callback, which closes the session's SFTP connection,  *)
(* runs after it is released: Delete and the janitor first drop a session  *)
(* and only later report it.  deleting and expired hold the ids in         *)
(* between.                                                                *)
(*                                                                         *)
(* The clock is abstracted to the time since the last refresh of each      *)
(* session, ttl - (expires - now), which saturates one past Ttl.           *)
(***************************************************************************)
EXTENDS Integers, SessionIds

CONSTANT Ttl   \* Store.ttl in ticks

ASSUME StoreAssumption == Ttl \in Nat

VARIABLES
    live,         \* the keys of Store.sessions
    sessAge,      \* time since the session was created or last found by Get
    deleting,     \* Delete has dropped these and is about to call onEvict
    expired,      \* the janitor's list: dropped, onEvict not yet called
    storeOpen,    \* s.stop is still open
    sweeping      \* the janitor's loop has not returned

storeVars == <<live, sessAge, deleting, expired, storeOpen, sweeping>>

Stale == Ttl + 1

StoreTypeOK ==
    /\ live \subseteq Sessions
    /\ sessAge \in [Sessions -> 0..Stale]
    /\ deleting \subseteq Sessions
    /\ expired \subseteq Sessions
    /\ storeOpen \in BOOLEAN
    /\ sweeping \in BOOLEAN

StoreInit ==
    /\ live = {}
    /\ sessAge = [s \in Sessions |-> 0]
    /\ deleting = {}
    /\ expired = {}
    /\ storeOpen = TRUE
    /\ sweeping = TRUE

Dying == deleting \cup expired

\* newID never repeats an id that is still in use.
Create(s) ==
    /\ s \notin live \cup Dying
    /\ live' = live \cup {s}
    /\ sessAge' = [sessAge EXCEPT ![s] = 0]
    /\ UNCHANGED <<deleting, expired, storeOpen, sweeping>>

Valid(s) == s \in live /\ sessAge[s] <= Ttl

\* Mutant: Get leaves the expiry to the janitor.
LookupAny(s) ==
    /\ s \in live
    /\ sessAge' = [sessAge EXCEPT ![s] = 0]
    /\ UNCHANGED <<live, deleting, expired, storeOpen, sweeping>>

\* Store.Get: an expired session is not found, though the map still has it.
Lookup(s) ==
    /\ Valid(s)
    /\ sessAge' = [sessAge EXCEPT ![s] = 0]
    /\ UNCHANGED <<live, deleting, expired, storeOpen, sweeping>>

\* The part of Delete under the lock; existed is s \in live.
Delete(s) ==
    /\ s \in live
    /\ live' = live \ {s}
    /\ sessAge' = [sessAge EXCEPT ![s] = 0]
    /\ deleting' = deleting \cup {s}
    /\ UNCHANGED <<expired, storeOpen, sweeping>>

\* Delete calls onEvict(s).
EvictDeleted(s) ==
    /\ s \in deleting
    /\ deleting' = deleting \ {s}
    /\ UNCHANGED <<live, sessAge, expired, storeOpen, sweeping>>

\* Mutant: the sessions stay in the map until they are reported.
SweepLater ==
    /\ sweeping
    /\ expired = {}
    /\ expired' = {s \in live : ~Valid(s)}
    /\ UNCHANGED <<live, sessAge, deleting, storeOpen, sweeping>>

\* Mutant: the scan stops at the first session that is in use.
SweepAll ==
    /\ sweeping
    /\ expired = {}
    /\ live # {}
    /\ \A s \in live : ~Valid(s)
    /\ expired' = live
    /\ live' = {}
    /\ sessAge' = [s \in Sessions |-> 0]
    /\ UNCHANGED <<deleting, storeOpen, sweeping>>

\* A tick of the janitor: expired or not is decided for all under the lock.
Sweep ==
    LET late == {s \in live : ~Valid(s)}
    IN  /\ sweeping
        /\ expired = {}
        /\ late # {}
        /\ expired' = late
        /\ live' = live \ late
        /\ sessAge' = [s \in Sessions |-> IF s \in late THEN 0 ELSE sessAge[s]]
        /\ UNCHANGED <<deleting, storeOpen, sweeping>>

\* The janitor calls onEvict for the ids of its list, one by one.
EvictExpired(s) ==
    /\ s \in expired
    /\ expired' = expired \ {s}
    /\ UNCHANGED <<live, sessAge, deleting, storeOpen, sweeping>>

StoreClose ==
    /\ storeOpen
    /\ storeOpen' = FALSE
    /\ UNCHANGED <<live, sessAge, deleting, expired, sweeping>>

\* The janitor is back at its select; it may have taken more ticks first.
SweeperStop ==
    /\ sweeping
    /\ ~storeOpen
    /\ expired = {}
    /\ sweeping' = FALSE
    /\ UNCHANGED <<live, sessAge, deleting, expired, storeOpen>>

StoreTick ==
    /\ sessAge' = [s \in Sessions |-> IF s \in live /\ sessAge[s] < Stale
                                      THEN sessAge[s] + 1 ELSE sessAge[s]]
    /\ UNCHANGED <<live, deleting, expired, storeOpen, sweeping>>

StoreNext ==
    \/ \E s \in Sessions : \/ Create(s) \/ Lookup(s) \/ Delete(s)
                           \/ EvictDeleted(s) \/ EvictExpired(s)
    \/ Sweep
    \/ StoreClose
    \/ SweeperStop
    \/ StoreTick

StoreSpec == StoreInit /\ [][StoreNext]_storeVars

\* The janitor and a Delete that has begun go on, and time passes.
StoreFairness ==
    /\ WF_storeVars(Sweep)
    /\ WF_storeVars(StoreTick)
    /\ \A s \in Sessions : WF_storeVars(EvictDeleted(s))
    /\ \A s \in Sessions : WF_storeVars(EvictExpired(s))

StoreFairSpec == StoreSpec /\ StoreFairness

-----------------------------------------------------------------------------
(***************************************************************************)
(* A session is dropped by Delete or by the janitor but not by both, and   *)
(* what is being reported as dropped is not in the map: onEvict is called  *)
(* once for each session (Delete's "existed", the janitor's delete under   *)
(* the lock).                                                              *)
(***************************************************************************)
ReportedOnce ==
    /\ deleting \cap expired = {}
    /\ live \cap Dying = {}

(***************************************************************************)
(* A session that nobody uses does not live on, and its end is reported    *)
(* (so that its connection is closed): sooner or later it is neither in    *)
(* the map nor waiting for onEvict, unless Get keeps refreshing it or the  *)
(* store is closed.                                                        *)
(***************************************************************************)
IdleSessionEnds ==
    \A s \in Sessions :
      \/ []<>(s \notin live \cup Dying)
      \/ []<><<Lookup(s)>>_storeVars
      \/ <>~storeOpen
=============================================================================
