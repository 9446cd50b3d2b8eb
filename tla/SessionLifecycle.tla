-------------------------- MODULE SessionLifecycle --------------------------
(***************************************************************************)
(* What the server promises of a session and its SFTP connection, without  *)
(* requests, cookies, locks or clocks.  A session begins clean, lives,     *)
(* ends, and its end is reported once; the report takes its connection     *)
(* along.  A connection is opened only for a session that a request was    *)
(* let in for, and requests are let in only while the session lives.       *)
(* Server implements this (Server!ImplementsSessions).                     *)
(***************************************************************************)
CONSTANT Sessions

VARIABLES
    stage,     \* none, live, or ending: dropped, its end not yet reported
    admitted,  \* the sessions for which a request may still open a connection
    linked     \* the sessions that have a connection

sessionVars == <<stage, admitted, linked>>

SessionsInit ==
    /\ stage = [s \in Sessions |-> "none"]
    /\ admitted = {}
    /\ linked = {}

\* An id is used again only when nothing is left of the session it had.
Begin(s) ==
    /\ stage[s] = "none"
    /\ s \notin admitted \cup linked
    /\ stage' = [stage EXCEPT ![s] = "live"]
    /\ admitted' \in {admitted, admitted \cup {s}}
    /\ UNCHANGED linked

Admit(s) ==
    /\ stage[s] = "live"
    /\ admitted' = admitted \cup {s}
    /\ UNCHANGED <<stage, linked>>

\* The last request that was let in for s is past opening a connection.
Leave(s) ==
    /\ s \in admitted
    /\ admitted' = admitted \ {s}
    /\ UNCHANGED <<stage, linked>>

\* A request gives s a connection.  It may be the last one let in for s.
Link(s) ==
    /\ s \in admitted
    /\ linked' = linked \cup {s}
    /\ admitted' \in {admitted, admitted \ {s}}
    /\ UNCHANGED stage

\* A request let in for s takes its connection.
Unlink(s) ==
    /\ s \in admitted
    /\ linked' = linked \ {s}
    /\ admitted' \in {admitted, admitted \ {s}}
    /\ UNCHANGED stage

\* The server takes the connections of the sessions in S.
Evict(S) ==
    /\ linked' = linked \ S
    /\ UNCHANGED <<stage, admitted>>

\* Sessions end, several at a time when the janitor finds them idle.
End(S) ==
    /\ \A s \in S : stage[s] = "live"
    /\ stage' = [s \in Sessions |-> IF s \in S THEN "ending" ELSE stage[s]]
    /\ UNCHANGED <<admitted, linked>>

\* Nothing stays connected at that moment.
Report(s) ==
    /\ stage[s] = "ending"
    /\ stage' = [stage EXCEPT ![s] = "none"]
    /\ linked' = linked \ {s}
    /\ UNCHANGED admitted

SessionsNext ==
    \/ \E s \in Sessions : \/ Begin(s) \/ Admit(s) \/ Leave(s)
                           \/ Link(s) \/ Unlink(s) \/ Report(s)
    \/ \E S \in SUBSET Sessions : End(S) \/ Evict(S)

SessionsSpec == SessionsInit /\ [][SessionsNext]_sessionVars
=============================================================================
