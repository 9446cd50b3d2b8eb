--------------------------- MODULE ConnLifecycle ---------------------------
(***************************************************************************)
(* What the connection pool promises, without locks, lists or a clock: a   *)
(* connection is opened for one session, put in the pool for that session  *)
(* or given up, leaves the pool when another one takes its place or when   *)
(* it is dropped, is closed once, and is never used again.  ConnPool       *)
(* implements this (ConnPool!ImplementsLifecycle).                         *)
(***************************************************************************)
CONSTANTS Sessions, NoSession, Conns

VARIABLES
    stage,   \* where each connection is in its life
    owner    \* the session it was opened for

lifecycleVars == <<stage, owner>>

PooledFor(s) == {c \in Conns : stage[c] = "pooled" /\ owner[c] = s}

LifecycleInit ==
    /\ stage = [c \in Conns |-> "none"]
    /\ owner = [c \in Conns |-> NoSession]

Open(c, s) ==
    /\ stage[c] = "none"
    /\ stage' = [stage EXCEPT ![c] = "opening"]
    /\ owner' = [owner EXCEPT ![c] = s]

Abandon(c) ==
    /\ stage[c] = "opening"
    /\ stage' = [stage EXCEPT ![c] = "none"]
    /\ owner' = [owner EXCEPT ![c] = NoSession]

\* The pool takes c in; what it had for the same session starts to close.
Adopt(c) ==
    /\ stage[c] = "opening"
    /\ stage' = [d \in Conns |-> IF d = c THEN "pooled"
                                 ELSE IF d \in PooledFor(owner[c]) THEN "closing"
                                 ELSE stage[d]]
    /\ UNCHANGED owner

\* Any connections of the pool are dropped together.
Drop(D) ==
    /\ \A c \in D : stage[c] = "pooled"
    /\ stage' = [c \in Conns |-> IF c \in D THEN "closing" ELSE stage[c]]
    /\ UNCHANGED owner

Finish(c) ==
    /\ stage[c] = "closing"
    /\ stage' = [stage EXCEPT ![c] = "none"]
    /\ owner' = [owner EXCEPT ![c] = NoSession]

LifecycleNext ==
    \/ \E c \in Conns, s \in Sessions : Open(c, s)
    \/ \E c \in Conns : Abandon(c) \/ Adopt(c) \/ Finish(c)
    \/ \E D \in SUBSET Conns : Drop(D)

LifecycleSpec ==
    /\ LifecycleInit
    /\ [][LifecycleNext]_lifecycleVars
    /\ \A c \in Conns : WF_lifecycleVars(Finish(c))

\* The safety part, which TLAPS proves of ConnPool.
LifecycleSafe == LifecycleInit /\ [][LifecycleNext]_lifecycleVars
=============================================================================
