------------------------------ MODULE MCServer ------------------------------
(***************************************************************************)
(* Server on small instances: two handler goroutines, one or two browsers. *)
(***************************************************************************)
EXTENDS Server, TLC

CONSTANTS s1, s2, s3, r1, r2, k1, k2, c1, c2, c3, sftp, other

TwoSessions == {s1, s2}
ThreeSessions == {s1, s2, s3}
MCRequests == {r1, r2}
OneRequest == {r1}
MCCallers == Requests \cup {Sweeper}
OneClient == {k1}
TwoClients == {k1, k2}
OneConn == {c1}
TwoConns == {c1, c2}
ThreeConns == {c1, c2, c3}
MCHosts == {sftp, other}
MCAllowedHosts == {sftp}

MCSymmetry == Permutations(Sessions) \cup Permutations(Requests)
                \cup Permutations(Clients) \cup Permutations(Conns)
=============================================================================
