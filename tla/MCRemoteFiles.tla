--------------------------- MODULE MCRemoteFiles ---------------------------
(***************************************************************************)
(* RemoteFiles on small instances: a cap of one block, so that parts of    *)
(* none, one, two (one too many) and three blocks differ.                  *)
(***************************************************************************)
EXTENDS RemoteFiles, TLC

CONSTANTS j1, j2, j3, c1, c2, n1, n2, f1, f2, f3

OneJob == {j1}
TwoJobs == {j1, j2}
ThreeJobs == {j1, j2, j3}
OneConn == {c1}
TwoConns == {c1, c2}
TwoNames == {n1, n2}
TwoFiles == {f1, f2}
ThreeFiles == {f1, f2, f3}

MCSymmetry == Permutations(Jobs) \cup Permutations(Conns)
                \cup Permutations(Names) \cup Permutations(Files)
=============================================================================
