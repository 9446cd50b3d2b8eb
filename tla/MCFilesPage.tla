---------------------------- MODULE MCFilesPage ----------------------------
(***************************************************************************)
(* FilesPage for TLC: two directories with a page, one whose name breaks   *)
(* it, two uploads side by side.                                           *)
(***************************************************************************)
EXTENDS FilesPage, TLC

CONSTANTS d1, d2, percent, b1, b2

MCDirs == {d1, d2, percent}
MCLands == (d1 :> d1) @@ (d2 :> d2) @@ (percent :> NoDir)
MCBatches == {b1, b2}
MCSymmetry == Permutations({d1, d2}) \cup Permutations(MCBatches)
=============================================================================
