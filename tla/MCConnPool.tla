----------------------------- MODULE MCConnPool -----------------------------
(***************************************************************************)
(* ConnPool on a small instance: three sessions over a ceiling of one, so  *)
(* that two more can slip in; two concurrent callers; an allowed and a     *)
(* denied host; an idle timeout of one tick.                               *)
(***************************************************************************)
EXTENDS ConnPool, TLC

CONSTANTS s1, s2, s3, t1, t2, c1, c2, c3, c4, sftp, other

MCSessions == {s1, s2, s3}
MCCallers == {t1, t2}
MCConns == {c1, c2, c3, c4}
MCHosts == {sftp, other}
MCAllowedHosts == {sftp}

TwoSessions == {s1, s2}
TwoConns == {c1, c2}

MCSymmetry == Permutations(MCSessions) \cup Permutations(MCCallers)
                \cup Permutations(MCConns)
=============================================================================
