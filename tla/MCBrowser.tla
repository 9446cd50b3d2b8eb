----------------------------- MODULE MCBrowser -----------------------------
(***************************************************************************)
(* Browser for TLC: this tab and another, two targets.  Three actions of   *)
(* the user or of another tab are enough to disconnect while another tab   *)
(* connects and an answer is late, and for two logins to cross.            *)
(***************************************************************************)
EXTENDS Browser, TLC

CONSTANTS here, other, t1, t2

MCTabs == {here, other}
MCTargets == {t1, t2}
=============================================================================
