---------------------------- MODULE SessionIds ----------------------------
(***************************************************************************)
(* The ids that internal/auth/session.go issues and that the store, the    *)
(* pool and the cookies share.  newID draws 256 random bits, so an id that *)
(* nothing refers to any more stands for the next one as well.             *)
(***************************************************************************)
CONSTANTS
    Sessions,   \* session ids
    NoSession   \* the empty id

ASSUME SessionIdsAssumption == NoSession \notin Sessions
=============================================================================
