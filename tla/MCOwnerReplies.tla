--------------------------- MODULE MCOwnerReplies ---------------------------
(***************************************************************************)
(* Small instances of OwnerReplies for TLC.                                *)
(***************************************************************************)
EXTENDS OwnerReplies
CONSTANTS g1, a1, p1
=============================================================================
