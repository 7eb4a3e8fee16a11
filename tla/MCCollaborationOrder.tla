------------------------ MODULE MCCollaborationOrder ------------------------
(***************************************************************************)
(* A small instance of CollaborationOrder for TLC.                         *)
(***************************************************************************)
EXTENDS CollaborationOrder, TLC

MCSymmetry == Permutations(Slots) \cup Permutations(Staff)
=============================================================================
