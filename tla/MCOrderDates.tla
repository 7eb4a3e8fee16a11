---------------------------- MODULE MCOrderDates ----------------------------
(***************************************************************************)
(* Small instances of OrderDates for TLC.                                  *)
(***************************************************************************)
EXTENDS OrderDates, TLC

MCSymmetry == Permutations(DateSlots) \cup Permutations(Checks)
=============================================================================
