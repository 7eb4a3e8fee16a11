----------------------------- MODULE MCAiQuota -----------------------------
(***************************************************************************)
(* A small instance of AiQuota for TLC: two turns of co-managers of one    *)
(* factory; with a limit of one turn, the race for the last unit.          *)
(***************************************************************************)
EXTENDS AiQuota, TLC

CONSTANTS t1, t2, f1, r1, r2, none

PairTurns == {t1, t2}
PairKeyOf == t1 :> f1 @@ t2 :> f1

PairSymmetry == Permutations({r1, r2}) \cup Permutations({t1, t2})
============================================================================
