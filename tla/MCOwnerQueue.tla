---------------------------- MODULE MCOwnerQueue ----------------------------
(* Small instances of OwnerQueue.                                          *)
EXTENDS OwnerQueue, TLC

CONSTANTS a, b, c

(* b's id is lower than a's: Telegram restarted its ids, or b came late.   *)
MCTgId == (a :> 3) @@ (b :> 2) @@ (c :> 5)
============================================================================
