---------------------------- MODULE MCWakeCycle ----------------------------
(* Small instances of WakeCycle.                                           *)
EXTENDS WakeCycle
============================================================================
