---------------------------- MODULE OwnerMailbox ----------------------------
(***************************************************************************)
(* What the Wake Gateway and the Agent promise the owner together: every   *)
(* accepted update gets a place in one order, is handled at least once     *)
(* unless it expires first, and never before an earlier update that still  *)
(* waits.  OwnerQueue implements this.                                     *)
(***************************************************************************)
EXTENDS Naturals

CONSTANT Msgs     \* the owner's updates, by Telegram's update_id

VARIABLES
    log,          \* accepted updates with their place in the order
    handled,      \* places handled by the Agent
    expired       \* places discarded after their time to live

Places(L) == {e.seq : e \in L}

Settled == handled \cup expired

Init == log = {} /\ handled = {} /\ expired = {}

(* Handled only when nothing earlier still waits.                          *)
Handle(s) ==
    /\ s \in Places(log)
    /\ \A x \in log : x.seq < s => x.seq \in Settled
    /\ handled' = handled \cup {s}
    /\ UNCHANGED <<log, expired>>

Expire(D) ==
    /\ D \subseteq Places(log)
    /\ expired' = expired \cup D
    /\ UNCHANGED <<log, handled>>

(* Accepted once, behind everything accepted before; updates whose time    *)
(* is over may be discarded in the same transaction.                       *)
Accept(D) ==
    /\ \E e \in log' \ log :
          /\ e \in [seq : Nat, msg : Msgs]
          /\ log' = log \cup {e}
          /\ \A x \in log : x.seq < e.seq /\ x.msg # e.msg
    /\ D \subseteq Places(log)
    /\ expired' = expired \cup D
    /\ UNCHANGED handled

Next ==
    \/ \E D \in SUBSET Places(log) : Accept(D) \/ Expire(D)
    \/ \E s \in Places(log) : Handle(s)

Spec == Init /\ [][Next]_<<log, handled, expired>>
============================================================================
