----------------------------- MODULE StableLog -----------------------------
(***************************************************************************)
(* What the runtime expects of its durable log, with no file in it: every  *)
(* record whose append returned is there at every later start, or a record *)
(* of the same key that came after it is; whether an append that failed or *)
(* was interrupted is there is open.  A start may be refused; it is never  *)
(* answered with less.  The one exception is a log that was lost as a      *)
(* whole (see AuditLog), after which the promise starts anew.              *)
(***************************************************************************)
EXTENDS Naturals

CONSTANTS Record,        \* what can be recorded
          Key(_),        \* the key under which only the latest record counts
          NoKey          \* the key of a record that is never superseded

VARIABLES acked,         \* the entries whose append returned
          tried,         \* the entries whose append did not
          view,          \* the entries a reader sees while the log is open
          open           \* whether the log is open

Entry == [id : Nat, rec : Record]

Supersedes(f, e) == f.id > e.id /\ Key(f.rec) = Key(e.rec) /\ Key(e.rec) # NoKey

Keeps(S, A) == \A e \in A : e \in S \/ \E f \in S : Supersedes(f, e)

Init == acked = {} /\ tried = {} /\ view = {} /\ open = FALSE

Fresh(e) == e \in Entry /\ \A f \in acked \cup tried : f.id < e.id

Recorded(e) ==
  /\ open /\ Fresh(e)
  /\ acked' = acked \cup {e} /\ view' = view \cup {e}
  /\ UNCHANGED <<tried, open>>

Failed(e) ==
  /\ open /\ Fresh(e)
  /\ tried' = tried \cup {e}
  /\ UNCHANGED <<acked, view, open>>

Stop == open' = FALSE /\ view' = {} /\ UNCHANGED <<acked, tried>>

FailedAndStopped(e) ==
  /\ open /\ Fresh(e)
  /\ tried' = tried \cup {e} /\ open' = FALSE /\ view' = {}
  /\ UNCHANGED acked

Start ==
  /\ ~open /\ open'
  /\ view' \subseteq acked \cup tried /\ Keeps(view', acked)
  /\ UNCHANGED <<acked, tried>>

Lose == acked' = {} /\ tried' = {} /\ view' = {} /\ open' = FALSE

Next ==
  \/ \E e \in (acked' \cup tried') \ (acked \cup tried) : Recorded(e) \/ Failed(e) \/ FailedAndStopped(e)
  \/ Stop \/ Start \/ Lose

Spec == Init /\ [][Next]_<<acked, tried, view, open>>
=============================================================================
