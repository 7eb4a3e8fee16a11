----------------------------- MODULE OwnerQueue -----------------------------
(***************************************************************************)
(* Delivery of the owner's Telegram updates through the Wake Gateway:      *)
(* Telegram's webhook retries, the durable queue of                        *)
(* services/wake-gateway/src/ownerQueue.ts, and the Agent that drains it   *)
(* (orchestrator/src/telegram/controlPlane.ts over gatewaySource.ts).      *)
(*                                                                         *)
(* Each transactionSync of the Durable Object is one step.  Requests of    *)
(* the Agent that it no longer waits for (timeout, restart) may still      *)
(* reach the queue, once or more (the long poll pulls twice).              *)
(***************************************************************************)
EXTENDS Naturals, FiniteSets

CONSTANTS
    Msgs,         \* the owner's updates
    TgId,         \* Telegram's update_id of each
    QueueCap,     \* policy.queueCap
    PullLimit,    \* policy.pullLimit
    FirstCursor,  \* the Agent's ledger cursor when the gateway is introduced
    MaxFaults     \* bound on Agent crashes and lost answers

ASSUME MsgsAssumption ==
    /\ TgId \in [Msgs -> Nat \ {0}]
    /\ \A m, n \in Msgs : TgId[m] = TgId[n] => m = n

ASSUME PolicyAssumption ==
    /\ QueueCap \in Nat \ {0}
    /\ PullLimit \in Nat \ {0}
    /\ FirstCursor \in Nat
    /\ MaxFaults \in Nat

VARIABLES
    outstanding,  \* updates Telegram sends, again until a 200 reaches it
    \* the Durable Object's SQLite tables
    updates,      \* rows of updates: [seq, msg]
    seen,         \* telegram_update_ids remembered for de-duplication
    lastSeq,      \* meta.last_seq
    acked,        \* meta.acked_cursor
    maxDelivered, \* meta.max_delivered
    due,          \* rows up to this seq have reached expires_at
    \* the Agent
    cursor,       \* the durable ledger cursor
    agent,        \* "idle", "waiting", "handling" or "advancing"
    request,      \* the request it waits for: [offset, pulls left]
    batch,        \* update_ids of the answer it is working through
    orphans,      \* requests nobody waits for any more
    faults,
    \* history
    log,          \* every row ever inserted
    handled,      \* update_ids the Agent has handled at least once
    expired,      \* seqs deleted because their time to live was over
    rejected      \* updates answered with queue_full and never accepted

intakeVars == <<outstanding, seen, lastSeq, log, rejected>>
pullVars == <<acked, maxDelivered>>
agentVars == <<cursor, agent, request, batch, orphans, faults>>
vars == <<outstanding, updates, seen, lastSeq, acked, maxDelivered, due,
          cursor, agent, request, batch, orphans, faults, log, handled,
          expired, rejected>>
---------------------------------------------------------------------------
Row == [seq : Nat, msg : Msgs]

Seqs(R) == {r.seq : r \in R}

Larger(a, b) == IF a > b THEN a ELSE b

Smaller(a, b) == IF a < b THEN a ELSE b

(* expire(now): deletes the rows whose time to live is over.               *)
Kept == {r \in updates : r.seq > due}
Overdue == {r \in updates : r.seq <= due}

(* seq never falls behind a previous one, whatever id Telegram starts at.  *)
NextSeq(m) == Larger(lastSeq + 1, TgId[m])

ConfirmedOnDelivery(offset) ==            \* faulty form
    IF maxDelivered = 0 THEN 0 ELSE maxDelivered + 1

(* The cursor after pull(offset): monotonic, and never beyond what was     *)
(* delivered.  Telegram's ids are positive, so 0 stands for a null         *)
(* max_delivered and for a request without an offset.                      *)
Confirmed(offset) ==
    Larger(acked, IF maxDelivered = 0 THEN 0
                                      ELSE Smaller(offset, maxDelivered + 1))

SelectedUndelivered(R) ==                 \* faulty form
    {r \in R : /\ r.seq > maxDelivered
               /\ Cardinality({x \in R : x.seq < r.seq}) < PullLimit}

(* The first PullLimit rows of R.                                          *)
Selected(R) == {r \in R : Cardinality({x \in R : x.seq < r.seq}) < PullLimit}

IsFirst(s, S) == s \in S /\ \A x \in S : s <= x
IsLast(s, S) == s \in S /\ \A x \in S : x <= s

Request == [offset : Nat, pulls : {1, 2}]
---------------------------------------------------------------------------
Init ==
    /\ outstanding = Msgs
    /\ updates = {} /\ seen = {} /\ lastSeq = 0
    /\ acked = 0 /\ maxDelivered = 0 /\ due = 0
    /\ cursor = FirstCursor
    /\ agent = "idle" /\ batch = {} /\ orphans = {} /\ faults = 0
    /\ request = [offset |-> FirstCursor, pulls |-> 2]
    /\ log = {} /\ handled = {} /\ expired = {} /\ rejected = {}

(* The INSERTs of enqueue.                                                 *)
Store(m) ==
    /\ LET row == [seq |-> NextSeq(m), msg |-> m]
       IN  /\ updates' = Kept \cup {row}
           /\ log' = log \cup {row}
    /\ lastSeq' = NextSeq(m)
    /\ seen' = seen \cup {m}
    /\ rejected' = rejected \ {m}

EnqueueNewUnseen(m) ==    \* faulty form
    /\ Cardinality(Kept) < QueueCap
    /\ Store(m)

(* enqueue(update): Telegram sends outstanding updates in any order; the   *)
(* 200 that answers one may get lost, and then Telegram sends it again.    *)
EnqueueNew(m) ==
    /\ m \notin seen
    /\ Cardinality(Kept) < QueueCap
    /\ Store(m)

EnqueueFull(m) ==
    /\ m \notin seen
    /\ Cardinality(Kept) >= QueueCap
    /\ updates' = Kept
    /\ rejected' = rejected \cup {m}
    /\ UNCHANGED <<seen, lastSeq, log>>

EnqueueDuplicate(m) ==
    /\ m \in seen
    /\ updates' = Kept
    /\ UNCHANGED <<seen, lastSeq, log, rejected>>

Enqueue(m, reply) ==
    /\ m \in outstanding
    /\ EnqueueNew(m) \/ EnqueueFull(m) \/ EnqueueDuplicate(m)
    /\ outstanding' = IF reply = "200" THEN outstanding \ {m} ELSE outstanding
    /\ expired' = expired \cup Seqs(Overdue)
    /\ UNCHANGED <<acked, maxDelivered, due, cursor, agent, request, batch,
                   orphans, faults, handled>>

(* Time passes: the oldest rows, up to some seq, reach expires_at.         *)
Age ==
    /\ \E s \in Seqs(Kept) : due' = s
    /\ UNCHANGED <<intakeVars, pullVars, agentVars, updates, handled, expired>>

(* tickOnce starts with expire(now).                                       *)
Tick ==
    /\ Overdue # {}
    /\ updates' = Kept
    /\ expired' = expired \cup Seqs(Overdue)
    /\ UNCHANGED <<intakeVars, pullVars, agentVars, due, handled>>

(* pull(offset): what stays stored and what the answer carries.            *)
Left(offset) == {r \in Kept : r.seq >= Confirmed(offset)}
Answer(offset) == Seqs(Selected(Left(offset)))

Pull(offset) ==
    /\ updates' = Left(offset)
    /\ acked' = Confirmed(offset)
    /\ \E d \in Answer(offset) \cup {maxDelivered} :
          /\ IsLast(d, Answer(offset) \cup {maxDelivered})
          /\ maxDelivered' = d
    /\ expired' = expired \cup Seqs(Overdue)
    /\ UNCHANGED <<intakeVars, due, handled>>
---------------------------------------------------------------------------
(* pollOnce: the offset is the ledger cursor.                              *)
Poll ==
    /\ agent = "idle"
    /\ agent' = "waiting"
    /\ request' = [offset |-> cursor, pulls |-> 2]
    /\ UNCHANGED <<intakeVars, pullVars, updates, due, cursor, batch, orphans,
                   faults, handled, expired>>

(* GET /pull: an empty first pull waits for an update and pulls again with *)
(* the same offset; an empty second one is the answer.                     *)
PullLive ==
    /\ agent = "waiting"
    /\ Pull(request.offset)
    /\ batch' = Answer(request.offset)
    /\ \/ /\ batch' # {}
          /\ agent' = "handling"
          /\ UNCHANGED request
       \/ /\ batch' = {} /\ request.pulls = 2
          /\ request' = [request EXCEPT !.pulls = 1]
          /\ UNCHANGED agent
       \/ /\ batch' = {} /\ request.pulls = 1
          /\ agent' = "idle"
          /\ UNCHANGED request
    /\ UNCHANGED <<cursor, orphans, faults>>

PullOrphan(o) ==
    /\ Pull(o.offset)
    /\ orphans' = (orphans \ {o}) \cup
                  {q \in {[o EXCEPT !.pulls = 1]} :
                        o.pulls = 2 /\ Answer(o.offset) = {}}
    /\ UNCHANGED <<cursor, agent, request, batch, faults>>

(* The next update of the answer; one below the cursor was processed       *)
(* before and is skipped.                                                  *)
Handle(s) ==
    /\ agent = "handling" /\ IsFirst(s, batch)
    /\ s >= cursor
    /\ handled' = handled \cup {s}
    /\ agent' = "advancing"
    /\ UNCHANGED <<intakeVars, pullVars, updates, due, cursor, request,
                   batch, orphans, faults, expired>>

AfterUpdate == agent' = IF batch' = {} THEN "idle" ELSE "handling"

Skip(s) ==
    /\ agent = "handling" /\ IsFirst(s, batch)
    /\ s < cursor
    /\ batch' = batch \ {s}
    /\ AfterUpdate
    /\ UNCHANGED <<intakeVars, pullVars, updates, due, cursor, request,
                   orphans, faults, handled, expired>>

SetCursorAtEnd(s) ==      \* faulty form
    /\ agent = "advancing" /\ IsFirst(s, batch)
    /\ batch' = batch \ {s}
    /\ cursor' = IF batch' = {} THEN s + 1 ELSE cursor
    /\ AfterUpdate
    /\ UNCHANGED <<intakeVars, pullVars, updates, due, request, orphans,
                   faults, handled, expired>>

SetCursor(s) ==
    /\ agent = "advancing" /\ IsFirst(s, batch)
    /\ cursor' = s + 1
    /\ batch' = batch \ {s}
    /\ AfterUpdate
    /\ UNCHANGED <<intakeVars, pullVars, updates, due, request, orphans,
                   faults, handled, expired>>

(* The request times out, or the Agent stops or crashes at any point and   *)
(* starts again from its ledger.                                           *)
Restart ==
    /\ agent # "idle"
    /\ faults < MaxFaults
    /\ faults' = faults + 1
    /\ agent' = "idle"
    /\ batch' = {}
    /\ orphans' = IF agent = "waiting" THEN orphans \cup {request} ELSE orphans
    /\ UNCHANGED <<intakeVars, pullVars, updates, due, cursor, request,
                   handled, expired>>

Next ==
    \/ \E m \in Msgs, reply \in {"200", "lost"} : Enqueue(m, reply)
    \/ Age \/ Tick
    \/ Poll \/ PullLive \/ Restart
    \/ \E s \in batch : Handle(s) \/ Skip(s) \/ SetCursor(s)
    \/ \E o \in orphans : PullOrphan(o)

Spec == Init /\ [][Next]_vars

(* The Agent keeps polling while it runs; nothing is asked of Telegram, of *)
(* the clock or of the network beyond MaxFaults lost requests.             *)
FairSpec ==
    Spec /\ WF_vars(Poll) /\ WF_vars(PullLive)
         /\ WF_vars(\E s \in batch : Handle(s) \/ Skip(s) \/ SetCursor(s))
---------------------------------------------------------------------------
TypeOK ==
    /\ outstanding \subseteq Msgs /\ seen \subseteq Msgs
    /\ rejected \subseteq Msgs
    /\ updates \subseteq log /\ log \subseteq Row
    /\ IsFiniteSet(updates) /\ Cardinality(updates) <= QueueCap
    /\ lastSeq \in Nat /\ acked \in Nat /\ maxDelivered \in Nat
    /\ due \in Nat /\ cursor \in Nat /\ faults \in 0..MaxFaults
    /\ agent \in {"idle", "waiting", "handling", "advancing"}
    /\ request \in Request /\ orphans \subseteq Request
    /\ batch \subseteq Seqs(log)
    /\ (batch # {}) <=> (agent \in {"handling", "advancing"})
    /\ handled \subseteq Seqs(log) /\ expired \subseteq Seqs(log)

(* An update Telegram no longer sends was refused with a notice to the     *)
(* owner or is in the order for good, and every place of the order still   *)
(* waits in the queue unless the Agent handled it or its time was over:    *)
(* lost replies, stale requests and restarts of the Agent lose nothing.    *)
NoLoss ==
    /\ \A m \in Msgs \ outstanding : m \in rejected \/ \E r \in log : r.msg = m
    /\ \A r \in log : r \in updates \/ r.seq \in handled \cup expired

(* The same for an Agent that brings along a cursor from polling Telegram  *)
(* itself: only places below that first cursor can be confirmed unseen.    *)
LossOnlyBelowFirstCursor ==
    \A r \in log : r \in updates \/ r.seq \in handled \cup expired
                   \/ r.seq < FirstCursor

(* A restart makes the Agent handle at most one update a second time: of   *)
(* the rows still stored at or above its cursor it has handled one at most.*)
AtMostOneRedone ==
    \A s, t \in handled \cap Seqs(updates) :
        s >= cursor /\ t >= cursor => s = t

(* What the gateway and the Agent promise together (OwnerMailbox).         *)
Mailbox == INSTANCE OwnerMailbox WITH Msgs <- Msgs, log <- log, handled <- handled, expired <- expired
ImplementsMailbox == Mailbox!Spec

(* Every accepted update is handled or runs out of time.                   *)
EverySettled ==
    \A m \in Msgs :
        [](m \in seen =>
            <>(\E r \in log : r.msg = m /\ r.seq \in handled \cup expired))
============================================================================
