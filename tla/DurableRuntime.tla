--------------------------- MODULE DurableRuntime ---------------------------
(***************************************************************************)
(* The Agent runtime over its durable log.  Two records of the same work   *)
(* are kept in that one log and saved separately: the journal of the calls *)
(* on the runtime's repositories (tasks, intake records, approvals,        *)
(* decisions), replayed at a start, and the Manager's checkpoints, of      *)
(* which the latest is loaded.  A start reconciles the two.                *)
(*                                                                         *)
(* JavaScript runs a handler without interruption between two awaits:      *)
(* "todo" is what the running section still has to do, and until it is     *)
(* empty nothing else happens but a crash.  "at" and "hand" are the awaits *)
(* of the owner's requests and of the Manager's handler, across which      *)
(* everything else goes on.  A repository is the set of the calls applied  *)
(* to it.                                                                  *)
(***************************************************************************)
EXTENDS AuditLog, Sequences, FiniteSets

CONSTANTS Tasks, Messages, Handlers,
          MaxRequests    \* bound on the owner's submissions, presses and repeated cancellations

ASSUME RequestAssumption == MaxRequests \in Nat

Values == {"approved", "rejected"}

Call(o, t, v) == [op |-> o, task |-> t, val |-> v]
Checkpoint(f) == [op |-> "checkpoint", saved |-> f]

\* A task in the Manager: "waiting" for the owner's approval, "active" for every other status
\* in which work goes on; "cancelled" is the blocked status of a task in the state of that name,
\* "revived" the same state with a status that is not terminal.
Statuses == {"absent", "waiting", "active", "accepted", "blocked", "cancelled", "revived"}
Terminal == {"accepted", "blocked"}
Gone == {"cancelled", "revived"}

Calls ==
  {Call(o, t, o) : o \in {"create", "cancel", "cancel_requested", "approval"}, t \in Tasks}
    \cup {Call("intake", t, m) : t \in Tasks, m \in Messages}
    \cup {Call(o, t, v) : o \in {"decide", "decision", "emitted"}, t \in Tasks, v \in Values}
Records == Calls \cup {Checkpoint(f) : f \in [Tasks -> Statuses]}
CheckpointKey(r) == IF r.op = "checkpoint" THEN "checkpoint" ELSE NoKey

ASSUME RecordAssumption == Record = Records /\ \A r \in Record : Key(r) = CheckpointKey(r)

VARIABLES rows,          \* the calls the repositories in memory have taken
          loop,          \* task -> its status in the Manager, "absent" when unknown
          hand,          \* the task that the Manager's handler holds over its awaits
          unsaved,       \* persistenceFailed: the Manager has given up saving
          posted,        \* the Manager's events, in order
          todo,          \* what the running section has still to do
          section,       \* which section that is
          at,            \* handler -> where its request waits
          requests,      \* the owner's submissions, presses and repeated cancellations so far
          answered,      \* ghost: what the owner was told
          overtaken,     \* ghost: cancelled while a handler held them or nothing was saved
          unrecorded     \* ghost: calls taken in memory whose append failed

runtimeVars == <<rows, loop, hand, unsaved, posted, todo, section, at>>
ghostVars == <<answered, overtaken, unrecorded>>
vars == <<logVars, runtimeVars, requests, ghostVars>>

Idle == [job |-> "idle"]
Nothing == [t \in Tasks |-> "absent"]

Init ==
  /\ LogInit
  /\ rows = {} /\ loop = Nothing /\ hand = Idle /\ unsaved = FALSE /\ posted = <<>>
  /\ todo = <<>> /\ section = "none" /\ at = [h \in Handlers |-> Idle]
  /\ requests = 0 /\ answered = {} /\ overtaken = {} /\ unrecorded = {}
-----------------------------------------------------------------------------
Has(S, o, t) == \E r \in S : r.op = o /\ r.task = t

Created(t) == Has(rows, "create", t)
Cancelled(t) == Has(rows, "cancel", t)
Known(m) == \E r \in rows : r.op = "intake" /\ r.val = m
Decided(t) == {v \in Values : Call("decide", t, v) \in rows}
Holds(t) == hand # Idle /\ hand.task = t

\* Whether the repositories, having taken the calls in S, take c.
Takes(S, c) ==
  /\ c.op \in {"create", "approval"} => ~Has(S, c.op, c.task)
  /\ c.op = "cancel" => Has(S, "create", c.task) /\ ~Has(S, "cancel", c.task)
  /\ c.op = "intake" => \A r \in S : r.op = "intake" => r.task # c.task /\ r.val # c.val
  /\ c.op = "cancel_requested" => Has(S, "intake", c.task)
  /\ c.op = "decide" => Has(S, "approval", c.task) /\ ~Has(S, "decide", c.task)
  /\ c.op = "decision" => c \notin S
  /\ c.op = "emitted" => Call("decision", c.task, c.val) \in S

\* replay: the recorded calls of a loaded log, in order, into fresh repositories.
CallsOf(S) == {e \in S : e.rec.op # "checkpoint"}
Replayed(S) == {e.rec : e \in CallsOf(S)}
Replays(S) == \A e \in CallsOf(S) : Takes(Replayed({f \in S : f.id < e.id}), e.rec)

\* checkpoints.load
Saved(S) ==
  LET saves == S \ CallsOf(S) IN
  IF saves = {} THEN Nothing
  ELSE (CHOOSE e \in saves : \A f \in saves : f.id <= e.id).rec.saved

\* What a section does, one step at a time, and what it tells the owner when a step is done.
JournalTelling(c, facts) == [do |-> "record", call |-> c, tell |-> facts]
Journal(c) == JournalTelling(c, {})
Post(kind, t, facts) == [do |-> "post", event |-> [kind |-> kind, task |-> t], tell |-> facts]
Save(t) == [do |-> "save", task |-> t]
SaveAll == [do |-> "save"]
Reconcile == [do |-> "reconcile"]
Honour == [do |-> "honour"]
Fact(kind, t, v) == [kind |-> kind, task |-> t, val |-> v]

Accepted(m) == {Fact("accepted", t, m) : t \in {u \in Tasks : Call("intake", u, m) \in rows}}

Serving == phase = "open" /\ todo = <<>>
Step == Head(todo)
Running(kind) == phase = "open" /\ todo # <<>> /\ Step.do = kind

\* A section begins, or goes on, with these steps; without any it is over.
Go(name, steps) == todo' = steps /\ section' = IF steps = <<>> THEN "none" ELSE name
GoOn(steps) == Go(section, steps)
-----------------------------------------------------------------------------
\* submitTask: a message that is bound to a task is a duplicate, and its answer names the task,
\* whether or not the binding could be appended; classifying any other is awaited.
Submit(h, m) ==
  /\ Serving /\ at[h] = Idle
  /\ requests < MaxRequests /\ requests' = requests + 1
  /\ IF Known(m)
     THEN answered' = answered \cup Accepted(m) /\ UNCHANGED at
     ELSE at' = [at EXCEPT ![h] = [job |-> "classify", msg |-> m]] /\ UNCHANGED answered
  /\ UNCHANGED <<logVars, rows, loop, hand, unsaved, posted, todo, section, overtaken, unrecorded>>

\* Task row (with its transitions), intake record, the Manager's event (the record's mark that
\* it was posted is read by no decision).
Submission(t, m) ==
  << Journal(Call("create", t, "create")), Journal(Call("intake", t, m)),
     Post("task_created", t, {Fact("accepted", t, m)}) >>

\* submitTask after its await: the binding is read again, then the task is created without
\* another await.
Classified(h) ==
  /\ Serving /\ at[h].job = "classify"
  /\ at' = [at EXCEPT ![h] = Idle]
  /\ \/ /\ Known(at[h].msg)
        /\ answered' = answered \cup Accepted(at[h].msg) /\ UNCHANGED <<todo, section>>
     \/ /\ ~Known(at[h].msg) /\ UNCHANGED answered
        /\ \E t \in Tasks : ~Created(t) /\ Go("submit", Submission(t, at[h].msg))
  /\ UNCHANGED <<logVars, rows, loop, hand, unsaved, posted, requests, overtaken, unrecorded>>

\* Mutant: the task row keeps its state.
CancellationUnjournalled(t) ==
  << Save(t),
     JournalTelling(Call("cancel_requested", t, "cancel_requested"), {Fact("cancelled", t, "cancelled")}) >>

\* The Manager first, then the task row and the intake record.
Cancellation(t) ==
  << Save(t), Journal(Call("cancel", t, "cancel")),
     JournalTelling(Call("cancel_requested", t, "cancel_requested"), {Fact("cancelled", t, "cancelled")}) >>

\* cancelTask: a row that is cancelled is the answer; the Manager refuses a task whose status or
\* state is terminal, and takes any other, also one that its handler holds.
Cancel(t) ==
  /\ Serving /\ Created(t) /\ Has(rows, "intake", t)
  /\ \/ /\ Cancelled(t) /\ requests < MaxRequests /\ requests' = requests + 1
        /\ answered' = answered \cup {Fact("cancelled", t, "cancelled")}
        /\ UNCHANGED <<loop, todo, section, overtaken>>
     \/ /\ ~Cancelled(t) /\ loop[t] \in {"waiting", "active"}
        /\ loop' = [loop EXCEPT ![t] = "cancelled"]
        /\ overtaken' = IF Holds(t) \/ unsaved THEN overtaken \cup {t} ELSE overtaken
        /\ Go("cancel", Cancellation(t)) /\ UNCHANGED <<answered, requests>>
  /\ UNCHANGED <<logVars, rows, hand, unsaved, posted, at, unrecorded>>

Emission(t, v) ==
  << Post(v, t, {}), JournalTelling(Call("emitted", t, v), {Fact("decided", t, v)}) >>

\* decide: a press whose decision is recorded is a duplicate and answered as decided; its event
\* is emitted if it never was.  Any other press reads the task's requirement, which is awaited.
Press(h, t, v) ==
  /\ Serving /\ at[h] = Idle
  /\ requests < MaxRequests /\ requests' = requests + 1
  /\ \/ /\ {Call("decision", t, v), Call("emitted", t, v)} \subseteq rows
        /\ answered' = answered \cup {Fact("decided", t, v)} /\ UNCHANGED <<at, todo, section>>
     \/ /\ Call("decision", t, v) \in rows /\ Call("emitted", t, v) \notin rows
        /\ Go("decide", Emission(t, v)) /\ UNCHANGED <<at, answered>>
     \/ /\ Call("decision", t, v) \notin rows /\ ~Cancelled(t) /\ loop[t] \in {"waiting", "revived"}
        /\ at' = [at EXCEPT ![h] = [job |-> "decide", task |-> t, val |-> v]]
        /\ UNCHANGED <<todo, section, answered>>
  /\ UNCHANGED <<logVars, rows, loop, hand, unsaved, posted, overtaken, unrecorded>>

Missing(c, rest) == IF c \in rows THEN rest ELSE <<Journal(c)>> \o rest

\* Mutant: the approval is created without reading whether it is there.
DecisionUnread(t, v) ==
  <<Journal(Call("approval", t, "approval"))>> \o
    Missing(Call("decide", t, v), Missing(Call("decision", t, v),
      IF Call("emitted", t, v) \in rows THEN <<>> ELSE Emission(t, v)))

\* The approval is read again and decided, the decision recorded.  A decision that is there by
\* now was recorded by a press that crossed this one.
Decision(t, v) ==
  Missing(Call("approval", t, "approval"),
    Missing(Call("decide", t, v), Missing(Call("decision", t, v),
      IF Call("emitted", t, v) \in rows THEN <<>> ELSE Emission(t, v))))

\* decide after its await.
Required(h) ==
  LET t == at[h].task v == at[h].val IN
  /\ Serving /\ at[h].job = "decide"
  /\ at' = [at EXCEPT ![h] = Idle]
  /\ \/ ~(Decided(t) \subseteq {v}) /\ UNCHANGED <<todo, section>>
     \/ Decided(t) \subseteq {v} /\ Go("decide", Decision(t, v))
  /\ UNCHANGED <<logVars, rows, loop, hand, unsaved, posted, requests, ghostVars>>
-----------------------------------------------------------------------------
\* The Manager takes its next event, one at a time, and saves at its end.  A new task waits for
\* its approval; an approval of a task that waits for one is resolved over awaits, during which
\* the handler holds the task; any other is dropped.
Handle ==
  LET e == Head(posted) IN
  /\ Serving /\ hand = Idle /\ posted # <<>> /\ posted' = Tail(posted)
  /\ \/ /\ e.kind = "task_created" /\ loop[e.task] = "absent"
        /\ loop' = [loop EXCEPT ![e.task] = "waiting"] /\ Go("drain", <<Save(e.task)>>)
        /\ UNCHANGED hand
     \/ /\ e.kind \in Values /\ loop[e.task] \in {"waiting", "revived"}
        /\ hand' = [job |-> "approval", task |-> e.task] /\ UNCHANGED <<loop, todo, section>>
     \/ /\ e.kind \in Values /\ loop[e.task] \notin {"waiting", "revived"}
        /\ Go("drain", <<Save(e.task)>>) /\ UNCHANGED <<loop, hand>>
  /\ UNCHANGED <<logVars, rows, unsaved, at, requests, ghostVars>>

\* The Manager takes an event of a task's work: a result, a retry, a tick that dispatches it.
Works(t) ==
  /\ Serving /\ hand = Idle /\ loop[t] \in {"active", "revived"}
  /\ hand' = [job |-> "work", task |-> t]
  /\ UNCHANGED <<logVars, rows, loop, unsaved, posted, todo, section, at, requests, ghostVars>>

\* A handler makes s of the task it held, and its event is saved.
Makes(s) ==
  /\ loop' = [loop EXCEPT ![hand.task] = s] /\ hand' = Idle /\ Go("drain", <<Save(hand.task)>>)
  /\ UNCHANGED <<logVars, rows, unsaved, posted, at, requests, ghostVars>>

Stopped(s) == IF s \in Gone THEN "cancelled" ELSE "blocked"

\* onApproval after its awaits: the task's status is not read again.  A rejected task is blocked;
\* an approved one goes on or is blocked, and one that was cancelled meanwhile is given a status
\* all the same, or stops at a transition that its state does not have.  An approval whose check
\* is gone changes nothing.
Resolves ==
  LET t == hand.task IN
  /\ Serving /\ hand # Idle /\ hand.job = "approval"
  /\ \/ Makes(loop[t])
     \/ Decided(t) = {"rejected"} /\ Makes(Stopped(loop[t]))
     \/ Decided(t) = {"approved"} /\ \E s \in IF loop[t] \in Gone THEN Gone ELSE {"active", "blocked"} : Makes(s)

\* The task's work ends, accepted or blocked.  Work on a task that was cancelled meanwhile sets
\* its status without looking, or is stopped; it is never accepted, because its state is final.
Finishes ==
  LET s == loop[hand.task] IN
  /\ Serving /\ hand # Idle /\ hand.job = "work"
  /\ \/ s \notin Gone /\ \E r \in Terminal : Makes(r)
     \/ s \in Gone /\ Makes("cancelled")
     \/ s = "cancelled" /\ Makes("revived")

\* A handler that throws blocks the task of its event, when the event names one, and saves nothing.
Throws ==
  /\ Serving /\ hand # Idle /\ hand' = Idle
  /\ \/ hand.job = "work" /\ UNCHANGED loop
     \/ loop' = [loop EXCEPT ![hand.task] = Stopped(@)]
  /\ UNCHANGED <<logVars, rows, unsaved, posted, todo, section, at, requests, ghostVars>>
-----------------------------------------------------------------------------
\* A process that ends forgets everything but the log.
Forget ==
  /\ rows' = {} /\ loop' = Nothing /\ hand' = Idle /\ unsaved' = FALSE /\ posted' = <<>>
  /\ todo' = <<>> /\ section' = "none" /\ at' = [h \in Handlers |-> Idle]

\* A journalled call: the repository takes it, then it is appended.
Recorded ==
  /\ Running("record") /\ Appended(Step.call)
  /\ rows' = rows \cup {Step.call} /\ answered' = answered \cup Step.tell /\ GoOn(Tail(todo))
  /\ UNCHANGED <<loop, hand, unsaved, posted, at, requests, overtaken, unrecorded>>

\* Mutant: a failed append of the intake record is passed over.
CarriesOnUnbound(c) == c.op \in {"cancel", "decision", "intake"}

CarriesOn(c) == c.op \in {"cancel", "decision"}

\* The append throws when the repository has taken the call.  Cancelling goes on without the
\* transition; recording a decision finds the row it has just made and takes it for another
\* press's; everything else ends in an error.
RecordFails ==
  /\ Running("record") /\ section # "start" /\ AppendFails(Step.call)
  /\ rows' = rows \cup {Step.call} /\ unrecorded' = unrecorded \cup {Step.call}
  /\ GoOn(IF CarriesOn(Step.call) THEN Tail(todo) ELSE <<>>)
  /\ UNCHANGED <<loop, hand, unsaved, posted, at, requests, answered, overtaken>>

\* enqueue and reEvaluateApproval post an event to the Manager.
Posts ==
  /\ Running("post")
  /\ posted' = Append(posted, Step.event) /\ answered' = answered \cup Step.tell /\ GoOn(Tail(todo))
  /\ UNCHANGED <<logVars, rows, loop, hand, unsaved, at, requests, overtaken, unrecorded>>

SaveRecord == Checkpoint(loop)

\* persistOrThrow
Saves ==
  /\ Running("save") /\ ~unsaved /\ Appended(SaveRecord)
  /\ GoOn(Tail(todo))
  /\ UNCHANGED <<rows, loop, hand, unsaved, posted, at, requests, ghostVars>>

SaveSkipped ==
  /\ Running("save") /\ unsaved
  /\ GoOn(Tail(todo))
  /\ UNCHANGED <<logVars, rows, loop, hand, unsaved, posted, at, requests, ghostVars>>

\* A save that fails at the end of an event blocks its task, if there is one, and ends all
\* saving; one that fails inside a cancellation ends the cancellation.
SaveFails ==
  /\ Running("save") /\ ~unsaved /\ section # "start" /\ AppendFails(SaveRecord)
  /\ GoOn(<<>>) /\ unsaved' = (section = "drain")
  /\ loop' = IF section = "drain" /\ loop[Step.task] # "absent"
             THEN [loop EXCEPT ![Step.task] = Stopped(@)] ELSE loop
  /\ UNCHANGED <<rows, hand, posted, at, requests, ghostVars>>

Unstarted == {t \in Tasks : Has(rows, "intake", t) /\ loop[t] = "absent" /\ ~Cancelled(t)}
Uncancelled == {t \in Tasks : Cancelled(t) /\ loop[t] \in {"waiting", "active"}}

\* reconcile: a task that the Manager never saved is cancelled; then what it saved is resumed.
Reconciles ==
  /\ Running("reconcile")
  /\ \/ \E t \in Unstarted :
          GoOn(<< Journal(Call("cancel", t, "cancel")),
                  Journal(Call("cancel_requested", t, "cancel_requested")) >> \o todo)
     \/ Unstarted = {} /\ GoOn((IF loop = Nothing THEN <<>> ELSE <<SaveAll>>) \o Tail(todo))
  /\ UNCHANGED <<logVars, rows, loop, hand, unsaved, posted, at, requests, ghostVars>>

\* The Manager honours a cancellation that it had not saved.  It refuses a task that it has as
\* cancelled, revived or not, or that ended as it resumed: that one is passed over.
Honours ==
  /\ Running("honour")
  /\ \/ \E t \in Uncancelled : loop' = [loop EXCEPT ![t] = "cancelled"] /\ GoOn(<<Save(t)>> \o todo)
     \/ Uncancelled = {} /\ GoOn(Tail(todo)) /\ UNCHANGED loop
  /\ UNCHANGED <<logVars, rows, hand, unsaved, posted, at, requests, ghostVars>>

\* An append that fails while the runtime starts ends the process: the same as dying there.
Crash ==
  /\ \/ Running("record") /\ DiesAppending(Step.call)
     \/ Running("save") /\ ~unsaved /\ DiesAppending(SaveRecord)
     \/ Dies
  /\ Forget /\ UNCHANGED <<requests, ghostVars>>

\* Between two runs: the log may be compacted.
Maintain ==
  /\ Compact \/ MoveAway \/ MoveIn
  /\ UNCHANGED <<runtimeVars, requests, ghostVars>>

\* resume: an active task goes on, is blocked because its Worker or a push was interrupted, or is
\* judged by the result that was saved.
Resumed(s) ==
  CASE s = "active" -> {"active", "accepted", "blocked"}
    [] s = "revived" -> Gone
    [] OTHER -> {s}

\* createAgentRuntime, with --reconcile: replay, then reconcile, resume and honour.  A log that
\* is not taken, and a disagreement that cannot be reconciled, refuse the start.
Start ==
  LET saved == Saved(file) IN
  /\ Open /\ Replays(file)
  /\ \A t \in Tasks : saved[t] # "absent" => Has(Replayed(file), "create", t) /\ Has(Replayed(file), "intake", t)
  /\ rows' = Replayed(file)
  /\ loop' \in [Tasks -> Statuses] /\ \A t \in Tasks : loop'[t] \in Resumed(saved[t])
  /\ Go("start", <<Reconcile, Honour>>)
  /\ UNCHANGED <<hand, unsaved, posted, at, requests, ghostVars>>

Next ==
  \/ \E h \in Handlers :
       \/ \E m \in Messages : Submit(h, m)
       \/ Classified(h)
       \/ \E t \in Tasks, v \in Values : Press(h, t, v)
       \/ Required(h)
  \/ \E t \in Tasks : Cancel(t) \/ Works(t)
  \/ Handle \/ Resolves \/ Finishes \/ Throws
  \/ Recorded \/ RecordFails \/ Posts \/ Saves \/ SaveSkipped \/ SaveFails \/ Reconciles \/ Honours
  \/ Crash \/ Maintain \/ Start

Spec == Init /\ [][Next]_vars
-----------------------------------------------------------------------------
Events == [kind : Values \cup {"task_created"}, task : Tasks]
Facts ==
  {Fact("accepted", t, m) : t \in Tasks, m \in Messages} \cup {Fact("cancelled", t, "cancelled") : t \in Tasks}
    \cup {Fact("decided", t, v) : t \in Tasks, v \in Values}
Steps ==
  [do : {"record"}, call : Calls, tell : SUBSET Facts] \cup [do : {"post"}, event : Events, tell : SUBSET Facts]
    \cup {Save(t) : t \in Tasks} \cup {SaveAll, Reconcile, Honour}

TypeOK ==
  /\ LogTypeOK
  /\ rows \subseteq Calls /\ unrecorded \subseteq Calls /\ answered \subseteq Facts
  /\ overtaken \subseteq Tasks /\ hand \in {Idle} \cup [job : {"approval", "work"}, task : Tasks]
  /\ loop \in [Tasks -> Statuses] /\ unsaved \in BOOLEAN /\ requests \in 0..MaxRequests
  /\ posted \in Seq(Events) /\ todo \in Seq(Steps)
  /\ section \in {"none", "submit", "cancel", "decide", "drain", "start"}
  /\ at \in [Handlers -> {Idle} \cup [job : {"classify"}, msg : Messages]
                                 \cup [job : {"decide"}, task : Tasks, val : Values]]

Journalled(o, t) == Has(Replayed(file), o, t)
Spoiled(o, t) == Has(unrecorded, o, t)

\* As long as no append failed, the journal on disk can be replayed at any moment: whatever the
\* interleaving of the handlers and wherever the process died, a start is not refused for a
\* call the repositories do not take (journal.ts:107-122).
ReplayAccepted == (unrecorded = {} /\ ~malformed) => Replays(file)

\* Every call a section still makes is one the repositories take when its turn comes, although
\* what it was decided on was read before an await or in an earlier step.
CallsTaken == Running("record") => Takes(rows, Step.call)

JournalSound == TypeOK /\ ReplayAccepted /\ CallsTaken

\* The same without the exception, as journal.ts:107-112 states it.
JournalReplays == ~malformed => Replays(file)

\* The Manager's checkpoint never has a task whose row or intake record is not journalled:
\* the disagreement that --reconcile cannot repair does not arise (reconcile.ts:14-16).
CheckpointBacked ==
  ~malformed => \A t \in Tasks : Saved(file)[t] # "absent" => Journalled("create", t) /\ Journalled("intake", t)

\* A message that the owner was told is accepted, at once or as a duplicate, stays bound to the
\* one task, over restarts, redeliveries and submissions at once (intake/service.ts:120, 225),
\* but for a task whose binding could not be appended: a duplicate names it until the restart.
AcceptedOnce ==
  ~lost =>
    \A f, g \in {a \in answered : a.kind = "accepted" /\ ~Spoiled("intake", a.task)} :
      f.val = g.val => f.task = g.task

\* A task whose cancellation was answered neither waits nor works in a runtime that serves,
\* whichever of the two saves failed or was cut off by a crash, unless it was the journal's that
\* failed.  Only a cancellation that came while a handler held the task leaves it in a status
\* that is not terminal, and only one that the Manager no longer saved leaves it to be accepted.
CancelStays ==
  Serving /\ ~lost =>
    \A f \in answered : f.kind = "cancelled" /\ ~Spoiled("cancel", f.task) =>
      /\ loop[f.task] \notin {"waiting", "active"}
      /\ loop[f.task] \in {"revived", "accepted"} => f.task \in overtaken

\* An answered decision is the one the approval has, at every later moment: two presses that
\* cross never both count, and a restart does not take it back, unless its append failed.
DecisionStands ==
  phase = "open" /\ ~lost =>
    \A f \in answered : f.kind = "decided" /\ ~Spoiled("decide", f.task) => Decided(f.task) = {f.val}

\* A task is only ever active in the Manager on a journalled approval, also after a restart that
\* loaded the two from different moments.
ActiveApproved ==
  phase = "open" /\ ~lost =>
    \A t \in Tasks : loop[t] = "active" /\ ~Spoiled("decide", t) => Decided(t) = {"approved"}

\* What the owner was told holds at every later moment: an acceptance, a cancellation, a decision,
\* each with the exceptions that it names.
AnswersStand == AcceptedOnce /\ CancelStays /\ DecisionStands

\* Whatever crash or failed save separated the two, the Manager's checkpoint and the journal
\* agree: every task has its row, every active one its approval.
CheckpointSound == CheckpointBacked /\ ActiveApproved
=============================================================================
