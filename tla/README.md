# Models and proofs of the OXM platform

OXM is a marketplace for contract manufacturing: a TypeScript server over MySQL
(tRPC routers in `server/routers.ts`, queries in `server/db.ts`), a React client,
an orchestrator of software agents (`orchestrator/`) that its owner drives through
Telegram, and a small gateway (`services/wake-gateway`, a Cloudflare Durable
Object) that keeps the owner's messages and wakes the agents' machine.

This directory holds TLA+ modules of the parts whose correctness depends on
interleavings, failures and time, the TLC configurations that check them, and
TLAPS proofs of their main invariants. Run `tlc -config X.cfg M` and `tlapm
M_proofs.tla` here; `PROJECT.json` lists the runs with their properties, and maps
every definition to the lines it models.

## Inventory

### Server

| Part | State | Operations | What is hard, what must hold |
|---|---|---|---|
| AI turn quota (`server/ai/aiQuota.ts`, `ai.chat` of `routers.ts`) | `factoryAiDailyUsage`, `aiUsageTurns`, `aiModelCalls` | reserve, complete, fail and refund, usage log | co-managers race for the last unit; retries overlap; the log is written without waiting; midnight; a crash leaves a started turn. The limit holds, counter and rows agree, a used turn stays paid |
| Collaboration orders (`routers.ts` 3741-4849, `db.ts` 6956-7814) | order row, stage history, repeat requests, reviews | respond, update status, request and answer a cancellation, complete, advance stage, early marks, repeat, review | each handler reads, checks, and writes later. Closed orders stay closed; history and stage agree; a refused cancellation restores the status |
| Order dates and overdue check (`db.ts` 7037-7260, `server/orderOverdueCheck.ts`) | five dates, change requests, reminder records | request and answer a change; scan, mail, record | merged dates applied late; mails fail one by one; two checks at once. Dates stay in order; a recorded reminder was sent |
| AI conversations and enterprise memory (`server/ai/chatService.ts`, `conversationService.ts`, `memory.ts`) | conversations, messages, one memory per factory | append, finish (summarise, merge, delete), retry jobs | a message during the summary; two merges of one memory; retry counters |
| AI case assessment, factory search requests, handoff | assessment rows, request rows | create, assess, retry, notify | retry jobs racing the request path |
| Sign-in and account linking (`server/_core/oauth.ts`, `accountLink.ts`) | users, provider identities, link tickets, verification codes | start, callback, link, merge | one-time tickets used twice; counters of attempts |
| Chat, messages, notifications | conversations, messages, notifications | insert, mark read, mail, push | written after the change they announce, outside its transaction |
| Factories, products, reviews | their tables | create, edit, approve | uniqueness under concurrent requests (database indexes) |
| Consultant case centres | cases with status and timeline | claim, assign, update, force | several consultants claim one case |
| Object storage | bucket objects, references in rows | upload, delete, reconcile | an object deleted while a row that refers to it is being written |
| Scheduled jobs, request guards | cursors, counters and caches in memory | run; limit, retry, cache | one process only is assumed |

### Wake Gateway

| Part | State | Operations | What is hard, what must hold |
|---|---|---|---|
| Owner queue (`ownerQueue.ts` enqueue, pull) | `updates`, `seen`, `last_seq`, `acked_cursor`, `max_delivered` | webhook, pull, long poll, expire | Telegram resends; answers get lost; abandoned requests arrive late; ids restart lower. Nothing accepted is lost, order is kept |
| Wake cycle (`ownerQueue.ts` tick, alarm) | `WakeState`, alarm, notice flags | tick, start, poll, fail, block, notify | messages during a tick's awaits; eviction at any await. Starts are spaced and capped, a waiting message has an alarm, a cycle ends |

### Orchestrator

| Part | State | What is hard |
|---|---|---|
| Telegram control plane (`telegram/`) | ledger cursor, response records | a crash between handling, replying and recording; two loops that send the same response. What is passed is answered, copies are bounded |
| Persistence (`persistence/`, `store/`) | audit log file, journal records, repositories in memory | a crash at every file operation, compaction, replay. What was acknowledged is there at every start |
| Scheduler, manager, task domain (`scheduler/`, `manager/`, `domain/`) | task queue, task states, evidence, repair budgets, workspace leases, checkpoint | handlers broken at their awaits, cancellation and pause in between, restart from an older save. A Worker holds its lease, what is pushed was approved, accepted means checked |
| Workers (`workers/`) | worker processes, results | time limits, kill switch, late results |
| GitHub writes, codespaces (`githubWrite/`, `codespace/`) | leases, workspaces, branches | a lease that expires under its holder; half-done pushes |
| Runtime supervisor (`runtimeSupervisor/`) | child process, instance lock, backoff | restart against shutdown; the lock is held by a child |
| Human interaction and gateway (`humanInteraction/`, `gateway/`) | ledger of requests, decisions, notices | one decision per request, replies sent once |
| Intake, planning, executive, branches, agent runtime | little of their own | adapters and wiring |

### How the parts interact

The owner writes to Telegram; Telegram calls the gateway's webhook; the gateway
queues the message and its alarm starts the codespace through GitHub when nobody
pulls. The agent, once up, pulls with the cursor of its ledger as an offset, handles
one update after another, and the offset of its next pull confirms them. Nothing
else is shared between gateway and agent. Inside the agent the control plane hands a
message to the intake, a decision to the gateway service, and both post events to the
Manager's loop, which runs one handler after another, each over several awaits;
Workers, timers and GitHub come back as events. Ledger, journal and checkpoint are
records of one log file. In the server every component shares the MySQL database; a
handler is a sequence of awaited queries, and any other handler may run between two of
them. Rows are protected by `FOR UPDATE`, by conditional `UPDATE`s, or not at all,
which is what the models are about. Mails, push messages and model calls leave the
process and may fail one by one.

## Modules

| Module | Models | Proofs |
|---|---|---|
| `AiQuota` | the quota protocol of one server | `AiQuota_proofs` |
| `OwnerMailbox` | abstract: what gateway and agent promise the owner together | |
| `OwnerQueue` | webhook, queue, pulls and the polling agent; implements `OwnerMailbox` | `OwnerQueue_proofs` |
| `WakeCycle` | alarm, tick and wake state of the gateway | `WakeCycle_proofs` |
| `CollaborationOrder` | one order and all requests that change it | in `OrderDates_proofs` |
| `OrderDates` | extends the order by date changes and the overdue check | `OrderDates_proofs` |
| `ManagerLoop` | the agent's event loop: tasks, Workers, leases, approvals, publication, restart | `ManagerLoop_proofs` |
| `StableLog` | abstract: what the agent expects of its durable log | |
| `AuditLog` | the log file: appends, loading, compaction, every fault of the disk; implements `StableLog` | `AuditLog_proofs` |
| `DurableRuntime` | the agent's journal, checkpoint and repositories over one `AuditLog`: composition of intake, gateway service and Manager | `DurableRuntime_proofs` |
| `OwnerReplies` | the two loops of the control plane that answer the owner, over one ledger | `OwnerReplies_proofs` |
| `MC*` | small instances for TLC | |

Definitions commented as "faulty form" or "Mutant" (a guard dropped, an update out of
order) are not part of a specification: each replaces the definition below it once, to
see that a property notices.

### AiQuota

A step is one database transaction: `reserveAiTurn` locks each row it decides from,
so its branches are the actions `ReserveNew`, `ReserveRetry` (a row already paid, or
never to be paid), `ReserveRecharge` (a refunded row) and `ReserveDenied`, with
`ReserveDeadlock` for the retry loop around the transaction. Between them a handler
holds only what the code holds: the turn and the `quotaDate` it read when it arrived.
`CallProvider` starts an insert that lands (`InsertLands`) or fails on its own, since
the code does not wait for it. `Complete` and `Fail` are the two ends; either may be
lost (`BookkeepingFails`), and `Crash` forgets every handler but no row. `Tick` moves
the clock, and midnight may fall in any tick. `attemptCount` is kept as "above one or
not"; rate limits and the quota display are left out.

The history variables are `called` (a provider was called) and `drifted` (a row was
charged on another date than it carries).

### OwnerQueue and OwnerMailbox

`Enqueue` is the webhook: a duplicate, a full queue or a new row whose place is
`max(last_seq + 1, update_id)`; the 200 that answers it may be lost, and Telegram then
sends again. `Pull` is one transaction of `pull(offset)`: expire, confirm, select.
The agent polls (`Poll`), takes the answer (`PullLive`, with the second pull of a long
poll), and for each update either skips it or handles it and then writes the cursor,
two steps between which it may die. A request it no longer waits for becomes an
orphan and still reaches the queue (`PullOrphan`). `Age` lets any prefix of the
queue reach its time to live.

`OwnerMailbox` says what this is for: accepted updates get places in one growing
order, a place is handled only when everything before it is settled, and nothing is
taken back. `OwnerQueue` instantiates it (`Mailbox == INSTANCE OwnerMailbox WITH ...`) by
its history variables `log`, `handled` and `expired`, so the refinement speaks about the
code's queue through what happened, not through what is stored.

### WakeCycle

Code between two awaits is one step. `TickStart` runs to the first await, the
`Load...` actions stand for the middle of `tickOnce`, `StatusAnswered` and
`StartAnswered` for the continuation after GitHub's answers, `TickDone` for the end
with the next alarm. `mem` is the state object the tick works on and `disk` the saved
one; the two differ exactly while the code's do. Webhooks, pulls, heartbeats and a new
binding come in at any await. `TickThrows` is the catch block of `alarm`; `Evicted`
ends the instance at an await, after which the runtime repeats the alarm (or, where
`AlarmsLost` holds, does not). Failure codes that take the same branch are one; the
constants are the policy of `config.ts` in small numbers.

### CollaborationOrder and OrderDates

Each request has a slot. A `Read...` action is the handler up to its last read, with
its checks; the action without `Read` is the conditional `UPDATE` or transaction,
which misses when its condition no longer holds. `respondCancel` reads twice, so it
has three actions. `cancelRequestedAt` is a counter of seconds; `SameSecond` lets two
requests share one. Dates are days, 0 for null; `NumFields` stands for the five nodes,
the last is the final payment. `ChangeDates` is an accepted date change, at any moment;
a completion in flight keeps the date it read, which the code writes to the history.

`OrderDates` adds the factory's date-change requests (`ReadRequestChange` merges the
dates it read, `RequestChange` checks for a pending one under the row lock,
`RespondChange` writes all merged dates) and the overdue check: `Scan` and
`LeaveOutNotified` are the two queries, then per node `NextNode`, one `Send` per
recipient that may fail, and `Record`. It extends `CollaborationOrder`, so orders
can change status, side and dates under a running check.

### ManagerLoop

One record per task (`TaskRecord`: state, status, counters, evidence by the run it was
made from, pending approval) and one queue of events. A handler is a chain of actions,
one per stretch between two awaits: `TickStarts`, `TickDecides`, `DispatchPlans`,
`DispatchStarts` are the tick; `RunDone`, `Recorded`, `Judge` what follows a Worker;
`Launched`, `Retry`, `Continue`, `Repair` start one again after an await; `CommitAsked`,
`Publish`, `Committed`, `Pushed`, `OpenPr`, `QaRead` and the approvals lead to
acceptance. `Cancel` and `Pause` come from outside between any two of them, as in the
code, and persist at once. `EventEnds` saves, or fails to, after which `skipped` holds
and nothing is saved any more. `Restart` loads the last save; what `resume` does with each
task follows one by one (`TakeUp`, `Resent`, `JudgedAgain`) before the loop serves anything
else, and a failure there keeps the process down (`Gone`): `createAgentRuntime` rejects.
Members of work groups are left out. Contents are numbered by the run that made them (`receipt`, `qa`, digests), so
"the content that was approved" is a number. Verdicts of the Manager, results of Workers
and of CI are inputs.

### StableLog and AuditLog

`AuditLog` keeps of the file what a load depends on: the entries of its lines, whether a
line is malformed, whether the last one ends in a newline. An append writes all of its
bytes, all but the newline, or less; it may throw, be acknowledged though short (the
count of `writeSync` is not read), or be the last thing the process does. `Compact`,
`MoveAway` and `MoveIn` are the copy and the two renames, with `Dies` possible between
them. Which record supersedes which is the constant `Key`. `StableLog` has neither file
nor copy: a start shows everything acknowledged, or a later record of its key, and
nothing that was never appended.

### DurableRuntime

It extends `AuditLog` and lets the agent's parts write to it. A section without an await
is `todo`, the steps it has still to take (journal a call, save a checkpoint, post an event,
reconcile, honour), each with what the owner is told once it is done. `Recorded`, `Posts`,
`Saves` and the forms in which they fail take them one by one, so that a crash or a failed
append can fall between any two; `Submission`, `Cancellation`, `Decision` and `Emission` are
the sections of the handlers. `Submit` and `Classified` are the
two halves of `submitTask` around the classification, `Press` and `Required` those of
`decide`. `Handle` takes the Manager's next event; a handler that awaits keeps the task in
`hand` while everything else goes on (`Works`, `Resolves`, `Finishes`, `Throws`), so a
cancellation may be saved and answered in between. One task at a time is enough: the loop runs
one event after another, and a tick looks at each task again before it touches it. A task in the
state `cancelled` is "cancelled" while its status is blocked and "revived" once a handler has
given it another; it is never accepted by a handler, since `move` refuses a final state, but
`resume` may judge an active task that was cancelled when nothing was saved any more. The ghost
`overtaken` holds the tasks cancelled in one of these two ways, `answered` what the owner was
told, duplicates included. The repositories are the set of calls they took; `Takes` is their
check, `Replays` the replay. `Start` loads and replays; `Reconciles` and `Honours` then repair, task by task, what the two
records disagree on. The constants `Record` and `Key` of `AuditLog` are fixed by
`RecordAssumption`: calls, superseded by nothing, and checkpoints, superseded by the next.

### OwnerReplies

`poll` and `observe` are the two loops of the control plane, each at one await; `resp`,
`handled`, `notice` and `used` are the ledger. `Goal`, `Ask` and `Press` are the kinds of
update with a protocol: a new task, a request to cancel with its confirmation, a press of
its button. A send may arrive and still be reported as failed (`Arrives`, `Failed`), the
process may die at any await, and an update may come again (`Redelivered`). The result of a
press is remembered some awaits before its response is recorded (the jobs `buttons` and
`silence`); what dies in between is in `cut`. `shown` and `copies` count what arrived, so that the
ledger's own "delivered" is no evidence of it; a press whose answer has to tell the task's end,
because `markInline` has counted it as told, is `inline`. The toast of `answerCallbackQuery`,
whose failure nobody notices, counts for nothing.

## Runs

| Run | Question | Instance |
|---|---|---|
| `ai_quota` | limit, audit, busy check, charges | 2 turns of one factory, limit 1, 2 handlers, one midnight, 2 tries per deadlock |
| `owner_queue` | loss, repeats, the abstract mailbox, settlement | 3 updates with ids out of order, queue of 2, pulls of 2, 2 faults |
| `wake_cycle` | spacing, daily cap; does a cycle end? | 11 time units, beyond the bound the policy gives, 2 messages, 1 fault |
| `wake_notices` | types, notices, alarms, retries for news, blocks | queue of 1, rows expire within the run, 3 messages, the agent seen once, 1 new binding, 1 fault |
| `order` | closed orders, cancellations, stages, copies, reviews, completion while the due date moves | 2 requests at once, 2 users, 2 seconds, 2 days, 2 repeats; accepted date changes at any moment |
| `order_dates` | order and provenance of the dates; is a recorded reminder a sent one? | 2 dates, 2 handlers, 2 change requests, 1 check, 2 recipients, 2 days; the order itself does not move |
| `manager_loop` | leases, approvals, publication, acceptance, conflicts | 2 tasks of every kind and risk that may conflict, 2 workspaces, every budget 1, 1 fault, 1 cancel, pause or handback, 1 crash |
| `manager_loop_live` | is a task forgotten, does a run end? | 2 waiting tasks, one slot, 2 cancels, pauses or handbacks, 1 crash |
| `durable_runtime` | the abstract log; journal, checkpoint and answers over restarts | 2 tasks, 2 messages, 2 handlers, 3 requests, 2 faults of any kind; after the first fault only while the Manager knows one task or saves no more (`OneKnown`) |
| `replies` | answers, attempts, copies, notices | a goal, a cancel request and its press, 2 updates, 2 attempts, 1 fault |
| `loop_cancel` (violation) | does a cancelled task get a Worker? | as `manager_loop`, without crashes |
| `journal_replay` (violation) | can the journal always be replayed? | 2 tasks, 1 message, 1 handler, 1 fault |

Why the bounds are enough: a race in this code is between a read and the write that
relies on it, so two handlers (the one in between may run many requests in turn) and
two values of what is read show it; three where order matters (updates, change
requests). Time bounds are longer than the longest window of the policy in each
configuration: a second start after a full cooldown, a daily cap reached and a third
start refused, a notice interval passed. The agent's faults are counted: one is enough to
separate two saves, two (in `durable_runtime`) to let one fault meet the recovery from
another; a budget of one shows its use and its exhaustion. `OneKnown` is a bound on time only: without
it `durable_runtime` has 5,592,314 states and passes. `replies` has room for one press; with two
presses, no goal, one attempt and three updates, so that a press of a used confirmation is
answered by silence, it passes in 4.2 million. Every property of a passing run is violated
when one definition is replaced by a faulty form. Some properties are conjunctions of
named parts (`LeaseSound`, `JournalSound`, `AnswersStand`, `CheckpointSound`,
`RetriesBounded`, `StartsLimited`, `NoticesOnce`, `OwnerTold`); `LeaseSound`, `JournalSound`
and `NoticesOnce` include the types. Deadlock is checked for `AiQuota` and `OwnerQueue`; the others
stop when their bounds on time, requests or faults are used up.
Symmetry is used over handlers, slots and turns, never in a run with a liveness
property.

What the runs show beyond the single claims:

- `UsedWithinLimit`, `FirstAttemptsExclusive`: the two locks of the reservation are
  enough, for the last unit and for the busy check. `AuditExactUnlessDrifted` and
  `ChargesCovered`: counter and rows differ only for a factory of which a row was
  charged on a later date than it carries, and even then no charge is lost.
  `LoggedTurnPaidOnce`: once the log shows a call, no overlap of attempts refunds the
  turn or charges it again.
- `ImplementsMailbox` with `NoLoss`: lost replies, stale requests and restarts lose,
  reorder or duplicate nothing; `AtMostOneRedone`: a restart repeats at most one
  update, however many updates a batch has.
- `StartsLimited`: saving the intent before the request is what keeps
  the spacing over crashes; the spacing is exact but for the length of one tick.
- `LeaseSound`, `ConflictsApart`: a tick decides on a copy that is old by the time its
  tasks are dispatched; the second look of the branch planner and of the lease registry
  is what keeps Workers apart. `PublishedAsApproved`, `AcceptedMeansChecked`: approvals
  are bound to digests and evidence to runs, so that no order of repair, restart and
  approval publishes or accepts something else than what was looked at. `RunsOnce`:
  saving the intent before a Worker starts is enough against restarts.
- `ImplementsStableLog`: compaction, short writes and crashes lose nothing that was
  acknowledged, except as a whole (see Divergences). `JournalSound`: as long as no append
  failed, the journal replays, whatever the interleaving; `CheckpointSound` and
  `AnswersStand`: the two records of the runtime may be of different moments, and still a
  message stays with the task it was accepted as, a cancelled task neither waits nor works
  again, and a decision stands. The exceptions are in the formulas: the call's own append
  failed (`Spoiled`), the log was lost between the renames (`lost`), or, for the status of a
  cancelled task, a handler held it or nothing was saved any more (`overtaken`).
- `AnsweredBelowCursor`, `RetriesBounded`, `UnmarkedOnce`, `OwnerTold`: the ledger alone
  carries the replies over crashes; a reply whose intent is recorded arrives or is given up
  after its attempts, comes a bounded number of times, and of the copies of a notice at most
  one is not marked as a possible duplicate. A reply that was cut off before its intent is
  made up for where the update is handled again, and is not for a press that was remembered
  (see Divergences).
- `OwnAnswerOnlyAfterAnother`: the check against answering one's own cancellation can
  be passed only through an earlier request that was closed meanwhile.

### Fairness

- `EverySettled`: `FairSpec` of `OwnerQueue` has weak fairness on `Poll`, on `PullLive`
  and on the handling of a batch: `pollLoop` is an endless loop without a condition, a
  request that is not abandoned is answered, and a batch is worked off by a plain loop.
- `NotForgotten`, `RunsEnd`: `FairSpec` of `ManagerLoop` has weak fairness on the steps of
  a handler, on the end of a Worker (it has a time limit) and on a restart (the
  supervisor), and strong fairness on `TickStarts` and `RunDone`: the queue is first in,
  first out, so an event that is there is taken although others keep coming; strong,
  since a handler in between disables them.
- `OwnerTold`: `FairSpec` of `OwnerReplies` has weak fairness on the steps of either loop
  and on a restart; both loops are endless and have a bounded call per await.

Nothing is assumed of Telegram, of the owner, of the clock or of abandoned requests;
faults are bounded by constants, since an agent that crashes for ever handles nothing.

## Divergences

Two are kept as runs that TLC must find violated; `PROJECT.json` quotes the lines.

1. `CancelStopsWork`: a re-launch awaits the head of the workspace and then starts its
   Worker without looking at the task again, which may have been cancelled meanwhile.
2. `JournalReplays`: a call changes its repository before its record is appended; when the
   append fails, later calls build on what no replay will find.

The following were met while modelling, as counterexamples of formulas that the
modules no longer carry; the properties above are stated so that they hold besides
them.

Server and gateway:

- `aiQuota.ts:321`: a refund counts usage rows to see that no provider was called, but
  `provider.ts:132` and `142` insert them without waiting (the comment at
  `aiQuota.ts:305` says a turn with a call is not refunded; hence `LoggedTurnPaidOnce`).
- `aiQuota.ts:228`: a refunded turn retried after midnight is charged today, its row
  keeps the old date, and the audit reports a mismatch (hence `drifted`).
- `aiQuota.ts:216`: a retry starts a turn without the busy check, so two turns of a
  factory may run (hence *first attempts*).
- `aiQuota.ts:324`: of two overlapping attempts of one turn, the one that fails before
  its first call refunds the turn the other answers.
- `controlPlane.ts:207`: a ledger cursor from polling Telegram directly may lie above
  the first places of the gateway, and updates below it are skipped and confirmed
  (theorem `LossBounded` says that nothing else is).
- `ownerQueue.ts:245`: `lastStartAt` is the beginning of the tick (hence `MaxLag` in
  `StartsSpaced`).
- `ownerQueue.ts:301`: a new cycle is saved as waking before its next action is known; if
  the instance is evicted there and the alarm is lost, the next message does not revive
  it (`wake.test.ts:201` expects a lost alarm to be rebuilt).
- `db.ts:7207`: reminders are recorded per node and not per date, so a date that moves
  and passes again is never mailed (`orderOverdueCheck.ts:20`).
- `db.ts:7145`: an accepted change writes all five merged dates, also those it did not
  ask for (`routers.ts:4246` says an empty one keeps its value).
- `db.ts:7326`: `respondCancel` answers the request of its second read, which may be
  the answerer's own.
- `db.ts:7332`: two cancellation requests within one second look alike, and the older
  answer restores the wrong status (`RestoredStatus` is checked and proved without
  that case, `SameSecond = FALSE`).
- `db.ts:7361`, `7306`: `updateStatus` to completed keeps the stage, and so does a
  cancellation that is asked for or agreed; comments at `drizzle/schema.ts:291` say
  otherwise.
- `db.ts:7145`: a change asked for while the order was active is applied after it
  closed.
- `db.ts:7443`: a date change between the check of `markCompleted` and its write lets
  an order complete before its final payment is due. `UndueOnlyIfMoved` says that this is
  the only way, and that the date recorded with the completion was due.
- `orderOverdueCheck.ts:86`: when one mail of a node fails, the next check sends the
  others again; two checks at once do so too.

Manager loop (`scheduler/loop.ts`):

- 942: a cancellation while a dispatch awaits the base commit lets the cancelled task
  acquire its lease, which nobody releases; a pause there dispatches the paused task.
- 821: pausing a task makes the tasks that depend on it blocked for good, as if their
  dependency did not exist (`dependencies.ts:5`); a pause itself has no end.
- `cancel` of a running Worker releases the lease before the process exited
  (`lease.ts:4` reserves it for one process).
- A save that fails within a start of a Worker leaves the task running without one; a
  failed save in `cancel` leaves out the posts that wake the tasks waiting for it.
- 1268, 1358, 1513, 1694, 2249, 2290: review, retry, continuation, diagnosis, repair and
  guidance that come back after a cancellation overwrite the blocked status (hence
  `overtaken` in `CancelStays` of `DurableRuntime`); 2495: a cancellation during the commit does not stop the
  push.
- 2792: evidence that observed a higher risk with an open pull request is judged again
  with the QA result from before; 2802: `runtime_status_updated` is handled and never
  posted.

Durable runtime:

- `compact.ts:63`: a crash between the two renames leaves no log, and the next start opens
  an empty one. It is a step of its own in `StableLog` (`Lose`), and the promises start
  anew after it (`lost`); the directory is not synced after the renames either.
- `fileAudit.ts:75`: a short write is acknowledged, and a last line without its newline
  loads; the next append is glued to it and every later start refuses the log.
- A crash after an emitted decision and before the Manager saved leaves an approved task
  waiting for approval; one between the save of a cancellation and its transition leaves
  the runtime record queued; both for good.
- `submitHumanDecision` whose append fails is answered "submitted, duplicate" and has
  posted nothing; a failed `decide` answers "approval_expired" with the approval given in
  memory.
- `reconcile.ts`: a task without checkpoint is cancelled by `--reconcile`, and its message
  delivered again is answered "duplicate"; `loop.ts:393`: after one failed save every later
  one is skipped in silence. A cancellation answered after that exists in the journal
  alone: the next start may judge the task by the checkpoint (`loop.ts:3055`) and accept it
  before `compose.ts:397` comes to honour the cancellation.
- `loop.ts:3123`: `cancel` refuses a task whose state is final, also one that a handler has
  revived, and `compose.ts:400` only logs that it could not cancel.
- `intake/service.ts:139`, `223`: a message whose binding could not be appended is still
  answered "duplicate" with its task; after a restart the same message becomes another task.

Replies:

- `controlPlane.ts:149`: `observeLoop` may send a response that `pollLoop` is just sending
  (134-135 promises at most one response per update); hence the two in `RetriesBounded`.
- `service.ts:366`: a crash after a confirmation was delivered and before it is remembered
  lets the repeated request be answered "Could not send"; 1114: a task that ends between
  the check and `cancelTask` is told "cancelled", and its completion is not told.
- `service.ts:1094`, `1113`-1115, `controlPlane.ts:186`-194: the result of a press is
  remembered before its response is recorded, with two calls of Telegram in between. A crash
  there makes the press a duplicate, which is answered by silence. If it was the press that
  cancelled the task, `markInline` has counted the end as told already, so the owner never
  hears of it (`cut`); the same when a handler's error skips the update or the answer is given
  up after its attempts.
- A crash between `cancelTask` and its record answers the press "already finished"; the end
  of a task may be told both in a reply and as a notice.

Noted but outside of the models: `db.ts:7174` takes local midnight as a UTC date;
`routers.ts:4045` lets another manager of the same factory agree to the factory's own
cancellation; an alarm that finds an invalid configuration (`ownerQueue.ts:507`) arms
none; `ownerQueue.ts:265` clears the notice flags before it sends; seen ids are
forgotten after 14 days (`ownerQueue.ts:318`).

## Proofs

Every safety property that a run checks, invariant, action property or refinement, has a
theorem; the runs show that the formulas are not vacuous and that a faulty form breaks them,
the theorems that they hold for all values of the constants the assumptions allow. Every
theorem is about `Spec`, without fairness, and every module proves its types, on which the
arithmetic below relies.

**AiQuota_proofs.** Assumptions: `TurnsAssumption`, `NumbersAssumption` (a finite set
of turns, keys are factories or factory-less administrators, numbers are naturals).
The instance that TLC checks has no administrators; the theorems cover them.
`LimitHolds` is inductive with the fact that bypassed turns are never charged.
`FirstAttempts` says that a row is created only when no other row of its key is
active, and that only its creation leaves it on its first attempt. `AuditHolds` is
about cardinalities: each step adds or removes one row of `ChargedRows` together with
one unit of the counter, unless it marks the factory as drifted; the lemma
`NextAudit` has a case per action, and `Uncharged` rules out that a refund meets a
counter of zero. `LoggedStaysPaid` needs `Uncharged` too: a charged turn has a row, so no
attempt creates, or charges, it again. `ChargesHold` does not sum the counters, which would
be an induction over the dates: a counter of n is a set of n units (`Units`), and a charge adds one
unit and one row (`ChargeAddsUnit`), a refund takes at most one unit and exactly one row, so
that the library's facts about cardinalities do.

**OwnerQueue_proofs.** The inductive invariant `IInv` says why nothing is lost:
everything below the agent's cursor is settled (`SettledBelowCursor`), no offset in
flight is beyond the cursor (`OffsetsBehind`), the cursor is not beyond the places
handed out (`CursorBehind`), a batch is a prefix of what is stored at or above the
cursor (`BatchIsPrefix`), and only the next update can be handled without the cursor
behind it (`HandledFirst`, `HandledIsNext`). `NoLoss` alone is not inductive: it does
not say what an offset may confirm. `LossBounded` and `RedoBounded` follow directly;
`NothingLost` and `MailboxRefined` need `FreshGateway` (no update id below the cursor
the agent starts from), an explicit hypothesis since the code does not ensure it. The
refinement is the classical pair: initial states map to initial states, and
`StepSimulation` maps each step to a step of the mailbox or a stutter.

**OrderDates_proofs, the order.** `ClosedForGood` needs types only: it is the conditional
`UPDATE`s, one by one. `StatusRestored` and `OwnAnswerExplained` rest on `CancelSound`:
every timestamp that a request in flight holds was given out, and a request that
holds the current one knows the status to restore and that somebody else asked.
It needs `~SameSecond`. `HistoryMatchesStage` rests on `StageInv`, that is
`StageLogged` with `Untouched`: an order that was never accepted has no stage and no
history, also while its cancellation waits, which is why the accepting `UPDATE` may
set the first stage without looking.
`DerivedCorrect` needs that a request for a repeat or a review is in flight only while
the order is completed, which stays so (`DerivedSound`, `ClosedStep`), and counts the
accepted repeat requests; `CompletedDue` that the date a completion read stays due
while the order's may move: days pass, and an early shipment is not taken back
(`DueSound`). `MovingDatesAreTheOrders` shows that the order with the date requests and
checks of `OrderDates` implements the order alone, whose dates `ChangeDates` moves
freely: what is proved of `Spec` so holds of `SpecDates`.

**AuditLog_proofs.** For any records, any rule of supersession and any number of faults.
`NothingDropped` alone is not inductive, because it says nothing of a closed log. `IInv`
says that each place the entries can be in keeps what was acknowledged and holds nothing
foreign (`Backs`): the file unless it is malformed or moved away, the copy from its
writing to its renaming, the memory while the log is open; and that ids only grow
(`Below`), which compaction needs: `KeptKeeps` takes the greatest id of a key, by the
well-foundedness of `<`, and shows that what the file kept, the compacted file keeps.
`Implementation` is the refinement: an append is `Recorded` or `Failed`, a crash `Stop`,
`Lose` between the renames or nothing at all, an `Open` a `Start`, the rest stutters.

**OrderDates_proofs, dates and checks.** For any number of request slots and any dates. `DatesInOrder` and
`LastAcceptedInForce` follow from `IInv`: the dates that a request in flight holds were
checked against each other when they were read, and so is every row (`DatesTyped`); a
waiting request is the last one made (`PendingIsLast`), because a new one is refused while
one waits; and the row of the order holds the dates of the last accepted request
(`InForce`). Accepting then cannot put an older request above a newer one. The order's own
requests, which run between any two steps, never touch the dates.
`RecordsTrue` proves `RecordedMeansMailed` with the order moving under the mails, which the
run, without requests of the order, does not show. `MailSound` says that what a check
lists, sends or recorded belongs to an answered order (`Decided`), and that while no mail
of the node in hand failed, whoever is not left got it; `DecidedStays`, on `CancelSound`,
that an answered order is not answered again, so that its recipients stay. It needs
`~SameSecond`, and the assumption is not idle: with two cancellations in one second a late
refusal takes an accepted order back to `pending`, the buyer accepts it in a factory's name, and
the members of that factory did not get the mails already recorded.

**OwnerReplies_proofs.** For any number of updates, attempts, crashes and repeats of an
update. `Base` adds to the types that the polling loop is busy with the update behind the
cursor; `Flow` that nothing is sent before its intent is recorded, so that a handler that
is not done has an untouched response. The bounds rest on `Counted`: sends of a response
that are under way or listed, at most one per loop, are counted with its failures
(`Tried`), and those that arrived with its copies (`Copied`); a loop starts a send only
with attempts left, the other may hold one more. `FirstOnly` is what keeps notices apart:
an unmarked one is sent only after its intent was recorded and before any copy arrived.
What is said of an update that is done, that it was answered, skipped or cut off, is about
liveness and stays with TLC (`OwnerTold`).
Assumption: the task's notice is not a confirmation (`RepliesAssumption`).

**WakeCycle_proofs.** `StartsLimited` for every policy, with no bound on time, messages,
throwing ticks or evictions. Nothing in the gateway's state lists all start requests: it
trims its history to a day. `IInv` therefore says that there are stamps, one per request,
ascending and at most a tick's length before it, of which the last is on disk as
`lastStartAt` and each is in the history on disk or a day old (`Stamps`), and that what a
tick works on knows what disk knows (`From`). A request then adds a stamp a cooldown after
the last; and if the request `dailyStartCap` places back were less than a day old, that
many distinct stamps would be in a history of fewer elements (`FS_Injection`). Everything
but the start is one lemma: a step that starts nothing and forgets no start of the last
day (`Quiet`). `IInv` types only the two fields that matter to it.

The other theorems rest on `Core`, that is `IInv` with the types and with where the machine
stands: the saved state, or, between a tick's last await and its end, the one the tick works
on (`Stand`). Its parts say who was told of what (`Notices`), that a block still in force is
in the state and a cycle under way has none (`Blocks`), that a cycle that failed without a
block has heard of nothing since (`News`), and that the times a state holds are at hand
(`Timers`). `OnceTold`, `BlocksHold` and `NewsFirst` follow for every policy and whatever
happens to alarms. `AlwaysArmed` and `CyclesEnd` have the hypothesis `~AlarmsLost`, which is
what the platform promises of a Durable Object's alarm (`Armed` is false where an eviction
may lose it, see Divergences). `AlwaysArmed` rests on `Alarms`, which
holds between ticks: a handler brings the alarm forward for what it changed (`Schedule`), a
tick's end sets it for all that is left (`NextAlarm`), one that threw or was evicted comes back. `CyclesEnd` is an accounting of time
(`Course`): a stretch of a cycle is over when its deadline, its cooldown and the retries left to
it are (`Keeps`, `Span`), each start opens one more stretch, and each tick that threw costs
its length and a poll delay. Two facts are assumed of constants: a power of two is a natural
(`2 ^ n` has no facts in the prover) and the delays GitHub asks for are capped
(`MaxRetryAfter`, the cap of `github.ts`).
The proofs corrected the model's history and one formula: `told` counts the notices of an
overflow per episode, as the flag in the code does; and the bound of `CycleBounded` had left out
the retries that each start grants anew.

**ManagerLoop_proofs.** For any number of tasks and workspaces, and any number of Worker
runs, failures and restarts. `PushesApproved` and `StartsOnlyApproved` rest on one idea:
from the moment the loop looks at an approval until it acts on it, across all awaits, the
record in its hand is the one it looked at (`LaunchHeld`, `PublishHeld`), because whatever
comes from outside in between only cancels or pauses the task and leaves its evidence and
contract alone. `FlightsApart` is not inductive for the tasks in flight: a task
cancelled in the middle of its handler leaves the flight, and that same handler may put it
back. So a planned task counts also while its handler has it in hand (`Seated`, `EngagedApart`),
and the snapshot, from which a restart takes everything, must be apart as well
(`SavedApart`). Most steps engage nothing and are `Quiet`; the rest have a lemma each.

`LeasesSound` and `AcceptanceIsEarned` need all that holds of a record, `LInv`. A task that is
not over is unborn, queued, asking for an approval or under way (`Lives`), and each of the four
says which of the fields it may have: what it waits for, what was pushed, what was checked.
The handler in progress knows which of them its task is in, unless it was cancelled meanwhile
(`Fit`, `Held`), so does each task that a tick or a start has still to work off (`Due`); a
push whose event is still queued is picked up by nothing else (`Pending`), and a lease is
held by the task that has it in its record (`Letting`). Acceptance then finds evidence, push
and CI result of the same run (`Checked`), which no action could say by itself, since they
were written by different handlers. `StartsOnce` adds that the saved records know of every run
(`Numbered`), as long as no save was skipped: `startRun` saves the number before it starts the
Worker, and what a restart loads is at most as old as that.
Assumption: `LoopAssumption` (a finite set of tasks, the shape of an intake, natural bounds).

**DurableRuntime_proofs.** For any number of tasks, messages, handlers, faults and crashes;
it uses the theorems of `AuditLog_proofs` for the log. The difficulty is that a section is cut
off anywhere and what it wrote must be enough. The invariant `RuntimeInv` has one part for each
place the truth can be. On disk (`Disk`, the copy between the two renames), the journal
replays, binds a message and decides a task once, and a recorded decision has its
approval (`DiskSound`); every checkpoint is `Backed` by the journal; whatever the owner was
told is `Proven` by it. In memory the repositories are the journal and what failed to be
appended (`MemorySound`), and the Manager is backed as its checkpoints are and hears of a
task once (`LoopSound`). Of the running section, `SectionSound` lists every remainder that
`todo` can be and what holds by then (`Submitting`, `Cancelling`, `Deciding`, `Starting`): so a
call that was decided on before is still taken when its turn comes, although other
handlers ran during the await. A step that leaves a remainder has a lemma, as has each effect
on disk; compaction keeps `DiskSound` since calls are never superseded and the last checkpoint
stays. `RuntimeInv` does not say that a cancelled task stays out of work, which is about both
records at once; `HonourInv` does. On disk, a journalled cancellation of a task that is not
`overtaken` has a checkpoint from after it (`DiskHonours`), since `Cancellation` saves the Manager
before it journals; in memory the same of the Manager (`MemoryHonours`); within a cancellation and
a start, what has been done by each step (`CancelHonours`, `StartHonours`). So the honouring at a
start has work to do for overtaken tasks only. Then `JournalHolds`, `AnswersHold` and
`CheckpointsHold` are read off the two invariants, and `RuntimeUsesStableLog` composes: every action of the runtime is one of
the log's, or leaves the log alone, so the refinement of `AuditLog` carries over. The exceptions that the
properties state are those of the code: a failed append (`unrecorded`, `Spoiled`) and the
window between the renames (`lost`).
Assumptions: `RecordAssumption`, `RequestAssumption`, and those of `AuditLog`.

Only model-checked: `EverySettled`, `NotForgotten`, `RunsEnd` and `OwnerTold`. They are
liveness properties under fairness, and fairness is stated with ENABLED, for which the prover
has no rules. The two runs that expect a violation have no theorem, of course. No module uses
RECURSIVE operators.

## What is not modelled

Parts without a protocol of their own: prompts, search ranking, analytics, rendering,
the client, mobile shells, migrations and scripts. They are most of the repository's
lines, and there is nothing in them for a model checker.

Parts with a protocol that no module covers:

- AI conversations (`memory.ts:360`: the messages are read, summarised by a slow call, and
  the conversation is deleted, with what was added meanwhile; `memory.ts:370`: two
  conversations of a factory merge into one memory, and the second write wins), and the
  retry jobs of assessments and search requests, of the same form.
- Sign-in tickets and verification codes, consultants' claims, storage reconciliation:
  rows of MySQL under conditional updates, like those of the order.
- The chat message and the notification written after a change of an order, without a
  transaction (`routers.ts:3865`).
- The codespace controller, the supervisor with its instance lock, the Worker process.

Within the modelled parts: authorisation (a request comes from somebody who may make it;
who that is matters only for cancellations), contents of messages and mails, the
projection of Telegram updates; a wake cycle started again for an agent that pulled once
and was lost (`ownerQueue.ts:182`); of the Manager loop the combined reviews of decomposed
requests (`loop.ts:1705`-2003), the choice among workers, priorities,
an availability event that takes up more than one task; of the runtime the
redaction of journalled arguments, the operator's list of superseded records, and the
several calls that create a task, which are one record here; of the replies progress
notices and answers of the planner. The database is taken at its word: transactions with
row locks are atomic, and a conditional `UPDATE` is one step.

## Plan

Done, in this order: the AI quota (the server's tightest transaction protocol), the
owner queue with its abstract mailbox, the wake cycle, the order, its dates; then the
Manager loop, the log with its abstract form, the runtime over it, the replies, and the
proofs above. Open:

1. Conversations: finishing against new messages, concurrent merges of one memory.
2. The codespace controller's lease and the supervisor's instance lock, composed with
   `OwnerQueue` in place of its single agent.
3. Combined reviews in `ManagerLoop`.
4. The invariants of what these add, proved as the others are.
