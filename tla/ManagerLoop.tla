----------------------------- MODULE ManagerLoop -----------------------------
(***************************************************************************)
(* The Manager Loop of the orchestrator (orchestrator/src/scheduler).      *)
(*                                                                         *)
(* One event is handled at a time; a handler is a chain of steps between   *)
(* two awaits, and "at" says where the current one stands.  In every await *)
(* the owner may pause or cancel a task, a Worker may exit, the process    *)
(* may crash.  What GitHub, git, the approval store, the Workers and the   *)
(* GPT Manager answer is chosen freely; answers other than the good one    *)
(* are taken from a budget of faults.  Work groups, whose tasks are        *)
(* reviewed and accepted together, are left out.                           *)
(***************************************************************************)
EXTENDS Naturals, Sequences, FiniteSets

CONSTANTS
    Tasks,          \* task ids
    Workspaces,     \* workspace ids
    Nobody,         \* no task
    Intakes,        \* [Tasks -> SUBSET Intake]: what may be submitted as a task
    Paths,          \* expected paths
    MaxConcurrent,  \* policy.maxConcurrentTasks
    MaxRepairs,     \* policy.maxRepairAttempts
    MaxInfra,       \* policy.maxInfrastructureRetries
    MaxResumes,     \* policy.maxHumanResumes
    MaxReviews,     \* policy.maxReviewRetries
    MaxConts,       \* policy.maxAvailabilityContinuations
    MaxReplans,     \* policy.maxReplans
    MaxFaults,      \* bound: answers other than the good one
    MaxOrders,      \* bound: cancels, pauses and handbacks
    MaxCrashes      \* bound: restarts of the process

Intake == [risk : {"green", "red"}, readOnly : BOOLEAN, ws : Workspaces,
           paths : SUBSET Paths, deps : SUBSET Tasks]

ASSUME LoopAssumption ==
    /\ IsFiniteSet(Tasks) /\ Nobody \notin Tasks
    /\ \A t \in Tasks : Intakes[t] \subseteq Intake
    /\ MaxFaults \in Nat /\ MaxOrders \in Nat /\ MaxCrashes \in Nat

VARIABLES
    task,       \* the loop's task records
    holder,     \* the lease registry: workspace -> task
    at,         \* the handler in progress
    queue,      \* posted events that wait (their order is not kept)
    procs,      \* Worker processes alive: <<task, run>>
    granted,    \* the approval store: <<task, phase, binding>> approved
    saved,      \* the last checkpoint
    latched,    \* persistenceFailed: saves are skipped from now on
    skipped,    \* history: some save was skipped
    started,    \* history: Worker runs ever started: <<task, run, contract>>
    pushed,     \* history: contents ever pushed: <<task, content>>
    faults, orders, crashes   \* budgets left

loopVars == <<task, holder, at, queue>>
storeVars == <<saved, latched, skipped>>
worldVars == <<procs, granted, started, pushed>>
vars == <<task, holder, at, queue, procs, granted, saved, latched, skipped,
          started, pushed, faults, orders, crashes>>

NoIntake == [risk |-> "green", readOnly |-> FALSE, ws |-> Nobody, paths |-> {}, deps |-> {}]

TerminalStates == {"complete", "failed", "cancelled"}
TerminalStatuses == {"accepted", "blocked"}
Repairable == {"running", "pr_opened", "qa_running"}

(* A task record.  "run" is runCount and workerExecutions, which always    *)
(* move together; "contract" numbers the distinct contracts a run of the   *)
(* task was given; "evidence" is the content a commit approval is bound to *)
(* and "receipt" the content of the last push, both named by the run that  *)
(* produced it; "waits" holds the non-null ones of pendingRepair,          *)
(* pendingRetry, the continuation kept in pendingRetry, pendingReview,     *)
(* pendingDiagnosis, availabilityPause and humanDecisionRequest.           *)
Absent == [state |-> "none", status |-> "none", kind |-> NoIntake, seq |-> 0,
           planned |-> FALSE, running |-> FALSE, effect |-> "none",
           run |-> 0, contract |-> 0, result |-> FALSE, attempt |-> 0,
           round |-> 1, infra |-> 0, reviews |-> 0, conts |-> 0,
           replans |-> 0, phase |-> "none", waits |-> {}, evidence |-> 0,
           receipt |-> 0, pr |-> FALSE, qa |-> 0, paused |-> FALSE]

Exists(t) == task[t].state # "none"
Terminal(r) == r.status \in TerminalStatuses
Red(r) == r.kind.risk = "red"
Leased(t) == Exists(t) /\ holder[task[t].kind.ws] = t
InFlight(r) == r.planned /\ ~Terminal(r)
Conflict(r, q) == r.kind.paths \cap q.kind.paths # {}
MaxExecutions(r) == 1 + MaxRepairs * r.round + MaxInfra + r.conts
MaxRuns == 1 + MaxRepairs * (1 + MaxResumes) + MaxInfra + MaxConts + MaxFaults
Contracts == 1..MaxRuns

(* The handler in progress: its place, the task of its event (Nobody for a *)
(* tick and for resume()), the task in hand, what a tick or resume() has   *)
(* still to work off, the tasks the tick saw, what is about to be launched.*)
Idle == [pc |-> "idle", ev |-> Nobody, t |-> Nobody, todo |-> <<>>,
         seen |-> Absent, launch |-> "none", explicit |-> FALSE, resuming |-> FALSE]
Down == [Idle EXCEPT !.pc = "down"]
Handler(t, pc) == [Idle EXCEPT !.pc = pc, !.ev = t, !.t = t]
Ending(t) == Handler(t, "end")

(* Nobody reaches the loop before resume() is done.                        *)
Serving == at # Down /\ ~at.resuming

(* Where a handler goes after its last step: a tick takes its next         *)
(* decision (an availability event has none left), resume() its next task, *)
(* any other event ends.                                                   *)
Return == IF at.ev = Nobody THEN [at EXCEPT !.pc = "deciding", !.t = Nobody]
          ELSE Ending(at.ev)

Init ==
    /\ task = [t \in Tasks |-> Absent]
    /\ holder = [w \in Workspaces |-> Nobody]
    /\ at = Idle
    /\ queue = {}
    /\ procs = {} /\ granted = {} /\ started = {} /\ pushed = {}
    /\ saved = [t \in Tasks |-> Absent]
    /\ latched = FALSE /\ skipped = FALSE
    /\ faults = MaxFaults
    /\ orders = MaxOrders
    /\ crashes = MaxCrashes

Fault == faults > 0 /\ faults' = faults - 1

Good == UNCHANGED faults

Order == orders > 0 /\ orders' = orders - 1

----------------------------------------------------------------------------
(* Building blocks of the handlers.                                        *)

(* persistOrThrow when the write succeeds, or is skipped.                  *)
Save(tasks) ==
    /\ saved' = IF latched THEN saved ELSE tasks
    /\ skipped' = (skipped \/ (latched /\ tasks # saved))
    /\ UNCHANGED latched

(* block(): no effect on a task whose status is terminal.                  *)
Blocked(r) ==
    IF Terminal(r) THEN r
    ELSE [r EXCEPT !.status = "blocked",
                   !.state = IF @ \in TerminalStates THEN @ ELSE "failed"]

(* Mutant: the lease is freed without a look at its holder.                *)
ReleaseAny(t, h) == [w \in Workspaces |-> Nobody]

Release(t, h) == [w \in Workspaces |-> IF h[w] = t THEN Nobody ELSE h[w]]

(* The task in hand gets record r, is blocked, and the handler goes on.    *)
StopAs(r, next) ==
    /\ task' = [task EXCEPT ![at.t] = Blocked(r)]
    /\ holder' = IF Terminal(r) THEN holder ELSE Release(at.t, holder)
    /\ queue' = IF Terminal(r) THEN queue ELSE queue \cup {<<"tick">>}
    /\ at' = next

Stop(next) == StopAs(task[at.t], next) /\ UNCHANGED <<worldVars, storeVars>>

(* The task in hand gets record r and nothing else changes.                *)
Become(r, next) ==
    /\ task' = [task EXCEPT ![at.t] = r]
    /\ at' = next
    /\ UNCHANGED <<holder, queue, worldVars, storeVars>>

Suspend(pc) == Become(task[at.t], [at EXCEPT !.pc = pc])

(* The process is gone, and what it had in memory.                         *)
Gone ==
    /\ at' = Down
    /\ task' = [t \in Tasks |-> Absent]
    /\ holder' = [w \in Workspaces |-> Nobody]
    /\ queue' = {}

(* An error escapes from a handler: the task of the event is blocked, and  *)
(* nothing is saved; a tick has no task; out of resume() the process does  *)
(* not start.                                                              *)
Throws(r) ==
    IF at.resuming THEN Gone
    ELSE IF at.ev = Nobody
    THEN task' = [task EXCEPT ![at.t] = r] /\ at' = Idle /\ UNCHANGED <<holder, queue>>
    ELSE StopAs(r, Idle)

(* awaitApproval, awaitReview, awaitManagerDiagnosis,                      *)
(* pauseForAvailability: none of them looks at the status it replaces.     *)
AwaitApproval(r, phase) == [r EXCEPT !.status = "needs_human_approval", !.phase = phase]
AwaitInfrastructure(r, what) ==
    [r EXCEPT !.status = "waiting_infrastructure", !.waits = @ \cup {what}]
AwaitWorker(r) == [r EXCEPT !.status = "waiting_worker", !.waits = @ \cup {"pause"}]

AwaitDecision(r) ==
    IF Terminal(r) THEN r
    ELSE [r EXCEPT !.status = "needs_human_decision", !.waits = @ \cup {"decision"}]

Working(r) == IF r.attempt > 0 THEN "repair_requested" ELSE "running"

(* Mutant: the last approval is bound to the contract, not the content.    *)
BindingOfContract(r, phase) == IF phase = "commit_publish" THEN r.evidence ELSE r.contract

(* The binding an approval of this phase must name.                        *)
Binding(r, phase) ==
    CASE phase = "pre_execution" -> r.contract
      [] phase = "commit_publish" -> r.evidence
      [] OTHER -> r.receipt
(* Mutant: an approval holds for the task, whatever it was bound to.       *)
ApprovedOnce(t, phase) == \E x \in granted : x[1] = t /\ x[2] = phase

Approved(t, phase) == <<t, phase, Binding(task[t], phase)>> \in granted

(* Mutant: the Worker starts and the intent is saved with the event.       *)
StartRunUnsaved(r) ==
    LET s == [r EXCEPT !.run = @ + 1, !.running = TRUE, !.effect = "worker"]
    IN  /\ task' = [task EXCEPT ![at.t] = s]
        /\ procs' = procs \cup {<<at.t, s.run>>}
        /\ started' = started \cup {<<at.t, s.run, s.contract>>}
        /\ at' = Return
        /\ Good
        /\ UNCHANGED <<holder, queue, granted, pushed, storeVars>>

(* startRun for the task in hand with record r: the intent is saved before *)
(* the Worker starts; a failed save starts nothing.                        *)
StartRun(r) ==
    LET t == at.t
        s == [r EXCEPT !.run = @ + 1, !.running = TRUE, !.effect = "worker"]
    IN  \/ /\ r.run >= MaxExecutions(r)
           /\ StopAs(r, Return)
           /\ Good
           /\ UNCHANGED <<worldVars, storeVars>>
        \/ /\ r.run < MaxExecutions(r)
           /\ task' = [task EXCEPT ![t] = s]
           /\ Save(task')
           /\ procs' = procs \cup {<<t, s.run>>}
           /\ started' = started \cup {<<t, s.run, s.contract>>}
           /\ at' = Return
           /\ Good
           /\ UNCHANGED <<holder, queue, granted, pushed>>
        \/ /\ r.run < MaxExecutions(r) /\ ~latched
           /\ Fault
           /\ Throws(s)
           /\ UNCHANGED <<worldVars, storeVars>>

(* A side effect other than a Worker: its intent is saved, then it is      *)
(* awaited at pc.                                                          *)
Intend(r, effect, pc) ==
    LET s == [r EXCEPT !.effect = effect]
    IN  \/ /\ task' = [task EXCEPT ![at.t] = s]
           /\ Save(task')
           /\ at' = [at EXCEPT !.pc = pc]
           /\ UNCHANGED <<holder, queue, worldVars, faults>>
        \/ /\ ~latched /\ Fault
           /\ Throws(s)
           /\ UNCHANGED <<worldVars, storeVars>>

----------------------------------------------------------------------------
(* Intake, scheduling and dispatch.                                        *)

(* A task arrives under an id that was not used before, and a tick follows.*)
Fresh(t) == ~Exists(t) /\ t \notin {s[1] : s \in started} \cup {g[1] : g \in granted}

TaskCreated(t, kind) ==
    LET r == [Absent EXCEPT !.state = "routed", !.status = "queued", !.kind = kind,
                            !.contract = 1,
                            !.seq = 1 + Cardinality({s \in Tasks : Exists(s)})]
    IN  /\ at = Idle /\ Fresh(t)
        /\ task' = [task EXCEPT ![t] =
               IF Red(r) THEN AwaitApproval([r EXCEPT !.state = "awaiting_approval"],
                                            "pre_execution")
               ELSE [r EXCEPT !.state = "queued"]]
        /\ queue' = queue \cup {<<"tick">>}
        /\ at' = Ending(t)
        /\ UNCHANGED <<holder, worldVars, storeVars, faults, orders, crashes>>

(* decideSchedule over the tasks a tick saw.  In each test the tasks that  *)
(* come earlier in the queue's order count as if they were dispatched.     *)
Ready(seen, t) ==
    \A d \in seen[t].kind.deps : d \in DOMAIN seen /\ seen[d].status = "accepted"

DependencyFailed(seen, t) ==
    \E d \in seen[t].kind.deps : d \notin DOMAIN seen \/ seen[d].status = "blocked"

Candidates(seen) ==
    {t \in DOMAIN seen : ~InFlight(seen[t]) /\ ~Terminal(seen[t]) /\ seen[t].state = "queued"}

Before(seen, s, t) ==
    \/ Ready(seen, s) /\ ~Ready(seen, t)
    \/ Ready(seen, s) = Ready(seen, t) /\ seen[s].seq < seen[t].seq

Reserving(seen, t) ==
    {s \in DOMAIN seen : InFlight(seen[s])}
      \cup {s \in Candidates(seen) : /\ s # t /\ Before(seen, s, t) /\ Ready(seen, s)
                                     /\ seen[s].run < MaxExecutions(seen[s])}

Clear(seen, t) ==
    /\ Ready(seen, t) /\ seen[t].run < MaxExecutions(seen[t])
    /\ holder[seen[t].kind.ws] \in {t, Nobody}
    /\ \A s \in Reserving(seen, t) : seen[s].kind.ws # seen[t].kind.ws /\ ~Conflict(seen[s], seen[t])

Active(seen, t) ==
    Cardinality({s \in DOMAIN seen : InFlight(seen[s])}
                  \cup {s \in Candidates(seen) : Clear(seen, s) /\ Before(seen, s, t)})

Decision(seen, ready, t) ==
    IF DependencyFailed(seen, t) \/ seen[t].run >= MaxExecutions(seen[t]) THEN "block"
    ELSE IF ~Clear(seen, t) THEN "wait"
    ELSE IF Active(seen, t) >= MaxConcurrent THEN "keep"
    ELSE IF ready THEN "dispatch"
    ELSE "wait"

Decisions(seen, ready) ==
    {ds \in [1..Cardinality(Candidates(seen)) ->
               {<<t, Decision(seen, ready, t)>> : t \in Candidates(seen)}] :
        /\ {ds[i][1] : i \in DOMAIN ds} = Candidates(seen)
        /\ \A i, j \in DOMAIN ds : i < j => Before(seen, ds[i][1], ds[j][1])}

(* A tick looks at every task that is not paused, then waits for the       *)
(* runtime's answer.                                                       *)
TickStarts ==
    /\ at = Idle /\ <<"tick">> \in queue
    /\ queue' = queue \ {<<"tick">>}
    /\ at' = [Idle EXCEPT !.pc = "reconcile",
                 !.seen = [t \in {s \in Tasks : Exists(s) /\ ~task[s].paused} |-> task[t]]]
    /\ UNCHANGED <<task, holder, worldVars, storeVars, faults, orders, crashes>>

TickDecides ==
    /\ at.pc = "reconcile"
    /\ \E ready \in BOOLEAN : \E ds \in Decisions(at.seen, ready) :
           /\ at' = [at EXCEPT !.pc = "deciding", !.seen = Absent, !.todo = ds]
           /\ IF ready THEN Good ELSE Fault
    /\ UNCHANGED <<task, holder, queue, worldVars, storeVars, orders, crashes>>

(* The runtime stopped under the Workers: their tasks fail.                *)
TickInterrupted ==
    LET Lost == {t \in Tasks : task[t].running /\ ~Terminal(task[t])}
    IN  /\ at.pc = "reconcile" /\ Lost # {}
        /\ Fault
        /\ task' = [t \in Tasks |-> IF t \in Lost THEN Blocked(task[t]) ELSE task[t]]
        /\ holder' = [w \in Workspaces |-> IF holder[w] \in Lost THEN Nobody ELSE holder[w]]
        /\ procs' = {p \in procs : p[1] \notin Lost}
        /\ queue' = queue \cup {<<"tick">>}
        /\ at' = Ending(Nobody)
        /\ UNCHANGED <<granted, started, pushed, storeVars, orders, crashes>>

(* The next decision of a tick; only the task's status is looked at again. *)
Decide ==
    LET t == Head(at.todo)[1]
        rest == [at EXCEPT !.todo = Tail(@)]
    IN  /\ at.pc = "deciding" /\ at.todo # <<>>
        /\ \/ /\ Terminal(task[t])
              /\ at' = rest
              /\ UNCHANGED <<task, holder, queue>>
           \/ /\ ~Terminal(task[t]) /\ Head(at.todo)[2] = "dispatch"
              /\ at' = [rest EXCEPT !.pc = "base", !.t = t]
              /\ UNCHANGED <<task, holder, queue>>
           \/ /\ ~Terminal(task[t]) /\ Head(at.todo)[2] \in {"wait", "keep"}
              /\ task' = [task EXCEPT ![t].status =
                             IF Head(at.todo)[2] = "keep" THEN "queued" ELSE "waiting"]
              /\ at' = rest
              /\ UNCHANGED <<holder, queue>>
           \/ /\ ~Terminal(task[t]) /\ Head(at.todo)[2] = "block"
              /\ task' = [task EXCEPT ![t] = Blocked(@)]
              /\ holder' = Release(t, holder)
              /\ queue' = queue \cup {<<"tick">>}
              /\ at' = rest
        /\ UNCHANGED <<worldVars, storeVars, faults, orders, crashes>>

TickEnds ==
    /\ at.pc = "deciding" /\ at.todo = <<>>
    /\ at' = [at EXCEPT !.pc = "end"]
    /\ UNCHANGED <<task, holder, queue, worldVars, storeVars, faults, orders, crashes>>

(* Mutant: the planner trusts the scheduler's look at the other branches.  *)
DispatchPlansUnchecked ==
    LET w == task[at.t].kind.ws IN
    /\ at.pc = "base" /\ holder[w] \in {at.t, Nobody}
    /\ task' = [task EXCEPT ![at.t].planned = TRUE]
    /\ holder' = [holder EXCEPT ![w] = at.t]
    /\ at' = [at EXCEPT !.pc = "prepare"]
    /\ UNCHANGED <<queue, worldVars, storeVars, faults, orders, crashes>>

(* dispatch: the base is known; the branch is planned against the work     *)
(* that is active now, and the workspace is leased.                        *)
DispatchPlans ==
    LET t == at.t
        w == task[t].kind.ws
        Busy == \E s \in Tasks \ {t} : InFlight(task[s]) /\ Conflict(task[s], task[t])
    IN  /\ at.pc = "base"
        /\ \/ /\ Busy \/ holder[w] \notin {t, Nobody}
              /\ Become([task[t] EXCEPT !.status = "waiting"], Return)
              /\ Good
           \/ /\ ~Busy /\ holder[w] \in {t, Nobody}
              /\ task' = [task EXCEPT ![t].planned = TRUE]
              /\ holder' = [holder EXCEPT ![w] = t]
              /\ at' = [at EXCEPT !.pc = "prepare"]
              /\ Good
              /\ UNCHANGED <<queue, worldVars, storeVars>>
           \/ Fault /\ Stop(Return)
        /\ UNCHANGED <<orders, crashes>>

(* The branch is created, the workspace prepared and checked, and for a    *)
(* red task the stored approval is looked up; then the Worker starts.      *)
DispatchStarts ==
    LET t == at.t
        r == task[t]
        moved == [r EXCEPT !.planned = FALSE, !.replans = @ + 1]
    IN  /\ at.pc = "prepare"
        /\ \/ Fault /\ Stop(Return)
           \/ /\ Fault                              \* the base moved
              /\ IF moved.replans > MaxReplans THEN StopAs(moved, Return)
                 ELSE /\ task' = [task EXCEPT ![t] = [moved EXCEPT !.status = "queued"]]
                      /\ holder' = Release(t, holder)
                      /\ queue' = queue \cup {<<"tick">>}
                      /\ at' = Return
              /\ UNCHANGED <<worldVars, storeVars>>
           \/ /\ Red(r) /\ ~Approved(t, "pre_execution")
              /\ Good /\ Stop(Return)
           \/ /\ r.state # "queued" /\ (Red(r) => Approved(t, "pre_execution"))
              \* cancelled meanwhile: move throws
              /\ Good /\ Throws(r)
              /\ UNCHANGED <<worldVars, storeVars>>
           \/ /\ r.state = "queued" /\ (Red(r) => Approved(t, "pre_execution"))
              /\ StartRun([r EXCEPT !.state = "running", !.status = "running"])
        /\ UNCHANGED <<orders, crashes>>

----------------------------------------------------------------------------
(* Worker runs and what the Manager makes of them.                         *)

(* A Worker process ends and reports to the loop, if the loop still runs.  *)
WorkerExits(t, n) ==
    /\ <<t, n>> \in procs
    /\ procs' = procs \ {<<t, n>>}
    /\ queue' = IF at = Down \/ ~task[t].running \/ task[t].run # n THEN queue
                ELSE queue \cup {<<"done", t, n>>}
    /\ UNCHANGED <<task, holder, at, granted, started, pushed, storeVars, faults, orders, crashes>>

(* onRunDone up to the evidence recorder.                                  *)
RunDone(t, n) ==
    LET r == [task[t] EXCEPT !.running = FALSE, !.effect = "none"]
    IN  /\ at = Idle /\ <<"done", t, n>> \in queue
        /\ queue' = queue \ {<<"done", t, n>>}
        /\ \/ /\ task[t].run # n \/ ~task[t].running
              /\ at' = Ending(t)
              /\ UNCHANGED <<task, holder>>
           \/ /\ task[t].run = n /\ task[t].running
              /\ IF Terminal(r) THEN task' = [task EXCEPT ![t] = r] /\ at' = Ending(t) /\ UNCHANGED holder
                 ELSE IF ~Leased(t) \/ ~r.planned
                 THEN task' = [task EXCEPT ![t] = Blocked(r)] /\ at' = Ending(t)
                      /\ holder' = Release(t, holder)
                 ELSE task' = [task EXCEPT ![t] = [r EXCEPT !.result = TRUE]]
                      /\ at' = Handler(t, "record") /\ UNCHANGED holder
        /\ UNCHANGED <<worldVars, storeVars, faults, orders, crashes>>

(* Mutant: nobody is told.                                                 *)
AcceptSilently(r) ==
    /\ task' = [task EXCEPT ![at.t] = [r EXCEPT !.state = "complete", !.status = "accepted"]]
    /\ holder' = Release(at.t, holder)
    /\ at' = Return
    /\ UNCHANGED <<queue, worldVars, storeVars>>

(* accept(): the workspace is free, and whoever waits for it is woken.     *)
Accept(r) ==
    /\ task' = [task EXCEPT ![at.t] = [r EXCEPT !.state = "complete", !.status = "accepted"]]
    /\ holder' = Release(at.t, holder)
    /\ queue' = queue \cup {<<"tick">>}
    /\ at' = Return
    /\ UNCHANGED <<worldVars, storeVars>>

(* evaluate, managerStep and applyStep for the task in hand with record r. *)
(* A fresh result of a task with a pull request is judged like that of a   *)
(* running task; otherwise the last QA decision counts.  The worst finding *)
(* wins: stop, ask for the approval, repair, accept.                       *)
NeedsRepair(r) ==
    IF r.attempt < MaxRepairs THEN Become(r, [at EXCEPT !.pc = "diagnose"])
    ELSE Become(AwaitDecision(r), Return)

Judge(r, fresh) ==
    LET from == IF fresh /\ r.pr THEN "running" ELSE r.state
        unapproved == Red(r) /\ <<at.t, "pre_execution", r.contract>> \notin granted
                        /\ from \in Repairable
        qaFailed == from = "qa_running" /\ r.qa # r.receipt
        passed == [r EXCEPT !.state = "qa_passed"]
        Final == IF Red(r)
                 THEN Become(AwaitApproval([r EXCEPT !.state = "awaiting_approval"], "post_qa"), Return)
                 ELSE Accept(passed)
        StopHere == StopAs(r, Return) /\ UNCHANGED <<worldVars, storeVars>>
    IN  \/ Fault /\ StopHere
        \/ /\ Fault /\ fresh /\ ~Red(r)            \* the observed risk is red
           /\ Become(AwaitApproval([r EXCEPT !.kind.risk = "red"], "pre_execution"), Return)
        \/ Good /\ unapproved /\ Become(AwaitApproval(r, "pre_execution"), Return)
        \/ Fault /\ fresh /\ ~unapproved /\ from \in Repairable /\ NeedsRepair(r)
        \/ Good /\ ~unapproved /\ qaFailed /\ NeedsRepair(r)
        \/ /\ Good /\ ~unapproved /\ ~qaFailed
           /\ CASE from = "running" ->
                     Become(r, [at EXCEPT !.pc = IF r.kind.readOnly THEN "verify" ELSE "observe"])
                [] from \in {"qa_running", "qa_passed"} -> Final
                [] from = "awaiting_approval" -> Accept(r)
                [] OTHER -> StopHere

(* The evidence recorder and the goal reviewer have answered.  Nothing is  *)
(* asked again about the task, which may have been cancelled meanwhile.    *)
Recorded ==
    LET r == task[at.t] IN
    /\ at.pc = "record"
    /\ \/ Judge(r, TRUE)
       \/ /\ Fault                                 \* no reviewer
          /\ Become(AwaitInfrastructure(r, "review"), Return)
       \/ /\ Fault                                 \* a transient failure, or no Worker
          /\ \E pc \in {"resume"} \cup (IF r.infra < MaxInfra THEN {"retry"} ELSE {}) :
                IF Leased(at.t) THEN Suspend(pc) ELSE Stop(Return)
    /\ UNCHANGED <<orders, crashes>>

(* Entry of launchRetry, launchContinuation and launchRepair: the last     *)
(* look at the lease.                                                      *)
Launch(r, what) ==
    IF Leased(at.t) THEN Become(r, [at EXCEPT !.pc = "launch", !.launch = what])
    ELSE StopAs(r, Return) /\ UNCHANGED <<worldVars, storeVars>>

(* Mutant: the approval of the earlier contract is enough.                 *)
LaunchOrAskOnce(r, what, changed) ==
    LET n == [r EXCEPT !.contract = @ + 1] IN
    IF Red(r) /\ <<at.t, "pre_execution", r.contract>> \notin granted
    THEN Become(AwaitApproval([n EXCEPT !.waits = @ \cup {what}], "pre_execution"), Return)
    ELSE Launch(IF changed THEN n ELSE r, what)

(* A changed contract of a red task needs an approval of its own.          *)
LaunchOrAsk(r, what, changed) ==
    LET n == [r EXCEPT !.contract = @ + 1] IN
    IF Red(r) /\ (changed \/ <<at.t, "pre_execution", r.contract>> \notin granted)
    THEN Become(AwaitApproval([n EXCEPT !.waits = (@ \ {"pause"}) \cup {what}], "pre_execution"), Return)
    ELSE Launch(r, what)

(* retryInfrastructure: the head is where the interrupted run began.       *)
Retry ==
    /\ at.pc = "retry"
    /\ \/ Fault /\ Stop(Return)
       \/ Good /\ \E changed \in BOOLEAN : LaunchOrAsk(task[at.t], "retry", changed)
    /\ UNCHANGED <<orders, crashes>>

(* continueAfterAvailability: a Worker takes over, or the task pauses with *)
(* its progress; automatic re-probes are bounded.                          *)
Continue ==
    LET r == task[at.t] IN
    /\ Good
    /\ \/ Become(AwaitWorker(r), Return)
       \/ /\ at.explicit \/ r.conts < MaxConts
          /\ \E changed \in BOOLEAN : LaunchOrAsk(r, "continuation", changed)

Resume ==
    /\ at.pc = "resume"
    /\ (Fault /\ Stop(Return)) \/ Continue
    /\ UNCHANGED <<orders, crashes>>

(* A Worker is available again, by an explicit signal or by a probe.  The  *)
(* event has no task of its own: each that is paused is taken up for it.   *)
WorkerAvailable(t, explicit) ==
    /\ at = Idle /\ "pause" \in task[t].waits
    /\ at' = [Handler(t, "available") EXCEPT !.ev = Nobody, !.explicit = explicit]
    /\ UNCHANGED <<task, holder, queue, worldVars, storeVars, faults, orders, crashes>>

Available ==
    LET r == task[at.t] IN
    /\ at.pc = "available"
    /\ IF r.status = "waiting_worker" /\ "pause" \in r.waits /\ ~r.running THEN Continue
       ELSE Become(r, Return) /\ Good
    /\ UNCHANGED <<orders, crashes>>

(* The contract that waits for an approval is handed back to the other     *)
(* Worker: a new contract.                                                 *)
Handback(t) ==
    LET r == task[t] IN
    /\ at = Idle
    /\ r.status = "needs_human_approval" /\ r.phase = "pre_execution" /\ Red(r)
    /\ r.waits \cap {"repair", "retry", "continuation"} # {}
    /\ Order
    /\ task' = [task EXCEPT ![t].contract = @ + 1]
    /\ at' = Ending(Nobody)
    /\ UNCHANGED <<holder, queue, worldVars, storeVars, faults, crashes>>

(* After the workspace was looked at and the Git metadata re-bound, the    *)
(* counters advance and the Worker starts.  The task is not looked at.     *)
Launched ==
    LET r == task[at.t] IN
    /\ at.pc = "launch"
    /\ \/ Fault /\ Stop(Return)
       \/ /\ at.launch = "retry"
          /\ StartRun([r EXCEPT !.waits = @ \ {"retry"}, !.infra = @ + 1, !.status = Working(r)])
       \/ /\ at.launch = "continuation"
          /\ StartRun([r EXCEPT !.waits = @ \ {"continuation", "pause"}, !.conts = @ + 1,
                                !.status = Working(r)])
       \/ /\ at.launch = "repair"
          /\ StartRun([r EXCEPT !.waits = @ \ {"repair"}, !.attempt = @ + 1,
                                !.status = "repair_requested"])
    /\ UNCHANGED <<orders, crashes>>

(* planRepair: the GPT Manager answers with a plan, with a question for    *)
(* the owner, or not at all.                                               *)
Diagnosed ==
    LET r == task[at.t]
        d == [r EXCEPT !.waits = @ \ {"diagnosis"}, !.reviews = 0,
                       !.status = IF @ = "waiting_infrastructure" THEN Working(r) ELSE @]
    IN  /\ at.pc = "diagnose"
        /\ \/ Fault /\ Become(AwaitInfrastructure(r, "diagnosis"), Return)
           \/ Good /\ Become(AwaitDecision(d), Return)
           \/ /\ Good
              /\ IF Leased(at.t) /\ d.planned /\ d.attempt < MaxRepairs /\ d.state \in Repairable
                 THEN Become(d, [at EXCEPT !.pc = "repair"])
                 ELSE StopAs(d, Return) /\ UNCHANGED <<worldVars, storeVars>>
        /\ UNCHANGED <<orders, crashes>>

(* startRepair: a repair is always a new contract.                         *)
Repair ==
    /\ at.pc = "repair"
    /\ (Fault /\ Stop(Return)) \/ (Good /\ LaunchOrAsk(task[at.t], "repair", TRUE))
    /\ UNCHANGED <<orders, crashes>>

(* A review or a diagnosis that could not be had is asked for again.       *)
ReviewRetry(t) ==
    LET r == task[t]
        next == [r EXCEPT !.reviews = @ + 1]
    IN  /\ at = Idle
        /\ r.status = "waiting_infrastructure" /\ r.reviews < MaxReviews
        /\ r.waits \cap {"review", "diagnosis"} # {}
        /\ IF "diagnosis" \notin r.waits /\ ~Leased(t)
           THEN task' = [task EXCEPT ![t] = Blocked(r)] /\ at' = Ending(t)
           ELSE /\ task' = [task EXCEPT ![t] = next]
                /\ at' = Handler(t, IF "diagnosis" \in r.waits THEN "diagnose" ELSE "rejudge")
        /\ UNCHANGED <<holder, queue, worldVars, storeVars, faults, orders, crashes>>

Rejudged ==
    LET r == task[at.t] IN
    /\ at.pc = "rejudge"
    /\ \/ Fault /\ Become(AwaitInfrastructure(r, "review"), Return)
       \/ Judge([r EXCEPT !.waits = @ \ {"review"}, !.reviews = 0, !.status = Working(r)], TRUE)
    /\ UNCHANGED <<orders, crashes>>

(* The owner answers an escalation.  The guidance is consumed only when    *)
(* the GPT Manager could read it.                                          *)
HumanDecision(t) ==
    LET r == task[t] IN
    /\ at = Idle
    /\ r.status \in {"needs_human_decision", "waiting_infrastructure"} /\ "decision" \in r.waits
    /\ r.round <= MaxResumes /\ MaxRepairs > 0 /\ Leased(t) /\ r.planned /\ r.result
    /\ at' = Handler(t, "guidance")
    /\ UNCHANGED <<task, holder, queue, worldVars, storeVars, faults, orders, crashes>>

Guided ==
    LET r == task[at.t] IN
    /\ at.pc = "guidance"
    /\ \/ Good /\ Become(r, Return)
       \/ Fault /\ Become([r EXCEPT !.status = "waiting_infrastructure"], Return)
       \/ /\ Good
          /\ Become([r EXCEPT !.waits = @ \ {"decision"}, !.round = @ + 1, !.attempt = 0],
                    [at EXCEPT !.pc = "diagnose"])
    /\ UNCHANGED <<orders, crashes>>

----------------------------------------------------------------------------
(* Approvals, publication and QA.                                          *)

(* The owner approves exactly what the task asks for now; the loop only    *)
(* gets a notice.                                                          *)
OwnerApproves(t) ==
    /\ Serving
    /\ task[t].status = "needs_human_approval" /\ task[t].phase # "none"
    /\ granted' = granted \cup {<<t, task[t].phase, Binding(task[t], task[t].phase)>>}
    /\ granted' # granted
    /\ UNCHANGED <<loopVars, procs, started, pushed, storeVars, faults, orders, crashes>>

ApprovalNoticed(t) ==
    /\ at = Idle
    /\ task[t].status = "needs_human_approval" /\ task[t].phase # "none"
    /\ at' = Handler(t, "approval")
    /\ UNCHANGED <<task, holder, queue, worldVars, storeVars, faults, orders, crashes>>

(* onApproval after the approval store has answered.                       *)
ApprovalResolved ==
    LET t == at.t
        r == task[t]
        free == [r EXCEPT !.phase = "none"]
        Pending(what) == r.phase = "pre_execution" /\ what \in r.waits
    IN  /\ at.pc = "approval"
        /\ \/ Fault /\ Stop(Return)                                  \* rejected
           \/ ~Approved(t, r.phase) /\ Good /\ Become(r, Return)
           \/ /\ Approved(t, r.phase)
              /\ IF r.phase = "commit_publish" THEN Good /\ Suspend("publish")
                 ELSE IF \E what \in {"repair", "retry", "continuation"} : Pending(what)
                 THEN Good /\ \E what \in {"repair", "retry", "continuation"} :
                                 Pending(what) /\ Launch(free, what)
                 ELSE IF r.phase = "pre_execution" /\ r.state = "awaiting_approval"
                 THEN /\ Good
                      /\ task' = [task EXCEPT ![t] = [free EXCEPT !.state = "queued", !.status = "queued"]]
                      /\ queue' = queue \cup {<<"tick">>}
                      /\ at' = Return
                      /\ UNCHANGED <<holder, worldVars, storeVars>>
                 ELSE IF ~r.planned \/ ~r.result
                 THEN Good /\ StopAs([free EXCEPT !.status = "running"], Return)
                      /\ UNCHANGED <<worldVars, storeVars>>
                 ELSE Judge([free EXCEPT !.status = IF r.state = "awaiting_approval" THEN @
                                                    ELSE "running"], FALSE)
        /\ UNCHANGED <<orders, crashes>>

(* requestCommitApproval, when the workspace holds exactly what was judged.*)
CommitAsked ==
    LET r == task[at.t] IN
    /\ at.pc = "observe"
    /\ \/ Fault /\ Stop(Return)
       \/ /\ Good
          /\ IF Leased(at.t) /\ r.state \in {"running", "qa_running"}
             THEN Become(AwaitApproval([r EXCEPT !.evidence = r.run, !.state = "awaiting_approval"],
                                       "commit_publish"), Return)
             ELSE Stop(Return)
    /\ UNCHANGED <<orders, crashes>>

(* completeReadOnly, when the workspace is untouched.                      *)
ReadOnlyVerified ==
    LET r == task[at.t] IN
    /\ at.pc = "verify"
    /\ \/ Fault /\ Stop(Return)
       \/ Good /\ IF r.state = "running" THEN Accept(r) ELSE Stop(Return)
    /\ UNCHANGED <<orders, crashes>>

(* The approved evidence is compared with the workspace once more, and the *)
(* commit is intended.                                                     *)
Publish ==
    LET r == task[at.t] IN
    /\ at.pc = "publish"
    /\ \/ Fault /\ Stop(Return)
       \/ ~Leased(at.t) /\ Good /\ Stop(Return)
       \/ /\ Leased(at.t) /\ r.state = "awaiting_approval"
          /\ Intend([r EXCEPT !.phase = "none", !.status = "running",
                              !.state = IF r.pr THEN "qa_running" ELSE "running"],
                    "commit", "commit")
    /\ UNCHANGED <<orders, crashes>>

(* commitValidated has answered, and the push follows at once.             *)
Committed ==
    /\ at.pc = "commit"
    /\ \/ Fault /\ Stop(Return)
       \/ Intend(task[at.t], "push", "push")
    /\ UNCHANGED <<orders, crashes>>

Pushed ==
    LET t == at.t
        r == task[t]
    IN  /\ at.pc = "push"
        /\ \/ Fault /\ Stop(Return)
           \/ /\ Good
              /\ task' = [task EXCEPT ![t] = [r EXCEPT !.receipt = r.evidence, !.effect = "none"]]
              /\ pushed' = pushed \cup {<<t, r.evidence>>}
              /\ queue' = queue \cup {<<"pushed", t>>}
              /\ at' = Return
              /\ UNCHANGED <<holder, procs, granted, started, storeVars>>
        /\ UNCHANGED <<orders, crashes>>

(* onBranchPushed: QA starts over, or the pull request is opened.          *)
BranchPushed(t) ==
    /\ at = Idle /\ <<"pushed", t>> \in queue
    /\ queue' = queue \ {<<"pushed", t>>}
    /\ at' = IF Terminal(task[t]) \/ task[t].receipt = 0 \/ ~task[t].planned \/ task[t].pr
             THEN Ending(t) ELSE Handler(t, "pr")
    /\ task' = IF Terminal(task[t]) \/ ~task[t].pr THEN task
               ELSE [task EXCEPT ![t].status = "qa_pending", ![t].qa = 0]
    /\ UNCHANGED <<holder, worldVars, storeVars, faults, orders, crashes>>

OpenPr == at.pc = "pr" /\ Intend(task[at.t], "pr", "openpr") /\ UNCHANGED <<orders, crashes>>

PrOpened ==
    LET t == at.t
        r == [task[t] EXCEPT !.pr = TRUE, !.effect = "none"]
    IN  /\ at.pc = "openpr"
        /\ \/ Fault /\ Stop(Return)
           \/ /\ Good /\ r.state # "running" /\ Throws(r) /\ UNCHANGED <<worldVars, storeVars>>
           \/ /\ Good /\ r.state = "running"
              /\ task' = [task EXCEPT ![t] = [r EXCEPT !.state = "pr_opened"]]
              /\ queue' = queue \cup {<<"pr_opened", t>>}
              /\ at' = Return
              /\ UNCHANGED <<holder, worldVars, storeVars>>
        /\ UNCHANGED <<orders, crashes>>

QaStarts(t) ==
    /\ at = Idle /\ <<"pr_opened", t>> \in queue
    /\ queue' = queue \ {<<"pr_opened", t>>}
    /\ task' = IF Terminal(task[t]) \/ ~task[t].pr THEN task
               ELSE [task EXCEPT ![t].status = "qa_pending", ![t].qa = 0]
    /\ at' = Ending(t)
    /\ UNCHANGED <<holder, worldVars, storeVars, faults, orders, crashes>>

QaUpdated(t) ==
    /\ at = Idle
    /\ task[t].status = "qa_pending" /\ task[t].pr /\ task[t].receipt # 0
    /\ at' = Handler(t, "qa")
    /\ UNCHANGED <<task, holder, queue, worldVars, storeVars, faults, orders, crashes>>

(* CI is pending, never reports on the pushed head, fails on it, or passes.*)
QaRead ==
    LET r == task[at.t]
        s == [r EXCEPT !.state = IF @ = "pr_opened" THEN "qa_running" ELSE @]
    IN  /\ at.pc = "qa"
        /\ \/ Good /\ Become(s, Return)
           \/ Fault /\ StopAs(s, Return) /\ UNCHANGED <<worldVars, storeVars>>
           \/ Fault /\ NeedsRepair([s EXCEPT !.qa = 0])
           \/ Judge([s EXCEPT !.qa = r.receipt], FALSE)
        /\ UNCHANGED <<orders, crashes>>

----------------------------------------------------------------------------
(* The end of an event, the owner's direct calls, crash and restart.       *)

(* A save that fails is the last one tried; only the task of this event is *)
(* stopped for it.  At the end of resume() it keeps the process down.      *)
EventEnds ==
    LET t == at.ev IN
    /\ at.pc = "end"
    /\ \/ Save(task) /\ Good /\ at' = Idle /\ UNCHANGED <<task, holder, queue>>
       \/ at.resuming /\ Fault /\ Gone /\ UNCHANGED storeVars
       \/ /\ ~latched /\ ~at.resuming /\ Fault
          /\ latched' = TRUE /\ at' = Idle
          /\ task' = IF t = Nobody \/ ~Exists(t) THEN task
                     ELSE [task EXCEPT ![t] = [Blocked(@) EXCEPT !.status = "blocked"]]
          /\ holder' = IF t = Nobody THEN holder ELSE Release(t, holder)
          /\ queue' = IF t = Nobody \/ Terminal(task[t]) THEN queue ELSE queue \cup {<<"tick">>}
          /\ UNCHANGED <<saved, skipped>>
    /\ UNCHANGED <<worldVars, orders, crashes>>

(* cancel(): the running Worker is asked to stop, which takes its time.    *)
(* When the save fails nobody is woken.                                    *)
Cancel(t) ==
    LET r == [task[t] EXCEPT !.state = "cancelled", !.status = "blocked", !.paused = FALSE] IN
    /\ Serving /\ Exists(t) /\ ~Terminal(task[t]) /\ task[t].state \notin TerminalStates
    /\ Order
    /\ task' = [task EXCEPT ![t] = r]
    /\ holder' = Release(t, holder)
    /\ \/ Good /\ Save(task') /\ queue' = queue \cup {<<"tick">>}
       \/ ~latched /\ Fault /\ UNCHANGED <<queue, storeVars>>
    /\ UNCHANGED <<at, worldVars, crashes>>

(* pause(): "stops future dispatch only".                                  *)
Pause(t) ==
    /\ Serving /\ Exists(t) /\ ~Terminal(task[t]) /\ task[t].state \notin TerminalStates
    /\ ~task[t].running /\ ~task[t].paused
    /\ Order
    /\ task' = [task EXCEPT ![t].paused = TRUE]
    /\ \/ Good /\ Save(task')
       \/ ~latched /\ Fault /\ UNCHANGED storeVars
    /\ UNCHANGED <<holder, at, queue, worldVars, crashes>>

Crash ==
    /\ at # Down /\ crashes > 0 /\ crashes' = crashes - 1
    /\ Gone
    /\ latched' = FALSE
    /\ UNCHANGED <<worldVars, saved, skipped, faults, orders>>

(* Mutant: only what went out to GitHub counts as under way.               *)
IndeterminateOutside(t) == saved[t].effect \in {"commit", "push", "pr"}

(* A Worker or another side effect was under way when the process died.    *)
Indeterminate(t) == saved[t].running \/ saved[t].effect # "none"

(* restoreTask and resume.  A task that waits for somebody keeps waiting;  *)
(* a judgement that was not had is asked for again; a side effect that was *)
(* under way is not repeated; what was pushed, or judged, is taken up      *)
(* again, one task after the other, before anything else is served.  Two   *)
(* tasks that hold one workspace keep the process down.                    *)
StillWaits(r) ==
    \/ r.status \in {"needs_human_approval", "needs_human_decision", "qa_pending", "waiting_worker"}
    \/ r.status = "waiting_infrastructure" /\ "decision" \in r.waits

TakeUps(resent, rejudged) ==
    {ds \in [1..Cardinality(resent \cup rejudged) ->
               (resent \X {"resend"}) \cup (rejudged \X {"judge"})] :
        /\ {ds[i][1] : i \in DOMAIN ds} = resent \cup rejudged
        /\ \A i, j \in DOMAIN ds : i < j => saved[ds[i][1]].seq <= saved[ds[j][1]].seq}

Restart ==
    LET Kept == {t \in Tasks : InFlight(saved[t])}
        Live == {t \in Tasks : saved[t].state # "none" /\ ~Terminal(saved[t]) /\ ~StillWaits(saved[t])}
        Unjudged == {t \in Live : saved[t].waits \cap {"review", "diagnosis"} # {}}
        Lost == {t \in Live \ Unjudged : Indeterminate(t)}
        Rest == Live \ (Unjudged \cup Lost)
        Unsure == {t \in Rest : saved[t].receipt # 0 /\ ~saved[t].pr /\ saved[t].planned}
        Judged == {t \in Rest : saved[t].receipt = 0 /\ saved[t].result}
    IN  /\ at = Down
        /\ \A s, t \in Kept : saved[s].kind.ws = saved[t].kind.ws => s = t
        /\ task' = [t \in Tasks |-> IF t \in Unjudged THEN [saved[t] EXCEPT !.reviews = 0]
                                    ELSE IF t \in Lost THEN Blocked(saved[t]) ELSE saved[t]]
        /\ holder' = [w \in Workspaces |->
                         LET Of == {t \in Kept \ Lost : saved[t].kind.ws = w}
                         IN  IF Of = {} THEN Nobody ELSE CHOOSE t \in Of : TRUE]
        /\ queue' = {<<"tick">>}
        /\ \E todo \in TakeUps(Unsure, Judged) :
               at' = [Idle EXCEPT !.pc = "deciding", !.resuming = TRUE, !.todo = todo]
        /\ UNCHANGED <<worldVars, storeVars, faults, orders, crashes>>

TakeUp ==
    /\ at.pc = "deciding" /\ at.todo # <<>> /\ Head(at.todo)[2] \in {"resend", "judge"}
    /\ at' = IF Terminal(task[Head(at.todo)[1]]) THEN [at EXCEPT !.todo = Tail(@)]
             ELSE [at EXCEPT !.pc = Head(at.todo)[2], !.t = Head(at.todo)[1], !.todo = Tail(@)]
    /\ UNCHANGED <<task, holder, queue, worldVars, storeVars, faults, orders, crashes>>

(* The branch on GitHub is compared with the receipt, then onBranchPushed. *)
Resent ==
    /\ at.pc = "resend"
    /\ (Fault /\ Stop(Return)) \/ (Good /\ Suspend("pr"))
    /\ UNCHANGED <<orders, crashes>>

JudgedAgain == at.pc = "judge" /\ Judge(task[at.t], TRUE) /\ UNCHANGED <<orders, crashes>>

----------------------------------------------------------------------------
(* A step of the handler in progress.                                      *)
HandlerStep ==
    \/ TickDecides \/ Decide \/ TickEnds \/ DispatchPlans \/ DispatchStarts
    \/ Recorded \/ Retry \/ Resume \/ Available \/ Launched \/ Diagnosed \/ Repair
    \/ Rejudged \/ Guided \/ ApprovalResolved \/ CommitAsked \/ ReadOnlyVerified
    \/ Publish \/ Committed \/ Pushed \/ OpenPr \/ PrOpened \/ QaRead
    \/ TakeUp \/ Resent \/ JudgedAgain \/ EventEnds

(* The loop takes an event it posted itself.                               *)
EventTaken ==
    \/ TickStarts
    \/ \E t \in Tasks : \/ BranchPushed(t) \/ QaStarts(t)
                         \/ \E n \in 1..MaxRuns : RunDone(t, n)

(* Events from outside: submissions, notices, timers, the owner's words.   *)
Outside ==
    \E t \in Tasks :
        \/ \E kind \in Intakes[t] : TaskCreated(t, kind)
        \/ \E explicit \in BOOLEAN : WorkerAvailable(t, explicit)
        \/ Handback(t) \/ ReviewRetry(t) \/ HumanDecision(t)
        \/ OwnerApproves(t) \/ ApprovalNoticed(t) \/ QaUpdated(t)

WorkerEnds == \E t \in Tasks, n \in 1..MaxRuns : WorkerExits(t, n)

Next ==
    \/ HandlerStep \/ EventTaken \/ Outside \/ WorkerEnds
    \/ TickInterrupted
    \/ \E t \in Tasks : Cancel(t) \/ Pause(t)
    \/ Crash \/ Restart

Spec == Init /\ [][Next]_vars

(* A handler goes on; the events the loop posted are taken first come,     *)
(* first served, so other events cannot keep one waiting for ever; Workers *)
(* have a wall-clock limit (workers/limits.ts); the process is started     *)
(* again.                                                                  *)
FairSpec ==
    /\ Spec
    /\ WF_vars(HandlerStep) /\ SF_vars(TickStarts)
    /\ SF_vars(\E t \in Tasks, n \in 1..MaxRuns : RunDone(t, n))
    /\ WF_vars(WorkerEnds) /\ WF_vars(Restart)

----------------------------------------------------------------------------
(* Types.                                                                  *)
States == {"none", "routed", "queued", "running", "awaiting_approval", "pr_opened", "qa_running",
           "qa_passed", "complete", "failed", "cancelled"}
Statuses == {"none", "queued", "waiting", "running", "repair_requested", "needs_human_approval",
             "needs_human_decision", "waiting_infrastructure", "waiting_worker", "qa_pending",
             "accepted", "blocked"}
Phases == {"none", "pre_execution", "commit_publish", "post_qa"}
Waits == {"repair", "retry", "continuation", "review", "diagnosis", "pause", "decision"}
Task == [state : States, status : Statuses, kind : {NoIntake} \cup Intake, seq : Nat,
         planned : BOOLEAN, running : BOOLEAN, effect : {"none", "worker", "commit", "push", "pr"},
         run : Nat, contract : Nat, result : BOOLEAN, attempt : Nat, round : Nat, infra : Nat,
         reviews : Nat, conts : Nat, replans : Nat, phase : Phases, waits : SUBSET Waits,
         evidence : Nat, receipt : Nat, pr : BOOLEAN, qa : Nat, paused : BOOLEAN]

Events == {<<"tick">>} \cup ({"pushed", "pr_opened"} \X Tasks)
            \cup ({"done"} \X Tasks \X Nat)

(* Every variable keeps its type.                                          *)
TypeOK ==
    /\ task \in [Tasks -> Task]
    /\ holder \in [Workspaces -> Tasks \cup {Nobody}]
    /\ queue \subseteq Events
    /\ procs \subseteq Tasks \X Nat
    /\ granted \subseteq Tasks \X Phases \X Nat
    /\ saved \in [Tasks -> Task]
    /\ latched \in BOOLEAN /\ skipped \in BOOLEAN
    /\ started \subseteq Tasks \X Nat \X Nat
    /\ pushed \subseteq Tasks \X Nat
    /\ faults \in Nat /\ orders \in Nat /\ crashes \in Nat

----------------------------------------------------------------------------
(* Correctness.                                                            *)

(* While a task that is neither cancelled nor blocked has a Worker         *)
(* running, it holds the lease of its workspace: whatever was cancelled,   *)
(* paused or restarted meanwhile, no Worker writes where another task may  *)
(* be let in (githubWrite/lease.ts).                                       *)
WorkerHoldsLease ==
    \A t \in Tasks :
        task[t].running /\ ~Terminal(task[t]) /\ task[t].state \notin TerminalStates => Leased(t)

(* Types, and the lease of every running Worker.                           *)
LeaseSound == TypeOK /\ WorkerHoldsLease

(* What is pushed is content whose own digest the owner approved, even if  *)
(* the task was judged, repaired and approved again in between             *)
(* (requestCommitApproval, currentCommitApprovalEvidence, commitAndPush).  *)
PublishedAsApproved == \A p \in pushed : <<p[1], "commit_publish", p[2]>> \in granted

(* No Worker starts on a red task with a contract the owner has not        *)
(* approved, be it a first run, a repair, a retry or a continuation        *)
(* (startRun, authorizeWorkerContract).                                    *)
RedStartsApproved ==
    [][\A s \in started' \ started :
          Red(task[s[1]]) => <<s[1], "pre_execution", s[3]>> \in granted]_vars

(* An accepted task either touched nothing and was read-only, or what its  *)
(* last run left is what was pushed and what CI passed; a red one also has *)
(* the owner's approval of that content (evaluate, applyStep, onApproval). *)
AcceptedMeansChecked ==
    \A t \in Tasks :
        LET r == task[t] IN
        r.status = "accepted" =>
            \/ r.kind.readOnly /\ ~\E p \in pushed : p[1] = t
            \/ /\ r.pr /\ r.receipt = r.run /\ r.qa = r.receipt /\ <<t, r.receipt>> \in pushed
               /\ Red(r) => <<t, "post_qa", r.receipt>> \in granted

(* Two tasks with overlapping paths are never both in flight: the          *)
(* scheduler decides on what it saw, so the branch planner looks again     *)
(* (decideSchedule, dispatch, planBranch).                                 *)
ConflictsApart ==
    \A s, t \in Tasks :
        s # t /\ InFlight(task[s]) /\ InFlight(task[t]) => ~Conflict(task[s], task[t])

(* A Worker run is started once: not again after a restart, unless a save  *)
(* was skipped (startRun, resume: "refusing to repeat it").                *)
RunsOnce ==
    [][\A t \in Tasks, n \in 1..MaxRuns :
          <<t, n>> \in procs' \ procs /\ ~skipped' => \A s \in started : <<s[1], s[2]>> # <<t, n>>]_vars

(* As long as nothing but cancels, pauses and crashes goes wrong, a task   *)
(* that could be dispatched is not forgotten: whoever frees its workspace, *)
(* its dependency or a slot posts the tick that finds it (accept, block,   *)
(* cancel, onApproval, resume).                                            *)
Seen == [t \in {s \in Tasks : Exists(s) /\ ~task[s].paused} |-> task[t]]
Dispatchable(t) ==
    /\ t \in DOMAIN Seen /\ t \in Candidates(Seen)
    /\ Decision(Seen, TRUE, t) = "dispatch"
NotForgotten ==
    \A t \in Tasks : (faults = MaxFaults /\ Dispatchable(t)) ~> (faults # MaxFaults \/ ~Dispatchable(t))

(* Likewise a task does not stay running after its Worker is gone, even    *)
(* when the process was restarted in between (onRunDone, resume).          *)
Runs(t) == task[t].running /\ ~Terminal(task[t])
RunsEnd ==
    \A t \in Tasks : (faults = MaxFaults /\ Runs(t)) ~> (faults # MaxFaults \/ ~Runs(t))

(* "Stops future work": no Worker starts for a task that was cancelled     *)
(* (loop.ts, ManagerLoop.cancel).                                          *)
CancelStopsWork ==
    [][\A s \in started' \ started : task[s[1]].state # "cancelled"]_vars

============================================================================
