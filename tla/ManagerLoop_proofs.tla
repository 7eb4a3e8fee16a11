-------------------------- MODULE ManagerLoop_proofs --------------------------
(***************************************************************************)
(* Theorems about the Manager Loop, for any number of tasks, faults and    *)
(* restarts, whatever is cancelled, paused or answered meanwhile: what is  *)
(* pushed was approved as it is, no Worker starts on a red task with a     *)
(* contract the owner has not approved, no two tasks in flight have        *)
(* overlapping paths, a running Worker has the lease of its workspace, an  *)
(* accepted task is what was pushed, checked and approved, and no run is   *)
(* started twice.                                                          *)
(*                                                                         *)
(* The first two follow from one fact: from the moment the loop has looked *)
(* at an approval until it acts on it, the handler in progress keeps the   *)
(* record it looked at.  Most steps are quiet, they leave the handler at a *)
(* place where nothing is about to be published or started; four are not:  *)
(* LaunchOrAsk, ApprovalResolved, Publish and Committed.                   *)
(*                                                                         *)
(* The third needs more than the tasks in flight: a task that is cancelled *)
(* in the middle of its handler leaves the flight, and may be put back     *)
(* into it by that same handler, so it counts until the handler is done.   *)
(*                                                                         *)
(* The others rest on LInv: which combinations of state, status, phase,    *)
(* waits, results and receipts a record can have (Lives), what posted      *)
(* events and leases say about it, and what the handler at each place      *)
(* still knows of the record in hand (Held, Fit), although the owner may   *)
(* have cancelled the task since.  Numbered adds that the saved records    *)
(* know of every run, from which it follows that none is started twice.    *)
(***************************************************************************)
EXTENDS ManagerLoop, FiniteSetTheorems, SequenceTheorems, TLAPS

(* The fields of a record that the theorems are about.                     *)
Shaped(r) ==
    /\ {"evidence", "contract", "kind", "planned", "status"} \subseteq DOMAIN r
    /\ "paths" \in DOMAIN r.kind

Records(f) == DOMAIN f = Tasks /\ \A t \in Tasks : Shaped(f[t])

(* Places where the loop is about to act on an approval, and those at      *)
(* which the handler has no task in hand.                                  *)
Armed == {"launch", "publish", "commit", "push"}
Handless == {"idle", "down", "end", "deciding", "reconcile"}

(* What a tick decides about a task, and what resume() does with one.      *)
Moves == {"dispatch", "wait", "keep", "block", "resend", "judge"}

Place(a) ==
    /\ DOMAIN a = {"pc", "ev", "t", "todo", "seen", "launch", "explicit", "resuming"}
    /\ a.todo \in Seq(Tasks \X Moves)
    /\ a.pc = "reconcile" => DOMAIN a.seen \subseteq Tasks
    /\ a.pc \notin Handless => a.t \in Tasks

Calm(a) == Place(a) /\ a.pc \notin Armed

(* The record in hand is the one whose approval was looked at.             *)
LaunchHeld ==
    at.pc = "launch" /\ Red(task[at.t]) => <<at.t, "pre_execution", task[at.t].contract>> \in granted
PublishHeld ==
    at.pc \in {"publish", "commit", "push"} => <<at.t, "commit_publish", task[at.t].evidence>> \in granted

(* A task whose handler found it in flight, or is about to plan it.  A     *)
(* handler at "available" has not looked at its task yet.                  *)
Seated(t) ==
    at.t = t /\ at.pc \notin Handless /\ (at.pc = "available" => ~Terminal(task[t]))
Engaged(t) == task[t].planned /\ (~Terminal(task[t]) \/ Seated(t))

EngagedApart ==
    \A s, t \in Tasks : s # t /\ Engaged(s) /\ Engaged(t) => ~Conflict(task[s], task[t])
SavedApart ==
    \A s, t \in Tasks : s # t /\ InFlight(saved[s]) /\ InFlight(saved[t]) => ~Conflict(saved[s], saved[t])

(* The inductive invariant.                                                *)
IInv ==
    /\ Records(task) /\ Records(saved)
    /\ Place(at)
    /\ LaunchHeld /\ PublishHeld
    /\ PublishedAsApproved
    /\ EngagedApart /\ SavedApart

StartsApproved ==
    \A s \in started' \ started :
        Red(task[s[1]]) => <<s[1], "pre_execution", s[3]>> \in granted

(* What every step must come to.                                           *)
Sound == IInv' /\ StartsApproved

Quiet ==
    /\ Records(task') /\ Records(saved') /\ Calm(at')
    /\ EngagedApart' /\ SavedApart'
    /\ granted \subseteq granted' /\ pushed' = pushed /\ started' = started

LEMMA QuietSound ==
    ASSUME IInv, Quiet
    PROVE  Sound
BY DEF IInv, Quiet, Sound, Calm, LaunchHeld, PublishHeld, PublishedAsApproved,
       StartsApproved, Armed

(* A step that engages no task, and what it may save.                 *)
Bounded ==
    \A t \in Tasks : Engaged(t)' => Engaged(t) /\ task'[t].kind.paths = task[t].kind.paths
Kept == saved' = saved \/ saved' = task'

LEMMA SavedKept ==
    ASSUME SavedApart, EngagedApart', Kept
    PROVE  SavedApart'
<1>1. CASE saved' = saved
  BY <1>1 DEF SavedApart
<1>2. CASE saved' = task'
  BY <1>2 DEF SavedApart, EngagedApart, Engaged, InFlight
<1> QED BY <1>1, <1>2 DEF Kept

LEMMA Apart ==
    ASSUME IInv, Bounded, Kept
    PROVE  EngagedApart' /\ SavedApart'
<1>1. EngagedApart'
  BY DEF IInv, Bounded, EngagedApart, Conflict
<1> QED BY <1>1, SavedKept DEF IInv

----------------------------------------------------------------------------
(* Places and records.                                                     *)

LEMMA IdleCalm == Calm(Idle) /\ Calm(Down)
BY DEF Calm, Place, Idle, Down, Handless, Armed

LEMMA HandlerPlace ==
    ASSUME NEW t, NEW pc, pc # "reconcile", pc \in Handless \/ t \in Tasks
    PROVE  /\ Place(Handler(t, pc))
           /\ Handler(t, pc).pc = pc
           /\ Handler(t, pc).t = t
BY DEF Place, Idle, Handler, Handless

LEMMA EndingCalm == ASSUME NEW t PROVE Calm(Ending(t))
BY HandlerPlace DEF Calm, Ending, Handless, Armed

LEMMA ReturnCalm == ASSUME Place(at) PROVE Calm(Return)
<1>1. CASE at.ev = Nobody
  BY <1>1 DEF Return, Calm, Place, Handless, Armed
<1>2. CASE at.ev # Nobody
  BY <1>2, EndingCalm DEF Return
<1> QED BY <1>1, <1>2

LEMMA GoPlace ==
    ASSUME Place(at), at.t \in Tasks, NEW pc, pc # "reconcile"
    PROVE  /\ Place([at EXCEPT !.pc = pc])
           /\ [at EXCEPT !.pc = pc].pc = pc
           /\ [at EXCEPT !.pc = pc].t = at.t
BY DEF Place

LEMMA BlockedShaped ==
    ASSUME NEW r, Shaped(r)
    PROVE  /\ Shaped(Blocked(r)) /\ Terminal(Blocked(r))
           /\ Blocked(r).planned = r.planned
           /\ Blocked(r).kind = r.kind
BY DEF Shaped, Blocked, Terminal, TerminalStatuses

LEMMA UpdateRecords ==
    ASSUME NEW f, Records(f), NEW t, NEW r, Shaped(r)
    PROVE  Records([f EXCEPT ![t] = r])
BY DEF Records

LEMMA SaveKept == Save(task') => Kept
BY DEF Save, Kept

LEMMA SaveRecords ==
    ASSUME Records(saved), Records(task'), Save(task')
    PROVE  Records(saved')
BY DEF Save

----------------------------------------------------------------------------
(* What a handler may make of the record in hand, and where it may go.     *)

Mild(r) ==
    /\ Shaped(r)
    /\ r.planned => task[at.t].planned
    /\ r.kind.paths = task[at.t].kind.paths

Goes(a) == Calm(a) /\ (a.pc \in Handless \/ a.t = at.t)

LEMMA InHand ==
    ASSUME IInv, Seated(at.t)
    PROVE  at.t \in Tasks /\ Mild(task[at.t]) /\ Records(task) /\ Goes(Return)
<1>1. at.t \in Tasks /\ Shaped(task[at.t])
  BY DEF IInv, Place, Records, Seated
<1>2. Return.pc \in Handless
  BY DEF Return, Ending, Handler, Idle, IInv, Place, Handless
<1> QED BY <1>1, <1>2, ReturnCalm DEF IInv, Mild, Goes

LEMMA HandBounded ==
    ASSUME IInv, Seated(at.t), NEW r, Mild(r), task' = [task EXCEPT ![at.t] = r],
           at'.pc \in Handless \/ at'.t = at.t
    PROVE  Bounded
<1> SUFFICES ASSUME NEW t \in Tasks, Engaged(t)'
             PROVE  Engaged(t) /\ task'[t].kind.paths = task[t].kind.paths
  BY DEF Bounded
<1>1. CASE t = at.t
  BY <1>1 DEF IInv, Records, Engaged, Mild
<1>2. CASE t # at.t
  BY <1>2 DEF IInv, Records, Engaged, Seated
<1> QED BY <1>1, <1>2

LEMMA BlockedMild ==
    ASSUME NEW r, Mild(r)
    PROVE  Mild(Blocked(r))
BY BlockedShaped DEF Mild

----------------------------------------------------------------------------
(* The building blocks of the handlers.                                    *)

(* The record in hand is replaced, and nothing is started or published.    *)
LEMMA MildQuiet ==
    ASSUME IInv, Seated(at.t), NEW r, Mild(r), task' = [task EXCEPT ![at.t] = r],
           Goes(at'), UNCHANGED <<worldVars, storeVars>>
    PROVE  Quiet
<1>1. Bounded /\ Kept
  BY HandBounded DEF Goes, Kept, storeVars
<1>2. Records(task') /\ Records(saved')
  BY UpdateRecords DEF IInv, Mild, storeVars
<1> QED BY <1>1, <1>2, Apart DEF Quiet, Goes, worldVars

LEMMA BecomeQuiet ==
    ASSUME IInv, Seated(at.t), NEW r, Mild(r), NEW next, Goes(next), Become(r, next)
    PROVE  Quiet
BY MildQuiet DEF Become

LEMMA StopAsQuiet ==
    ASSUME IInv, Seated(at.t), NEW r, Mild(r), NEW next, Goes(next), StopAs(r, next),
           UNCHANGED <<worldVars, storeVars>>
    PROVE  Quiet
BY MildQuiet, BlockedMild DEF StopAs

LEMMA StopQuiet ==
    ASSUME IInv, Seated(at.t), Stop(Return)
    PROVE  Quiet
BY StopAsQuiet, InHand DEF Stop

LEMMA GoneQuiet ==
    ASSUME IInv, Gone, UNCHANGED <<saved, granted, pushed, started>>
    PROVE  Quiet
<1>1. Records(task') /\ Calm(at')
  BY IdleCalm DEF Gone, Records, Shaped, Absent, NoIntake
<1>2. \A t \in Tasks : ~Engaged(t)'
  BY DEF Gone, Engaged, Absent
<1>3. Bounded /\ Kept
  BY <1>2 DEF Bounded, Kept
<1> QED BY <1>1, <1>3, Apart DEF Quiet, IInv

LEMMA ThrowsQuiet ==
    ASSUME IInv, Seated(at.t), NEW r, Mild(r), Throws(r), UNCHANGED <<worldVars, storeVars>>
    PROVE  Quiet
<1>1. Goes(Idle)
  BY IdleCalm DEF Goes, Idle, Handless
<1>2. CASE ~at.resuming /\ at.ev = Nobody
  BY <1>1, <1>2, MildQuiet DEF Throws
<1>3. CASE ~at.resuming /\ at.ev # Nobody
  BY <1>1, <1>3, StopAsQuiet DEF Throws
<1>4. CASE at.resuming
  BY <1>4, GoneQuiet DEF Throws, worldVars, storeVars
<1> QED BY <1>2, <1>3, <1>4

(* A Worker is started with the contract of the record at hand.            *)
LEMMA StartRunSound ==
    ASSUME IInv, Seated(at.t), NEW r, Mild(r),
           Red(task[at.t]) => <<at.t, "pre_execution", r.contract>> \in granted,
           StartRun(r)
    PROVE  Sound
<1> DEFINE s == [r EXCEPT !.run = @ + 1, !.running = TRUE, !.effect = "worker"]
<1>1. Mild(s) /\ s.contract = r.contract
  BY DEF Mild, Shaped
<1>2. CASE StopAs(r, Return) /\ UNCHANGED <<worldVars, storeVars>>
  BY <1>2, StopAsQuiet, QuietSound, InHand
<1>3. CASE Throws(s) /\ UNCHANGED <<worldVars, storeVars>>
  BY <1>1, <1>3, ThrowsQuiet, QuietSound
<1>4. CASE /\ task' = [task EXCEPT ![at.t] = s] /\ Save(task') /\ at' = Return
           /\ started' = started \cup {<<at.t, s.run, s.contract>>}
           /\ UNCHANGED <<granted, pushed>>
  <2> HIDE DEF s
  <2>1. Records(task') /\ Records(saved')
    BY <1>1, <1>4, UpdateRecords, SaveRecords DEF IInv, Mild
  <2>2. Goes(at')
    BY <1>4, InHand
  <2>3. EngagedApart' /\ SavedApart'
    BY <1>1, <1>4, <2>2, HandBounded, SaveKept, Apart DEF Goes
  <2>4. IInv'
    BY <1>4, <2>1, <2>2, <2>3
       DEF IInv, Goes, Calm, LaunchHeld, PublishHeld, PublishedAsApproved, Armed
  <2>5. StartsApproved
    <3> SUFFICES ASSUME NEW x \in started' \ started, Red(task[x[1]])
                 PROVE  <<x[1], "pre_execution", x[3]>> \in granted
      BY DEF StartsApproved
    <3>1. x = <<at.t, s.run, s.contract>>
      BY <1>4
    <3> QED BY <1>1, <3>1
  <2> QED BY <2>4, <2>5 DEF Sound
<1> QED BY <1>2, <1>3, <1>4 DEF StartRun

LEMMA LaunchSound ==
    ASSUME IInv, Seated(at.t), NEW r, Mild(r), NEW what,
           Red(r) => <<at.t, "pre_execution", r.contract>> \in granted,
           Launch(r, what)
    PROVE  Sound
<1>1. CASE Leased(at.t)
  <2> DEFINE next == [at EXCEPT !.pc = "launch", !.launch = what]
  <2>1. Become(r, next)
    BY <1>1 DEF Launch
  <2>2. Place(next) /\ next.pc = "launch" /\ next.t = at.t
    BY InHand DEF IInv, Place
  <2>3. task' = [task EXCEPT ![at.t] = r] /\ at' = next
        /\ UNCHANGED <<saved, granted, pushed, started>>
    BY <2>1 DEF Become, worldVars, storeVars
  <2>4. Records(task') /\ Records(saved') /\ task'[at.t] = r
    BY <2>3, UpdateRecords, InHand DEF IInv, Records, Mild
  <2> HIDE DEF next
  <2>5. LaunchHeld'
    BY <2>2, <2>3, <2>4 DEF LaunchHeld
  <2>6. PublishHeld' /\ PublishedAsApproved'
    BY <2>2, <2>3 DEF IInv, PublishHeld, PublishedAsApproved
  <2>7. StartsApproved
    BY <2>3 DEF StartsApproved
  <2>8. EngagedApart' /\ SavedApart'
    BY <2>2, <2>3, HandBounded, Apart DEF Kept
  <2> QED BY <2>2, <2>3, <2>4, <2>5, <2>6, <2>7, <2>8 DEF Sound, IInv
<1>2. CASE ~Leased(at.t)
  BY <1>2, StopAsQuiet, QuietSound, InHand DEF Launch
<1> QED BY <1>1, <1>2

LEMMA LaunchOrAskSound ==
    ASSUME IInv, Seated(at.t), NEW r, Mild(r), NEW what, NEW changed,
           LaunchOrAsk(r, what, changed)
    PROVE  Sound
<1> DEFINE n == [r EXCEPT !.contract = @ + 1]
           asked == AwaitApproval([n EXCEPT !.waits = (@ \ {"pause"}) \cup {what}], "pre_execution")
<1>1. CASE Red(r) /\ (changed \/ <<at.t, "pre_execution", r.contract>> \notin granted)
  <2>1. Become(asked, Return)
    BY <1>1 DEF LaunchOrAsk
  <2>2. Mild(asked)
    BY DEF Mild, Shaped, AwaitApproval
  <2> QED BY <2>1, <2>2, BecomeQuiet, QuietSound, InHand
<1>2. CASE ~(Red(r) /\ (changed \/ <<at.t, "pre_execution", r.contract>> \notin granted))
  BY <1>2, LaunchSound DEF LaunchOrAsk
<1> QED BY <1>1, <1>2

(* An effect other than a Worker, intended at a place that is calm, or     *)
(* that publishes what the record in hand was approved for.                *)
LEMMA IntendSound ==
    ASSUME IInv, Seated(at.t), NEW r, Mild(r), NEW effect,
           NEW pc \in {"commit", "push", "openpr"},
           pc # "openpr" => <<at.t, "commit_publish", r.evidence>> \in granted,
           Intend(r, effect, pc)
    PROVE  Sound
<1> DEFINE s == [r EXCEPT !.effect = effect]
<1>1. Mild(s) /\ s.evidence = r.evidence
  BY DEF Mild, Shaped
<1>2. CASE Throws(s) /\ UNCHANGED <<worldVars, storeVars>>
  BY <1>1, <1>2, ThrowsQuiet, QuietSound
<1>3. CASE /\ task' = [task EXCEPT ![at.t] = s] /\ Save(task') /\ at' = [at EXCEPT !.pc = pc]
           /\ UNCHANGED worldVars
  <2> HIDE DEF s
  <2>1. Records(task') /\ Records(saved') /\ task'[at.t] = s
    BY <1>1, <1>3, UpdateRecords, SaveRecords, InHand DEF IInv, Records, Mild
  <2>2. Place(at') /\ at'.pc = pc /\ at'.t = at.t
    BY <1>3, GoPlace, InHand DEF IInv
  <2>3. UNCHANGED <<granted, pushed, started>>
    BY <1>3 DEF worldVars
  <2>4. LaunchHeld'
    BY <2>2 DEF LaunchHeld
  <2>5. PublishHeld'
    BY <1>1, <2>1, <2>2, <2>3 DEF PublishHeld
  <2>6. PublishedAsApproved' /\ StartsApproved
    BY <2>3 DEF IInv, PublishedAsApproved, StartsApproved
  <2>7. EngagedApart' /\ SavedApart'
    BY <1>1, <1>3, <2>2, HandBounded, SaveKept, Apart
  <2> QED BY <2>1, <2>2, <2>4, <2>5, <2>6, <2>7 DEF Sound, IInv
<1> QED BY <1>2, <1>3 DEF Intend

LEMMA AcceptQuiet ==
    ASSUME IInv, Seated(at.t), NEW r, Mild(r), Accept(r)
    PROVE  Quiet
<1> DEFINE s == [r EXCEPT !.state = "complete", !.status = "accepted"]
<1>1. Mild(s)
  BY DEF Mild, Shaped
<1>2. /\ task' = [task EXCEPT ![at.t] = s] /\ at' = Return
      /\ UNCHANGED <<worldVars, storeVars>>
  BY DEF Accept
<1> HIDE DEF s
<1> QED BY <1>1, <1>2, MildQuiet, InHand

LEMMA NeedsRepairQuiet ==
    ASSUME IInv, Seated(at.t), NEW r, Mild(r), NeedsRepair(r)
    PROVE  Quiet
<1>1. Mild(AwaitDecision(r))
  BY DEF Mild, Shaped, AwaitDecision
<1>2. Goes([at EXCEPT !.pc = "diagnose"])
  BY GoPlace, InHand DEF IInv, Goes, Calm, Armed
<1> QED BY <1>1, <1>2, BecomeQuiet, InHand DEF NeedsRepair

(* A judgement starts and publishes nothing itself.                        *)
LEMMA JudgeQuiet ==
    ASSUME IInv, Seated(at.t), NEW r, Mild(r), NEW fresh, Judge(r, fresh)
    PROVE  Quiet
<1>1. /\ Mild(AwaitApproval([r EXCEPT !.kind.risk = "red"], "pre_execution"))
      /\ Mild(AwaitApproval(r, "pre_execution"))
      /\ Mild(AwaitApproval([r EXCEPT !.state = "awaiting_approval"], "post_qa"))
      /\ Mild([r EXCEPT !.state = "qa_passed"])
  BY DEF Mild, Shaped, AwaitApproval
<1>2. /\ Goes(Return)
      /\ Goes([at EXCEPT !.pc = "verify"])
      /\ Goes([at EXCEPT !.pc = "observe"])
  BY InHand, GoPlace DEF IInv, Goes, Calm, Armed
<1>3. ASSUME StopAs(r, Return), UNCHANGED <<worldVars, storeVars>>
      PROVE  Quiet
  BY <1>2, <1>3, StopAsQuiet
<1>4. ASSUME NEW q, Mild(q), NEW next, Goes(next), Become(q, next)
      PROVE  Quiet
  BY <1>4, BecomeQuiet
<1>5. ASSUME NEW q, Mild(q), Accept(q)
      PROVE  Quiet
  BY <1>5, AcceptQuiet
<1>6. ASSUME NeedsRepair(r)
      PROVE  Quiet
  BY <1>6, NeedsRepairQuiet
<1>7. ASSUME Become(r, [at EXCEPT !.pc = IF r.kind.readOnly THEN "verify" ELSE "observe"])
      PROVE  Quiet
  BY <1>2, <1>4, <1>7
<1> QED
  BY <1>1, <1>2, <1>3, <1>4, <1>5, <1>6, <1>7 DEF Judge

----------------------------------------------------------------------------
(* One lemma per group of actions.                                         *)

LEMMA InitIInv == Init => IInv
BY IdleCalm
   DEF Init, IInv, Records, Shaped, Absent, NoIntake, Calm, LaunchHeld, PublishHeld,
       PublishedAsApproved, Idle,
       EngagedApart, SavedApart, Engaged, InFlight

(* The decisions a tick works off name tasks.                              *)
LEMMA DecisionsNameTasks ==
    ASSUME NEW seen, DOMAIN seen \subseteq Tasks, NEW ready, NEW ds \in Decisions(seen, ready)
    PROVE  ds \in Seq(Tasks \X Moves)
<1>1. Candidates(seen) \subseteq Tasks
  BY DEF Candidates
<1>2. Cardinality(Candidates(seen)) \in Nat
  BY <1>1, LoopAssumption, FS_Subset, FS_CardinalityType DEF LoopAssumption
<1>3. \A t : Decision(seen, ready, t) \in Moves
  BY DEF Decision, Moves
<1>4. ds \in [1..Cardinality(Candidates(seen)) -> Tasks \X Moves]
  BY <1>1, <1>3 DEF Decisions
<1> QED BY <1>2, <1>4

(* Steps that begin a handler, or that touch one task outside of one.      *)

(* Only a task in flight, and "available" ones, are taken in hand.         *)
Meets(t) == at'.pc \in Handless \cup {"available"} \/ (at'.t = t /\ ~Terminal(task[t]))

LEMMA StayBounded ==
    ASSUME IInv, NEW t, task' = task, Meets(t)
    PROVE  Bounded
BY DEF Bounded, Engaged, Seated, Meets

LEMMA TouchBounded ==
    ASSUME IInv, NEW t, NEW q, task' = [task EXCEPT ![t] = q], Meets(t),
           q.planned => /\ task[t].planned /\ q.kind.paths = task[t].kind.paths
                        /\ Terminal(task[t]) => Terminal(q)
    PROVE  Bounded
<1> SUFFICES ASSUME NEW s \in Tasks, Engaged(s)'
             PROVE  Engaged(s) /\ task'[s].kind.paths = task[s].kind.paths
  BY DEF Bounded
<1>1. CASE s = t
  BY <1>1 DEF IInv, Records, Engaged, Seated, Meets
<1>2. CASE s # t
  BY <1>2 DEF IInv, Records, Engaged, Seated, Meets
<1> QED BY <1>1, <1>2

LEMMA BoundedQuiet ==
    ASSUME IInv, Records(task'), Calm(at'), Bounded, UNCHANGED <<saved, pushed, started>>,
           granted \subseteq granted'
    PROVE  Quiet
<1>1. Kept
  BY DEF Kept
<1> QED BY <1>1, Apart DEF Quiet, IInv

LEMMA TakenSound ==
    ASSUME IInv, Records(task'), Calm(at'), Bounded, UNCHANGED <<worldVars, storeVars>>
    PROVE  Sound
BY BoundedQuiet, QuietSound DEF worldVars, storeVars

LEMMA TakenCalm ==
    ASSUME NEW t \in Tasks, NEW pc, pc \notin Armed, pc # "reconcile"
    PROVE  Calm(Handler(t, pc)) /\ Handler(t, pc).pc = pc /\ Handler(t, pc).t = t
BY HandlerPlace DEF Calm

LEMMA TickSound ==
    ASSUME IInv, TickStarts \/ TickDecides \/ TickInterrupted \/ Decide \/ TickEnds
    PROVE  Sound
<1>1. CASE TickStarts
  <2>1. Calm(at') /\ at'.pc = "reconcile"
    BY <1>1 DEF TickStarts, Idle, Calm, Place, Handless, Armed
  <2>2. Bounded
    BY <1>1, <2>1, StayBounded DEF TickStarts, Meets, Handless
  <2> QED BY <1>1, <2>1, <2>2, TakenSound DEF TickStarts, IInv
<1>2. CASE TickDecides
  <2>1. PICK ready \in BOOLEAN : \E ds \in Decisions(at.seen, ready) :
                at' = [at EXCEPT !.pc = "deciding", !.seen = Absent, !.todo = ds]
    BY <1>2 DEF TickDecides
  <2>2. PICK ds \in Decisions(at.seen, ready) :
                at' = [at EXCEPT !.pc = "deciding", !.seen = Absent, !.todo = ds]
    BY <2>1
  <2>3. at.pc = "reconcile" /\ DOMAIN at.seen \subseteq Tasks
    BY <1>2 DEF TickDecides, IInv, Place
  <2>4. ds \in Seq(Tasks \X Moves)
    BY <2>2, <2>3, DecisionsNameTasks
  <2>5. Calm(at') /\ at'.pc = "deciding"
    BY <2>2, <2>4 DEF IInv, Calm, Place, Handless, Armed
  <2>6. Bounded
    BY <1>2, <2>5, StayBounded DEF TickDecides, Meets, Handless
  <2> QED BY <1>2, <2>5, <2>6, TakenSound DEF TickDecides, IInv
<1>3. CASE TickInterrupted
  <2>1. /\ DOMAIN task' = Tasks
        /\ \A t \in Tasks : task'[t] \in {Blocked(task[t]), task[t]}
    BY <1>3 DEF TickInterrupted
  <2>2. \A t \in Tasks : /\ Shaped(Blocked(task[t])) /\ Terminal(Blocked(task[t]))
    BY BlockedShaped DEF IInv, Records
  <2>3. Records(task')
    BY <2>1, <2>2 DEF IInv, Records
  <2>4. Calm(at') /\ at'.pc = "end"
    BY <1>3, EndingCalm DEF TickInterrupted, Ending, Handler, Idle
  <2>5. Bounded
    <3> SUFFICES ASSUME NEW t \in Tasks, Engaged(t)'
                 PROVE  Engaged(t) /\ task'[t].kind.paths = task[t].kind.paths
      BY DEF Bounded
    <3>1. ~Terminal(task'[t])
      BY <2>4 DEF Engaged, Seated, Handless
    <3>2. task'[t] = task[t]
      BY <2>1, <2>2, <3>1
    <3> QED BY <3>1, <3>2 DEF Engaged
  <2> QED BY <1>3, <2>3, <2>4, <2>5, BoundedQuiet, QuietSound DEF TickInterrupted, storeVars
<1>4. CASE Decide
  <2> DEFINE t == Head(at.todo)[1]
             rest == [at EXCEPT !.todo = Tail(@)]
             seated == [rest EXCEPT !.pc = "base", !.t = t]
  <2>1. at.pc = "deciding" /\ at.todo # <<>> /\ at.todo \in Seq(Tasks \X Moves)
    BY <1>4 DEF Decide, IInv, Place
  <2>2. t \in Tasks /\ Tail(at.todo) \in Seq(Tasks \X Moves)
    BY <2>1
  <2>3. /\ Calm(rest) /\ rest.pc = "deciding"
        /\ Calm(seated) /\ seated.t = t
    BY <2>1, <2>2 DEF IInv, Calm, Place, Handless, Armed
  <2>4. at' = rest \/ (at' = seated /\ ~Terminal(task[t]) /\ task' = task)
    BY <1>4 DEF Decide
  <2> HIDE DEF rest, seated
  <2>5. Meets(t) /\ Calm(at')
    BY <2>3, <2>4 DEF Meets, Handless
  <2>6. Shaped(task[t]) /\ Records(task)
    BY <2>2 DEF IInv, Records
  <2>7. \/ task' = task
        \/ \E st : ~Terminal(task[t]) /\ task' = [task EXCEPT ![t] = [task[t] EXCEPT !.status = st]]
        \/ task' = [task EXCEPT ![t] = Blocked(task[t])]
    <3> HIDE DEF t
    <3>1. t \in DOMAIN task
      BY <2>2 DEF IInv, Records
    <3> QED BY <1>4, <3>1 DEF Decide, t
  <2> HIDE DEF t
  <2>8. Records(task') /\ Bounded
    <3>1. CASE task' = task
      BY <2>5, <2>6, <3>1, StayBounded
    <3>2. ASSUME NEW st, ~Terminal(task[t]),
                 task' = [task EXCEPT ![t] = [task[t] EXCEPT !.status = st]]
          PROVE  Records(task') /\ Bounded
      <4> DEFINE q == [task[t] EXCEPT !.status = st]
      <4>1. Shaped(q) /\ q.planned = task[t].planned /\ q.kind = task[t].kind
        BY <2>6 DEF Shaped
      <4> HIDE DEF q
      <4>2. task' = [task EXCEPT ![t] = q]
        BY <3>2 DEF q
      <4>3. Records(task')
        BY <2>6, <4>1, <4>2, UpdateRecords
      <4>4. Bounded
        BY <2>5, <3>2, <4>1, <4>2, TouchBounded
      <4> QED BY <4>3, <4>4
    <3>3. CASE task' = [task EXCEPT ![t] = Blocked(task[t])]
      BY <2>5, <2>6, <3>3, BlockedShaped, UpdateRecords, TouchBounded
    <3> QED BY <2>7, <3>1, <3>2, <3>3
  <2> QED BY <1>4, <2>5, <2>8, TakenSound DEF Decide
<1>5. CASE TickEnds
  <2>1. Calm(at') /\ at'.pc = "end"
    BY <1>5 DEF TickEnds, IInv, Calm, Place, Handless, Armed
  <2>2. Bounded
    BY <1>5, <2>1, StayBounded DEF TickEnds, Meets, Handless
  <2> QED BY <1>5, <2>1, <2>2, TakenSound DEF TickEnds, IInv
<1> QED BY <1>1, <1>2, <1>3, <1>4, <1>5

(* The branch is planned only when no task in flight is in its way.        *)
LEMMA PlannedApart ==
    ASSUME IInv, at.pc = "base", Seated(at.t),
           ~\E s \in Tasks \ {at.t} : InFlight(task[s]) /\ Conflict(task[s], task[at.t]),
           task' = [task EXCEPT ![at.t] = [task[at.t] EXCEPT !.planned = TRUE]],
           at'.t = at.t, saved' = saved
    PROVE  EngagedApart' /\ SavedApart'
<1>1. at.t \in Tasks /\ Shaped(task[at.t]) /\ DOMAIN task = Tasks
  BY InHand DEF Mild, IInv, Records
<1>2. task'[at.t].kind = task[at.t].kind
  BY <1>1 DEF Shaped
<1>3. \A s \in Tasks \ {at.t} : task'[s] = task[s] /\ (Engaged(s)' => InFlight(task[s]) /\ Engaged(s))
  BY <1>1 DEF Engaged, Seated, InFlight
<1>4. EngagedApart'
  <2> SUFFICES ASSUME NEW s \in Tasks, NEW t \in Tasks, s # t, Engaged(s)', Engaged(t)'
               PROVE  ~Conflict(task[s], task[t])'
    BY DEF EngagedApart
  <2>1. CASE s # at.t /\ t # at.t
    BY <1>3, <2>1 DEF IInv, EngagedApart
  <2>2. CASE s = at.t
    BY <1>2, <1>3, <2>2 DEF Conflict
  <2>3. CASE t = at.t
    BY <1>2, <1>3, <2>3 DEF Conflict
  <2> QED BY <2>1, <2>2, <2>3
<1> QED BY <1>4, SavedKept DEF IInv, Kept

LEMMA DispatchSound ==
    ASSUME IInv, DispatchPlans \/ DispatchStarts
    PROVE  Sound
<1>1. Seated(at.t)
  BY DEF DispatchPlans, DispatchStarts, Seated, Handless
<1>2. Records(task) /\ at.t \in Tasks /\ Mild(task[at.t]) /\ Goes(Return)
  BY <1>1, InHand
<1>3. ASSUME Stop(Return) PROVE Sound
  BY <1>1, <1>3, StopQuiet, QuietSound
<1>4. CASE DispatchPlans
  <2> DEFINE q == [task[at.t] EXCEPT !.planned = TRUE]
  <2>1. Mild([task[at.t] EXCEPT !.status = "waiting"]) /\ Shaped(q)
    BY <1>2 DEF Mild, Shaped
  <2>2. CASE Become([task[at.t] EXCEPT !.status = "waiting"], Return)
    BY <1>1, <1>2, <2>1, <2>2, BecomeQuiet, QuietSound
  <2>3. CASE /\ ~\E s \in Tasks \ {at.t} : InFlight(task[s]) /\ Conflict(task[s], task[at.t])
             /\ task' = [task EXCEPT ![at.t].planned = TRUE]
             /\ at' = [at EXCEPT !.pc = "prepare"]
             /\ UNCHANGED <<worldVars, storeVars>>
    <3>1. at.pc = "base"
      BY <1>4 DEF DispatchPlans
    <3>2. task' = [task EXCEPT ![at.t] = q]
      BY <1>2, <2>3 DEF Records
    <3>3. Records(task') /\ Calm(at') /\ at'.t = at.t
      <4>1. Records(task')
        BY <1>2, <2>1, <3>2, UpdateRecords
      <4> QED BY <1>2, <2>3, <4>1, GoPlace DEF IInv, Calm, Armed
    <3>4. EngagedApart' /\ SavedApart'
      BY <1>1, <2>3, <3>1, <3>2, <3>3, PlannedApart DEF storeVars
    <3> QED BY <2>3, <3>3, <3>4, QuietSound DEF Quiet, IInv, worldVars, storeVars
  <2> QED BY <1>3, <1>4, <2>2, <2>3 DEF DispatchPlans
<1>5. CASE DispatchStarts
  <2> DEFINE r == task[at.t]
             moved == [r EXCEPT !.planned = FALSE, !.replans = @ + 1]
             fresh == [r EXCEPT !.state = "running", !.status = "running"]
  <2>1. /\ Mild(moved) /\ Mild([moved EXCEPT !.status = "queued"])
        /\ Mild(fresh) /\ fresh.contract = r.contract
    BY <1>2 DEF Mild, Shaped
  <2>2. CASE StopAs(moved, Return) /\ UNCHANGED <<worldVars, storeVars>>
    BY <1>1, <1>2, <2>1, <2>2, StopAsQuiet, QuietSound
  <2>3. CASE /\ task' = [task EXCEPT ![at.t] = [moved EXCEPT !.status = "queued"]]
             /\ at' = Return
             /\ UNCHANGED <<worldVars, storeVars>>
    BY <1>1, <1>2, <2>1, <2>3, MildQuiet, QuietSound
  <2>4. CASE Throws(r) /\ UNCHANGED <<worldVars, storeVars>>
    BY <1>1, <1>2, <2>4, ThrowsQuiet, QuietSound
  <2>5. CASE (Red(r) => Approved(at.t, "pre_execution")) /\ StartRun(fresh)
    <3>1. Red(r) => <<at.t, "pre_execution", fresh.contract>> \in granted
      BY <2>1, <2>5 DEF Approved, Binding
    <3> QED BY <1>1, <2>1, <2>5, <3>1, StartRunSound
  <2> QED BY <1>3, <1>5, <2>2, <2>3, <2>4, <2>5 DEF DispatchStarts
<1> QED BY <1>4, <1>5

LEMMA WorkerSound ==
    ASSUME IInv, NEW t \in Tasks, NEW n, WorkerExits(t, n) \/ RunDone(t, n)
    PROVE  Sound
<1>1. CASE WorkerExits(t, n)
  <2>1. UNCHANGED <<task, at, granted, started, pushed, saved>>
    BY <1>1 DEF WorkerExits, storeVars
  <2>2. Bounded /\ Kept
    BY <2>1 DEF Bounded, Kept, Engaged, Seated
  <2> QED BY <2>1, <2>2, Apart
          DEF Sound, IInv, Records, LaunchHeld, PublishHeld, PublishedAsApproved, StartsApproved
<1>2. CASE RunDone(t, n)
  <2> DEFINE r == [task[t] EXCEPT !.running = FALSE, !.effect = "none"]
             recorded == [r EXCEPT !.result = TRUE]
  <2>1. /\ Shaped(r) /\ r.planned = task[t].planned /\ r.kind = task[t].kind
        /\ r.status = task[t].status
        /\ Shaped(recorded) /\ recorded.planned = r.planned /\ recorded.kind = r.kind
        /\ recorded.status = r.status
    BY DEF IInv, Records, Shaped
  <2>2. /\ \/ task' = task
           \/ task' = [task EXCEPT ![t] = r]
           \/ task' = [task EXCEPT ![t] = Blocked(r)]
           \/ task' = [task EXCEPT ![t] = recorded]
        /\ at' = Ending(t) \/ (at' = Handler(t, "record") /\ ~Terminal(r))
    BY <1>2 DEF RunDone
  <2> HIDE DEF r, recorded
  <2>3. Terminal(r) <=> Terminal(task[t])
    BY <2>1 DEF Terminal
  <2>4. Terminal(recorded) <=> Terminal(task[t])
    BY <2>1 DEF Terminal
  <2>5. Calm(at') /\ Meets(t)
    BY <2>2, <2>3, EndingCalm, TakenCalm, HandlerPlace DEF Meets, Armed, Handless, Ending
  <2>6. Records(task) /\ Shaped(Blocked(r)) /\ Terminal(Blocked(r))
        /\ Blocked(r).planned = r.planned /\ Blocked(r).kind = r.kind
    BY <2>1, BlockedShaped DEF IInv
  <2>7. CASE task' = task
    BY <1>2, <2>5, <2>6, <2>7, StayBounded, TakenSound DEF RunDone
  <2>8. ASSUME NEW q, Shaped(q), q.planned = task[t].planned, q.kind = task[t].kind,
               Terminal(task[t]) => Terminal(q), task' = [task EXCEPT ![t] = q]
        PROVE  Sound
    <3>1. Records(task')
      BY <2>6, <2>8, UpdateRecords
    <3>2. Bounded
      BY <2>5, <2>8, TouchBounded
    <3> QED BY <1>2, <2>5, <3>1, <3>2, TakenSound DEF RunDone
  <2> QED BY <2>1, <2>2, <2>3, <2>4, <2>6, <2>7, <2>8
<1> QED BY <1>1, <1>2

(* The handlers of results, retries, continuations and repairs.            *)
LEMMA ContinueSound ==
    ASSUME IInv, Seated(at.t), Continue
    PROVE  Sound
<1>1. Mild(AwaitWorker(task[at.t]))
  BY InHand DEF Mild, Shaped, AwaitWorker
<1> QED BY <1>1, InHand, BecomeQuiet, QuietSound, LaunchOrAskSound DEF Continue

(* A Worker is available: the one handler that begins without a look at    *)
(* the task's status, which it takes before it does anything.              *)
LEMMA AvailableSound ==
    ASSUME IInv, Available
    PROVE  Sound
<1> DEFINE r == task[at.t]
<1>1. at.pc = "available" /\ at.t \in Tasks /\ Records(task) /\ Shaped(r)
  BY DEF Available, IInv, Place, Handless, Records
<1>2. Calm(Return) /\ Return.pc \in Handless
  BY ReturnCalm DEF Return, Ending, Handler, Idle, IInv, Place, Handless
<1>3. CASE Become(r, Return)
  <2>1. task' = [task EXCEPT ![at.t] = r] /\ at' = Return /\ UNCHANGED <<worldVars, storeVars>>
    BY <1>3 DEF Become
  <2>2. Records(task')
    BY <1>1, <2>1, UpdateRecords
  <2>3. Bounded
    BY <1>2, <2>1, TouchBounded DEF Meets
  <2> QED BY <1>2, <2>1, <2>2, <2>3, TakenSound
<1>4. CASE r.status = "waiting_worker" /\ Continue
  <2>1. Seated(at.t)
    BY <1>1, <1>4 DEF Seated, Handless, Terminal, TerminalStatuses
  <2> QED BY <1>4, <2>1, ContinueSound
<1> QED BY <1>3, <1>4 DEF Available

LEMMA RunHandlersSound ==
    ASSUME IInv, Recorded \/ Retry \/ Resume \/ Repair
    PROVE  Sound
<1>1. Seated(at.t)
  BY DEF Recorded, Retry, Resume, Repair, Seated, Handless
<1>2. ASSUME Stop(Return) PROVE Sound
  BY <1>1, <1>2, InHand, StopQuiet, QuietSound
<1>3. CASE Recorded
  <2>1. Mild(AwaitInfrastructure(task[at.t], "review"))
    BY <1>1, InHand DEF Mild, Shaped, AwaitInfrastructure
  <2>2. ASSUME NEW pc \in {"resume", "retry"}, Suspend(pc) PROVE Sound
    <3>1. Goes([at EXCEPT !.pc = pc])
      BY <1>1, InHand, GoPlace DEF IInv, Goes, Calm, Armed
    <3> QED BY <1>1, <2>2, <3>1, InHand, BecomeQuiet, QuietSound DEF Suspend
  <2>3. ASSUME Judge(task[at.t], TRUE) PROVE Sound
    BY <1>1, <2>3, InHand, JudgeQuiet, QuietSound
  <2>4. ASSUME Become(AwaitInfrastructure(task[at.t], "review"), Return) PROVE Sound
    BY <1>1, <2>1, <2>4, InHand, BecomeQuiet, QuietSound
  <2> QED BY <1>2, <1>3, <2>2, <2>3, <2>4 DEF Recorded
<1>4. CASE Retry \/ Repair
  BY <1>1, <1>2, <1>4, InHand, LaunchOrAskSound DEF Retry, Repair
<1>5. CASE Resume
  BY <1>1, <1>2, <1>5, ContinueSound DEF Resume
<1> QED BY <1>3, <1>4, <1>5

(* The last look at the approval is still the one that holds.              *)
LEMMA LaunchedSound ==
    ASSUME IInv, Launched
    PROVE  Sound
<1> DEFINE r == task[at.t]
           retried == [r EXCEPT !.waits = @ \ {"retry"}, !.infra = @ + 1, !.status = Working(r)]
           continued == [r EXCEPT !.waits = @ \ {"continuation", "pause"}, !.conts = @ + 1,
                                  !.status = Working(r)]
           repaired == [r EXCEPT !.waits = @ \ {"repair"}, !.attempt = @ + 1,
                                 !.status = "repair_requested"]
<1>1. at.pc = "launch" /\ Seated(at.t)
  BY DEF Launched, Seated, Handless
<1>2. Red(r) => <<at.t, "pre_execution", r.contract>> \in granted
  BY <1>1 DEF IInv, LaunchHeld
<1>3. /\ Mild(retried) /\ retried.contract = r.contract
      /\ Mild(continued) /\ continued.contract = r.contract
      /\ Mild(repaired) /\ repaired.contract = r.contract
  BY <1>1, InHand DEF Mild, Shaped
<1>4. Stop(Return) \/ StartRun(retried) \/ StartRun(continued) \/ StartRun(repaired)
  BY DEF Launched
<1> HIDE DEF retried, continued, repaired
<1>5. CASE Stop(Return)
  BY <1>1, <1>5, InHand, StopQuiet, QuietSound
<1>6. CASE StartRun(retried) \/ StartRun(continued) \/ StartRun(repaired)
  BY <1>1, <1>2, <1>3, <1>6, InHand, StartRunSound
<1> QED BY <1>4, <1>5, <1>6

LEMMA ManagerSound ==
    ASSUME IInv, Diagnosed \/ Rejudged \/ Guided
    PROVE  Sound
<1> DEFINE r == task[at.t]
<1>1. Seated(at.t)
  BY DEF Diagnosed, Rejudged, Guided, Seated, Handless
<1>2. /\ Mild(AwaitInfrastructure(r, "review")) /\ Mild(AwaitInfrastructure(r, "diagnosis"))
  BY <1>1, InHand DEF Mild, Shaped, AwaitInfrastructure
<1>3. Goes([at EXCEPT !.pc = "repair"]) /\ Goes([at EXCEPT !.pc = "diagnose"])
  BY <1>1, InHand, GoPlace DEF IInv, Goes, Calm, Armed
<1>4. CASE Diagnosed
  <2> DEFINE d == [r EXCEPT !.waits = @ \ {"diagnosis"}, !.reviews = 0,
                       !.status = IF @ = "waiting_infrastructure" THEN Working(r) ELSE @]
  <2>1. Mild(d)
    BY <1>1, InHand DEF Mild, Shaped
  <2>2. \/ Become(AwaitInfrastructure(r, "diagnosis"), Return)
        \/ Become(AwaitDecision(d), Return)
        \/ Become(d, [at EXCEPT !.pc = "repair"])
        \/ StopAs(d, Return) /\ UNCHANGED <<worldVars, storeVars>>
    BY <1>4 DEF Diagnosed
  <2> HIDE DEF d
  <2>3. Mild(AwaitDecision(d))
    BY <2>1 DEF Mild, Shaped, AwaitDecision
  <2> QED BY <1>1, <1>2, <1>3, <2>1, <2>2, <2>3, InHand, BecomeQuiet, StopAsQuiet, QuietSound
<1>5. CASE Rejudged
  <2> DEFINE j == [r EXCEPT !.waits = @ \ {"review"}, !.reviews = 0, !.status = Working(r)]
  <2>1. Mild(j)
    BY <1>1, InHand DEF Mild, Shaped
  <2>2. Become(AwaitInfrastructure(r, "review"), Return) \/ Judge(j, TRUE)
    BY <1>5 DEF Rejudged
  <2> HIDE DEF j
  <2> QED BY <1>1, <1>2, <2>1, <2>2, InHand, BecomeQuiet, JudgeQuiet, QuietSound
<1>6. CASE Guided
  <2> DEFINE g == [r EXCEPT !.waits = @ \ {"decision"}, !.round = @ + 1, !.attempt = 0]
             w == [r EXCEPT !.status = "waiting_infrastructure"]
  <2>1. Mild(g) /\ Mild(w) /\ Mild(r)
    BY <1>1, InHand DEF Mild, Shaped
  <2>2. Become(r, Return) \/ Become(w, Return) \/ Become(g, [at EXCEPT !.pc = "diagnose"])
    BY <1>6 DEF Guided
  <2> HIDE DEF g, w
  <2> QED BY <1>1, <1>3, <2>1, <2>2, InHand, BecomeQuiet, QuietSound
<1> QED BY <1>4, <1>5, <1>6

----------------------------------------------------------------------------
(* Approvals and publication.                                              *)

LEMMA ApprovalSound ==
    ASSUME IInv, ApprovalResolved
    PROVE  Sound
<1> DEFINE t == at.t
           r == task[t]
           free == [r EXCEPT !.phase = "none"]
           requeued == [free EXCEPT !.state = "queued", !.status = "queued"]
           resumed == [free EXCEPT !.status = "running"]
           judged == [free EXCEPT !.status = IF r.state = "awaiting_approval" THEN @ ELSE "running"]
<1>1. Seated(at.t)
  BY DEF ApprovalResolved, Seated, Handless
<1>2. /\ Mild(r) /\ Mild(free) /\ free.contract = r.contract /\ free.kind = r.kind
      /\ Mild(requeued) /\ Mild(resumed) /\ Mild(judged)
  BY <1>1, InHand DEF Mild, Shaped
<1>3. \/ Stop(Return)
      \/ Become(r, Return)
      \/ Approved(t, "commit_publish") /\ Suspend("publish")
      \/ Approved(t, "pre_execution") /\ \E what : Launch(free, what)
      \/ /\ task' = [task EXCEPT ![t] = requeued] /\ at' = Return
         /\ UNCHANGED <<worldVars, storeVars>>
      \/ StopAs(resumed, Return) /\ UNCHANGED <<worldVars, storeVars>>
      \/ Judge(judged, FALSE)
  BY DEF ApprovalResolved
<1> HIDE DEF requeued, resumed, judged
<1>4. CASE Stop(Return)
  BY <1>1, <1>4, InHand, StopQuiet, QuietSound
<1>5. CASE Become(r, Return)
  BY <1>1, <1>2, <1>5, InHand, BecomeQuiet, QuietSound
<1>6. CASE Approved(t, "commit_publish") /\ Suspend("publish")
  <2>1. at' = [at EXCEPT !.pc = "publish"] /\ task' = [task EXCEPT ![t] = r]
        /\ UNCHANGED <<saved, granted, pushed, started>>
    BY <1>6 DEF Suspend, Become, worldVars, storeVars
  <2>2. Records(task') /\ Records(saved') /\ task'[t] = r
    BY <1>1, <1>2, <2>1, InHand, UpdateRecords DEF IInv, Records
  <2>3. Place(at') /\ at'.pc = "publish" /\ at'.t = t
    BY <1>1, <2>1, InHand, GoPlace DEF IInv
  <2>4. <<t, "commit_publish", r.evidence>> \in granted
    BY <1>6 DEF Approved, Binding
  <2>5. LaunchHeld' /\ PublishHeld'
    BY <2>1, <2>2, <2>3, <2>4 DEF LaunchHeld, PublishHeld
  <2>6. PublishedAsApproved' /\ StartsApproved
    BY <2>1 DEF IInv, PublishedAsApproved, StartsApproved
  <2>7. EngagedApart' /\ SavedApart'
    BY <1>1, <1>2, <2>1, <2>3, HandBounded, Apart DEF Kept
  <2> QED BY <2>2, <2>3, <2>5, <2>6, <2>7 DEF Sound, IInv
<1>7. CASE Approved(t, "pre_execution") /\ \E what : Launch(free, what)
  <2>1. <<t, "pre_execution", free.contract>> \in granted
    BY <1>2, <1>7 DEF Approved, Binding
  <2> QED BY <1>1, <1>2, <1>7, <2>1, InHand, LaunchSound
<1>8. CASE /\ task' = [task EXCEPT ![t] = requeued] /\ at' = Return
           /\ UNCHANGED <<worldVars, storeVars>>
  BY <1>1, <1>2, <1>8, InHand, MildQuiet, QuietSound
<1>9. CASE StopAs(resumed, Return) /\ UNCHANGED <<worldVars, storeVars>>
  BY <1>1, <1>2, <1>9, InHand, StopAsQuiet, QuietSound
<1>10. CASE Judge(judged, FALSE)
  BY <1>1, <1>2, <1>10, InHand, JudgeQuiet, QuietSound
<1> QED BY <1>3, <1>4, <1>5, <1>6, <1>7, <1>8, <1>9, <1>10

LEMMA FinalChecksSound ==
    ASSUME IInv, CommitAsked \/ ReadOnlyVerified
    PROVE  Sound
<1> DEFINE asked == AwaitApproval([task[at.t] EXCEPT !.evidence = task[at.t].run,
                                                     !.state = "awaiting_approval"],
                                  "commit_publish")
<1>1. Seated(at.t)
  BY DEF CommitAsked, ReadOnlyVerified, Seated, Handless
<1>2. Mild(asked)
  BY <1>1, InHand DEF Mild, Shaped, AwaitApproval
<1>3. Stop(Return) \/ Become(asked, Return) \/ Accept(task[at.t])
  BY DEF CommitAsked, ReadOnlyVerified
<1> HIDE DEF asked
<1> QED BY <1>1, <1>2, <1>3, InHand, StopQuiet, BecomeQuiet, AcceptQuiet, QuietSound

(* The content that is pushed is the content the approval was looked up    *)
(* for, three awaits ago.                                                  *)
LEMMA PublishSound ==
    ASSUME IInv, Publish \/ Committed \/ Pushed
    PROVE  Sound
<1> DEFINE r == task[at.t]
<1>1. /\ at.pc \in {"publish", "commit", "push"} /\ Seated(at.t)
      /\ <<at.t, "commit_publish", r.evidence>> \in granted
  BY DEF Publish, Committed, Pushed, Seated, Handless, IInv, PublishHeld
<1>2. ASSUME Stop(Return) PROVE Sound
  BY <1>1, <1>2, InHand, StopQuiet, QuietSound
<1>3. CASE Publish
  <2> DEFINE p == [r EXCEPT !.phase = "none", !.status = "running",
                            !.state = IF r.pr THEN "qa_running" ELSE "running"]
  <2>1. Mild(p) /\ p.evidence = r.evidence
    BY <1>1, InHand DEF Mild, Shaped
  <2>2. Stop(Return) \/ Intend(p, "commit", "commit")
    BY <1>3 DEF Publish
  <2> HIDE DEF p
  <2> QED BY <1>1, <1>2, <2>1, <2>2, InHand, IntendSound
<1>4. CASE Committed
  <2>1. Stop(Return) \/ Intend(r, "push", "push")
    BY <1>4 DEF Committed
  <2> QED BY <1>1, <1>2, <2>1, InHand, IntendSound
<1>5. CASE Pushed
  <2> DEFINE p == [r EXCEPT !.receipt = r.evidence, !.effect = "none"]
  <2>1. CASE /\ task' = [task EXCEPT ![at.t] = p]
             /\ pushed' = pushed \cup {<<at.t, r.evidence>>}
             /\ at' = Return
             /\ UNCHANGED <<granted, started, storeVars>>
    <3>1. Mild(p)
      BY <1>1, InHand DEF Mild, Shaped
    <3> HIDE DEF p
    <3>2. Records(task') /\ Records(saved') /\ Goes(at')
      BY <1>1, <2>1, <3>1, InHand, UpdateRecords DEF IInv, Mild, storeVars
    <3>3. PublishedAsApproved' /\ StartsApproved
      BY <1>1, <2>1 DEF IInv, PublishedAsApproved, StartsApproved
    <3>4. EngagedApart' /\ SavedApart'
      BY <1>1, <2>1, <3>1, <3>2, HandBounded, Apart DEF Goes, Kept, storeVars
    <3> QED BY <3>2, <3>3, <3>4 DEF Sound, IInv, Goes, Calm, LaunchHeld, PublishHeld, Armed
  <2> QED BY <1>2, <1>5, <2>1 DEF Pushed
<1> QED BY <1>3, <1>4, <1>5

LEMMA QaSound ==
    ASSUME IInv, OpenPr \/ PrOpened \/ QaRead \/ JudgedAgain
    PROVE  Sound
<1> DEFINE r == task[at.t]
<1>1. Seated(at.t)
  BY DEF OpenPr, PrOpened, QaRead, JudgedAgain, Seated, Handless
<1>2. CASE OpenPr
  BY <1>1, <1>2, InHand, IntendSound DEF OpenPr
<1>3. CASE PrOpened
  <2> DEFINE o == [r EXCEPT !.pr = TRUE, !.effect = "none"]
             p == [o EXCEPT !.state = "pr_opened"]
  <2>1. Mild(o) /\ Mild(p)
    BY <1>1, InHand DEF Mild, Shaped
  <2>2. \/ Stop(Return)
        \/ Throws(o) /\ UNCHANGED <<worldVars, storeVars>>
        \/ task' = [task EXCEPT ![at.t] = p] /\ at' = Return /\ UNCHANGED <<worldVars, storeVars>>
    BY <1>3 DEF PrOpened
  <2> HIDE DEF o, p
  <2> QED BY <1>1, <2>1, <2>2, InHand, StopQuiet, ThrowsQuiet, MildQuiet, QuietSound
<1>4. CASE QaRead
  <2> DEFINE s == [r EXCEPT !.state = IF @ = "pr_opened" THEN "qa_running" ELSE @]
             failed == [s EXCEPT !.qa = 0]
             passed == [s EXCEPT !.qa = r.receipt]
  <2>1. Mild(s) /\ Mild(failed) /\ Mild(passed)
    BY <1>1, InHand DEF Mild, Shaped
  <2>2. \/ Become(s, Return)
        \/ StopAs(s, Return) /\ UNCHANGED <<worldVars, storeVars>>
        \/ NeedsRepair(failed)
        \/ Judge(passed, FALSE)
    BY <1>4 DEF QaRead
  <2> HIDE DEF s, failed, passed
  <2> QED BY <1>1, <2>1, <2>2, InHand, BecomeQuiet, StopAsQuiet, NeedsRepairQuiet, JudgeQuiet, QuietSound
<1>5. CASE JudgedAgain
  BY <1>1, <1>5, InHand, JudgeQuiet, QuietSound DEF JudgedAgain
<1> QED BY <1>2, <1>3, <1>4, <1>5

----------------------------------------------------------------------------
(* Events taken at rest.                                                   *)

LEMMA CreatedSound ==
    ASSUME IInv, NEW t \in Tasks, NEW kind \in Intakes[t], TaskCreated(t, kind)
    PROVE  Sound
<1> DEFINE r == [Absent EXCEPT !.state = "routed", !.status = "queued", !.kind = kind,
                     !.contract = 1,
                     !.seq = 1 + Cardinality({s \in Tasks : Exists(s)})]
           red == AwaitApproval([r EXCEPT !.state = "awaiting_approval"], "pre_execution")
           green == [r EXCEPT !.state = "queued"]
<1>1. "paths" \in DOMAIN kind
  BY LoopAssumption DEF LoopAssumption, Intake
<1>2. Shaped(red) /\ ~red.planned /\ Shaped(green) /\ ~green.planned
  BY <1>1 DEF Shaped, Absent, AwaitApproval
<1>3. task' = [task EXCEPT ![t] = red] \/ task' = [task EXCEPT ![t] = green]
  BY DEF TaskCreated
<1> HIDE DEF red, green
<1>4. Records(task')
  BY <1>2, <1>3, UpdateRecords DEF IInv
<1>5. Calm(at') /\ Meets(t)
  BY EndingCalm DEF TaskCreated, Meets, Ending, Handler, Idle, Handless
<1>6. Bounded
  BY <1>2, <1>3, <1>5, TouchBounded
<1> QED BY <1>4, <1>5, <1>6, TakenSound DEF TaskCreated

LEMMA NoticedSound ==
    ASSUME IInv, NEW t \in Tasks,
           \/ \E explicit \in BOOLEAN : WorkerAvailable(t, explicit)
           \/ HumanDecision(t) \/ ApprovalNoticed(t) \/ QaUpdated(t)
    PROVE  Sound
<1>1. task' = task /\ UNCHANGED <<worldVars, storeVars>>
  BY DEF WorkerAvailable, HumanDecision, ApprovalNoticed, QaUpdated
<1>2. \/ /\ at' \in {Handler(t, "guidance"), Handler(t, "approval"), Handler(t, "qa")}
         /\ ~Terminal(task[t])
      \/ \E explicit : at' = [Handler(t, "available") EXCEPT !.ev = Nobody, !.explicit = explicit]
  BY DEF WorkerAvailable, HumanDecision, ApprovalNoticed, QaUpdated, Terminal, TerminalStatuses
<1>3. \A e : /\ Calm([Handler(t, "available") EXCEPT !.ev = Nobody, !.explicit = e])
             /\ [Handler(t, "available") EXCEPT !.ev = Nobody, !.explicit = e].pc = "available"
  BY DEF Calm, Place, Handler, Idle, Handless, Armed
<1>4. Calm(at') /\ Meets(t)
  <2>1. CASE /\ at' \in {Handler(t, "guidance"), Handler(t, "approval"), Handler(t, "qa")}
             /\ ~Terminal(task[t])
    BY <2>1, TakenCalm DEF Armed, Meets
  <2>2. CASE \E explicit : at' = [Handler(t, "available") EXCEPT !.ev = Nobody, !.explicit = explicit]
    BY <1>3, <2>2 DEF Meets
  <2> QED BY <1>2, <2>1, <2>2
<1>5. Bounded
  BY <1>1, <1>4, StayBounded
<1> QED BY <1>1, <1>4, <1>5, TakenSound DEF IInv

LEMMA ChangedSound ==
    ASSUME IInv, NEW t \in Tasks,
           Handback(t) \/ ReviewRetry(t) \/ BranchPushed(t) \/ QaStarts(t)
    PROVE  Sound
<1> DEFINE r == task[t]
           handed == [r EXCEPT !.contract = @ + 1]
           again == [r EXCEPT !.reviews = @ + 1]
           pending == [[r EXCEPT !.status = "qa_pending"] EXCEPT !.qa = 0]
<1>1. Records(task) /\ Shaped(r) /\ t \in DOMAIN task
  BY DEF IInv, Records
<1>2. /\ Shaped(handed) /\ handed.planned = r.planned /\ handed.kind = r.kind /\ handed.status = r.status
      /\ Shaped(again) /\ again.planned = r.planned /\ again.kind = r.kind /\ again.status = r.status
      /\ Shaped(pending) /\ pending.planned = r.planned /\ pending.kind = r.kind
  BY <1>1 DEF Shaped
<1>3. \/ task' = task
      \/ task' = [task EXCEPT ![t] = handed]
      \/ task' = [task EXCEPT ![t] = again]
      \/ task' = [task EXCEPT ![t] = Blocked(r)]
      \/ ~Terminal(r) /\ task' = [task EXCEPT ![t] = pending]
  BY <1>1 DEF Handback, ReviewRetry, BranchPushed, QaStarts
<1>4. \/ at' = Ending(t) \/ at' = Ending(Nobody)
      \/ at' \in {Handler(t, "diagnose"), Handler(t, "rejudge"), Handler(t, "pr")} /\ ~Terminal(r)
  BY DEF Handback, ReviewRetry, BranchPushed, QaStarts, Terminal, TerminalStatuses
<1> HIDE DEF handed, again, pending
<1>5. Calm(at') /\ Meets(t)
  BY <1>4, EndingCalm, TakenCalm, HandlerPlace DEF Meets, Armed, Ending, Handless
<1>6. UNCHANGED <<worldVars, storeVars>>
  BY DEF Handback, ReviewRetry, BranchPushed, QaStarts
<1>7. CASE task' = task
  BY <1>1, <1>5, <1>6, <1>7, StayBounded, TakenSound
<1>8. ASSUME NEW q, Shaped(q), q.planned = r.planned, q.kind = r.kind,
             Terminal(r) => Terminal(q), task' = [task EXCEPT ![t] = q]
      PROVE  Sound
  <2>1. Records(task')
    BY <1>1, <1>8, UpdateRecords
  <2>2. Bounded
    BY <1>5, <1>8, TouchBounded
  <2> QED BY <1>5, <1>6, <2>1, <2>2, TakenSound
<1>9. /\ Shaped(Blocked(r)) /\ Terminal(Blocked(r))
      /\ Blocked(r).planned = r.planned /\ Blocked(r).kind = r.kind
  BY <1>1, BlockedShaped
<1>10. (Terminal(handed) <=> Terminal(r)) /\ (Terminal(again) <=> Terminal(r))
  BY <1>2 DEF Terminal
<1> QED BY <1>2, <1>3, <1>7, <1>8, <1>9, <1>10

----------------------------------------------------------------------------
(* The owner's calls in the middle of a handler, the end of an event,      *)
(* crash and restart.                                                      *)

LEMMA OwnerApprovesSound ==
    ASSUME IInv, NEW t \in Tasks, OwnerApproves(t)
    PROVE  Sound
<1>1. /\ UNCHANGED <<task, at, saved, pushed, started>>
      /\ granted \subseteq granted'
  BY DEF OwnerApproves, loopVars, storeVars
<1>2. Bounded /\ Kept
  BY <1>1 DEF Bounded, Kept, Engaged, Seated
<1> QED BY <1>1, <1>2, Apart
        DEF Sound, IInv, Records, LaunchHeld, PublishHeld, PublishedAsApproved, StartsApproved

(* A cancel or a pause changes nothing an approval is bound to, and a      *)
(* cancelled task stays engaged as long as a handler has it in hand.        *)
LEMMA OrderedSound ==
    ASSUME IInv, NEW t \in Tasks, Cancel(t) \/ Pause(t)
    PROVE  Sound
<1> DEFINE cancelled == [task[t] EXCEPT !.state = "cancelled", !.status = "blocked", !.paused = FALSE]
           held == [task[t] EXCEPT !.paused = TRUE]
<1>1. Records(task) /\ Shaped(task[t]) /\ t \in DOMAIN task
  BY DEF IInv, Records
<1>2. /\ Shaped(cancelled) /\ cancelled.evidence = task[t].evidence
      /\ cancelled.contract = task[t].contract /\ cancelled.kind = task[t].kind
      /\ cancelled.planned = task[t].planned /\ cancelled.status = "blocked"
      /\ Shaped(held) /\ held.evidence = task[t].evidence
      /\ held.contract = task[t].contract /\ held.kind = task[t].kind
      /\ held.planned = task[t].planned /\ held.status = task[t].status
  BY <1>1 DEF Shaped
<1>3. task' = [task EXCEPT ![t] = cancelled] \/ task' = [task EXCEPT ![t] = held]
  BY <1>1 DEF Cancel, Pause
<1>4. UNCHANGED <<at, worldVars>> /\ (Save(task') \/ UNCHANGED storeVars)
  BY DEF Cancel, Pause
<1> HIDE DEF cancelled, held
<1>5. Records(task')
  BY <1>1, <1>2, <1>3, UpdateRecords
<1>6. Records(saved')
  BY <1>4, <1>5, SaveRecords DEF IInv, storeVars
<1>7. \A s \in Tasks : /\ task'[s].evidence = task[s].evidence
                       /\ task'[s].contract = task[s].contract
                       /\ task'[s].kind = task[s].kind
                       /\ task'[s].planned = task[s].planned
                       /\ Terminal(task[s]) => Terminal(task'[s])
  BY <1>1, <1>2, <1>3 DEF Records, Terminal, TerminalStatuses
<1>8. UNCHANGED <<at, granted, pushed, started>>
  BY <1>4 DEF worldVars
<1>9. at.pc \in Armed => at.t \in Tasks
  BY DEF IInv, Place, Armed, Handless
<1>10. LaunchHeld' /\ PublishHeld'
  BY <1>7, <1>8, <1>9 DEF IInv, LaunchHeld, PublishHeld, Armed, Red
<1>11. PublishedAsApproved' /\ StartsApproved
  BY <1>8 DEF IInv, PublishedAsApproved, StartsApproved
<1>12. Place(at')
  BY <1>8 DEF IInv
<1>13. Bounded
  BY <1>7, <1>8 DEF Bounded, Engaged, Seated
<1>14. Kept
  BY <1>4, SaveKept DEF Kept, storeVars
<1>15. EngagedApart' /\ SavedApart'
  BY <1>13, <1>14, Apart
<1> QED BY <1>5, <1>6, <1>10, <1>11, <1>12, <1>15 DEF Sound, IInv

LEMMA EndSound ==
    ASSUME IInv, EventEnds
    PROVE  Sound
<1> DEFINE t == at.ev
           stopped == [Blocked(task[t]) EXCEPT !.status = "blocked"]
<1>1. Records(task) /\ Records(saved)
  BY DEF IInv
<1>2. \/ task' = task /\ at' = Idle /\ Save(task)
      \/ Gone /\ saved' = saved
      \/ task' = task /\ at' = Idle /\ saved' = saved
      \/ /\ task' = [task EXCEPT ![t] = [Blocked(@) EXCEPT !.status = "blocked"]]
         /\ at' = Idle /\ saved' = saved
  BY DEF EventEnds, storeVars
<1>3. UNCHANGED <<granted, pushed, started>>
  BY DEF EventEnds, worldVars
<1>4. ASSUME at' = Idle PROVE Calm(at') /\ Meets(t)
  BY <1>4, IdleCalm DEF Idle, Meets, Handless
<1>5. ASSUME at' = Idle, Records(task'), Records(saved'), Bounded, Kept PROVE Sound
  BY <1>3, <1>4, <1>5, Apart, QuietSound DEF Quiet
<1>6. CASE task' = task /\ at' = Idle /\ (Save(task) \/ saved' = saved)
  <2>1. Kept /\ Records(saved')
    BY <1>1, <1>6 DEF Save, Kept
  <2>2. Bounded
    BY <1>4, <1>6, StayBounded
  <2> QED BY <1>1, <1>5, <1>6, <2>1, <2>2
<1>7. CASE Gone /\ saved' = saved
  BY <1>3, <1>7, GoneQuiet, QuietSound
<1>8. CASE /\ task' = [task EXCEPT ![t] = [Blocked(@) EXCEPT !.status = "blocked"]]
           /\ at' = Idle /\ saved' = saved
  <2>1. ASSUME t \in Tasks
        PROVE  /\ Shaped(stopped) /\ Terminal(stopped)
               /\ stopped.planned = task[t].planned /\ stopped.kind = task[t].kind
    <3>1. /\ Shaped(Blocked(task[t])) /\ Blocked(task[t]).planned = task[t].planned
          /\ Blocked(task[t]).kind = task[t].kind
      BY <1>1, <2>1, BlockedShaped DEF Records
    <3> QED BY <3>1 DEF Shaped, Terminal, TerminalStatuses
  <2> HIDE DEF stopped
  <2>2. /\ DOMAIN task' = Tasks
        /\ \A s \in Tasks : task'[s] = task[s] \/ (s = t /\ task'[s] = stopped)
    BY <1>1, <1>8 DEF Records, stopped
  <2>3. Records(task')
    BY <1>1, <2>1, <2>2 DEF Records
  <2>4. Bounded
    <3> SUFFICES ASSUME NEW s \in Tasks, Engaged(s)'
                 PROVE  Engaged(s) /\ task'[s].kind.paths = task[s].kind.paths
      BY DEF Bounded
    <3>1. ~Terminal(task'[s])
      BY <1>8 DEF Engaged, Seated, Idle, Handless
    <3>2. task'[s] = task[s]
      BY <2>1, <2>2, <3>1
    <3> QED BY <3>1, <3>2 DEF Engaged
  <2> QED BY <1>1, <1>5, <1>8, <2>3, <2>4 DEF Kept
<1> QED BY <1>2, <1>6, <1>7, <1>8

LEMMA TakeUpsNameTasks ==
    ASSUME NEW U, NEW J, U \cup J \subseteq Tasks, NEW ds \in TakeUps(U, J)
    PROVE  ds \in Seq(Tasks \X Moves)
<1>1. Cardinality(U \cup J) \in Nat
  BY LoopAssumption, FS_Subset, FS_CardinalityType DEF LoopAssumption
<1>2. ds \in [1..Cardinality(U \cup J) -> Tasks \X Moves]
  BY DEF TakeUps, Moves
<1> DEFINE n == Cardinality(U \cup J)
<1>3. n \in Nat /\ ds \in [1..n -> Tasks \X Moves]
  BY <1>1, <1>2
<1> HIDE DEF n
<1> QED BY <1>3

(* resume() takes up its next task, or the branch of one was verified.     *)
LEMMA ResumeSound ==
    ASSUME IInv, TakeUp \/ Resent
    PROVE  Sound
<1>1. CASE TakeUp
  <2> DEFINE t == Head(at.todo)[1]
             next == [at EXCEPT !.pc = Head(at.todo)[2], !.t = t, !.todo = Tail(@)]
             rest == [at EXCEPT !.todo = Tail(@)]
  <2>1. at.pc = "deciding" /\ at.todo # <<>> /\ at.todo \in Seq(Tasks \X Moves)
    BY <1>1 DEF TakeUp, IInv, Place
  <2>2. t \in Tasks /\ Tail(at.todo) \in Seq(Tasks \X Moves)
    BY <2>1
  <2>3. Head(at.todo)[2] \in {"resend", "judge"} /\ task' = task
        /\ at' = IF Terminal(task[t]) THEN rest ELSE next
    BY <1>1 DEF TakeUp
  <2>4. Calm(rest) /\ rest.pc = "deciding" /\ Calm(next) /\ next.t = t
    BY <2>1, <2>2, <2>3 DEF IInv, Calm, Place, Handless, Armed
  <2> HIDE DEF t, next, rest
  <2>5. Calm(at') /\ Meets(t)
    BY <2>3, <2>4 DEF Meets, Handless
  <2>6. Bounded
    BY <2>3, <2>5, StayBounded
  <2> QED BY <1>1, <2>3, <2>5, <2>6, TakenSound DEF TakeUp, IInv
<1>2. CASE Resent
  <2>1. Seated(at.t)
    BY <1>2 DEF Resent, Seated, Handless
  <2>2. Goes([at EXCEPT !.pc = "pr"])
    BY <2>1, InHand, GoPlace DEF IInv, Goes, Calm, Armed
  <2> QED BY <1>2, <2>1, <2>2, InHand, StopQuiet, BecomeQuiet, QuietSound DEF Resent, Suspend
<1> QED BY <1>1, <1>2

LEMMA RestartSound ==
    ASSUME IInv, Crash \/ Restart
    PROVE  Sound
<1>1. CASE Crash
  BY <1>1, GoneQuiet, QuietSound DEF Crash, worldVars
<1>2. CASE Restart
  <2>1. \A t \in Tasks :
           /\ Shaped(saved[t]) /\ Shaped(Blocked(saved[t])) /\ Terminal(Blocked(saved[t]))
           /\ Shaped([saved[t] EXCEPT !.reviews = 0])
           /\ [saved[t] EXCEPT !.reviews = 0].planned = saved[t].planned
           /\ [saved[t] EXCEPT !.reviews = 0].kind = saved[t].kind
           /\ [saved[t] EXCEPT !.reviews = 0].status = saved[t].status
    BY BlockedShaped DEF IInv, Records, Shaped
  <2>2. /\ DOMAIN task' = Tasks
        /\ \A t \in Tasks : task'[t] \in {[saved[t] EXCEPT !.reviews = 0], Blocked(saved[t]), saved[t]}
    BY <1>2 DEF Restart
  <2>3. Records(task')
    BY <2>1, <2>2 DEF Records
  <2> DEFINE Live == {t \in Tasks : saved[t].state # "none" /\ ~Terminal(saved[t]) /\ ~StillWaits(saved[t])}
             Unjudged == {t \in Live : saved[t].waits \cap {"review", "diagnosis"} # {}}
             Lost == {t \in Live \ Unjudged : Indeterminate(t)}
             Rest == Live \ (Unjudged \cup Lost)
             Unsure == {t \in Rest : saved[t].receipt # 0 /\ ~saved[t].pr /\ saved[t].planned}
             Judged == {t \in Rest : saved[t].receipt = 0 /\ saved[t].result}
  <2>4. Unsure \cup Judged \subseteq Tasks
    OBVIOUS
  <2>5. PICK todo \in TakeUps(Unsure, Judged) :
                at' = [Idle EXCEPT !.pc = "deciding", !.resuming = TRUE, !.todo = todo]
    BY <1>2 DEF Restart
  <2> HIDE DEF Unsure, Judged
  <2>6. todo \in Seq(Tasks \X Moves)
    BY <2>4, TakeUpsNameTasks
  <2>7. Calm(at') /\ at'.pc = "deciding"
    BY <2>5, <2>6 DEF Idle, Calm, Place, Handless, Armed
  <2>8. \A t \in Tasks : Engaged(t)' => InFlight(saved[t]) /\ task'[t].kind = saved[t].kind
    <3> SUFFICES ASSUME NEW t \in Tasks, Engaged(t)'
                 PROVE  InFlight(saved[t]) /\ task'[t].kind = saved[t].kind
      OBVIOUS
    <3>1. ~Terminal(task'[t]) /\ task'[t].planned
      BY <2>7 DEF Engaged, Seated, Handless
    <3>2. task'[t] = saved[t] \/ task'[t] = [saved[t] EXCEPT !.reviews = 0]
      BY <2>1, <2>2, <3>1
    <3> QED BY <2>1, <3>1, <3>2 DEF InFlight, Terminal
  <2>9. EngagedApart'
    BY <2>8 DEF IInv, SavedApart, EngagedApart, Conflict
  <2>10. SavedApart'
    BY <1>2, <2>9, SavedKept DEF Restart, IInv, Kept, storeVars
  <2> QED BY <1>2, <2>3, <2>7, <2>9, <2>10, QuietSound DEF Restart, Quiet, IInv, worldVars, storeVars
<1> QED BY <1>1, <1>2

----------------------------------------------------------------------------
LEMMA NextSound ==
    ASSUME IInv, Next
    PROVE  Sound
<1>1. CASE HandlerStep
  BY <1>1, TickSound, DispatchSound, RunHandlersSound, AvailableSound, LaunchedSound, ManagerSound,
     ApprovalSound, FinalChecksSound, PublishSound, QaSound, EndSound, ResumeSound
     DEF HandlerStep
<1>2. CASE EventTaken
  BY <1>2, TickSound, NoticedSound, ChangedSound, WorkerSound DEF EventTaken
<1>3. CASE Outside
  BY <1>3, CreatedSound, NoticedSound, ChangedSound, OwnerApprovesSound DEF Outside
<1>4. CASE WorkerEnds
  BY <1>4, WorkerSound DEF WorkerEnds
<1>5. CASE TickInterrupted \/ Crash \/ Restart
  BY <1>5, TickSound, RestartSound
<1>6. CASE \E t \in Tasks : Cancel(t) \/ Pause(t)
  BY <1>6, OrderedSound
<1> QED BY <1>1, <1>2, <1>3, <1>4, <1>5, <1>6 DEF Next

LEMMA StepSound ==
    ASSUME IInv, [Next]_vars
    PROVE  IInv' /\ [StartsApproved]_vars
<1>1. CASE Next
  BY <1>1, NextSound DEF Sound
<1>2. CASE UNCHANGED vars
  BY <1>2 DEF vars, IInv, Records, LaunchHeld, PublishHeld, PublishedAsApproved,
                 EngagedApart, SavedApart, Engaged, Seated
<1> QED BY <1>1, <1>2

LEMMA IInvHolds == Spec => []IInv
<1>1. IInv /\ [Next]_vars => IInv'
  BY StepSound
<1> QED BY InitIInv, <1>1, PTL DEF Spec

(* Whatever is pushed is content whose own digest the owner approved, even *)
(* if the task was judged, repaired, cancelled or restarted in between     *)
(* (requestCommitApproval, currentCommitApprovalEvidence, commitAndPush).  *)
THEOREM PushesApproved == Spec => []PublishedAsApproved
<1>1. IInv => PublishedAsApproved
  BY DEF IInv
<1> QED BY IInvHolds, <1>1, PTL

(* No Worker starts on a red task with a contract the owner has not        *)
(* approved, be it a first run, a repair, a retry or a continuation, and   *)
(* whatever is restored from a checkpoint (startRun,                       *)
(* authorizeWorkerContract).                                               *)
THEOREM StartsOnlyApproved == Spec => RedStartsApproved
<1>1. IInv /\ [Next]_vars => [StartsApproved]_vars
  BY StepSound
<1>2. [StartsApproved]_vars
        => [\A s \in started' \ started :
               Red(task[s[1]]) => <<s[1], "pre_execution", s[3]>> \in granted]_vars
  BY DEF StartsApproved
<1> QED BY IInvHolds, <1>1, <1>2, PTL DEF Spec, RedStartsApproved

(* Two tasks with overlapping paths are never both in flight, also when    *)
(* one is cancelled under its handler and put back, and after a restart    *)
(* (decideSchedule, dispatch, planBranch, resume).                         *)
THEOREM FlightsApart == Spec => []ConflictsApart
<1>1. IInv => ConflictsApart
  BY DEF IInv, EngagedApart, ConflictsApart, Engaged, InFlight
<1> QED BY IInvHolds, <1>1, PTL

----------------------------------------------------------------------------
(* What can be said of every record.  "Over" is a task that is complete,   *)
(* failed or cancelled; of any other it is known what it waits for, which  *)
(* handler may take it up, and what of its work was pushed and checked.    *)

Over(r) == r.state \in TerminalStates
Posted(t, q) == <<"pushed", t>> \in q \/ <<"pr_opened", t>> \in q

Relaunching(r) == "repair" \in r.waits \/ "retry" \in r.waits \/ "continuation" \in r.waits
Unclear(r) == "review" \in r.waits \/ "diagnosis" \in r.waits \/ "decision" \in r.waits
Clean(r) == ~Relaunching(r) /\ ~Unclear(r)
AtMostOne(w, x, y, z) ==
    ~(x \in w /\ y \in w) /\ ~(x \in w /\ z \in w) /\ ~(y \in w /\ z \in w)

(* What was pushed has its pull request; what was checked is the last run. *)
Opened(r) == r.receipt # 0 => r.pr
Checked(r) == r.pr /\ r.receipt # 0 /\ r.receipt = r.run /\ r.qa = r.receipt

(* A record that is not over is in one of four conditions.                 *)
Untouched(r) ==
    ~r.running /\ ~r.result /\ r.waits = {} /\ r.receipt = 0 /\ ~r.pr /\ r.qa = 0
Unborn(r) ==
    /\ r.state = "none" /\ r.status = "none" /\ r.kind = NoIntake /\ ~r.planned /\ Untouched(r)
    /\ r.run = 0
Queued(r) == r.state = "queued" /\ r.status \in {"queued", "waiting"} /\ Untouched(r)
Asking(r) ==
    /\ r.state = "awaiting_approval" /\ r.status = "needs_human_approval"
    /\ ~r.running /\ Clean(r)
    /\ \/ r.phase = "pre_execution" /\ Untouched(r)
       \/ /\ r.phase = "commit_publish" /\ r.evidence = r.run /\ r.run # 0 /\ r.qa = 0
          /\ r.pr <=> r.receipt # 0
       \/ r.phase = "post_qa" /\ Checked(r)
Moving(r) ==
    /\ r.state \in Repairable /\ r.run # 0
    /\ r.status \in {"running", "repair_requested", "needs_human_approval", "needs_human_decision",
                     "waiting_infrastructure", "waiting_worker", "qa_pending"}
    /\ r.state = "running" <=> ~r.pr
    /\ r.pr => r.receipt # 0
    /\ ~Opened(r) => r.status = "running" /\ ~r.running /\ r.receipt = r.run
    /\ r.running => r.planned /\ r.status \in {"running", "repair_requested"}
    /\ "review" \in r.waits \/ "diagnosis" \in r.waits => r.status = "waiting_infrastructure"
    /\ "decision" \in r.waits => r.status \in {"waiting_infrastructure", "needs_human_decision"}
    /\ AtMostOne(r.waits, "review", "diagnosis", "decision")
    /\ Relaunching(r) => r.status = "needs_human_approval"
    /\ AtMostOne(r.waits, "repair", "retry", "continuation")
    /\ r.status = "needs_human_approval" => r.phase \in {"none", "pre_execution"}
    /\ r.status = "qa_pending" => r.pr /\ r.receipt = r.run
Underway(r) ==
    /\ Moving(r)
    /\ r.qa # 0 => Checked(r) /\ ~Relaunching(r) /\ r.status = "needs_human_approval"
Lives(r) == Unborn(r) \/ Queued(r) \/ Asking(r) \/ Underway(r)

AcceptedFine(r, t, done, asked) ==
    \/ r.kind.readOnly /\ ~\E p \in done : p[1] = t
    \/ /\ r.pr /\ r.receipt = r.run /\ r.qa = r.receipt /\ <<t, r.receipt>> \in done
       /\ Red(r) => <<t, "post_qa", r.receipt>> \in asked

(* "done" is what was pushed, "asked" what was approved.                   *)
Based(r, t, done, asked) ==
    /\ r.state # "none" => r.kind \in Intake
    /\ r.status = "accepted" => AcceptedFine(r, t, done, asked)
    /\ r.receipt # 0 => <<t, r.receipt>> \in done
    /\ r.kind.readOnly => r.phase # "commit_publish" /\ ~\E p \in done : p[1] = t

Sane(r, t, done, asked) ==
    /\ r \in Task
    /\ Over(r) \/ Lives(r)
    /\ Terminal(r) => Over(r)
    /\ Based(r, t, done, asked)

(* A result that was pushed, or has its pull request, and not yet its event *)
(* taken: nothing else picks the task up.                                  *)
Pending(r, t, q) ==
    Posted(t, q) /\ ~Over(r) =>
        /\ Underway(r) /\ ~r.running /\ r.receipt = r.run /\ r.status = "running" /\ Clean(r)
        /\ r.qa = 0
        /\ ~(<<"pushed", t>> \in q /\ <<"pr_opened", t>> \in q)
        /\ <<"pr_opened", t>> \in q => r.pr

Holds(r, t, h) == h[r.kind.ws] = t
Leasing(r, t, h) == r.running /\ ~Over(r) => Holds(r, t, h)
Letting(r, t, h) ==
    \A w \in Workspaces :
        h[w] = t => r.state # "none" /\ r.kind.ws = w /\ (r.planned \/ Over(r))

(* All that is known of one task.                                          *)
Fine(r, t, done, asked, q, h) ==
    Sane(r, t, done, asked) /\ Pending(r, t, q) /\ Leasing(r, t, h) /\ Letting(r, t, h)

(* What the handler at a place knows of the record in hand, unless it was  *)
(* cancelled meanwhile.                                                    *)
Settled(r) == Underway(r) /\ ~r.running /\ Clean(r) /\ r.qa = 0 /\ Opened(r)
Fit(pc, what, r) ==
    /\ pc \in {"base", "prepare"} => Queued(r)
    /\ pc \in {"record", "retry", "resume", "observe", "verify", "repair", "judge"} => Settled(r)
    /\ pc = "judge" => ~r.pr
    /\ pc = "launch" => /\ Underway(r) /\ ~Unclear(r) /\ r.qa = 0 /\ Opened(r)
                        /\ what \in {"repair", "retry", "continuation"}
                        /\ \A x \in {"repair", "retry", "continuation"} : x \in r.waits => x = what
    /\ pc = "diagnose" => /\ Underway(r) /\ ~Relaunching(r) /\ r.qa = 0 /\ Opened(r)
                          /\ "review" \notin r.waits /\ "decision" \notin r.waits
    /\ pc = "rejudge" => /\ Underway(r) /\ r.status = "waiting_infrastructure"
                         /\ "diagnosis" \notin r.waits /\ "decision" \notin r.waits
    /\ pc = "guidance" => Underway(r) /\ "decision" \in r.waits
    /\ pc = "approval" => r.status = "needs_human_approval" /\ r.phase # "none"
    /\ pc = "publish" => Asking(r) /\ r.phase = "commit_publish"
    /\ pc \in {"commit", "push"} => Settled(r) /\ r.status = "running" /\ r.evidence = r.run
    /\ pc \in {"resend", "pr", "openpr"} => Underway(r) /\ ~Opened(r) /\ Clean(r)
    /\ pc = "qa" => Underway(r) /\ r.status = "qa_pending"

Held(pc, what, r, t, q, h) ==
    /\ r.status # "accepted"
    /\ r.state # "none"
    /\ pc \in {"observe", "publish", "commit", "push"} => ~r.kind.readOnly
    /\ pc = "verify" => r.kind.readOnly
    /\ ~Over(r) => /\ ~r.running /\ ~Posted(t, q)
                   /\ Fit(pc, what, r)
                   /\ pc \in {"prepare", "launch"} => Holds(r, t, h)

(* What is still to be worked off is as it was when it was decided.        *)
Due(r, t, move, q) ==
    ~Over(r) =>
        /\ move \in {"dispatch", "wait", "keep", "block"} => Queued(r)
        /\ move = "resend" => ~Posted(t, q) /\ Fit("resend", "none", r)
        /\ move = "judge" => ~Posted(t, q) /\ Fit("judge", "none", r)
TodoFine(x, f, q) ==
    /\ \A i \in DOMAIN x.todo : f[x.todo[i][1]].state # "none"
    /\ \A i \in DOMAIN x.todo : Due(f[x.todo[i][1]], x.todo[i][1], x.todo[i][2], q)
    /\ \A i, j \in DOMAIN x.todo : x.todo[i][1] = x.todo[j][1] => i = j
    /\ x.pc \notin Handless => \A i \in DOMAIN x.todo : x.todo[i][1] # x.t
SeenFine(x, f) ==
    x.pc = "reconcile" =>
        \A t \in DOMAIN x.seen :
            /\ f[t].state # "none" /\ x.seen[t].seq \in Nat
            /\ x.seen[t].state = "queued" => Over(f[t]) \/ Queued(f[t])
HandFine(x, f, q, h) ==
    x.pc \notin Handless \cup {"available"} => Held(x.pc, x.launch, f[x.t], x.t, q, h)

(* A record and the one that was saved last are of the same task.          *)
Twin(s, r) ==
    /\ s.state # "none" => r.state # "none" /\ r.kind.readOnly = s.kind.readOnly
    /\ s.run = r.run \/ (s.run \in Nat /\ r.run \in Nat /\ s.run < r.run)

LInv ==
    /\ task \in [Tasks -> Task] /\ saved \in [Tasks -> Task]
    /\ holder \in [Workspaces -> Tasks \cup {Nobody}]
    /\ \A t \in Tasks : Fine(task[t], t, pushed, granted, queue, holder)
    /\ \A t \in Tasks : Sane(saved[t], t, pushed, granted)
    /\ HandFine(at, task, queue, holder)
    /\ TodoFine(at, task, queue)
    /\ SeenFine(at, task)
    /\ at.pc = "down" => at = Down
    /\ at.pc # "down" => \A t \in Tasks : Twin(saved[t], task[t])

(* What a step keeps: what was saved before it is not after the records.   *)
LStep == LInv' /\ (at'.pc # "down" => \A t \in Tasks : Twin(saved[t], task'[t]))

----------------------------------------------------------------------------
(* The frame.                                                              *)

(* Approvals and pushes are never taken back; what is pushed is the task's *)
(* in hand; events are posted, or taken, for that task only.               *)
Grows(u) ==
    /\ granted \subseteq granted' /\ pushed \subseteq pushed'
    /\ \A p \in pushed' : p \in pushed \/ p[1] = u
Posts(u) ==
    \A t \in Tasks : t # u =>
        /\ <<"pushed", t>> \in queue' <=> <<"pushed", t>> \in queue
        /\ <<"pr_opened", t>> \in queue' <=> <<"pr_opened", t>> \in queue
Leases(u) ==
    /\ holder' \in [Workspaces -> Tasks \cup {Nobody}]
    /\ \A w \in Workspaces : holder'[w] = holder[w] \/ {holder[w], holder'[w]} \subseteq {u, Nobody}

LEMMA SaneGrows ==
    ASSUME NEW u, NEW t, t # u, Grows(u), NEW r, Sane(r, t, pushed, granted)
    PROVE  Sane(r, t, pushed', granted')
BY DEF Sane, Based, AcceptedFine, Grows

LEMMA FineGrows ==
    ASSUME NEW u \in Tasks, NEW t \in Tasks, t # u, Grows(u), Posts(u), Leases(u), Nobody \notin Tasks,
           NEW r, Fine(r, t, pushed, granted, queue, holder)
    PROVE  Fine(r, t, pushed', granted', queue', holder')
<1>1. Sane(r, t, pushed', granted')
  BY SaneGrows DEF Fine
<1>2. Pending(r, t, queue')
  BY DEF Fine, Pending, Posts, Posted
<1>3. \A w \in Workspaces : holder'[w] = t <=> holder[w] = t
  BY DEF Leases
<1>4. Letting(r, t, holder')
  BY <1>3 DEF Fine, Letting
<1>5. Leasing(r, t, holder')
  <2> SUFFICES ASSUME r.running, ~Over(r) PROVE Holds(r, t, holder')
    BY DEF Leasing
  <2>1. r.kind.ws \in Workspaces
    BY
       DEF Fine, Sane, Based, Lives, Unborn, Untouched, Queued, Asking, Underway, Moving, Intake, Repairable
  <2> QED BY <2>1, <1>3 DEF Fine, Leasing, Holds
<1> QED BY <1>1, <1>2, <1>4, <1>5 DEF Fine

(* One record changes.                                                     *)
Touches(u, r) ==
    /\ task' = [task EXCEPT ![u] = r]
    /\ saved' = saved \/ saved' = task'
    /\ Grows(u) /\ Posts(u) /\ Leases(u)

LEMMA TouchKeeps ==
    ASSUME LInv, Nobody \notin Tasks, NEW u \in Tasks, NEW r, Touches(u, r),
           Fine(r, u, pushed', granted', queue', holder'),
           Sane(saved[u], u, pushed', granted')
    PROVE  /\ task' \in [Tasks -> Task] /\ saved' \in [Tasks -> Task]
           /\ holder' \in [Workspaces -> Tasks \cup {Nobody}]
           /\ \A t \in Tasks : Fine(task'[t], t, pushed', granted', queue', holder')
           /\ \A t \in Tasks : Sane(saved'[t], t, pushed', granted')
           /\ task'[u] = r /\ \A t \in Tasks \ {u} : task'[t] = task[t]
<1>1. /\ task' \in [Tasks -> Task] /\ saved' \in [Tasks -> Task]
      /\ holder' \in [Workspaces -> Tasks \cup {Nobody}]
  BY DEF LInv, Touches, Leases, Fine, Sane
<1>2. task'[u] = r /\ \A t \in Tasks \ {u} : task'[t] = task[t]
  BY DEF LInv, Touches
<1>3. ASSUME NEW t \in Tasks, t # u
      PROVE  /\ Fine(task'[t], t, pushed', granted', queue', holder')
             /\ Sane(saved[t], t, pushed', granted')
  BY <1>2, <1>3, FineGrows, SaneGrows DEF LInv, Touches
<1>4. \A t \in Tasks : Fine(task'[t], t, pushed', granted', queue', holder')
  BY <1>2, <1>3
<1>5. \A t \in Tasks : Sane(saved'[t], t, pushed', granted')
  BY <1>3, <1>4 DEF Touches, Fine
<1> QED BY <1>1, <1>2, <1>4, <1>5

(* What is still to be worked off is not the task that changes.            *)
LEMMA TodoKeeps ==
    ASSUME LInv, IInv, NEW u \in Tasks, \A t \in Tasks \ {u} : task'[t] = task[t], Posts(u),
           at'.todo = <<>> \/ at'.todo = at.todo,
           \A i \in DOMAIN at'.todo : at'.todo[i][1] # u,
           at'.pc \in Handless \/ at'.t = u
    PROVE  TodoFine(at', task', queue')
<1>1. \A i \in DOMAIN at'.todo : /\ i \in DOMAIN at.todo /\ at'.todo[i] = at.todo[i]
                                 /\ at.todo[i][1] \in Tasks \ {u}
  BY DEF IInv, Place
<1>2. ASSUME NEW i \in DOMAIN at'.todo
      PROVE  Due(task'[at'.todo[i][1]], at'.todo[i][1], at'.todo[i][2], queue')
  <2>1. Due(task[at.todo[i][1]], at.todo[i][1], at.todo[i][2], queue)
    BY <1>1, <1>2 DEF LInv, TodoFine
  <2>2. task'[at'.todo[i][1]] = task[at.todo[i][1]]
    BY <1>1, <1>2
  <2> QED BY <1>1, <1>2, <2>1, <2>2 DEF Due, Posts, Posted
<1>3. \A i \in DOMAIN at'.todo : task'[at'.todo[i][1]].state # "none"
  BY <1>1 DEF LInv, TodoFine
<1>4. \A i, j \in DOMAIN at'.todo : at'.todo[i][1] = at'.todo[j][1] => i = j
  BY <1>1 DEF LInv, TodoFine
<1> QED BY <1>2, <1>3, <1>4 DEF TodoFine
----------------------------------------------------------------------------
(* The task in hand.                                                       *)

Grip ==
    /\ LInv /\ IInv /\ at.pc \notin Handless
    /\ Held("any", "none", task[at.t], at.t, queue, holder)

(* Where a handler may go on with record r in hand.                        *)
Onward(r) ==
    /\ at'.todo = <<>> \/ at'.todo = at.todo
    /\ \/ at'.pc \in Handless \ {"reconcile", "down"}
       \/ /\ at'.t = at.t /\ at'.pc \notin Handless
          /\ Held(at'.pc, at'.launch, r, at.t, queue', holder')

LEMMA PlaceKeeps ==
    ASSUME LInv, IInv, at.pc \notin Handless, NEW r,
           Twin(task[at.t], r), Touches(at.t, r), Fine(r, at.t, pushed', granted', queue', holder'),
           Sane(saved[at.t], at.t, pushed', granted'), Onward(r)
    PROVE  LStep
<1>1. at.t \in Tasks /\ Nobody \notin Tasks
  BY LoopAssumption DEF IInv, Place
<1>2. /\ task' \in [Tasks -> Task] /\ saved' \in [Tasks -> Task]
      /\ holder' \in [Workspaces -> Tasks \cup {Nobody}]
      /\ \A t \in Tasks : Fine(task'[t], t, pushed', granted', queue', holder')
      /\ \A t \in Tasks : Sane(saved'[t], t, pushed', granted')
      /\ task'[at.t] = r /\ \A t \in Tasks \ {at.t} : task'[t] = task[t]
  BY <1>1, TouchKeeps
<1>3. HandFine(at', task', queue', holder')
  BY <1>2 DEF Onward, HandFine
<1>4. \A i \in DOMAIN at'.todo : at'.todo[i][1] # at.t
  BY DEF LInv, TodoFine, Onward
<1>5. TodoFine(at', task', queue')
  BY <1>1, <1>2, <1>4, TodoKeeps DEF Onward, Touches
<1>6. SeenFine(at', task')
  BY DEF SeenFine, Onward, Handless
<1>7. at'.pc # "down" /\ at.pc # "down"
  BY DEF Onward, Handless
<1>8. \A t \in Tasks : Twin(saved[t], task'[t]) /\ Twin(saved'[t], task'[t])
  <2>1. \A t \in Tasks : Twin(saved[t], task'[t])
    BY <1>2, <1>7 DEF LInv, Twin
  <2> QED BY <2>1 DEF Touches, Twin
<1> QED BY <1>2, <1>3, <1>5, <1>6, <1>7, <1>8 DEF LInv, LStep

LEMMA HandKeeps ==
    ASSUME Grip, NEW r,
           Twin(task[at.t], r), Touches(at.t, r), Fine(r, at.t, pushed', granted', queue', holder'),
           Sane(saved[at.t], at.t, pushed', granted'), Onward(r)
    PROVE  LStep
BY PlaceKeeps DEF Grip

(* What may become of the record in hand: it may be blocked, or go on.     *)
Bare(r) ==
    /\ r \in Task /\ r.state # "none" /\ (Terminal(r) => Over(r))
    /\ Based(r, at.t, pushed, granted)
    /\ r.kind.ws = task[at.t].kind.ws /\ r.kind.readOnly = task[at.t].kind.readOnly
    /\ \/ task[at.t].run = r.run
       \/ task[at.t].run \in Nat /\ r.run \in Nat /\ task[at.t].run < r.run
Heir(r) ==
    /\ Bare(r)
    /\ Over(task[at.t]) => Over(r)
    /\ ~Over(r) => /\ Lives(r)
                   /\ r.running => Holds(r, at.t, holder)
                   /\ task[at.t].planned => r.planned

Within == UNCHANGED <<granted, pushed>>
Ticks == queue' = queue \/ queue' = queue \cup {<<"tick">>}

LEMMA TickPosts ==
    ASSUME Ticks
    PROVE  /\ \A t \in Tasks : Posted(t, queue') <=> Posted(t, queue)
           /\ \A u : Posts(u)
BY DEF Ticks, Posts, Posted

LEMMA ReleaseLeases ==
    ASSUME LInv, NEW u \in Tasks, holder' = holder \/ holder' = Release(u, holder)
    PROVE  Leases(u)
BY DEF LInv, Leases, Release

LEMMA InPlace ==
    ASSUME Grip
    PROVE  /\ at.t \in Tasks /\ Place(at) /\ Nobody \notin Tasks
           /\ Fine(task[at.t], at.t, pushed, granted, queue, holder)
           /\ Sane(saved[at.t], at.t, pushed, granted)
BY LoopAssumption DEF Grip, LInv, IInv, Place

Ends(next) ==
    next.pc \in Handless \ {"reconcile", "down"} /\ (next.todo = <<>> \/ next.todo = at.todo)

LEMMA AllEnd ==
    ASSUME Place(at)
    PROVE  Ends(Return) /\ Ends(Idle) /\ \A t : Ends(Ending(t))
BY DEF Ends, Place, Return, Ending, Handler, Idle, Handless

LEMMA BlockedOver ==
    ASSUME NEW r \in Task, r.state # "none", Terminal(r) => Over(r)
    PROVE  LET s == Blocked(r) IN
           /\ s \in Task /\ Over(s) /\ Terminal(s) /\ s.state # "none"
           /\ s.kind = r.kind /\ s.receipt = r.receipt /\ s.phase = r.phase /\ s.planned = r.planned
           /\ s.pr = r.pr /\ s.qa = r.qa /\ s.run = r.run /\ s.running = r.running
           /\ s.status = "accepted" => s = r
<1>1. CASE Terminal(r)
  BY <1>1 DEF Blocked
<1>2. CASE ~Terminal(r)
  <2> DEFINE state == IF r.state \in TerminalStates THEN r.state ELSE "failed"
  <2>1. state \in States /\ state \in TerminalStates /\ "blocked" \in Statuses /\ state # "none"
    BY DEF States, TerminalStates, Statuses, Task
  <2>2. Blocked(r) = [r EXCEPT !.status = "blocked", !.state = state]
    BY <1>2 DEF Blocked, Task
  <2>3. Blocked(r) \in Task
    BY <2>1, <2>2 DEF Task
  <2> QED BY <2>1, <2>2, <2>3 DEF Over, Terminal, TerminalStatuses, Task
<1> QED BY <1>1, <1>2

LEMMA BlockedBased ==
    ASSUME NEW r \in Task, NEW t, NEW done, NEW asked,
           r.state # "none", Terminal(r) => Over(r), Based(r, t, done, asked)
    PROVE  Sane(Blocked(r), t, done, asked)
<1> DEFINE s == Blocked(r)
<1>1. Based(s, t, done, asked)
  <2>1. CASE s.status = "accepted"
    BY <2>1, BlockedOver
  <2>2. CASE s.status # "accepted"
    BY <2>2, BlockedOver DEF Based
  <2> QED BY <2>1, <2>2
<1> QED BY <1>1, BlockedOver DEF Sane

LEMMA OverFine ==
    ASSUME NEW r, NEW t, NEW done, NEW asked, NEW q, NEW h, Sane(r, t, done, asked), Over(r),
           \A w \in Workspaces : h[w] = t => r.state # "none" /\ r.kind.ws = w
    PROVE  Fine(r, t, done, asked, q, h)
BY DEF Fine, Pending, Leasing, Letting

----------------------------------------------------------------------------
(* The building blocks of the handlers.                                    *)

(* The holder a task has been given fits its record.                       *)
LEMMA HoldersFit ==
    ASSUME LInv, NEW t \in Tasks
    PROVE  \A w \in Workspaces : holder[w] = t => task[t].state # "none" /\ task[t].kind.ws = w
BY DEF LInv, Fine, Letting

LEMMA StopAsKeeps ==
    ASSUME Grip, NEW r, Bare(r), NEW next, Ends(next), StopAs(r, next), Within, UNCHANGED saved
    PROVE  LStep
<1> DEFINE s == Blocked(r)
<1> USE InPlace
<1>1. Sane(s, at.t, pushed, granted) /\ Over(s) /\ s.state # "none" /\ s.kind.ws = task[at.t].kind.ws
      /\ Twin(task[at.t], s)
  BY BlockedOver, BlockedBased DEF Bare, Twin
<1>2. /\ task' = [task EXCEPT ![at.t] = s] /\ at' = next /\ Ticks
      /\ holder' = holder \/ holder' = Release(at.t, holder)
  BY DEF StopAs, Ticks
<1> HIDE DEF s
<1>3. Touches(at.t, s)
  BY <1>2, TickPosts, ReleaseLeases DEF Grip, Touches, Within, Grows
<1>4. \A w \in Workspaces : holder'[w] = at.t => s.state # "none" /\ s.kind.ws = w
  BY <1>1, <1>2, HoldersFit DEF Grip, Release
<1>5. Fine(s, at.t, pushed', granted', queue', holder')
  BY <1>1, <1>4, OverFine DEF Within
<1>6. Onward(s)
  BY <1>2 DEF Ends, Onward
<1> QED BY <1>1, <1>3, <1>5, <1>6, HandKeeps DEF Within

LEMMA HeirFine ==
    ASSUME Grip, NEW r, Heir(r), Within, \A t \in Tasks : Posted(t, queue') <=> Posted(t, queue),
           UNCHANGED holder
    PROVE  Fine(r, at.t, pushed', granted', queue', holder')
<1> USE InPlace
<1>1. Sane(r, at.t, pushed', granted')
  BY DEF Heir, Bare, Sane, Within
<1>2. Pending(r, at.t, queue')
  BY DEF Pending, Grip, Held, Heir
<1>3. Leasing(r, at.t, holder')
  BY DEF Leasing, Heir
<1>4. Letting(r, at.t, holder')
  BY DEF Fine, Letting, Heir, Bare
<1> QED BY <1>1, <1>2, <1>3, <1>4 DEF Fine

(* The record in hand changes, with nothing but a tick posted.             *)
LEMMA HeirKeeps ==
    ASSUME Grip, NEW r, Heir(r), task' = [task EXCEPT ![at.t] = r], saved' = saved \/ saved' = task',
           Within, Ticks, UNCHANGED holder, Onward(r)
    PROVE  LStep
<1>1. Touches(at.t, r)
  BY TickPosts, ReleaseLeases, InPlace DEF Grip, Touches, Within, Grows
<1>2. Fine(r, at.t, pushed', granted', queue', holder')
  BY HeirFine, TickPosts
<1>3. Twin(task[at.t], r)
  BY DEF Heir, Bare, Twin
<1> QED BY <1>1, <1>2, <1>3, HandKeeps, InPlace DEF Within

LEMMA BecomeKeeps ==
    ASSUME Grip, NEW r, Heir(r), NEW next, Become(r, next),
           \/ Ends(next)
           \/ /\ next.t = at.t /\ next.todo = at.todo /\ next.pc \notin Handless
              /\ Held(next.pc, next.launch, r, at.t, queue, holder)
    PROVE  LStep
<1>1. /\ task' = [task EXCEPT ![at.t] = r] /\ at' = next
      /\ UNCHANGED <<holder, queue, granted, pushed, saved>>
  BY DEF Become, worldVars, storeVars
<1>2. Onward(r)
  BY <1>1 DEF Onward, Ends
<1> QED BY <1>1, <1>2, HeirKeeps DEF Within, Ticks

LEMMA GoneKeeps ==
    ASSUME LInv, Gone, Within, UNCHANGED saved
    PROVE  LStep
<1>1. Absent \in Task /\ Unborn(Absent)
  BY DEF Absent, Task, Unborn, Untouched, States, Statuses, Phases, Waits
<1>2. \A t \in Tasks : Fine(Absent, t, pushed', granted', queue', holder')
  <2> SUFFICES ASSUME NEW t \in Tasks PROVE Fine(Absent, t, pushed', granted', queue', holder')
    OBVIOUS
  <2>1. Sane(Absent, t, pushed', granted')
    BY <1>1 DEF Sane, Lives, Based, Terminal, TerminalStatuses, Absent, NoIntake
  <2>2. Pending(Absent, t, queue')
    BY DEF Gone, Pending, Posted
  <2>3. Leasing(Absent, t, holder')
    BY DEF Absent, Leasing
  <2>4. Letting(Absent, t, holder')
    BY LoopAssumption DEF Gone, Letting
  <2> QED BY <2>1, <2>2, <2>3, <2>4 DEF Fine
<1>3. \A t \in Tasks : task'[t] = Absent
  BY DEF Gone
<1>4. /\ at'.todo = <<>> /\ at'.pc = "down" 
  BY DEF Gone, Down, Idle
<1>5. TodoFine(at', task', queue') /\ HandFine(at', task', queue', holder') /\ SeenFine(at', task')
  BY <1>4 DEF TodoFine, HandFine, SeenFine, Handless
<1>6. at' = Down /\ at'.pc = "down"
  BY <1>4 DEF Gone
<1>7. task' \in [Tasks -> Task]
  BY <1>1 DEF Gone
<1> QED BY <1>2, <1>3, <1>5, <1>6, <1>7 DEF LInv, LStep, Gone, Within

(* An error that escapes: r is the record as it is left.                   *)
LEMMA ThrowsKeeps ==
    ASSUME Grip, NEW r, Heir(r), Throws(r), UNCHANGED <<worldVars, storeVars>>
    PROVE  LStep
<1>1. Ends(Idle) /\ Bare(r) /\ Within /\ UNCHANGED saved
  BY AllEnd, InPlace DEF Heir, Within, worldVars, storeVars
<1>2. CASE at.resuming
  BY <1>1, <1>2, GoneKeeps DEF Throws, Grip
<1>3. CASE ~at.resuming /\ at.ev = Nobody
  <2>1. Onward(r)
    BY <1>1, <1>3 DEF Throws, Onward, Ends
  <2> QED BY <1>1, <1>3, <2>1, HeirKeeps DEF Throws, Ticks
<1>4. CASE ~at.resuming /\ at.ev # Nobody
  BY <1>1, <1>4, StopAsKeeps DEF Throws
<1> QED BY <1>2, <1>3, <1>4

(* Nothing but status, phase, waits, counters and the last QA decision     *)
(* differ.                                                                 *)
Alike(s, r) ==
    /\ s.state = r.state /\ s.kind = r.kind /\ s.planned = r.planned /\ s.running = r.running
    /\ s.run = r.run /\ s.evidence = r.evidence /\ s.receipt = r.receipt /\ s.pr = r.pr

LEMMA AlikeHeir ==
    ASSUME Grip, NEW s \in Task, Alike(s, task[at.t]), s.status \notin TerminalStatuses,
           s.phase = "commit_publish" => s.phase = task[at.t].phase \/ ~s.kind.readOnly,
           ~Over(s) => Lives(s)
    PROVE  Heir(s)
<1> USE InPlace
<1>1. task[at.t].state # "none" /\ Sane(task[at.t], at.t, pushed, granted)
      /\ (~Over(task[at.t]) => ~task[at.t].running)
  BY DEF Grip, Held, Fine
<1>2. ~Terminal(s) /\ s.status # "accepted"
  BY DEF Terminal, TerminalStatuses
<1>3. Based(s, at.t, pushed, granted)
  BY <1>1, <1>2 DEF Alike, Sane, Based
<1>4. Bare(s)
  BY <1>1, <1>2, <1>3 DEF Alike, Bare
<1> QED BY <1>1, <1>4 DEF Heir, Alike, Over

LEMMA StartRunKeeps ==
    ASSUME Grip, NEW r, Bare(r), StartRun(r),
           Heir([r EXCEPT !.run = @ + 1, !.running = TRUE, !.effect = "worker"])
    PROVE  LStep
<1> DEFINE s == [r EXCEPT !.run = @ + 1, !.running = TRUE, !.effect = "worker"]
<1>0. Heir(s) /\ Ends(Return)
  BY AllEnd, InPlace
<1>1. CASE StopAs(r, Return) /\ UNCHANGED <<worldVars, storeVars>>
  BY <1>0, <1>1, StopAsKeeps DEF Within, worldVars, storeVars
<1>2. CASE Throws(s) /\ UNCHANGED <<worldVars, storeVars>>
  BY <1>0, <1>2, ThrowsKeeps
<1>3. CASE /\ task' = [task EXCEPT ![at.t] = s] /\ Save(task') /\ at' = Return
           /\ UNCHANGED <<holder, queue, granted, pushed>>
  <2> HIDE DEF s
  <2>1. Onward(s)
    BY <1>0, <1>3 DEF Ends, Onward
  <2> QED BY <1>0, <1>3, <2>1, HeirKeeps DEF Within, Ticks, Save
<1> QED BY <1>1, <1>2, <1>3 DEF StartRun

LEMMA IntendKeeps ==
    ASSUME Grip, NEW r, NEW effect, NEW pc, pc \notin Handless, Intend(r, effect, pc),
           Heir([r EXCEPT !.effect = effect]),
           Held(pc, at.launch, [r EXCEPT !.effect = effect], at.t, queue, holder)
    PROVE  LStep
<1> DEFINE s == [r EXCEPT !.effect = effect]
<1>1. Heir(s) /\ Held(pc, at.launch, s, at.t, queue, holder)
  OBVIOUS
<1>2. CASE Throws(s) /\ UNCHANGED <<worldVars, storeVars>>
  BY <1>1, <1>2, ThrowsKeeps
<1>3. CASE /\ task' = [task EXCEPT ![at.t] = s] /\ Save(task') /\ at' = [at EXCEPT !.pc = pc]
           /\ UNCHANGED <<holder, queue, worldVars>>
  <2> HIDE DEF s
  <2>1. at'.pc = pc /\ at'.t = at.t /\ at'.todo = at.todo /\ at'.launch = at.launch
    BY <1>3, InPlace DEF Place
  <2>2. Onward(s)
    BY <1>1, <1>3, <2>1 DEF Onward
  <2> QED BY <1>1, <1>3, <2>2, HeirKeeps DEF Within, Ticks, Save, worldVars
<1> QED BY <1>2, <1>3 DEF Intend

LEMMA GoKeeps ==
    ASSUME Grip, NEW r, Heir(r), NEW pc, pc \notin Handless, Become(r, [at EXCEPT !.pc = pc]),
           Held(pc, at.launch, r, at.t, queue, holder)
    PROVE  LStep
<1> DEFINE next == [at EXCEPT !.pc = pc]
<1>1. next.t = at.t /\ next.todo = at.todo /\ next.pc = pc /\ next.launch = at.launch
     /\ Become(r, next)
  BY InPlace DEF Place
<1> HIDE DEF next
<1> QED BY <1>1, BecomeKeeps

LEMMA BackKeeps ==
    ASSUME Grip, NEW r, Heir(r), Become(r, Return)
    PROVE  LStep
BY BecomeKeeps, AllEnd, InPlace

(* What a handler still holds of a record that it made from the one in     *)
(* hand.                                                                   *)
LEMMA HeldOn ==
    ASSUME Grip, NEW r, Heir(r), r.status # "accepted", NEW pc, NEW what,
           pc \in {"observe", "publish", "commit", "push"} => ~r.kind.readOnly,
           pc = "verify" => r.kind.readOnly,
           ~Over(r) => ~r.running /\ Fit(pc, what, r) /\ (pc \in {"prepare", "launch"} => Holds(r, at.t, holder))
    PROVE  Held(pc, what, r, at.t, queue, holder)
BY DEF Grip, Held, Heir, Bare

LEMMA LaunchKeeps ==
    ASSUME Grip, NEW r, Heir(r), NEW what, Launch(r, what), r.status # "accepted",
           ~Over(r) => ~r.running /\ Fit("launch", what, r)
    PROVE  LStep
<1> DEFINE next == [at EXCEPT !.pc = "launch", !.launch = what]
<1>1. CASE Leased(at.t)
  <2>1. /\ next.t = at.t /\ next.todo = at.todo /\ next.pc = "launch" /\ next.launch = what
        /\ Become(r, next)
    BY <1>1, InPlace DEF Place, Launch
  <2> HIDE DEF next
  <2>2. Holds(r, at.t, holder)
    BY <1>1 DEF Leased, Holds, Heir, Bare
  <2>3. Held("launch", what, r, at.t, queue, holder)
    BY <2>2, HeldOn
  <2> QED BY <2>1, <2>3, BecomeKeeps DEF Handless
<1>2. CASE ~Leased(at.t)
  BY <1>2, StopAsKeeps, AllEnd, InPlace DEF Launch, Within, worldVars, storeVars, Heir
<1> QED BY <1>1, <1>2

(* The record in hand as it is, when it is not accepted.                   *)
LEMMA SameHeir ==
    ASSUME Grip
    PROVE  Heir(task[at.t]) /\ task[at.t].status # "accepted" /\ task[at.t] \in Task
           /\ task[at.t].kind \in Intake
           /\ (~Over(task[at.t]) => ~task[at.t].running)
BY InPlace DEF Grip, Held, Heir, Bare, Fine, Sane, Based

LEMMA StopKeeps ==
    ASSUME Grip, Stop(Return)
    PROVE  LStep
BY StopAsKeeps, SameHeir, AllEnd, InPlace DEF Stop, Heir, Within, worldVars, storeVars

LEMMA StopAsBack ==
    ASSUME Grip, NEW r, Bare(r), StopAs(r, Return), UNCHANGED <<worldVars, storeVars>>
    PROVE  LStep
BY StopAsKeeps, AllEnd, InPlace DEF Within, worldVars, storeVars

LEMMA AskedTask ==
    ASSUME NEW r \in Task, NEW status \in Statuses, NEW phase \in Phases, NEW w \in SUBSET Waits,
           NEW c \in Nat, NEW s,
           s = [r EXCEPT !.status = status, !.phase = phase, !.waits = w, !.contract = c]
    PROVE  s \in Task
BY DEF Task

LEMMA LaunchOrAskKeeps ==
    ASSUME Grip, NEW what \in {"repair", "retry", "continuation"}, NEW changed,
           LaunchOrAsk(task[at.t], what, changed),
           ~Over(task[at.t]) => Settled(task[at.t])
    PROVE  LStep
<1> DEFINE r == task[at.t]
           n == [r EXCEPT !.contract = @ + 1]
           s == AwaitApproval([n EXCEPT !.waits = (@ \ {"pause"}) \cup {what}], "pre_execution")
<1>0. r \in Task /\ r.status # "accepted" /\ Heir(r)
  BY SameHeir
<1>1. CASE Become(s, Return)
  <2>1. s = [r EXCEPT !.status = "needs_human_approval", !.phase = "pre_execution",
                      !.waits = (r.waits \ {"pause"}) \cup {what}, !.contract = r.contract + 1]
    BY <1>0 DEF AwaitApproval, Task
  <2>2. s \in Task
    <3>1. (r.waits \ {"pause"}) \cup {what} \in SUBSET Waits
      BY <1>0 DEF Task, Waits
    <3>2. r.contract + 1 \in Nat /\ "needs_human_approval" \in Statuses /\ "pre_execution" \in Phases
      BY <1>0 DEF Task, Statuses, Phases
    <3> HIDE DEF s, r, n
    <3> QED BY <1>0, <2>1, <3>1, <3>2, AskedTask
  <2>3. /\ Alike(s, r) /\ s.status = "needs_human_approval" /\ s.phase = "pre_execution"
        /\ s.waits = (r.waits \ {"pause"}) \cup {what} /\ s.qa = r.qa
    BY <1>0, <2>1 DEF Alike, Task
  <2> HIDE DEF s
  <2>4. ~Over(s) => Lives(s)
    <3> SUFFICES ASSUME ~Over(s) PROVE Underway(s)
      BY DEF Lives
    <3>1. Settled(r)
      BY <2>3 DEF Alike, Over
    <3> QED BY <2>3, <3>1
               DEF Alike, Settled, Underway, Moving, Clean, Relaunching, Unclear, Opened, Checked, AtMostOne
  <2>5. Heir(s)
    BY <2>2, <2>3, <2>4, AlikeHeir DEF TerminalStatuses
  <2> QED BY <1>1, <2>5, BackKeeps
<1>2. CASE Launch(r, what)
  <2>1. ~Over(r) => ~r.running /\ Fit("launch", what, r)
    BY DEF Settled, Fit, Clean, Relaunching
  <2> QED BY <1>0, <1>2, <2>1, LaunchKeeps
<1> QED BY <1>1, <1>2 DEF LaunchOrAsk

----------------------------------------------------------------------------
(* Judgements.                                                             *)

(* A record made from the one in hand.                                     *)
Stock(r) ==
    /\ r.state # "none" /\ r.status # "accepted" /\ (Terminal(r) => Over(r))
    /\ Based(r, at.t, pushed, granted)
    /\ r.kind.ws = task[at.t].kind.ws /\ r.kind.readOnly = task[at.t].kind.readOnly
    /\ \/ task[at.t].run = r.run
       \/ task[at.t].run \in Nat /\ r.run \in Nat /\ task[at.t].run < r.run
    /\ Over(task[at.t]) => Over(r)
    /\ task[at.t].planned => r.planned

LEMMA StockHeir ==
    ASSUME Grip, NEW r, Stock(r), NEW s \in Task, Alike(s, r), s.status \notin TerminalStatuses,
           s.phase = "commit_publish" => s.phase = r.phase \/ ~s.kind.readOnly,
           ~Over(s) => Lives(s) /\ ~s.running
    PROVE  Heir(s)
<1>1. ~Terminal(s) /\ s.status # "accepted"
  BY DEF Terminal, TerminalStatuses
<1>2. Based(s, at.t, pushed, granted)
  BY <1>1 DEF Alike, Stock, Based
<1>3. Bare(s)
  BY <1>1, <1>2 DEF Alike, Bare, Stock
<1> QED BY <1>3 DEF Heir, Alike, Over, Stock

(* A record that may be judged: afresh, or after QA, or when the owner has *)
(* approved what QA passed.                                                *)
Judgeable(r, fresh) ==
    \/ /\ r.state = "awaiting_approval" /\ ~fresh /\ Checked(r)
       /\ Red(r) => <<at.t, "post_qa", r.receipt>> \in granted
    \/ /\ Moving(r) /\ ~r.running /\ Clean(r) /\ Opened(r)
       /\ r.qa # 0 => ~fresh /\ Checked(r)

LEMMA AcceptKeeps ==
    ASSUME Grip, NEW r, Bare(r), AcceptedFine(r, at.t, pushed, granted), Accept(r)
    PROVE  LStep
<1> DEFINE s == [r EXCEPT !.state = "complete", !.status = "accepted"]
<1> USE InPlace
<1>1. s \in Task
  BY DEF Bare, Task, States, Statuses
<1>2. /\ s.state = "complete" /\ s.status = "accepted" /\ s.kind = r.kind /\ s.receipt = r.receipt
      /\ s.phase = r.phase /\ s.pr = r.pr /\ s.qa = r.qa /\ s.run = r.run
  BY DEF Bare, Task
<1>3. /\ task' = [task EXCEPT ![at.t] = s] /\ at' = Return /\ Ticks
      /\ holder' = Release(at.t, holder) /\ Within /\ UNCHANGED saved
  BY DEF Accept, Ticks, Within, worldVars, storeVars
<1> HIDE DEF s
<1>4. Over(s)
  BY <1>2 DEF Over, TerminalStates
<1>5. Based(s, at.t, pushed, granted)
  BY <1>2 DEF Bare, Based, AcceptedFine, Red
<1>6. Sane(s, at.t, pushed', granted')
  BY <1>1, <1>3, <1>4, <1>5 DEF Sane, Within
<1>7. Touches(at.t, s)
  BY <1>3, TickPosts, ReleaseLeases DEF Grip, Touches, Within, Grows
<1>8. \A w \in Workspaces : holder'[w] # at.t
  BY <1>3 DEF Release
<1>9. Fine(s, at.t, pushed', granted', queue', holder')
  BY <1>4, <1>6, <1>8, OverFine
<1>10. Onward(s)
  BY <1>3, AllEnd DEF Ends, Onward
<1>11. Twin(task[at.t], s)
  BY <1>2 DEF Bare, Twin, Over, TerminalStates
<1> QED BY <1>3, <1>7, <1>9, <1>10, <1>11, HandKeeps DEF Within

LEMMA AskedFields ==
    ASSUME NEW r \in Task, NEW phase \in Phases
    PROVE  LET s == AwaitApproval(r, phase) IN
           /\ s \in Task /\ Alike(s, r) /\ s.status = "needs_human_approval" /\ s.phase = phase
           /\ s.waits = r.waits /\ s.qa = r.qa /\ s.result = r.result
BY DEF AwaitApproval, Task, Alike, Statuses

LEMMA DecidedFields ==
    ASSUME NEW r \in Task, ~Terminal(r)
    PROVE  LET s == AwaitDecision(r) IN
           /\ s \in Task /\ Alike(s, r) /\ s.status = "needs_human_decision" /\ s.phase = r.phase
           /\ s.waits = r.waits \cup {"decision"} /\ s.qa = r.qa
<1>1. r.waits \cup {"decision"} \in SUBSET Waits
  BY DEF Task, Waits
<1> QED BY <1>1 DEF AwaitDecision, Task, Alike, Statuses

(* A record that goes to the GPT Manager, or to the owner.                 *)
Worn(r) ==
    /\ Underway(r) /\ ~r.running /\ ~Relaunching(r) /\ ~Unclear(r) /\ r.qa = 0 /\ Opened(r)

LEMMA DecisionKeeps ==
    ASSUME Grip, NEW r \in Task, Stock(r), ~Over(r) => Worn(r), Become(AwaitDecision(r), Return)
    PROVE  LStep
<1>1. CASE Terminal(r)
  <2>1. Heir(r)
    BY <1>1 DEF Stock, Heir, Bare
  <2> QED BY <1>1, <2>1, BackKeeps DEF AwaitDecision
<1>2. CASE ~Terminal(r)
  <2> DEFINE s == AwaitDecision(r)
  <2>1. /\ s \in Task /\ Alike(s, r) /\ s.status = "needs_human_decision" /\ s.phase = r.phase
        /\ s.waits = r.waits \cup {"decision"} /\ s.qa = r.qa
    BY <1>2, DecidedFields
  <2> HIDE DEF s
  <2>2. ~Over(s) => Lives(s) /\ ~s.running
    BY <2>1
       DEF Alike, Over, Worn, Lives, Underway, Moving, Relaunching, Unclear, Opened, AtMostOne, Checked
  <2>3. Heir(s)
    BY <2>1, <2>2, StockHeir DEF TerminalStatuses
  <2> QED BY <2>3, BackKeeps DEF s
<1> QED BY <1>1, <1>2

LEMMA NeedsRepairKeeps ==
    ASSUME Grip, NEW r \in Task, Stock(r), ~Over(r) => Worn(r), NeedsRepair(r)
    PROVE  LStep
<1>1. CASE Become(r, [at EXCEPT !.pc = "diagnose"])
  <2>1. Heir(r)
    BY DEF Stock, Heir, Bare, Worn, Lives
  <2>2. ~Over(r) => ~r.running /\ Fit("diagnose", at.launch, r)
    BY DEF Worn, Fit, Unclear
  <2>3. Held("diagnose", at.launch, r, at.t, queue, holder)
    BY <2>1, <2>2, HeldOn DEF Stock
  <2> QED BY <1>1, <2>1, <2>3, GoKeeps DEF Handless
<1>2. CASE Become(AwaitDecision(r), Return)
  BY <1>2, DecisionKeeps
<1> QED BY <1>1, <1>2 DEF NeedsRepair

LEMMA AskKeeps ==
    ASSUME Grip, NEW r \in Task, Stock(r), NEW phase \in Phases \ {"commit_publish"},
           Become(AwaitApproval(r, phase), Return),
           ~Over(r) => ~r.running /\ Lives(AwaitApproval(r, phase))
    PROVE  LStep
<1> DEFINE s == AwaitApproval(r, phase)
<1>1. /\ s \in Task /\ Alike(s, r) /\ s.status = "needs_human_approval" /\ s.phase = phase
  BY AskedFields
<1>2. ~Over(s) => Lives(s) /\ ~s.running
  BY <1>1 DEF Alike, Over
<1> HIDE DEF s
<1>3. Heir(s)
  BY <1>1, <1>2, StockHeir DEF TerminalStatuses
<1> QED BY <1>3, BackKeeps DEF s

(* A running task that is asked for the approval of its contract.          *)
LEMMA AskAgainKeeps ==
    ASSUME Grip, NEW r \in Task, Stock(r), Become(AwaitApproval(r, "pre_execution"), Return),
           ~Over(r) => /\ Moving(r) /\ ~r.running /\ Clean(r) /\ Opened(r)
                       /\ r.qa # 0 => Checked(r)
    PROVE  LStep
<1> DEFINE s == AwaitApproval(r, "pre_execution")
<1>1. "pre_execution" \in Phases \ {"commit_publish"}
  BY DEF Phases
<1>2. /\ Alike(s, r) /\ s.status = "needs_human_approval" /\ s.phase = "pre_execution"
      /\ s.waits = r.waits /\ s.qa = r.qa
  BY <1>1, AskedFields
<1> HIDE DEF s
<1>3. ~Over(r) => ~r.running /\ Lives(s)
  BY <1>2 DEF Alike, Lives, Underway, Moving, Clean, Relaunching, Unclear, Opened, Checked, AtMostOne
<1> QED BY <1>1, <1>3, AskKeeps DEF s

LEMMA JudgeKeeps ==
    ASSUME Grip, NEW r \in Task, Stock(r), NEW fresh, ~Over(r) => Judgeable(r, fresh),
           Judge(r, fresh)
    PROVE  LStep
<1> DEFINE from == IF fresh /\ r.pr THEN "running" ELSE r.state
           unapproved == /\ Red(r) /\ <<at.t, "pre_execution", r.contract>> \notin granted
                         /\ from \in Repairable
           qaFailed == from = "qa_running" /\ r.qa # r.receipt
           passed == [r EXCEPT !.state = "qa_passed"]
<1>1. Bare(r) /\ r.kind \in Intake
  BY DEF Stock, Bare, Based
<1>2. CASE StopAs(r, Return) /\ UNCHANGED <<worldVars, storeVars>>
  BY <1>1, <1>2, StopAsBack
<1>3. CASE fresh /\ Become(AwaitApproval([r EXCEPT !.kind.risk = "red"], "pre_execution"), Return)
  <2> DEFINE b == [r EXCEPT !.kind.risk = "red"]
  <2>1. [r.kind EXCEPT !.risk = "red"] \in Intake
    BY <1>1 DEF Intake
  <2>2. b \in Task
    BY <2>1 DEF Task
  <2>3. /\ b.state = r.state /\ b.status = r.status /\ b.planned = r.planned /\ b.running = r.running
        /\ b.run = r.run /\ b.evidence = r.evidence /\ b.receipt = r.receipt /\ b.pr = r.pr
        /\ b.waits = r.waits /\ b.qa = r.qa /\ b.phase = r.phase
        /\ b.kind = [r.kind EXCEPT !.risk = "red"]
        /\ b.kind.ws = r.kind.ws /\ b.kind.readOnly = r.kind.readOnly
    BY <1>1 DEF Task, Intake
  <2> HIDE DEF b
  <2>4. Stock(b)
    BY <2>1, <2>3 DEF Stock, Based, Over, Terminal
  <2>5. ~Over(b) => /\ Moving(b) /\ ~b.running /\ Clean(b) /\ Opened(b)
                    /\ b.qa # 0 => Checked(b)
    BY <1>3, <2>3 DEF Judgeable, Moving, Over, Clean, Relaunching, Unclear, Opened, Checked, AtMostOne
  <2> QED BY <1>3, <2>2, <2>4, <2>5, AskAgainKeeps DEF b
<1>4. CASE unapproved /\ Become(AwaitApproval(r, "pre_execution"), Return)
  <2>1. ~Over(r) => r.state \in Repairable
    BY <1>4 DEF Judgeable, Moving, Repairable
  <2> QED BY <1>4, <2>1, AskAgainKeeps DEF Judgeable, Repairable
<1>5. CASE fresh /\ from \in Repairable /\ NeedsRepair(r)
  <2>1. ~Over(r) => Worn(r)
    BY <1>5 DEF Judgeable, Worn, Underway, Clean
  <2> QED BY <1>5, <2>1, NeedsRepairKeeps
<1>6. CASE qaFailed /\ NeedsRepair(r)
  <2>1. ~Over(r) => Worn(r)
    BY <1>6 DEF Judgeable, Worn, Underway, Clean, Checked, Moving, Repairable
  <2> QED BY <1>6, <2>1, NeedsRepairKeeps
<1>7. CASE /\ from = "running"
           /\ Become(r, [at EXCEPT !.pc = IF r.kind.readOnly THEN "verify" ELSE "observe"])
  <2> DEFINE pc == IF r.kind.readOnly THEN "verify" ELSE "observe"
  <2>1. ~Over(r) => Settled(r)
    BY <1>7 DEF Judgeable, Settled, Underway, Moving, Checked
  <2>2. Heir(r)
    BY <1>1, <2>1 DEF Stock, Heir, Settled, Lives
  <2>3. ~Over(r) => ~r.running /\ Fit(pc, at.launch, r)
    BY <2>1 DEF Fit, Settled
  <2>4. Held(pc, at.launch, r, at.t, queue, holder)
    BY <2>2, <2>3, HeldOn DEF Stock
  <2> QED BY <1>7, <2>2, <2>4, GoKeeps DEF Handless
<1>8. CASE from = "awaiting_approval" /\ Accept(r)
  <2>1. AcceptedFine(r, at.t, pushed, granted)
    BY <1>8 DEF Judgeable, Moving, Repairable, Over, TerminalStates, AcceptedFine, Checked, Stock, Based
  <2> QED BY <1>1, <1>8, <2>1, AcceptKeeps
<1>9. ASSUME from \in {"qa_running", "qa_passed"}, ~qaFailed
      PROVE  r.state = "qa_running" /\ ~Over(r) /\ Checked(r) /\ ~r.running /\ Clean(r)
  <2>1. r.state = from /\ ~Over(r)
    BY <1>9 DEF Over, TerminalStates
  <2> QED BY <1>9, <2>1 DEF Judgeable, Moving, Checked, Repairable
<1>10. CASE from \in {"qa_running", "qa_passed"} /\ ~qaFailed /\ Accept(passed) /\ ~Red(r)
  <2>1. passed \in Task
    BY DEF Task, States
  <2>2. /\ passed.state = "qa_passed" /\ passed.status = r.status /\ passed.kind = r.kind
        /\ passed.receipt = r.receipt /\ passed.run = r.run /\ passed.qa = r.qa /\ passed.pr = r.pr
        /\ passed.phase = r.phase
    BY DEF Task
  <2> HIDE DEF passed
  <2>3. Checked(r) /\ ~Terminal(r)
    BY <1>9, <1>10 DEF Stock
  <2>4. Bare(passed)
    BY <1>1, <2>1, <2>2, <2>3 DEF Bare, Terminal, Based, Stock
  <2>5. AcceptedFine(passed, at.t, pushed, granted)
    BY <1>10, <2>2, <2>3 DEF AcceptedFine, Stock, Based, Checked, Red
  <2> QED BY <1>10, <2>4, <2>5, AcceptKeeps
<1>11. CASE /\ from \in {"qa_running", "qa_passed"} /\ ~qaFailed
            /\ Become(AwaitApproval([r EXCEPT !.state = "awaiting_approval"], "post_qa"), Return)
  <2> DEFINE b == [r EXCEPT !.state = "awaiting_approval"]
             s == AwaitApproval(b, "post_qa")
  <2>1. b \in Task
    BY DEF Task, States
  <2>2. /\ b.state = "awaiting_approval" /\ b.status = r.status /\ b.kind = r.kind
        /\ b.planned = r.planned /\ b.running = r.running /\ b.run = r.run /\ b.evidence = r.evidence
        /\ b.receipt = r.receipt /\ b.pr = r.pr /\ b.qa = r.qa /\ b.phase = r.phase
        /\ b.waits = r.waits
    BY DEF Task
  <2> HIDE DEF b
  <2>3. Checked(r) /\ ~Terminal(r) /\ ~Over(r) /\ ~r.running /\ Clean(r)
    BY <1>9, <1>11 DEF Stock
  <2>4. Stock(b)
    BY <2>2, <2>3 DEF Terminal, Based, Stock
  <2>5. "post_qa" \in Phases \ {"commit_publish"}
    BY DEF Phases
  <2>6. /\ Alike(s, b) /\ s.status = "needs_human_approval" /\ s.phase = "post_qa"
        /\ s.waits = b.waits /\ s.qa = b.qa
    BY <2>1, <2>5, AskedFields
  <2> HIDE DEF s
  <2>7. Lives(s)
    BY <2>2, <2>3, <2>6 DEF Alike, Lives, Asking, Clean, Relaunching, Unclear, Checked
  <2> QED BY <1>11, <2>1, <2>2, <2>3, <2>4, <2>5, <2>7, AskKeeps DEF s, b
<1> QED BY <1>2, <1>3, <1>4, <1>5, <1>6, <1>7, <1>8, <1>10, <1>11 DEF Judge

----------------------------------------------------------------------------
(* The steps of a handler with a task in hand.                             *)

LEMMA GripAt ==
    ASSUME LInv, IInv, at.pc \notin Handless \cup {"available"}
    PROVE  /\ Grip
           /\ Held(at.pc, at.launch, task[at.t], at.t, queue, holder)
BY DEF Grip, LInv, HandFine, Held, Fit

LEMMA SameBare ==
    ASSUME Grip
    PROVE  Bare(task[at.t]) /\ Stock(task[at.t])
BY SameHeir, InPlace DEF Heir, Bare, Stock, Grip, Held

LEMMA RunTask ==
    ASSUME NEW r \in Task
    PROVE  [r EXCEPT !.run = @ + 1, !.running = TRUE, !.effect = "worker"] \in Task
<1>1. r.run + 1 \in Nat
  BY DEF Task
<1>2. \A n \in Nat : [r EXCEPT !.run = n, !.running = TRUE, !.effect = "worker"] \in Task
  BY DEF Task
<1> QED BY <1>1, <1>2

LEMMA MovedTask ==
    ASSUME NEW r \in Task
    PROVE  LET m == [r EXCEPT !.planned = FALSE, !.replans = @ + 1] IN
           m \in Task /\ [m EXCEPT !.status = "queued"] \in Task
<1>1. r.replans + 1 \in Nat
  BY DEF Task
<1>2. \A n \in Nat : [r EXCEPT !.planned = FALSE, !.replans = n] \in Task
  BY DEF Task
<1>3. [r EXCEPT !.planned = FALSE, !.replans = @ + 1] \in Task
  BY <1>1, <1>2
<1>4. \A m \in Task : [m EXCEPT !.status = "queued"] \in Task
  BY DEF Task, Statuses
<1> QED BY <1>3, <1>4

LEMMA DispatchPlansKeeps ==
    ASSUME LInv, IInv, DispatchPlans
    PROVE  LStep
<1> DEFINE r == task[at.t]
           w == r.kind.ws
<1>1. at.pc = "base" /\ Grip
  BY GripAt DEF DispatchPlans, Handless
<1>2. (~Over(r) => Queued(r)) /\ r \in Task /\ r.kind \in Intake /\ r.status # "accepted"
      /\ (~Over(r) => ~Posted(at.t, queue))
  BY <1>1, GripAt, SameHeir DEF Held, Fit, Handless
<1>3. CASE Become([r EXCEPT !.status = "waiting"], Return)
  <2> DEFINE s == [r EXCEPT !.status = "waiting"]
  <2>1. s \in Task /\ Alike(s, r) /\ s.status = "waiting" /\ s.phase = r.phase
        /\ s.waits = r.waits /\ s.qa = r.qa /\ s.result = r.result
    BY <1>2 DEF Task, Alike, Statuses
  <2> HIDE DEF s
  <2>2. ~Over(s) => Lives(s)
    BY <1>2, <2>1 DEF Alike, Over, Lives, Queued, Untouched
  <2> QED BY <1>1, <1>3, <2>1, <2>2, AlikeHeir, BackKeeps DEF TerminalStatuses, s
<1>4. CASE /\ holder[w] \in {at.t, Nobody}
           /\ task' = [task EXCEPT ![at.t].planned = TRUE]
           /\ holder' = [holder EXCEPT ![w] = at.t]
           /\ at' = [at EXCEPT !.pc = "prepare"]
           /\ UNCHANGED <<queue, worldVars, storeVars>>
  <2> DEFINE s == [r EXCEPT !.planned = TRUE]
  <2> USE <1>1, InPlace
  <2>1. /\ s \in Task /\ s.state = r.state /\ s.status = r.status /\ s.kind = r.kind
        /\ s.running = r.running /\ s.result = r.result /\ s.receipt = r.receipt /\ s.phase = r.phase
        /\ s.pr = r.pr /\ s.qa = r.qa /\ s.run = r.run /\ s.waits = r.waits /\ s.planned
    BY <1>2 DEF Task
  <2>2. task' = [task EXCEPT ![at.t] = s]
    BY <1>4
  <2> HIDE DEF s
  <2>3. w \in Workspaces
    BY <1>2 DEF Intake
  <2>4. Leases(at.t)
    BY <1>4, <2>3 DEF Grip, LInv, Leases
  <2>5. Touches(at.t, s)
    BY <1>4, <2>2, <2>4 DEF Touches, Grows, Posts, worldVars, storeVars
  <2>6. ~Over(s) => Queued(s) /\ ~s.running /\ ~Posted(at.t, queue')
    BY <1>2, <1>4, <2>1 DEF Over, Queued, Untouched
  <2>7. Sane(s, at.t, pushed', granted')
    BY <1>4, <2>1, <2>6, SameBare
       DEF Bare, Sane, Lives, Based, AcceptedFine, Red, Terminal, Over, worldVars
  <2>8. Letting(s, at.t, holder')
    BY <1>4, <2>1, <2>3, HoldersFit, SameBare DEF Letting, Grip, LInv, Bare
  <2>9. Fine(s, at.t, pushed', granted', queue', holder')
    BY <2>6, <2>7, <2>8 DEF Fine, Pending, Leasing
  <2>10. Held("prepare", at.launch, s, at.t, queue', holder')
    BY <1>2, <1>4, <2>1, <2>3, <2>6, SameBare DEF Held, Fit, Holds, Bare, Grip, LInv
  <2>11. at'.pc = "prepare" /\ at'.t = at.t /\ at'.launch = at.launch /\ at'.todo = at.todo
    BY <1>4 DEF Place
  <2>12. Onward(s)
    BY <2>10, <2>11 DEF Onward, Handless
  <2>13. Twin(r, s)
    BY <2>1 DEF Twin
  <2> QED BY <1>4, <2>5, <2>9, <2>12, <2>13, HandKeeps DEF worldVars
<1>5. CASE Stop(Return)
  BY <1>1, <1>5, StopKeeps
<1> QED BY <1>3, <1>4, <1>5 DEF DispatchPlans

LEMMA DispatchStartsKeeps ==
    ASSUME LInv, IInv, DispatchStarts
    PROVE  LStep
<1> DEFINE r == task[at.t]
           moved == [r EXCEPT !.planned = FALSE, !.replans = @ + 1]
           s == [moved EXCEPT !.status = "queued"]
           b == [r EXCEPT !.state = "running", !.status = "running"]
<1>1. at.pc = "prepare" /\ Grip
  BY GripAt DEF DispatchStarts, Handless
<1>2. (~Over(r) => Queued(r)) /\ r \in Task /\ r.kind \in Intake /\ r.status # "accepted"
      /\ (~Over(r) => ~Posted(at.t, queue) /\ Holds(r, at.t, holder)) /\ Bare(r) /\ Stock(r)
  BY <1>1, GripAt, SameHeir, SameBare DEF Held, Fit, Handless
<1>3. CASE Stop(Return)
  BY <1>1, <1>3, StopKeeps
<1>4. CASE StopAs(moved, Return) /\ UNCHANGED <<worldVars, storeVars>>
  <2>1. /\ moved.state = r.state /\ moved.status = r.status /\ moved.kind = r.kind
        /\ moved.receipt = r.receipt /\ moved.phase = r.phase /\ moved.run = r.run
    BY <1>2 DEF Task
  <2>0. moved \in Task
    BY <1>2, MovedTask
  <2> HIDE DEF moved
  <2>2. Bare(moved)
    BY <1>2, <2>0, <2>1 DEF Bare, Terminal, Over, Based
  <2> QED BY <1>1, <1>4, <2>2, StopAsBack
<1>5. CASE /\ task' = [task EXCEPT ![at.t] = s]
           /\ holder' = Release(at.t, holder)
           /\ queue' = queue \cup {<<"tick">>}
           /\ at' = Return
           /\ UNCHANGED <<worldVars, storeVars>>
  <2> USE <1>1, InPlace
  <2>1. /\ s.state = r.state /\ s.status = "queued" /\ s.kind = r.kind
        /\ s.running = r.running /\ s.result = r.result /\ s.receipt = r.receipt /\ s.phase = r.phase
        /\ s.pr = r.pr /\ s.qa = r.qa /\ s.run = r.run /\ s.waits = r.waits
    BY <1>2 DEF Task
  <2>0. s \in Task
    BY <1>2, MovedTask
  <2> HIDE DEF s
  <2>2. Touches(at.t, s)
    BY <1>5, TickPosts, ReleaseLeases DEF Grip, Touches, Grows, Ticks, worldVars, storeVars
  <2>3. ~Over(s) => Queued(s) /\ ~s.running /\ ~Posted(at.t, queue')
    BY <1>2, <1>5, <2>1 DEF Over, Queued, Untouched, Posted
  <2>4. Sane(s, at.t, pushed', granted')
    BY <1>2, <1>5, <2>0, <2>1, <2>3 DEF Bare, Sane, Lives, Based, Terminal, TerminalStatuses, worldVars
  <2>5. Letting(s, at.t, holder')
    BY <1>5 DEF Letting, Release
  <2>6. Fine(s, at.t, pushed', granted', queue', holder')
    BY <2>3, <2>4, <2>5 DEF Fine, Pending, Leasing
  <2>7. Onward(s)
    BY <1>5, AllEnd DEF Ends, Onward
  <2>8. Twin(r, s)
    BY <2>1 DEF Twin
  <2> QED BY <1>5, <2>2, <2>6, <2>7, <2>8, HandKeeps DEF worldVars
<1>6. CASE Throws(r) /\ UNCHANGED <<worldVars, storeVars>>
  BY <1>1, <1>6, SameHeir, ThrowsKeeps
<1>7. CASE r.state = "queued" /\ StartRun(b)
  <2> DEFINE u == [b EXCEPT !.run = @ + 1, !.running = TRUE, !.effect = "worker"]
  <2>1. b \in Task
    BY <1>2 DEF Task, States, Statuses
  <2>10. u \in Task
    BY <2>1, RunTask
  <2>2. /\ b.state = "running" /\ b.status = "running" /\ b.kind = r.kind /\ b.receipt = r.receipt
        /\ b.phase = r.phase /\ b.run = r.run
    BY <1>2 DEF Task
  <2>3. /\ u.state = "running" /\ u.status = "running" /\ u.kind = r.kind /\ u.receipt = r.receipt
        /\ u.phase = r.phase /\ u.run = r.run + 1 /\ u.running /\ u.planned = r.planned
        /\ u.waits = r.waits /\ u.pr = r.pr /\ u.qa = r.qa
    BY <1>2 DEF Task
  <2>4. ~Over(r) /\ Queued(r) /\ Holds(r, at.t, holder)
    BY <1>2, <1>7 DEF Over, TerminalStates
  <2>5. r.planned
    BY <1>1, <1>2, <2>4, InPlace DEF Fine, Letting, Holds, Intake
  <2>6. r.run \in Nat /\ r.run + 1 \in Nat /\ r.run + 1 # 0 /\ r.run < r.run + 1
    BY <1>2 DEF Task
  <2> HIDE DEF b, u
  <2>7. Bare(b)
    BY <1>2, <2>1, <2>2 DEF Bare, Terminal, TerminalStatuses, Based
  <2>8. Underway(u)
    BY <2>3, <2>4, <2>5, <2>6
       DEF Queued, Untouched, Underway, Moving, Opened, AtMostOne, Relaunching, Checked, Repairable
  <2>9. Heir(u)
    BY <1>2, <2>10, <2>3, <2>4, <2>5, <2>6, <2>8
       DEF Heir, Bare, Terminal, TerminalStatuses, Based, Lives, Holds
  <2> QED BY <1>1, <1>7, <2>7, <2>9, StartRunKeeps DEF u
<1> QED BY <1>3, <1>4, <1>5, <1>6, <1>7 DEF DispatchStarts, Stop

LEMMA InfrastructureFields ==
    ASSUME NEW r \in Task, NEW what \in Waits
    PROVE  LET s == AwaitInfrastructure(r, what) IN
           /\ s \in Task /\ Alike(s, r) /\ s.status = "waiting_infrastructure" /\ s.phase = r.phase
           /\ s.waits = r.waits \cup {what} /\ s.qa = r.qa
<1> DEFINE s == AwaitInfrastructure(r, what)
           w == r.waits \cup {what}
<1>1. w \in SUBSET Waits /\ "waiting_infrastructure" \in Statuses
  BY DEF Task, Statuses
<1>2. s = [r EXCEPT !.status = "waiting_infrastructure", !.waits = w]
  BY DEF AwaitInfrastructure, Task
<1> HIDE DEF s, w
<1>3. /\ s \in Task /\ Alike(s, r) /\ s.status = "waiting_infrastructure" /\ s.phase = r.phase
      /\ s.waits = w /\ s.qa = r.qa
  BY <1>1, <1>2 DEF Task, Alike
<1> QED BY <1>3 DEF s, w

LEMMA AwaitWorkerFields ==
    ASSUME NEW r \in Task
    PROVE  LET s == AwaitWorker(r) IN
           /\ s \in Task /\ Alike(s, r) /\ s.status = "waiting_worker" /\ s.phase = r.phase
           /\ s.waits = r.waits \cup {"pause"} /\ s.qa = r.qa
<1> DEFINE s == AwaitWorker(r)
           w == r.waits \cup {"pause"}
<1>1. w \in SUBSET Waits /\ "waiting_worker" \in Statuses
  BY DEF Task, Statuses, Waits
<1>2. s = [r EXCEPT !.status = "waiting_worker", !.waits = w]
  BY DEF AwaitWorker, Task
<1> HIDE DEF s, w
<1>3. /\ s \in Task /\ Alike(s, r) /\ s.status = "waiting_worker" /\ s.phase = r.phase
      /\ s.waits = w /\ s.qa = r.qa
  BY <1>1, <1>2 DEF Task, Alike
<1> QED BY <1>3 DEF s, w

(* Nobody answers: the question is kept.                                   *)
LEMMA InfrastructureKeeps ==
    ASSUME Grip, NEW what \in {"review", "diagnosis"}, Become(AwaitInfrastructure(task[at.t], what), Return),
           ~Over(task[at.t]) =>
               LET r == task[at.t] IN
               /\ Underway(r) /\ ~Relaunching(r) /\ r.qa = 0 /\ Opened(r) /\ "decision" \notin r.waits
               /\ "review" \in r.waits => what = "review"
               /\ "diagnosis" \in r.waits => what = "diagnosis"
    PROVE  LStep
<1> DEFINE r == task[at.t]
           s == AwaitInfrastructure(r, what)
<1>1. r \in Task /\ what \in Waits /\ (~Over(r) => ~r.running)
  BY SameHeir DEF Waits
<1>2. /\ s \in Task /\ Alike(s, r) /\ s.status = "waiting_infrastructure" /\ s.phase = r.phase
      /\ s.waits = r.waits \cup {what} /\ s.qa = r.qa
  BY <1>1, InfrastructureFields
<1> HIDE DEF s
<1>3. ~Over(s) => Lives(s)
  BY <1>1, <1>2
     DEF Alike, Over, Lives, Underway, Moving, Relaunching, Opened, AtMostOne, Checked
<1>4. Heir(s)
  BY <1>2, <1>3, AlikeHeir DEF TerminalStatuses
<1> QED BY <1>4, BackKeeps DEF s

LEMMA SuspendKeeps ==
    ASSUME Grip, NEW pc, pc \notin Handless, Suspend(pc), Held(pc, at.launch, task[at.t], at.t, queue, holder)
    PROVE  LStep
BY SameHeir, GoKeeps DEF Suspend

LEMMA RecordedKeeps ==
    ASSUME LInv, IInv, Recorded
    PROVE  LStep
<1> DEFINE r == task[at.t]
<1>1. at.pc = "record" /\ Grip
  BY GripAt DEF Recorded, Handless
<1>2. r \in Task /\ Stock(r) /\ (~Over(r) => Settled(r) /\ ~Posted(at.t, queue)) /\ r.status # "accepted"
  BY <1>1, GripAt, SameHeir, SameBare DEF Held, Fit, Handless
<1>3. CASE Judge(r, TRUE)
  <2>1. ~Over(r) => Judgeable(r, TRUE)
    BY <1>2 DEF Judgeable, Settled, Underway
  <2> QED BY <1>1, <1>2, <1>3, <2>1, JudgeKeeps
<1>4. CASE Become(AwaitInfrastructure(r, "review"), Return)
  BY <1>1, <1>2, <1>4, InfrastructureKeeps DEF Settled, Clean, Unclear
<1>5. ASSUME NEW pc \in {"resume", "retry"}, Suspend(pc)
      PROVE  LStep
  <2>1. Held(pc, at.launch, r, at.t, queue, holder)
    BY <1>1, <1>2, <1>5, HeldOn, SameHeir DEF Fit, Settled
  <2> QED BY <1>1, <1>5, <2>1, SuspendKeeps DEF Handless
<1>6. CASE Stop(Return)
  BY <1>1, <1>6, StopKeeps
<1> QED BY <1>3, <1>4, <1>5, <1>6 DEF Recorded

LEMMA RetryKeeps ==
    ASSUME LInv, IInv, Retry
    PROVE  LStep
<1>1. at.pc = "retry" /\ Grip
  BY GripAt DEF Retry, Handless
<1>2. ~Over(task[at.t]) => Settled(task[at.t])
  BY <1>1, GripAt DEF Held, Fit, Handless
<1> QED BY <1>1, <1>2, StopKeeps, LaunchOrAskKeeps DEF Retry

LEMMA ContinueKeeps ==
    ASSUME Grip, Continue, ~Over(task[at.t]) => Settled(task[at.t])
    PROVE  LStep
<1> DEFINE r == task[at.t]
           s == AwaitWorker(r)
<1>1. CASE Become(s, Return)
  <2>1. r \in Task /\ (~Over(r) => ~r.running)
    BY SameHeir
  <2>2. /\ s \in Task /\ Alike(s, r) /\ s.status = "waiting_worker" /\ s.phase = r.phase
        /\ s.waits = r.waits \cup {"pause"} /\ s.qa = r.qa
    BY <2>1, AwaitWorkerFields
  <2> HIDE DEF s
  <2>3. ~Over(s) => Lives(s)
    BY <2>1, <2>2
       DEF Alike, Over, Lives, Settled, Clean, Unclear, Underway, Moving, Relaunching, Opened, AtMostOne, Checked
  <2>4. Heir(s)
    BY <2>2, <2>3, AlikeHeir DEF TerminalStatuses
  <2> QED BY <1>1, <2>4, BackKeeps
<1>2. ASSUME NEW changed, LaunchOrAsk(r, "continuation", changed)
      PROVE  LStep
  BY <1>2, LaunchOrAskKeeps
<1> QED BY <1>1, <1>2 DEF Continue

LEMMA ResumeKeeps ==
    ASSUME LInv, IInv, Resume
    PROVE  LStep
<1>1. at.pc = "resume" /\ Grip
  BY GripAt DEF Resume, Handless
<1>2. ~Over(task[at.t]) => Settled(task[at.t])
  BY <1>1, GripAt DEF Held, Fit, Handless
<1> QED BY <1>1, <1>2, StopKeeps, ContinueKeeps DEF Resume

LEMMA AvailableKeeps ==
    ASSUME LInv, IInv, Available
    PROVE  LStep
<1> DEFINE r == task[at.t]
<1>1. at.pc = "available" /\ at.pc \notin Handless /\ at.t \in Tasks /\ Nobody \notin Tasks /\ Place(at)
      /\ Fine(r, at.t, pushed, granted, queue, holder) /\ Sane(saved[at.t], at.t, pushed, granted)
  BY LoopAssumption DEF Available, Handless, IInv, Place, LInv
<1>2. CASE r.status = "waiting_worker" /\ "pause" \in r.waits /\ ~r.running /\ Continue
  <2>1. ~Over(r) => Underway(r) /\ r.status = "waiting_worker" /\ ~r.running
    BY <1>1, <1>2 DEF Fine, Sane, Lives, Unborn, Queued, Asking
  <2>2. ~Over(r) => Settled(r)
    BY <2>1 DEF Settled, Underway, Moving, Clean, Relaunching, Unclear, Opened
  <2>3. r.state # "none"
    BY <2>1 DEF Over, TerminalStates, Underway, Moving, Repairable
  <2>4. Grip
    BY <1>1, <1>2, <2>3 DEF Grip, Held, Fit, Fine, Pending
  <2> QED BY <1>2, <2>2, <2>4, ContinueKeeps
<1>3. CASE Become(r, Return)
  <2>1. Touches(at.t, r)
    BY <1>1, <1>3, ReleaseLeases DEF Become, Touches, Grows, Posts, worldVars, storeVars
  <2>2. Onward(r)
    BY <1>1, <1>3, AllEnd DEF Become, Onward, Ends
  <2> QED BY <1>1, <1>3, <2>1, <2>2, PlaceKeeps DEF Become, worldVars, Twin
<1> QED BY <1>2, <1>3 DEF Available

(* What launching makes of a record before its run is counted.             *)
Readied(b, r, what) ==
    /\ b \in Task /\ b.state = r.state /\ b.kind = r.kind /\ b.planned = r.planned
    /\ b.status \in {"running", "repair_requested"} /\ b.phase = r.phase
    /\ b.run = r.run /\ b.receipt = r.receipt /\ b.pr = r.pr /\ b.qa = r.qa
    /\ b.waits \subseteq r.waits \ {what}

LEMMA ReadiedKeeps ==
    ASSUME Grip, NEW what \in {"repair", "retry", "continuation"}, NEW b,
           Readied(b, task[at.t], what), StartRun(b),
           ~Over(task[at.t]) => Fit("launch", what, task[at.t]) /\ Holds(task[at.t], at.t, holder)
    PROVE  LStep
<1> DEFINE r == task[at.t]
           u == [b EXCEPT !.run = @ + 1, !.running = TRUE, !.effect = "worker"]
<1>1. r \in Task /\ r.kind \in Intake /\ Bare(r) /\ Stock(r)
  BY SameHeir, SameBare
<1>2. u \in Task
  BY RunTask DEF Readied
<1>3. /\ u.state = b.state /\ u.kind = b.kind /\ u.planned = b.planned /\ u.status = b.status
      /\ u.phase = b.phase /\ u.run = b.run + 1 /\ u.receipt = b.receipt /\ u.pr = b.pr
      /\ u.qa = b.qa /\ u.waits = b.waits /\ u.running
  BY DEF Readied, Task
<1>4. u.run # 0 /\ r.run \in Nat /\ u.run \in Nat /\ r.run < u.run
  BY <1>1, <1>3 DEF Readied, Task
<1> HIDE DEF u
<1>5. Bare(b)
  BY <1>1 DEF Bare, Readied, Terminal, TerminalStatuses, Based
<1>6. ASSUME ~Over(r) PROVE r.planned
  BY <1>1, <1>6, InPlace DEF Fine, Letting, Holds, Intake
<1>7. ASSUME ~Over(r) PROVE Underway(u)
  <2>1. Underway(r) /\ ~Unclear(r) /\ r.qa = 0 /\ Opened(r)
        /\ \A x \in {"repair", "retry", "continuation"} : x \in r.waits => x = what
    BY <1>7 DEF Fit
  <2>2. ~Relaunching(u) /\ ~Unclear(u) /\ u.qa = 0 /\ Opened(u)
    BY <1>3, <2>1 DEF Readied, Relaunching, Unclear, Opened
  <2>3. r.state \in Repairable /\ (r.state = "running" <=> ~r.pr) /\ (r.pr => r.receipt # 0)
    BY <2>1 DEF Underway, Moving
  <2>4. u.planned /\ u.status \in {"running", "repair_requested"} /\ u.state = r.state /\ u.pr = r.pr
        /\ u.receipt = r.receipt
    BY <1>3, <1>6, <1>7 DEF Readied
  <2> QED BY <1>3, <1>4, <2>2, <2>3, <2>4 DEF Underway, Moving, Unclear, AtMostOne, Relaunching
<1>8. Heir(u)
  <2>1. Bare(u)
    BY <1>1, <1>2, <1>3, <1>4 DEF Bare, Readied, Terminal, TerminalStatuses, Based
  <2>2. Over(r) => Over(u)
    BY <1>3 DEF Readied, Over
  <2>3. ~Over(u) => Lives(u) /\ Holds(u, at.t, holder) /\ u.planned
    BY <1>3, <1>6, <1>7, <2>2 DEF Lives, Readied, Holds
  <2> QED BY <2>1, <2>2, <2>3 DEF Heir
<1> QED BY <1>5, <1>8, StartRunKeeps DEF u

LEMMA CountTask ==
    ASSUME NEW r \in Task, NEW status \in {"running", "repair_requested"}, NEW w, w \subseteq r.waits
    PROVE  /\ [r EXCEPT !.waits = w, !.infra = @ + 1, !.status = status] \in Task
           /\ [r EXCEPT !.waits = w, !.conts = @ + 1, !.status = status] \in Task
           /\ [r EXCEPT !.waits = w, !.attempt = @ + 1, !.status = status] \in Task
<1>1. r.infra + 1 \in Nat /\ r.conts + 1 \in Nat /\ r.attempt + 1 \in Nat
  BY DEF Task
<1>2. w \in SUBSET Waits /\ status \in Statuses
  BY DEF Task, Statuses
<1>3. \A n \in Nat : [r EXCEPT !.waits = w, !.infra = n, !.status = status] \in Task
  BY <1>2 DEF Task
<1>4. \A n \in Nat : [r EXCEPT !.waits = w, !.conts = n, !.status = status] \in Task
  BY <1>2 DEF Task
<1>5. \A n \in Nat : [r EXCEPT !.waits = w, !.attempt = n, !.status = status] \in Task
  BY <1>2 DEF Task
<1> QED BY <1>1, <1>3, <1>4, <1>5

LEMMA LaunchedKeeps ==
    ASSUME LInv, IInv, Launched
    PROVE  LStep
<1> DEFINE r == task[at.t]
           x == [r EXCEPT !.waits = @ \ {"retry"}, !.infra = @ + 1, !.status = Working(r)]
           y == [r EXCEPT !.waits = @ \ {"continuation", "pause"}, !.conts = @ + 1, !.status = Working(r)]
           z == [r EXCEPT !.waits = @ \ {"repair"}, !.attempt = @ + 1, !.status = "repair_requested"]
<1>1. at.pc = "launch" /\ Grip
  BY GripAt DEF Launched, Handless
<1>2. r \in Task /\ (~Over(r) => Fit("launch", at.launch, r) /\ Holds(r, at.t, holder))
      /\ Working(r) \in {"running", "repair_requested"}
  BY <1>1, GripAt, SameHeir DEF Held, Handless, Working
<1>3. Readied(x, r, "retry")
  <2>1. x = [r EXCEPT !.waits = r.waits \ {"retry"}, !.infra = @ + 1, !.status = Working(r)]
    BY <1>2 DEF Task
  <2>2. x \in Task
    BY <1>2, <2>1, CountTask
  <2>3. /\ x.state = r.state /\ x.kind = r.kind /\ x.planned = r.planned /\ x.status = Working(r)
        /\ x.phase = r.phase /\ x.run = r.run /\ x.receipt = r.receipt /\ x.pr = r.pr /\ x.qa = r.qa
        /\ x.waits = r.waits \ {"retry"}
    BY <1>2 DEF Task
  <2> QED BY <1>2, <2>2, <2>3 DEF Readied
<1>4. Readied(y, r, "continuation")
  <2>1. y = [r EXCEPT !.waits = r.waits \ {"continuation", "pause"}, !.conts = @ + 1,
                      !.status = Working(r)]
    BY <1>2 DEF Task
  <2>2. y \in Task
    BY <1>2, <2>1, CountTask
  <2>3. /\ y.state = r.state /\ y.kind = r.kind /\ y.planned = r.planned /\ y.status = Working(r)
        /\ y.phase = r.phase /\ y.run = r.run /\ y.receipt = r.receipt /\ y.pr = r.pr /\ y.qa = r.qa
        /\ y.waits = r.waits \ {"continuation", "pause"}
    BY <1>2 DEF Task
  <2> QED BY <1>2, <2>2, <2>3 DEF Readied
<1>5. Readied(z, r, "repair")
  <2>1. z = [r EXCEPT !.waits = r.waits \ {"repair"}, !.attempt = @ + 1, !.status = "repair_requested"]
    BY <1>2 DEF Task
  <2>2. z \in Task
    BY <1>2, <2>1, CountTask
  <2>3. /\ z.state = r.state /\ z.kind = r.kind /\ z.planned = r.planned
        /\ z.status = "repair_requested"
        /\ z.phase = r.phase /\ z.run = r.run /\ z.receipt = r.receipt /\ z.pr = r.pr /\ z.qa = r.qa
        /\ z.waits = r.waits \ {"repair"}
    BY <1>2 DEF Task
  <2> QED BY <1>2, <2>2, <2>3 DEF Readied
<1> HIDE DEF x, y, z
<1>6. CASE Stop(Return)
  BY <1>1, <1>6, StopKeeps
<1>7. CASE at.launch = "retry" /\ StartRun(x)
  BY <1>1, <1>2, <1>3, <1>7, ReadiedKeeps
<1>8. CASE at.launch = "continuation" /\ StartRun(y)
  BY <1>1, <1>2, <1>4, <1>8, ReadiedKeeps
<1>9. CASE at.launch = "repair" /\ StartRun(z)
  BY <1>1, <1>2, <1>5, <1>9, ReadiedKeeps
<1> QED BY <1>6, <1>7, <1>8, <1>9 DEF Launched, x, y, z

LEMMA StockLike ==
    ASSUME Grip, NEW r,
           Stock(r), NEW s, Alike(s, r), s.status \notin TerminalStatuses, s.phase = r.phase
    PROVE  Stock(s)
BY DEF Stock, Alike, Terminal, TerminalStatuses, Based, Over

LEMMA ReviewTask ==
    ASSUME NEW r \in Task, NEW status \in Statuses, NEW w, w \subseteq r.waits
    PROVE  [r EXCEPT !.waits = w, !.reviews = 0, !.status = status] \in Task
<1>1. w \in SUBSET Waits
  BY DEF Task
<1> QED BY <1>1 DEF Task

LEMMA DiagnosedKeeps ==
    ASSUME LInv, IInv, Diagnosed
    PROVE  LStep
<1> DEFINE r == task[at.t]
           status == IF r.status = "waiting_infrastructure" THEN Working(r) ELSE r.status
           d == [r EXCEPT !.waits = @ \ {"diagnosis"}, !.reviews = 0,
                          !.status = IF @ = "waiting_infrastructure" THEN Working(r) ELSE @]
<1>1. at.pc = "diagnose" /\ Grip
  BY GripAt DEF Diagnosed, Handless
<1>2. r \in Task /\ Stock(r) /\ r.status # "accepted"
      /\ (~Over(r) => /\ ~r.running /\ Underway(r) /\ ~Relaunching(r) /\ r.qa = 0 /\ Opened(r)
                      /\ "review" \notin r.waits /\ "decision" \notin r.waits)
  BY <1>1, GripAt, SameHeir, SameBare DEF Held, Fit, Handless
<1>3. status \in Statuses /\ status # "accepted"
  BY <1>2 DEF Task, Statuses, Working
<1>4. d \in Task
  <2>1. d = [r EXCEPT !.waits = r.waits \ {"diagnosis"}, !.reviews = 0, !.status = status]
    BY <1>2 DEF Task
  <2> HIDE DEF status, d
  <2> QED BY <1>2, <1>3, <2>1, ReviewTask
<1>5. /\ Alike(d, r) /\ d.status = status /\ d.phase = r.phase /\ d.qa = r.qa
      /\ d.waits = r.waits \ {"diagnosis"} /\ d.planned = r.planned
  BY <1>2 DEF Task, Alike
<1> HIDE DEF d
<1>6. ~Over(d) => Worn(d) /\ Settled(d)
  BY <1>2, <1>5
     DEF Alike, Over, Worn, Settled, Underway, Moving, Relaunching, Unclear, Clean, Opened, AtMostOne, Working, Checked
<1>7. Stock(d)
  BY <1>2, <1>3, <1>5 DEF Stock, Alike, Terminal, TerminalStatuses, Based, Over, Working
<1>8. CASE Become(AwaitInfrastructure(r, "diagnosis"), Return)
  BY <1>1, <1>2, <1>8, InfrastructureKeeps
<1>9. CASE Become(AwaitDecision(d), Return)
  BY <1>1, <1>4, <1>6, <1>7, <1>9, DecisionKeeps
<1>10. CASE Become(d, [at EXCEPT !.pc = "repair"])
  <2>1. Heir(d)
    BY <1>4, <1>6, <1>7 DEF Stock, Heir, Bare, Worn, Lives
  <2>2. Held("repair", at.launch, d, at.t, queue, holder)
    BY <1>1, <1>3, <1>5, <1>6, <2>1, HeldOn DEF Settled, Fit
  <2> QED BY <1>1, <1>10, <2>1, <2>2, GoKeeps DEF Handless
<1>11. CASE StopAs(d, Return) /\ UNCHANGED <<worldVars, storeVars>>
  BY <1>1, <1>4, <1>7, <1>11, StopAsBack DEF Stock, Bare
<1> QED BY <1>8, <1>9, <1>10, <1>11 DEF Diagnosed, d

LEMMA RepairKeeps ==
    ASSUME LInv, IInv, Repair
    PROVE  LStep
<1>1. at.pc = "repair" /\ Grip
  BY GripAt DEF Repair, Handless
<1>2. ~Over(task[at.t]) => Settled(task[at.t])
  BY <1>1, GripAt DEF Held, Fit, Handless
<1> QED BY <1>1, <1>2, StopKeeps, LaunchOrAskKeeps DEF Repair

LEMMA RejudgedKeeps ==
    ASSUME LInv, IInv, Rejudged
    PROVE  LStep
<1> DEFINE r == task[at.t]
           s == [r EXCEPT !.waits = @ \ {"review"}, !.reviews = 0, !.status = Working(r)]
<1>1. at.pc = "rejudge" /\ Grip
  BY GripAt DEF Rejudged, Handless
<1>2. r \in Task /\ Stock(r)
      /\ (~Over(r) => /\ ~r.running /\ Underway(r) /\ r.status = "waiting_infrastructure"
                      /\ "diagnosis" \notin r.waits /\ "decision" \notin r.waits)
  BY <1>1, GripAt, SameHeir, SameBare DEF Held, Fit, Handless
<1>3. Working(r) \in {"running", "repair_requested"}
  BY DEF Working
<1>4. CASE Become(AwaitInfrastructure(r, "review"), Return)
  <2>1. ~Over(r) => ~Relaunching(r) /\ r.qa = 0 /\ Opened(r)
    BY <1>2 DEF Underway, Moving
  <2> QED BY <1>1, <1>2, <1>4, <2>1, InfrastructureKeeps
<1>5. CASE Judge(s, TRUE)
  <2>1. s \in Task
    <3>1. s = [r EXCEPT !.waits = r.waits \ {"review"}, !.reviews = 0, !.status = Working(r)]
      BY <1>2 DEF Task
    <3>2. Working(r) \in Statuses
      BY <1>3 DEF Statuses
    <3> HIDE DEF s
    <3> QED BY <1>2, <3>1, <3>2, ReviewTask
  <2>2. /\ Alike(s, r) /\ s.status = Working(r) /\ s.phase = r.phase /\ s.qa = r.qa
        /\ s.waits = r.waits \ {"review"}
    BY <1>2 DEF Task, Alike
  <2> HIDE DEF s
  <2>3. Stock(s)
    BY <1>1, <1>2, <1>3, <2>2, StockLike DEF TerminalStatuses
  <2>4. ~Over(s) => Judgeable(s, TRUE)
    BY <1>2, <1>3, <2>2
       DEF Alike, Over, Judgeable, Underway, Moving, Relaunching, Unclear, Clean, Opened, AtMostOne, Checked
  <2> QED BY <1>1, <1>5, <2>1, <2>3, <2>4, JudgeKeeps DEF s
<1> QED BY <1>4, <1>5 DEF Rejudged

LEMMA GuidedKeeps ==
    ASSUME LInv, IInv, Guided
    PROVE  LStep
<1> DEFINE r == task[at.t]
           i == [r EXCEPT !.status = "waiting_infrastructure"]
           d == [r EXCEPT !.waits = @ \ {"decision"}, !.round = @ + 1, !.attempt = 0]
<1>1. at.pc = "guidance" /\ Grip
  BY GripAt DEF Guided, Handless
<1>2. r \in Task /\ Stock(r) /\ r.status # "accepted"
      /\ (~Over(r) => ~r.running /\ Underway(r) /\ "decision" \in r.waits)
  BY <1>1, GripAt, SameHeir, SameBare DEF Held, Fit, Handless
<1>3. CASE Become(r, Return)
  BY <1>1, <1>3, SameHeir, BackKeeps
<1>4. CASE Become(i, Return)
  <2>1. /\ i \in Task /\ Alike(i, r) /\ i.status = "waiting_infrastructure" /\ i.phase = r.phase
        /\ i.qa = r.qa /\ i.waits = r.waits
    BY <1>2 DEF Task, Alike, Statuses
  <2> HIDE DEF i
  <2>2. ~Over(i) => Lives(i)
    BY <1>2, <2>1
       DEF Alike, Over, Lives, Underway, Moving, Relaunching, Unclear, Clean, Opened, AtMostOne, Checked
  <2>3. Heir(i)
    BY <1>1, <2>1, <2>2, AlikeHeir DEF TerminalStatuses
  <2> QED BY <1>1, <1>4, <2>3, BackKeeps DEF i
<1>5. CASE Become(d, [at EXCEPT !.pc = "diagnose"])
  <2>1. d \in Task
    <3>1. r.round + 1 \in Nat /\ r.waits \ {"decision"} \in SUBSET Waits
      BY <1>2 DEF Task
    <3>2. \A n \in Nat : \A w \in SUBSET Waits : [r EXCEPT !.waits = w, !.round = n, !.attempt = 0] \in Task
      BY <1>2 DEF Task
    <3>3. d = [r EXCEPT !.waits = r.waits \ {"decision"}, !.round = r.round + 1, !.attempt = 0]
      BY <1>2 DEF Task
    <3> QED BY <3>1, <3>2, <3>3
  <2>2. /\ Alike(d, r) /\ d.status = r.status /\ d.phase = r.phase /\ d.qa = r.qa
        /\ d.waits = r.waits \ {"decision"}
    BY <1>2 DEF Task, Alike
  <2> HIDE DEF d
  <2>3. ~Over(d) => /\ Underway(d) /\ ~d.running /\ ~Relaunching(d) /\ d.qa = 0 /\ Opened(d)
                    /\ "review" \notin d.waits /\ "decision" \notin d.waits
    BY <1>2, <2>2
       DEF Alike, Over, Underway, Moving, Relaunching, Unclear, Clean, Opened, AtMostOne, Checked
  <2>4. Heir(d)
    BY <1>1, <1>2, <2>1, <2>2, <2>3, SameHeir
       DEF Heir, Bare, Stock, Based, Terminal, Alike, Over, Lives
  <2>5. Held("diagnose", at.launch, d, at.t, queue, holder)
    BY <1>1, <1>2, <2>2, <2>3, <2>4, HeldOn DEF Fit
  <2> QED BY <1>1, <1>5, <2>4, <2>5, GoKeeps DEF d, Handless
<1> QED BY <1>3, <1>4, <1>5 DEF Guided


LEMMA ApprovalResolvedKeeps ==
    ASSUME LInv, IInv, ApprovalResolved
    PROVE  LStep
<1> DEFINE t == at.t
           r == task[t]
           free == [r EXCEPT !.phase = "none"]
           q == [free EXCEPT !.state = "queued", !.status = "queued"]
           stopped == [free EXCEPT !.status = "running"]
           j == [free EXCEPT !.status = IF r.state = "awaiting_approval" THEN @ ELSE "running"]
<1>1. at.pc = "approval" /\ Grip
  BY GripAt DEF ApprovalResolved, Handless
<1>2. /\ r \in Task /\ Stock(r) /\ Bare(r) /\ r.status # "accepted"
      /\ ~Over(r) => /\ ~r.running /\ r.status = "needs_human_approval" /\ r.phase # "none"
                     /\ Asking(r) \/ Underway(r)
  <2>1. ~Over(r) => ~r.running /\ r.status = "needs_human_approval" /\ r.phase # "none"
    BY <1>1, GripAt DEF Held, Fit, Handless
  <2>2. ~Over(r) => Asking(r) \/ Underway(r)
    BY <1>1, <2>1, InPlace DEF Fine, Sane, Lives, Unborn, Queued
  <2> QED BY <1>1, <2>1, <2>2, SameHeir, SameBare
<1>3. /\ free \in Task /\ Alike(free, r) /\ free.status = r.status /\ free.phase = "none"
      /\ free.qa = r.qa /\ free.waits = r.waits /\ free.result = r.result
  BY <1>2 DEF Task, Alike, Phases
<1> HIDE DEF free
<1>4. CASE Stop(Return)
  BY <1>1, <1>4, StopKeeps
<1>5. CASE Become(r, Return)
  BY <1>1, <1>5, SameHeir, BackKeeps
<1>6. CASE r.phase = "commit_publish" /\ Suspend("publish")
  <2>1. ~r.kind.readOnly
    BY <1>2, <1>6 DEF Stock, Based
  <2>2. ~Over(r) => Fit("publish", at.launch, r)
    BY <1>2, <1>6 DEF Underway, Moving, Fit
  <2>3. Held("publish", at.launch, r, at.t, queue, holder)
    BY <1>1, <1>2, <2>1, <2>2, HeldOn, SameHeir
  <2> QED BY <1>1, <1>6, <2>3, SuspendKeeps DEF Handless
<1>7. ASSUME NEW what \in {"repair", "retry", "continuation"}, r.phase = "pre_execution",
             what \in r.waits, Launch(free, what)
      PROVE  LStep
  <2>1. ASSUME ~Over(r) PROVE Underway(free) /\ ~free.running /\ Fit("launch", what, free)
    <3>1. Underway(r) /\ Relaunching(r) /\ r.status = "needs_human_approval"
      BY <1>2, <1>7, <2>1 DEF Asking, Clean, Relaunching
    <3>2. ~Unclear(r) /\ r.qa = 0 /\ Opened(r)
      BY <3>1 DEF Underway, Moving, Unclear
    <3>3. Underway(free)
      BY <1>2, <1>3, <2>1, <3>1, <3>2
         DEF Alike, Underway, Moving, Unclear, Relaunching, Opened, AtMostOne, Checked
    <3>4. \A x \in {"repair", "retry", "continuation"} : x \in r.waits => x = what
      BY <1>7, <3>1 DEF Underway, Moving, AtMostOne
    <3>5. ~Unclear(free) /\ free.qa = 0 /\ Opened(free)
      BY <1>3, <3>2 DEF Alike, Unclear, Opened
    <3>6. Fit("launch", what, free)
      BY <1>3, <3>3, <3>4, <3>5 DEF Fit
    <3> QED BY <1>2, <1>3, <2>1, <3>3, <3>6 DEF Alike
  <2>2. Heir(free)
    BY <1>1, <1>2, <1>3, <2>1, SameHeir
       DEF Heir, Bare, Terminal, Based, AcceptedFine, Alike, Over, Lives
  <2> QED BY <1>1, <1>2, <1>3, <1>7, <2>1, <2>2, LaunchKeeps DEF Alike, Over
<1>8. CASE /\ r.phase = "pre_execution" /\ r.state = "awaiting_approval"
           /\ task' = [task EXCEPT ![t] = q]
           /\ queue' = queue \cup {<<"tick">>}
           /\ at' = Return
           /\ UNCHANGED <<holder, worldVars, storeVars>>
  <2>1. /\ q.state = "queued" /\ q.status = "queued" /\ q.kind = r.kind /\ q.planned = r.planned
        /\ q.running = r.running /\ q.receipt = r.receipt /\ q.pr = r.pr /\ q.run = r.run
        /\ q.qa = r.qa /\ q.waits = r.waits /\ q.result = r.result /\ q.phase = "none"
    BY <1>3 DEF Task, Alike
  <2>2. q \in Task
    BY <1>3 DEF Task, States, Statuses
  <2> HIDE DEF q
  <2>3. ~Over(r) /\ Untouched(r)
    BY <1>2, <1>8 DEF Over, TerminalStates, Asking, Underway, Moving, Repairable
  <2>4. Heir(q)
    BY <1>2, <2>1, <2>2, <2>3
       DEF Heir, Bare, Terminal, TerminalStatuses, Based, Lives, Queued, Untouched
  <2>5. Onward(q)
    BY <1>1, <1>8, AllEnd, InPlace DEF Onward, Ends
  <2> QED BY <1>1, <1>8, <2>4, <2>5, HeirKeeps DEF Within, Ticks, worldVars, storeVars
<1>9. CASE StopAs(stopped, Return) /\ UNCHANGED <<worldVars, storeVars>>
  <2>1. /\ stopped \in Task /\ Alike(stopped, free) /\ stopped.status = "running"
        /\ stopped.phase = "none"
    BY <1>3 DEF Task, Alike, Statuses
  <2> HIDE DEF stopped
  <2>2. Bare(stopped)
    BY <1>2, <1>3, <2>1 DEF Bare, Alike, Terminal, TerminalStatuses, Based
  <2> QED BY <1>1, <1>9, <2>2, StopAsBack
<1>10. CASE /\ Approved(t, r.phase) /\ r.phase # "commit_publish"
            /\ ~\E what \in {"repair", "retry", "continuation"} : r.phase = "pre_execution" /\ what \in r.waits
            /\ ~(r.phase = "pre_execution" /\ r.state = "awaiting_approval")
            /\ Judge(j, FALSE)
  <2>1. /\ j \in Task /\ Alike(j, free) /\ j.phase = "none" /\ j.qa = free.qa /\ j.waits = free.waits
        /\ j.status = IF r.state = "awaiting_approval" THEN r.status ELSE "running"
    BY <1>3 DEF Task, Alike, Statuses
  <2> HIDE DEF j
  <2>2. Stock(j)
    BY <1>2, <1>3, <2>1 DEF Stock, Alike, Terminal, TerminalStatuses, Based, Over, TerminalStates
  <2>3. ASSUME ~Over(j), r.state = "awaiting_approval" PROVE Judgeable(j, FALSE)
    <3>1. r.phase = "post_qa" /\ Checked(r)
      BY <1>2, <1>3, <1>10, <2>1, <2>3 DEF Alike, Over, Asking, Underway, Moving, Repairable
    <3>2. <<at.t, "post_qa", r.receipt>> \in granted
      BY <1>10, <3>1 DEF Approved, Binding
    <3> QED BY <1>3, <2>1, <2>3, <3>1, <3>2 DEF Alike, Checked, Judgeable
  <2>4. ASSUME ~Over(j), r.state # "awaiting_approval" PROVE Judgeable(j, FALSE)
    <3>1. Underway(r) /\ r.status = "needs_human_approval" /\ r.phase = "pre_execution" /\ ~r.running
      BY <1>2, <1>3, <2>1, <2>4 DEF Alike, Over, Asking, Underway, Moving
    <3>2. ~Relaunching(r) /\ ~Unclear(r) /\ Opened(r) /\ (r.qa # 0 => Checked(r))
      BY <1>10, <3>1 DEF Underway, Moving, Relaunching, Unclear
    <3> QED BY <1>3, <2>1, <2>4, <3>1, <3>2
            DEF Alike, Judgeable, Underway, Moving, Relaunching, Unclear, Clean, Opened, AtMostOne, Checked
  <2> QED BY <1>1, <1>10, <2>1, <2>2, <2>3, <2>4, JudgeKeeps
<1> QED BY <1>4, <1>5, <1>6, <1>7, <1>8, <1>9, <1>10 DEF ApprovalResolved, free

LEMMA CommitAskedKeeps ==
    ASSUME LInv, IInv, CommitAsked
    PROVE  LStep
<1> DEFINE r == task[at.t]
           b == [r EXCEPT !.evidence = r.run, !.state = "awaiting_approval"]
           s == AwaitApproval(b, "commit_publish")
<1>1. at.pc = "observe" /\ Grip
  BY GripAt DEF CommitAsked, Handless
<1>2. /\ r \in Task /\ Stock(r) /\ ~r.kind.readOnly
      /\ ~Over(r) => Settled(r)
  BY <1>1, GripAt, SameHeir, SameBare DEF Held, Fit, Handless
<1>3. CASE Stop(Return)
  BY <1>1, <1>3, StopKeeps
<1>4. CASE r.state \in {"running", "qa_running"} /\ Become(s, Return)
  <2>1. /\ b.state = "awaiting_approval" /\ b.kind = r.kind /\ b.planned = r.planned
        /\ b.running = r.running /\ b.receipt = r.receipt /\ b.pr = r.pr /\ b.run = r.run
        /\ b.qa = r.qa /\ b.waits = r.waits /\ b.evidence = r.run
    BY <1>2 DEF Task
  <2>2. b \in Task /\ "commit_publish" \in Phases
    BY <1>2 DEF Task, States, Phases
  <2> HIDE DEF b
  <2>3. /\ s \in Task /\ Alike(s, b) /\ s.status = "needs_human_approval" /\ s.phase = "commit_publish"
        /\ s.waits = b.waits /\ s.qa = b.qa
    BY <2>2, AskedFields
  <2> HIDE DEF s
  <2>4. ~Over(r) /\ Settled(r)
    BY <1>2, <1>4 DEF Over, TerminalStates
  <2>5. Asking(s) /\ ~s.running
    BY <2>1, <2>3, <2>4
       DEF Alike, Asking, Settled, Underway, Moving, Clean, Relaunching, Unclear, Opened
  <2>6. Heir(s)
    BY <1>2, <2>1, <2>3, <2>4, <2>5
       DEF Heir, Bare, Stock, Alike, Terminal, TerminalStatuses, Based, Lives
  <2> QED BY <1>1, <1>4, <2>6, BackKeeps DEF s, b
<1> QED BY <1>3, <1>4 DEF CommitAsked

LEMMA ReadOnlyVerifiedKeeps ==
    ASSUME LInv, IInv, ReadOnlyVerified
    PROVE  LStep
<1> DEFINE r == task[at.t]
<1>1. at.pc = "verify" /\ Grip
  BY GripAt DEF ReadOnlyVerified, Handless
<1>2. Bare(r) /\ r.kind.readOnly
  BY <1>1, GripAt, SameBare DEF Held, Handless
<1>3. AcceptedFine(r, at.t, pushed, granted)
  BY <1>2 DEF Bare, Based, AcceptedFine
<1> QED BY <1>1, <1>2, <1>3, StopKeeps, AcceptKeeps DEF ReadOnlyVerified

LEMMA PublishKeeps ==
    ASSUME LInv, IInv, Publish
    PROVE  LStep
<1> DEFINE r == task[at.t]
           state == IF r.pr THEN "qa_running" ELSE "running"
           b == [r EXCEPT !.phase = "none", !.status = "running",
                          !.state = IF r.pr THEN "qa_running" ELSE "running"]
           s == [b EXCEPT !.effect = "commit"]
<1>1. at.pc = "publish" /\ Grip
  BY GripAt DEF Publish, Handless
<1>2. /\ r \in Task /\ Stock(r) /\ ~r.kind.readOnly
      /\ ~Over(r) => Asking(r) /\ r.phase = "commit_publish"
  BY <1>1, GripAt, SameHeir, SameBare DEF Held, Fit, Handless
<1>3. CASE Stop(Return)
  BY <1>1, <1>3, StopKeeps
<1>4. CASE r.state = "awaiting_approval" /\ Intend(b, "commit", "commit")
  <2>1. /\ s.state = state /\ s.status = "running" /\ s.phase = "none" /\ s.kind = r.kind
        /\ s.planned = r.planned /\ s.running = r.running /\ s.receipt = r.receipt /\ s.pr = r.pr
        /\ s.run = r.run /\ s.qa = r.qa /\ s.waits = r.waits /\ s.evidence = r.evidence
    BY <1>2 DEF Task
  <2>2. s \in Task
    <3>1. state \in States /\ "running" \in Statuses /\ "none" \in Phases
      BY DEF States, Statuses, Phases
    <3>2. s = [r EXCEPT !.phase = "none", !.status = "running", !.state = state, !.effect = "commit"]
      BY <1>2 DEF Task
    <3> HIDE DEF state, s
    <3> QED BY <1>2, <3>1, <3>2 DEF Task
  <2> HIDE DEF s, b
  <2>3. ~Over(r) /\ Asking(r) /\ r.phase = "commit_publish"
    BY <1>2, <1>4 DEF Over, TerminalStates
  <2>4. Settled(s) /\ s.evidence = s.run
    BY <2>1, <2>3
       DEF Asking, Settled, Underway, Moving, Repairable, Clean, Relaunching, Unclear, Opened, AtMostOne
  <2>5. Heir(s)
    BY <1>2, <2>1, <2>2, <2>3, <2>4
       DEF Heir, Bare, Stock, Terminal, TerminalStatuses, Based, Lives, Settled
  <2>6. Held("commit", at.launch, s, at.t, queue, holder)
    BY <1>1, <1>2, <2>1, <2>4, <2>5, HeldOn DEF Fit, Settled
  <2> QED BY <1>1, <1>4, <2>5, <2>6, IntendKeeps DEF Handless, s
<1> QED BY <1>3, <1>4 DEF Publish, b

LEMMA EffectFields ==
    ASSUME NEW r \in Task, NEW effect \in {"none", "worker", "commit", "push", "pr"}
    PROVE  LET s == [r EXCEPT !.effect = effect] IN
           /\ s \in Task /\ Alike(s, r) /\ s.status = r.status /\ s.phase = r.phase
           /\ s.waits = r.waits /\ s.qa = r.qa
BY DEF Task, Alike

LEMMA CommittedKeeps ==
    ASSUME LInv, IInv, Committed
    PROVE  LStep
<1> DEFINE r == task[at.t]
           s == [r EXCEPT !.effect = "push"]
<1>1. at.pc = "commit" /\ Grip
  BY GripAt DEF Committed, Handless
<1>2. /\ r \in Task /\ Stock(r) /\ ~r.kind.readOnly
      /\ ~Over(r) => Settled(r) /\ r.status = "running" /\ r.evidence = r.run
  BY <1>1, GripAt, SameHeir, SameBare DEF Held, Fit, Handless
<1>3. CASE Stop(Return)
  BY <1>1, <1>3, StopKeeps
<1>4. CASE Intend(r, "push", "push")
  <2>1. /\ s \in Task /\ Alike(s, r) /\ s.status = r.status /\ s.phase = r.phase
        /\ s.waits = r.waits /\ s.qa = r.qa
    BY <1>2, EffectFields
  <2> HIDE DEF s
  <2>2. ~Over(s) => Settled(s) /\ s.status = "running" /\ s.evidence = s.run
    BY <1>2, <2>1
       DEF Alike, Over, Settled, Underway, Moving, Clean, Relaunching, Unclear, Opened, AtMostOne, Checked
  <2>3. Heir(s)
    BY <1>1, <1>2, <2>1, <2>2, SameBare
       DEF Heir, Bare, Stock, Terminal, Based, AcceptedFine, Lives, Settled, Alike, Over
  <2>4. Held("push", at.launch, s, at.t, queue, holder)
    BY <1>1, <1>2, <2>1, <2>2, <2>3, HeldOn DEF Fit, Settled, Alike, Stock
  <2> QED BY <1>1, <1>4, <2>3, <2>4, IntendKeeps DEF Handless, s
<1> QED BY <1>3, <1>4 DEF Committed

LEMMA PushedKeeps ==
    ASSUME LInv, IInv, Pushed
    PROVE  LStep
<1> DEFINE t == at.t
           r == task[t]
           s == [r EXCEPT !.receipt = r.evidence, !.effect = "none"]
<1>1. at.pc = "push" /\ Grip
  BY GripAt DEF Pushed, Handless
<1>2. /\ r \in Task /\ Stock(r) /\ ~r.kind.readOnly
      /\ ~Over(r) => /\ Settled(r) /\ r.status = "running" /\ r.evidence = r.run
                     /\ ~Posted(t, queue)
  BY <1>1, GripAt, SameHeir, SameBare DEF Held, Fit, Handless
<1>3. CASE Stop(Return)
  BY <1>1, <1>3, StopKeeps
<1>4. CASE /\ task' = [task EXCEPT ![t] = s]
           /\ pushed' = pushed \cup {<<t, r.evidence>>}
           /\ queue' = queue \cup {<<"pushed", t>>}
           /\ at' = Return
           /\ UNCHANGED <<holder, procs, granted, started, storeVars>>
  <2> USE <1>1, InPlace
  <2>1. /\ s.state = r.state /\ s.status = r.status /\ s.phase = r.phase /\ s.kind = r.kind
        /\ s.planned = r.planned /\ s.running = r.running /\ s.receipt = r.evidence /\ s.pr = r.pr
        /\ s.run = r.run /\ s.qa = r.qa /\ s.waits = r.waits
    BY <1>2 DEF Task
  <2>2. s \in Task
    BY <1>2 DEF Task
  <2> HIDE DEF s
  <2>3. Grows(t)
    BY <1>4 DEF Grows
  <2>4. Posts(t)
    BY <1>4 DEF Posts
  <2>5. Touches(t, s)
    BY <1>4, <2>3, <2>4, ReleaseLeases DEF Grip, Touches, storeVars
  <2>6. ~Over(s) => /\ Underway(s) /\ ~s.running /\ s.receipt = s.run /\ s.status = "running"
                    /\ Clean(s) /\ s.qa = 0
    BY <1>2, <2>1
       DEF Over, Settled, Underway, Moving, Clean, Relaunching, Unclear, Opened, AtMostOne
  <2>7. Sane(s, t, pushed', granted')
    BY <1>2, <1>4, <2>1, <2>2, <2>6 DEF Sane, Lives, Terminal, Stock, Based, Over
  <2>8. Pending(s, t, queue')
    BY <1>2, <1>4, <2>1, <2>6 DEF Pending, Posted, Over
  <2>9. Leasing(s, t, holder')
    BY <2>6 DEF Leasing
  <2>10. Letting(s, t, holder')
    BY <1>4, <2>1 DEF Fine, Letting, Over
  <2>11. Sane(saved[t], t, pushed', granted')
    <3>1. Twin(saved[t], r)
      BY DEF Grip, LInv
    <3>2. ~saved[t].kind.readOnly \/ saved[t].state = "none"
      BY <1>2, <3>1 DEF Twin
    <3>3. Sane(saved[t], t, pushed, granted)
      OBVIOUS
    <3>4. saved[t].state = "none" => saved[t].status # "accepted" /\ saved[t].kind.readOnly = FALSE
      BY <3>3 DEF Sane, Over, TerminalStates, Lives, Unborn, NoIntake, Queued, Asking, Underway, Moving,
                  Repairable
    <3> QED BY <1>4, <3>2, <3>3, <3>4 DEF Sane, Based, AcceptedFine
  <2>12. Onward(s)
    BY <1>4, AllEnd DEF Onward, Ends
  <2>13. Twin(r, s)
    BY <2>1 DEF Twin
  <2> QED BY <2>5, <2>7, <2>8, <2>9, <2>10, <2>11, <2>12, <2>13, HandKeeps DEF Fine
<1> QED BY <1>3, <1>4 DEF Pushed

LEMMA OpenPrKeeps ==
    ASSUME LInv, IInv, OpenPr
    PROVE  LStep
<1> DEFINE r == task[at.t]
           s == [r EXCEPT !.effect = "pr"]
<1>1. at.pc = "pr" /\ Grip /\ Intend(r, "pr", "openpr")
  BY GripAt DEF OpenPr, Handless
<1>2. /\ r \in Task /\ Stock(r)
      /\ ~Over(r) => Underway(r) /\ ~Opened(r) /\ Clean(r)
  BY <1>1, GripAt, SameHeir, SameBare DEF Held, Fit, Handless
<1>3. /\ s \in Task /\ Alike(s, r) /\ s.status = r.status /\ s.phase = r.phase
      /\ s.waits = r.waits /\ s.qa = r.qa
  BY <1>2, EffectFields
<1> HIDE DEF s
<1>4. ~Over(s) => Underway(s) /\ ~Opened(s) /\ Clean(s) /\ ~s.running
  BY <1>2, <1>3
     DEF Alike, Over, Underway, Moving, Clean, Relaunching, Unclear, Opened, AtMostOne, Checked
<1>5. Heir(s)
  BY <1>1, <1>2, <1>3, <1>4 DEF Heir, Bare, Stock, Terminal, Based, AcceptedFine, Lives, Alike, Over
<1>6. Held("openpr", at.launch, s, at.t, queue, holder)
  BY <1>1, <1>2, <1>3, <1>4, <1>5, HeldOn DEF Fit, Stock
<1> QED BY <1>1, <1>5, <1>6, IntendKeeps DEF Handless, s

LEMMA PrOpenedKeeps ==
    ASSUME LInv, IInv, PrOpened
    PROVE  LStep
<1> DEFINE t == at.t
           o == task[t]
           r == [task[t] EXCEPT !.pr = TRUE, !.effect = "none"]
           s == [r EXCEPT !.state = "pr_opened"]
<1>1. at.pc = "openpr" /\ Grip
  BY GripAt DEF PrOpened, Handless
<1>2. /\ o \in Task /\ Stock(o)
      /\ ~Over(o) => Underway(o) /\ ~Opened(o) /\ Clean(o) /\ ~Posted(t, queue)
  BY <1>1, GripAt, SameHeir, SameBare DEF Held, Fit, Handless
<1>3. /\ r \in Task /\ r.state = o.state /\ r.status = o.status /\ r.phase = o.phase /\ r.kind = o.kind
      /\ r.planned = o.planned /\ r.running = o.running /\ r.receipt = o.receipt /\ r.pr = TRUE
      /\ r.run = o.run /\ r.qa = o.qa /\ r.waits = o.waits
  BY <1>2 DEF Task
<1>4. s \in Task
  BY <1>3 DEF Task, States
<1>5. /\ s.state = "pr_opened" /\ s.status = o.status /\ s.phase = o.phase /\ s.kind = o.kind
      /\ s.planned = o.planned /\ s.running = o.running /\ s.receipt = o.receipt /\ s.pr = TRUE
      /\ s.run = o.run /\ s.qa = o.qa /\ s.waits = o.waits
  BY <1>3 DEF Task
<1> HIDE DEF r, s
<1>6. CASE Stop(Return)
  BY <1>1, <1>6, StopKeeps
<1>7. CASE r.state # "running" /\ Throws(r) /\ UNCHANGED <<worldVars, storeVars>>
  <2>1. Over(o)
    BY <1>2, <1>3, <1>7 DEF Underway, Moving, Opened
  <2>2. Heir(r)
    BY <1>1, <1>2, <1>3, <2>1 DEF Heir, Bare, Stock, Terminal, Based, Over
  <2> QED BY <1>1, <1>7, <2>2, ThrowsKeeps
<1>8. CASE /\ r.state = "running"
           /\ task' = [task EXCEPT ![t] = s]
           /\ queue' = queue \cup {<<"pr_opened", t>>}
           /\ at' = Return
           /\ UNCHANGED <<holder, worldVars, storeVars>>
  <2> USE <1>1, InPlace
  <2>1. ~Over(o) /\ Underway(o) /\ ~Opened(o) /\ Clean(o) /\ ~Posted(t, queue)
    BY <1>2, <1>3, <1>8 DEF Over, TerminalStates
  <2>2. /\ Underway(s) /\ ~s.running /\ s.receipt = s.run /\ s.status = "running" /\ Clean(s)
        /\ s.qa = 0
    BY <1>5, <2>1
       DEF Underway, Moving, Clean, Relaunching, Unclear, Opened, AtMostOne, Checked, Repairable
  <2>3. Touches(t, s)
    BY <1>8, ReleaseLeases DEF Grip, Touches, Grows, Posts, worldVars, storeVars
  <2>4. Sane(s, t, pushed', granted')
    BY <1>2, <1>4, <1>5, <1>8, <2>2 DEF Sane, Lives, Terminal, TerminalStatuses, Stock, Based, worldVars
  <2>5. Pending(s, t, queue')
    BY <1>5, <1>8, <2>1, <2>2 DEF Pending, Posted
  <2>6. Leasing(s, t, holder')
    BY <2>2 DEF Leasing
  <2>7. Letting(s, t, holder')
    BY <1>5, <1>8, <2>1 DEF Fine, Letting
  <2>8. Onward(s)
    BY <1>8, AllEnd DEF Onward, Ends
  <2>9. Twin(o, s)
    BY <1>5 DEF Twin
  <2> QED BY <1>8, <2>3, <2>4, <2>5, <2>6, <2>7, <2>8, <2>9, HandKeeps DEF Fine, worldVars
<1> QED BY <1>6, <1>7, <1>8 DEF PrOpened, r, s

LEMMA QaReadKeeps ==
    ASSUME LInv, IInv, QaRead
    PROVE  LStep
<1> DEFINE r == task[at.t]
           state == IF r.state = "pr_opened" THEN "qa_running" ELSE r.state
           s == [r EXCEPT !.state = IF @ = "pr_opened" THEN "qa_running" ELSE @]
           failed == [s EXCEPT !.qa = 0]
           passed == [s EXCEPT !.qa = r.receipt]
<1>1. at.pc = "qa" /\ Grip
  BY GripAt DEF QaRead, Handless
<1>2. /\ r \in Task /\ Stock(r)
      /\ ~Over(r) => Underway(r) /\ r.status = "qa_pending" /\ ~r.running
  BY <1>1, GripAt, SameHeir, SameBare DEF Held, Fit, Handless
<1>3. /\ s.state = state /\ s.status = r.status /\ s.phase = r.phase /\ s.kind = r.kind
      /\ s.planned = r.planned /\ s.running = r.running /\ s.receipt = r.receipt /\ s.pr = r.pr
      /\ s.run = r.run /\ s.qa = r.qa /\ s.waits = r.waits
  BY <1>2 DEF Task
<1>4. s \in Task
  <2>1. state \in States
    BY <1>2 DEF Task, States
  <2>2. s = [r EXCEPT !.state = state]
    BY <1>2 DEF Task
  <2> HIDE DEF state, s
  <2> QED BY <1>2, <2>1, <2>2 DEF Task
<1> HIDE DEF s
<1>5. Stock(s)
  BY <1>2, <1>3 DEF Stock, Terminal, Based, Over, TerminalStates
<1>6. ~Over(s) => /\ Moving(s) /\ ~s.running /\ Clean(s) /\ Opened(s) /\ s.qa = 0 /\ s.receipt # 0
                  /\ s.pr /\ s.receipt = s.run
  <2> SUFFICES ASSUME ~Over(s)
               PROVE  /\ Moving(s) /\ ~s.running /\ Clean(s) /\ Opened(s) /\ s.qa = 0 /\ s.receipt # 0
                      /\ s.pr /\ s.receipt = s.run
    OBVIOUS
  <2>1. Underway(r) /\ r.status = "qa_pending" /\ ~r.running
    BY <1>2, <1>3 DEF Over, TerminalStates
  <2>2. r.pr /\ r.receipt = r.run /\ Clean(r) /\ r.qa = 0 /\ r.receipt # 0 /\ Opened(r)
    BY <2>1 DEF Underway, Moving, Clean, Relaunching, Unclear, Opened
  <2>3. s.state \in Repairable /\ s.state # "running"
    BY <1>3, <2>1, <2>2 DEF Underway, Moving, Repairable
  <2> QED BY <1>3, <2>1, <2>2, <2>3
          DEF Underway, Moving, Clean, Relaunching, Unclear, Opened, AtMostOne
<1>7. CASE Become(s, Return)
  <2>1. Heir(s)
    BY <1>4, <1>5, <1>6 DEF Heir, Bare, Stock, Lives, Underway
  <2> QED BY <1>1, <1>7, <2>1, BackKeeps
<1>8. CASE StopAs(s, Return) /\ UNCHANGED <<worldVars, storeVars>>
  BY <1>1, <1>4, <1>5, <1>8, StopAsBack DEF Stock, Bare
<1>9. CASE NeedsRepair(failed)
  <2>1. /\ failed \in Task /\ Alike(failed, s) /\ failed.status = s.status /\ failed.phase = s.phase
        /\ failed.waits = s.waits /\ failed.qa = 0
    BY <1>4 DEF Task, Alike
  <2> HIDE DEF failed
  <2>2. Stock(failed)
    BY <1>5, <2>1 DEF Stock, Alike, Terminal, Based, Over
  <2>3. ~Over(failed) => Worn(failed)
    BY <1>6, <2>1
       DEF Alike, Over, Worn, Underway, Moving, Clean, Relaunching, Unclear, Opened, AtMostOne
  <2> QED BY <1>1, <1>9, <2>1, <2>2, <2>3, NeedsRepairKeeps
<1>10. CASE Judge(passed, FALSE)
  <2>1. /\ Alike(passed, s) /\ passed.status = s.status /\ passed.phase = s.phase
        /\ passed.waits = s.waits /\ passed.qa = r.receipt
    BY <1>4 DEF Task, Alike
  <2>4. passed \in Task
    BY <1>2, <1>4 DEF Task
  <2> HIDE DEF passed
  <2>2. Stock(passed)
    BY <1>5, <2>1 DEF Stock, Alike, Terminal, Based, Over
  <2>3. ~Over(passed) => Judgeable(passed, FALSE)
    BY <1>3, <1>6, <2>1
       DEF Alike, Over, Judgeable, Moving, Clean, Relaunching, Unclear, Opened, AtMostOne, Checked
  <2> QED BY <1>1, <1>10, <2>2, <2>3, <2>4, JudgeKeeps
<1> QED BY <1>7, <1>8, <1>9, <1>10 DEF QaRead, s

LEMMA ResentKeeps ==
    ASSUME LInv, IInv, Resent
    PROVE  LStep
<1>1. at.pc = "resend" /\ Grip
  BY GripAt DEF Resent, Handless
<1>2. Held("pr", at.launch, task[at.t], at.t, queue, holder)
  BY <1>1, GripAt DEF Held, Fit, Handless
<1> QED BY <1>1, <1>2, StopKeeps, SuspendKeeps DEF Resent, Handless

LEMMA JudgedAgainKeeps ==
    ASSUME LInv, IInv, JudgedAgain
    PROVE  LStep
<1>1. at.pc = "judge" /\ Grip
  BY GripAt DEF JudgedAgain, Handless
<1>2. ~Over(task[at.t]) => Judgeable(task[at.t], TRUE)
  BY <1>1, GripAt DEF Held, Fit, Handless, Judgeable, Settled, Underway
<1> QED BY <1>1, <1>2, SameHeir, SameBare, JudgeKeeps DEF JudgedAgain

----------------------------------------------------------------------------
(* An event is taken: nothing is left to be worked off.                    *)

(* Nothing is left to be worked off.                                      *)
LEMMA CloseKeeps ==
    ASSUME LInv, IInv, at.pc # "down", NEW u \in Tasks, NEW r, Twin(task[u], r), Touches(u, r),
           Fine(r, u, pushed', granted', queue', holder'), UNCHANGED <<pushed, granted>>,
           at'.todo = <<>>, at'.pc \notin {"reconcile", "down"},
           at'.pc \notin Handless \cup {"available"} =>
               at'.t = u /\ Held(at'.pc, at'.launch, r, u, queue', holder')
    PROVE  LStep
<1>1. Nobody \notin Tasks /\ Sane(saved[u], u, pushed', granted') 
  BY LoopAssumption DEF LInv
<1>2. /\ task' \in [Tasks -> Task] /\ saved' \in [Tasks -> Task]
      /\ holder' \in [Workspaces -> Tasks \cup {Nobody}]
      /\ \A t \in Tasks : Fine(task'[t], t, pushed', granted', queue', holder')
      /\ \A t \in Tasks : Sane(saved'[t], t, pushed', granted')
      /\ task'[u] = r /\ \A t \in Tasks \ {u} : task'[t] = task[t]
  BY <1>1, TouchKeeps
<1>3. HandFine(at', task', queue', holder')
  BY <1>2 DEF HandFine
<1>4. TodoFine(at', task', queue') /\ SeenFine(at', task')
  BY DEF TodoFine, SeenFine
<1>5. \A t \in Tasks : Twin(saved[t], task'[t]) /\ Twin(saved'[t], task'[t])
  <2>1. \A t \in Tasks : Twin(saved[t], task'[t])
    BY <1>1, <1>2 DEF LInv, Twin
  <2> QED BY <2>1 DEF Touches, Twin
<1> QED BY <1>2, <1>3, <1>4, <1>5 DEF LInv, LStep

LEMMA EventKeeps ==
    ASSUME LInv, IInv, at = Idle, NEW u \in Tasks, NEW r, Twin(task[u], r), Touches(u, r),
           Fine(r, u, pushed', granted', queue', holder'), UNCHANGED <<pushed, granted>>,
           at'.todo = <<>>, at'.pc \notin {"reconcile", "down"},
           at'.pc \notin Handless \cup {"available"} =>
               at'.t = u /\ Held(at'.pc, at'.launch, r, u, queue', holder')
    PROVE  LStep
BY CloseKeeps DEF Idle

LEMMA SameTouches ==
    ASSUME LInv, NEW u \in Tasks, Posts(u), UNCHANGED <<task, holder, saved, pushed, granted>>
    PROVE  Touches(u, task[u]) /\ Twin(task[u], task[u])
<1>1. task' = [task EXCEPT ![u] = task[u]]
  BY DEF LInv
<1>2. Leases(u)
  BY ReleaseLeases
<1> QED BY <1>1, <1>2 DEF Touches, Grows, Twin

(* A handler starts on a task, and nothing has changed yet.                *)
LEMMA StartKeeps ==
    ASSUME LInv, IInv, at = Idle, NEW u \in Tasks, UNCHANGED <<task, holder, queue, worldVars, storeVars>>,
           at'.todo = <<>>, at'.pc \notin {"reconcile", "down"}, at'.t = u,
           at'.pc \notin Handless \cup {"available"} =>
               Held(at'.pc, at'.launch, task[u], u, queue, holder)
    PROVE  LStep
<1>1. UNCHANGED <<saved, pushed, granted>> /\ Posts(u)
  BY DEF worldVars, storeVars, Posts
<1>2. Touches(u, task[u]) /\ Twin(task[u], task[u])
  BY <1>1, SameTouches
<1>3. Fine(task[u], u, pushed', granted', queue', holder')
  BY <1>1 DEF LInv
<1> QED BY <1>1, <1>2, <1>3, EventKeeps

LEMMA HandlerFields ==
    ASSUME NEW t, NEW pc
    PROVE  /\ Handler(t, pc).pc = pc /\ Handler(t, pc).t = t /\ Handler(t, pc).todo = <<>>
           /\ Ending(t).pc = "end" /\ Ending(t).t = t /\ Ending(t).todo = <<>>
           /\ \A e : LET h == [Handler(t, pc) EXCEPT !.explicit = e] IN
                     h.pc = pc /\ h.t = t /\ h.todo = <<>>
BY DEF Handler, Ending, Idle

LEMMA WorkerAvailableKeeps ==
    ASSUME LInv, IInv, NEW t \in Tasks, NEW explicit, WorkerAvailable(t, explicit)
    PROVE  LStep
BY StartKeeps, HandlerFields DEF WorkerAvailable

LEMMA TaskFine ==
    ASSUME LInv, NEW t \in Tasks
    PROVE  /\ Fine(task[t], t, pushed, granted, queue, holder)
           /\ task[t] \in Task
           /\ task[t].state # "none" => task[t].kind \in Intake
           /\ Over(task[t]) \/ Lives(task[t])
           /\ Terminal(task[t]) => Over(task[t])
           /\ Over(task[t]) => task[t].state # "none"
           /\ Based(task[t], t, pushed, granted)
BY DEF LInv, Fine, Sane, Based, Over, TerminalStates

LEMMA HumanDecisionKeeps ==
    ASSUME LInv, IInv, NEW t \in Tasks, HumanDecision(t)
    PROVE  LStep
<1> DEFINE r == task[t]
<1>1. r.status \in {"needs_human_decision", "waiting_infrastructure"} /\ "decision" \in r.waits
  BY DEF HumanDecision
<1>2. ~Over(r) => Underway(r) /\ ~r.running /\ ~Posted(t, queue)
  BY <1>1, TaskFine DEF Lives, Unborn, Queued, Asking, Underway, Moving, Fine, Pending
<1>3. r.state # "none"
  BY <1>2, TaskFine DEF Underway, Moving, Repairable
<1>4. \A what : Held("guidance", what, r, t, queue, holder)
  BY <1>1, <1>2, <1>3 DEF Held, Fit
<1> QED BY <1>4, StartKeeps, HandlerFields DEF HumanDecision

LEMMA ApprovalNoticedKeeps ==
    ASSUME LInv, IInv, NEW t \in Tasks, ApprovalNoticed(t)
    PROVE  LStep
<1> DEFINE r == task[t]
<1>1. r.status = "needs_human_approval" /\ r.phase # "none"
  BY DEF ApprovalNoticed
<1>2. ~Over(r) => (Asking(r) \/ Underway(r)) /\ ~r.running /\ ~Posted(t, queue)
  BY <1>1, TaskFine DEF Lives, Unborn, Queued, Asking, Underway, Moving, Fine, Pending
<1>3. r.state # "none"
  BY <1>2, TaskFine DEF Asking, Underway, Moving, Repairable
<1>4. \A what : Held("approval", what, r, t, queue, holder)
  BY <1>1, <1>2, <1>3 DEF Held, Fit
<1> QED BY <1>4, StartKeeps, HandlerFields DEF ApprovalNoticed

LEMMA QaUpdatedKeeps ==
    ASSUME LInv, IInv, NEW t \in Tasks, QaUpdated(t)
    PROVE  LStep
<1> DEFINE r == task[t]
<1>1. r.status = "qa_pending"
  BY DEF QaUpdated
<1>2. ~Over(r) => Underway(r) /\ ~r.running /\ ~Posted(t, queue)
  BY <1>1, TaskFine DEF Lives, Unborn, Queued, Asking, Underway, Moving, Fine, Pending
<1>3. r.state # "none"
  BY <1>2, TaskFine DEF Asking, Underway, Moving, Repairable
<1>4. \A what : Held("qa", what, r, t, queue, holder)
  BY <1>1, <1>2, <1>3 DEF Held, Fit
<1> QED BY <1>4, StartKeeps, HandlerFields DEF QaUpdated

(* The record of the event's task changes, and its lease may be freed.     *)
LEMMA NoticeKeeps ==
    ASSUME LInv, IInv, at = Idle, NEW u \in Tasks, NEW r, task' = [task EXCEPT ![u] = r],
           Sane(r, u, pushed, granted), r.kind = task[u].kind, r.run = task[u].run, r.state # "none",
           task[u].planned => r.planned \/ Over(r),
           ~Over(r) => ~r.running /\ ~Posted(u, queue'),
           UNCHANGED <<saved, pushed, granted>>, Posts(u),
           holder' = holder \/ holder' = Release(u, holder),
           at'.todo = <<>>, at'.pc \notin {"reconcile", "down"},
           at'.pc \notin Handless \cup {"available"} =>
               at'.t = u /\ Held(at'.pc, at'.launch, r, u, queue', holder'),
           Over(task[u]) => Over(r)
    PROVE  LStep
<1>1. Touches(u, r) /\ Twin(task[u], r)
  BY ReleaseLeases DEF Touches, Grows, Twin
<1>2. Letting(r, u, holder')
  BY LoopAssumption, TaskFine DEF Fine, Letting, Release
<1>3. Fine(r, u, pushed', granted', queue', holder')
  BY <1>2 DEF Fine, Pending, Leasing
<1> QED BY <1>1, <1>3, EventKeeps

LEMMA HandbackKeeps ==
    ASSUME LInv, IInv, NEW t \in Tasks, Handback(t)
    PROVE  LStep
<1> DEFINE r == task[t]
           s == [r EXCEPT !.contract = @ + 1]
<1>1. /\ r.status = "needs_human_approval" /\ at = Idle
      /\ task' = [task EXCEPT ![t] = s] /\ at' = Ending(Nobody)
      /\ UNCHANGED <<holder, queue, saved, pushed, granted>>
  BY DEF Handback, worldVars, storeVars
<1>2. /\ r \in Task
      /\ ~Over(r) => (Asking(r) \/ Underway(r)) /\ ~r.running /\ ~Posted(t, queue)
  BY <1>1, TaskFine DEF Lives, Unborn, Queued, Asking, Underway, Moving, Fine, Pending
<1>3. s \in Task
  <2>1. r.contract + 1 \in Nat
    BY <1>2 DEF Task
  <2>2. \A n \in Nat : [r EXCEPT !.contract = n] \in Task
    BY <1>2 DEF Task
  <2> QED BY <2>1, <2>2
<1>4. /\ Alike(s, r) /\ s.status = r.status /\ s.phase = r.phase /\ s.qa = r.qa /\ s.waits = r.waits
      /\ s.result = r.result
  BY <1>2 DEF Task, Alike
<1> HIDE DEF s
<1>5. ~Over(s) => Lives(s)
  BY <1>2, <1>4
     DEF Alike, Over, Lives, Asking, Untouched, Underway, Moving, Clean, Relaunching, Unclear, Opened, AtMostOne, Checked
<1>6. Sane(s, t, pushed, granted) /\ s.state # "none"
  BY <1>1, <1>2, <1>3, <1>4, <1>5, TaskFine
     DEF Sane, Alike, Terminal, TerminalStatuses, Based, Over, TerminalStates, Asking, Underway, Moving, Repairable
<1>7. Posts(t) /\ Ending(Nobody).todo = <<>> /\ Ending(Nobody).pc = "end"
  BY <1>1, HandlerFields DEF Posts
<1>8. ~Over(s) => ~s.running /\ ~Posted(t, queue')
  BY <1>1, <1>2, <1>4 DEF Alike, Over
<1> QED BY <1>1, <1>4, <1>6, <1>7, <1>8, NoticeKeeps DEF Alike, Over, Handless

LEMMA ReviewRetryKeeps ==
    ASSUME LInv, IInv, NEW t \in Tasks, ReviewRetry(t)
    PROVE  LStep
<1> DEFINE r == task[t]
           next == [r EXCEPT !.reviews = @ + 1]
           pc == IF "diagnosis" \in r.waits THEN "diagnose" ELSE "rejudge"
<1>1. /\ r.status = "waiting_infrastructure" /\ at = Idle /\ r.waits \cap {"review", "diagnosis"} # {}
      /\ UNCHANGED <<holder, queue, saved, pushed, granted>>
  BY DEF ReviewRetry, worldVars, storeVars
<1>2. /\ r \in Task /\ Based(r, t, pushed, granted) /\ r.state # "none"
      /\ ~Over(r) => Underway(r) /\ ~r.running /\ ~Posted(t, queue)
  BY <1>1, TaskFine DEF Lives, Unborn, Queued, Asking, Underway, Moving, Repairable, Fine, Pending
<1>3. Posts(t)
  BY <1>1 DEF Posts
<1>4. CASE task' = [task EXCEPT ![t] = Blocked(r)] /\ at' = Ending(t)
  <2> DEFINE s == Blocked(r)
  <2>1. Sane(s, t, pushed, granted) /\ Over(s) /\ s.kind = r.kind /\ s.run = r.run /\ s.state # "none"
    BY <1>2, TaskFine, BlockedOver, BlockedBased
  <2>2. task' = [task EXCEPT ![t] = s] /\ at'.todo = <<>> /\ at'.pc = "end"
    BY <1>4, HandlerFields
  <2> HIDE DEF s
  <2> QED BY <1>1, <1>3, <2>1, <2>2, NoticeKeeps DEF Handless
<1>5. CASE task' = [task EXCEPT ![t] = next] /\ at' = Handler(t, pc)
  <2>1. next \in Task
    <3>1. r.reviews + 1 \in Nat
      BY <1>2 DEF Task
    <3>2. \A n \in Nat : [r EXCEPT !.reviews = n] \in Task
      BY <1>2 DEF Task
    <3> QED BY <3>1, <3>2
  <2>2. /\ Alike(next, r) /\ next.status = r.status /\ next.phase = r.phase /\ next.qa = r.qa
        /\ next.waits = r.waits /\ next.result = r.result
    BY <1>2 DEF Task, Alike
  <2> HIDE DEF next
  <2>3. ~Over(next) => Underway(next) /\ ~next.running
    BY <1>2, <2>2
       DEF Alike, Over, Underway, Moving, Clean, Relaunching, Unclear, Opened, AtMostOne, Checked
  <2>4. Sane(next, t, pushed, granted) /\ next.state # "none"
    BY <1>1, <1>2, <2>1, <2>2, <2>3, TaskFine
       DEF Sane, Alike, Terminal, TerminalStatuses, Based, Over, Lives
  <2>5. ~Over(next) => Fit(pc, "none", next)
    BY <1>1, <2>2, <2>3
       DEF Fit, Underway, Moving, Relaunching, Opened, AtMostOne
  <2>6. Held(pc, "none", next, t, queue', holder')
    BY <1>1, <1>2, <2>2, <2>3, <2>4, <2>5 DEF Held, Alike, Over
  <2>7. at'.pc = pc /\ at'.t = t /\ at'.todo = <<>> /\ at'.launch = "none"
    BY <1>5 DEF Handler, Idle
  <2> QED BY <1>1, <1>2, <1>3, <1>5, <2>2, <2>3, <2>4, <2>6, <2>7, NoticeKeeps DEF Alike, Over
<1> QED BY <1>4, <1>5 DEF ReviewRetry

(* QA starts over on what was pushed last.                                 *)
LEMMA QaAsked ==
    ASSUME LInv, IInv, NEW t \in Tasks, Posted(t, queue), task[t].pr, ~Terminal(task[t])
    PROVE  LET r == task[t]
               s == [r EXCEPT !.status = "qa_pending", !.qa = 0] IN
           /\ Sane(s, t, pushed, granted) /\ s.kind = r.kind /\ s.run = r.run /\ s.state # "none"
           /\ s.planned = r.planned /\ s.state = r.state
           /\ ~Over(s) => ~s.running
<1> DEFINE r == task[t]
           s == [r EXCEPT !.status = "qa_pending", !.qa = 0]
<1>1. r \in Task
  BY TaskFine
<1>2. /\ s \in Task /\ Alike(s, r) /\ s.status = "qa_pending" /\ s.qa = 0 /\ s.waits = r.waits
      /\ s.phase = r.phase
  BY <1>1 DEF Task, Alike, Statuses
<1> HIDE DEF s
<1>3. ~Over(r) => /\ Underway(r) /\ ~r.running /\ r.receipt = r.run /\ Clean(r)
  BY TaskFine DEF Fine, Pending
<1>4. ~Over(s) => Underway(s) /\ ~s.running
  BY <1>2, <1>3
     DEF Alike, Over, Underway, Moving, Clean, Relaunching, Unclear, Opened, AtMostOne
<1>5. Sane(s, t, pushed, granted) /\ s.state # "none"
  BY <1>2, <1>3, <1>4, TaskFine
     DEF Sane, Alike, Terminal, TerminalStatuses, Based, Over, Lives, Underway, Moving, Repairable
<1> QED BY <1>2, <1>4, <1>5 DEF s, Alike

LEMMA EventPosts ==
    ASSUME NEW t \in Tasks, queue' = queue \ {<<"pushed", t>>} \/ queue' = queue \ {<<"pr_opened", t>>}
    PROVE  Posts(t)
BY DEF Posts

LEMMA BranchPushedKeeps ==
    ASSUME LInv, IInv, NEW t \in Tasks, BranchPushed(t)
    PROVE  LStep
<1> DEFINE r == task[t]
           s == [r EXCEPT !.status = "qa_pending", !.qa = 0]
<1>1. /\ at = Idle /\ <<"pushed", t>> \in queue /\ queue' = queue \ {<<"pushed", t>>} /\ Posts(t)
      /\ UNCHANGED <<holder, saved, pushed, granted>>
  BY EventPosts DEF BranchPushed, worldVars, storeVars
<1>2. /\ r \in Task /\ Fine(r, t, pushed, granted, queue, holder)
      /\ ~Over(r) => /\ Underway(r) /\ ~r.running /\ Clean(r)
                     /\ ~Posted(t, queue') /\ ~(<<"pr_opened", t>> \in queue)
  BY <1>1, TaskFine DEF Fine, Pending, Posted
<1>3. CASE ~(Terminal(r) \/ ~r.pr)
  <2>1. task' = [task EXCEPT ![t] = s] /\ at' = Ending(t)
    BY <1>3 DEF BranchPushed
  <2>2. /\ Sane(s, t, pushed, granted) /\ s.kind = r.kind /\ s.run = r.run /\ s.state # "none"
        /\ s.planned = r.planned /\ s.state = r.state
        /\ ~Over(s) => ~s.running
    BY <1>1, <1>3, QaAsked DEF Posted
  <2> HIDE DEF s
  <2> QED BY <1>1, <1>2, <2>1, <2>2, HandlerFields, NoticeKeeps DEF Over, Handless
<1>4. CASE Terminal(r) \/ ~r.pr
  <2>1. task' = task
    BY <1>4 DEF BranchPushed
  <2>2. Touches(t, r) /\ Twin(r, r)
    BY <1>1, <2>1, SameTouches
  <2>3. Fine(r, t, pushed', granted', queue', holder')
    BY <1>1, <1>2 DEF Fine, Pending, Posted
  <2>4. CASE at' = Ending(t)
    BY <1>1, <2>2, <2>3, <2>4, HandlerFields, EventKeeps DEF Handless
  <2>5. CASE r.receipt # 0 /\ ~Terminal(r) /\ at' = Handler(t, "pr")
    <3>1. ~Over(r) => Fit("pr", "none", r)
      BY <1>2, <1>4, <2>5 DEF Fit, Opened
    <3>2. r.state # "none"
      BY <1>2, TaskFine DEF Underway, Moving, Repairable
    <3>3. Held("pr", "none", r, t, queue', holder')
      BY <1>2, <2>5, <3>1, <3>2 DEF Held, Terminal, TerminalStatuses
    <3>4. at'.pc = "pr" /\ at'.t = t /\ at'.todo = <<>> /\ at'.launch = "none"
      BY <2>5 DEF Handler, Idle
    <3> QED BY <1>1, <2>2, <2>3, <3>3, <3>4, EventKeeps
  <2> QED BY <2>4, <2>5 DEF BranchPushed
<1> QED BY <1>3, <1>4

LEMMA QaStartsKeeps ==
    ASSUME LInv, IInv, NEW t \in Tasks, QaStarts(t)
    PROVE  LStep
<1> DEFINE r == task[t]
           s == [r EXCEPT !.status = "qa_pending", !.qa = 0]
<1>1. /\ at = Idle /\ <<"pr_opened", t>> \in queue /\ queue' = queue \ {<<"pr_opened", t>>} /\ Posts(t)
      /\ UNCHANGED <<holder, saved, pushed, granted>> /\ at' = Ending(t)
  BY EventPosts DEF QaStarts, worldVars, storeVars
<1>2. /\ Fine(r, t, pushed, granted, queue, holder)
      /\ ~Over(r) => ~Posted(t, queue')
  BY <1>1, TaskFine DEF Fine, Pending, Posted
<1>3. CASE ~(Terminal(r) \/ ~r.pr)
  <2>1. task' = [task EXCEPT ![t] = s]
    BY <1>3 DEF QaStarts
  <2>2. /\ Sane(s, t, pushed, granted) /\ s.kind = r.kind /\ s.run = r.run /\ s.state # "none"
        /\ s.planned = r.planned /\ s.state = r.state
        /\ ~Over(s) => ~s.running
    BY <1>1, <1>3, QaAsked DEF Posted
  <2> HIDE DEF s
  <2> QED BY <1>1, <1>2, <2>1, <2>2, HandlerFields, NoticeKeeps DEF Over, Handless
<1>4. CASE Terminal(r) \/ ~r.pr
  <2>1. task' = task
    BY <1>4 DEF QaStarts
  <2>2. Touches(t, r) /\ Twin(r, r)
    BY <1>1, <2>1, SameTouches
  <2>3. Fine(r, t, pushed', granted', queue', holder')
    BY <1>1, <1>2 DEF Fine, Pending, Posted
  <2> QED BY <1>1, <2>2, <2>3, HandlerFields, EventKeeps DEF Handless
<1> QED BY <1>3, <1>4

LEMMA RunDoneKeeps ==
    ASSUME LInv, IInv, NEW t \in Tasks, NEW n, RunDone(t, n)
    PROVE  LStep
<1> DEFINE o == task[t]
           r == [task[t] EXCEPT !.running = FALSE, !.effect = "none"]
           s == [r EXCEPT !.result = TRUE]
           done == <<"done", t, n>>
<1>1. /\ at = Idle /\ queue' = queue \ {done}
      /\ UNCHANGED <<saved, pushed, granted>>
  BY DEF RunDone, worldVars, storeVars
<1>2. \A u : done # <<"pushed", u>> /\ done # <<"pr_opened", u>>
  OBVIOUS
<1>3. Posts(t) /\ (Posted(t, queue') <=> Posted(t, queue))
  <2> HIDE DEF done
  <2> QED BY <1>1, <1>2 DEF Posts, Posted
<1>4. o \in Task /\ Fine(o, t, pushed, granted, queue, holder)
  BY TaskFine
<1>5. CASE UNCHANGED <<task, holder>> /\ at' = Ending(t)
  <2>1. Touches(t, o) /\ Twin(o, o)
    BY <1>1, <1>3, <1>5, SameTouches
  <2>2. Fine(o, t, pushed', granted', queue', holder')
    BY <1>1, <1>3, <1>4, <1>5 DEF Fine, Pending, Posted
  <2> QED BY <1>1, <1>5, <2>1, <2>2, HandlerFields, EventKeeps DEF Handless
<1>6. ASSUME o.running
      PROVE  /\ o.state # "none"
             /\ ~Over(o) => /\ Underway(o) /\ o.status \in {"running", "repair_requested"}
                            /\ Clean(o) /\ o.qa = 0 /\ Opened(o) /\ ~Posted(t, queue)
  <2>1. ~Over(o) => Underway(o) /\ ~Posted(t, queue)
    BY <1>4, <1>6, TaskFine DEF Lives, Unborn, Untouched, Queued, Asking, Fine, Pending
  <2>2. Underway(o) => /\ o.status \in {"running", "repair_requested"} /\ o.state # "none"
                       /\ Clean(o) /\ o.qa = 0 /\ Opened(o)
    BY <1>6 DEF Underway, Moving, Clean, Relaunching, Unclear, Opened, Repairable
  <2> QED BY <2>1, <2>2, TaskFine
<1>7. /\ r \in Task /\ r.state = o.state /\ r.kind = o.kind /\ r.planned = o.planned /\ ~r.running
      /\ r.run = o.run /\ r.receipt = o.receipt /\ r.pr = o.pr /\ r.status = o.status
      /\ r.phase = o.phase /\ r.qa = o.qa /\ r.waits = o.waits
  BY <1>4 DEF Task
<1>8. /\ s \in Task /\ s.state = o.state /\ s.kind = o.kind /\ s.planned = o.planned /\ ~s.running
      /\ s.run = o.run /\ s.receipt = o.receipt /\ s.pr = o.pr /\ s.status = o.status
      /\ s.phase = o.phase /\ s.qa = o.qa /\ s.waits = o.waits
  BY <1>4 DEF Task
<1> HIDE DEF r, s
<1>9. ASSUME o.running
      PROVE  /\ Based(r, t, pushed, granted) /\ (Terminal(r) => Over(r))
             /\ Based(s, t, pushed, granted) /\ (Terminal(s) => Over(s))
  <2>1. Based(o, t, pushed, granted) /\ (Terminal(o) => Over(o))
    BY TaskFine
  <2>2. Based(r, t, pushed, granted)
    BY <2>1, <1>7 DEF Based, AcceptedFine, Red
  <2>3. Based(s, t, pushed, granted)
    BY <2>1, <1>8 DEF Based, AcceptedFine, Red
  <2> QED BY <2>1, <2>2, <2>3, <1>7, <1>8 DEF Terminal, Over
<1>10. CASE /\ o.running /\ Terminal(r)
            /\ task' = [task EXCEPT ![t] = r] /\ at' = Ending(t) /\ UNCHANGED holder
  <2>1. Sane(r, t, pushed, granted)
    BY <1>7, <1>9, <1>10 DEF Sane
  <2> QED BY <1>1, <1>3, <1>6, <1>7, <1>9, <1>10, <2>1, HandlerFields, NoticeKeeps DEF Handless, Over
<1>11. CASE /\ o.running /\ task' = [task EXCEPT ![t] = Blocked(r)] /\ at' = Ending(t)
            /\ holder' = Release(t, holder)
  <2> DEFINE b == Blocked(r)
  <2>1. Sane(b, t, pushed, granted) /\ Over(b) /\ b.kind = o.kind /\ b.run = o.run /\ b.state # "none"
    BY <1>6, <1>7, <1>9, <1>11, BlockedBased, BlockedOver
  <2> HIDE DEF b
  <2>2. task' = [task EXCEPT ![t] = b]
    BY <1>11 DEF b
  <2> QED BY <1>1, <1>3, <1>11, <2>1, <2>2, HandlerFields, NoticeKeeps DEF Handless
<1>12. CASE /\ o.running /\ ~Terminal(r) /\ task' = [task EXCEPT ![t] = s]
            /\ at' = Handler(t, "record") /\ UNCHANGED holder
  <2>1. ~Over(s) => Settled(s)
    BY <1>6, <1>8, <1>12
       DEF Over, Settled, Underway, Moving, Clean, Relaunching, Unclear, Opened, AtMostOne, Checked
  <2>2. Sane(s, t, pushed, granted) /\ s.state # "none"
    BY <1>6, <1>8, <1>9, <1>12, <2>1 DEF Sane, Settled, Lives
  <2>3. s.status # "accepted"
    BY <1>7, <1>8, <1>12 DEF Terminal, TerminalStatuses
  <2>4. ~Over(s) => ~Posted(t, queue')
    BY <1>3, <1>6, <1>8, <1>12 DEF Over
  <2>5. \A what : Held("record", what, s, t, queue', holder')
    BY <1>8, <2>1, <2>2, <2>3, <2>4 DEF Held, Fit
  <2>6. at'.pc = "record" /\ at'.t = t /\ at'.todo = <<>>
    BY <1>12, HandlerFields
  <2>7. Over(o) => Over(s)
    BY <1>8 DEF Over
  <2> QED BY <1>1, <1>3, <1>8, <1>12, <2>2, <2>4, <2>5, <2>6, <2>7, NoticeKeeps
<1> QED BY <1>5, <1>10, <1>11, <1>12 DEF RunDone, r, s

(* A task arrives under a new id.                                          *)
LEMMA TaskCreatedKeeps ==
    ASSUME LInv, IInv, NEW t \in Tasks, NEW kind \in Intakes[t], TaskCreated(t, kind)
    PROVE  LStep
<1> DEFINE seq == 1 + Cardinality({s \in Tasks : Exists(s)})
           o == [Absent EXCEPT !.state = "routed", !.status = "queued", !.kind = kind,
                               !.contract = 1, !.seq = seq]
           asking == AwaitApproval([o EXCEPT !.state = "awaiting_approval"], "pre_execution")
           queued == [o EXCEPT !.state = "queued"]
           r == IF Red(o) THEN asking ELSE queued
<1>1. /\ at = Idle /\ Fresh(t) /\ task' = [task EXCEPT ![t] = r]
      /\ queue' = queue \cup {<<"tick">>} /\ at' = Ending(t)
      /\ UNCHANGED <<holder, saved, pushed, granted>>
  BY DEF TaskCreated, worldVars, storeVars
<1>2. seq \in Nat /\ kind \in Intake
  <2>1. IsFiniteSet({s \in Tasks : Exists(s)})
    BY LoopAssumption, FS_Subset
  <2> QED BY <2>1, LoopAssumption, FS_CardinalityType
<1> HIDE DEF seq
<1>3. Unborn(task[t]) /\ ~Posted(t, queue) /\ task[t].state = "none"
  BY <1>1, TaskFine
     DEF Fresh, Exists, Lives, Unborn, Queued, Asking, Underway, Moving, Repairable, Fine, Pending,
         Over, TerminalStates
<1>4. \A p \in pushed : p[1] # t
  <2> SUFFICES ASSUME NEW p \in pushed PROVE p[1] # t
    OBVIOUS
  <2> DEFINE g == <<p[1], "commit_publish", p[2]>>
  <2>1. g \in granted /\ g[1] = p[1]
    BY DEF IInv, PublishedAsApproved
  <2> HIDE DEF g
  <2> QED BY <1>1, <2>1 DEF Fresh
<1>5. Absent \in Task /\ Untouched(Absent) /\ Absent.phase = "none"
  BY DEF Absent, Task, Untouched, States, Statuses, Phases, Waits
<1>6. o \in Task
  <2>1. /\ "routed" \in States /\ "queued" \in Statuses /\ 1 \in Nat
    BY DEF States, Statuses
  <2> QED BY <1>2, <1>5, <2>1 DEF Task
<1>7. o.kind = kind /\ Untouched(o) /\ o.phase = "none" /\ o.status = "queued"
  BY <1>5 DEF Task, Untouched
<1> HIDE DEF o
<1>8. /\ asking \in Task /\ asking.state = "awaiting_approval"
      /\ asking.status = "needs_human_approval" /\ asking.kind = kind /\ asking.phase = "pre_execution"
      /\ Untouched(asking)
  BY <1>6, <1>7 DEF AwaitApproval, Task, Untouched, States, Statuses, Phases
<1>9. /\ queued \in Task /\ queued.state = "queued" /\ queued.status = "queued" /\ queued.kind = kind
      /\ queued.phase = "none" /\ Untouched(queued)
  BY <1>6, <1>7 DEF Task, Untouched, States
<1> HIDE DEF asking, queued
<1>10. /\ r \in Task /\ (Asking(r) \/ Queued(r)) /\ r.state \in {"awaiting_approval", "queued"}
       /\ r.status \in {"needs_human_approval", "queued"} /\ r.kind = kind /\ ~r.running
       /\ r.receipt = 0 /\ r.phase # "commit_publish"
  BY <1>8, <1>9 DEF Asking, Queued, Untouched, Clean, Relaunching, Unclear
<1> HIDE DEF r
<1>11. Sane(r, t, pushed', granted')
  <2>1. Based(r, t, pushed', granted') 
    BY <1>1, <1>2, <1>4, <1>10 DEF Based
  <2> QED BY <1>10, <2>1 DEF Sane, Lives, Terminal, TerminalStatuses
<1>12. Ticks
  BY <1>1 DEF Ticks
<1>15. task[t].run = 0 /\ r.run \in Nat
  BY <1>3, <1>10 DEF Unborn, Task
<1>13. Touches(t, r) /\ Twin(task[t], r)
  BY <1>1, <1>3, <1>12, <1>15, TickPosts, ReleaseLeases DEF Touches, Grows, Twin
<1>14. Fine(r, t, pushed', granted', queue', holder')
  <2>1. Pending(r, t, queue') /\ Leasing(r, t, holder')
    BY <1>3, <1>10, <1>12, TickPosts DEF Pending, Leasing
  <2>2. Letting(r, t, holder')
    BY <1>1, <1>3, TaskFine DEF Fine, Letting
  <2> QED BY <1>11, <2>1, <2>2 DEF Fine
<1> QED BY <1>1, <1>13, <1>14, HandlerFields, EventKeeps DEF Handless

----------------------------------------------------------------------------
(* A tick, and the end of an event.                                        *)

Silent ==
    \A t \in Tasks : /\ <<"pushed", t>> \in queue' <=> <<"pushed", t>> \in queue
                     /\ <<"pr_opened", t>> \in queue' <=> <<"pr_opened", t>> \in queue

(* Nothing but the place changes, and what is saved.                       *)
LEMMA FrameKeeps ==
    ASSUME LInv, at.pc # "down", UNCHANGED <<task, holder, pushed, granted>>,
           saved' = saved \/ saved' = task, Silent,
           HandFine(at', task, queue', holder), TodoFine(at', task, queue'), SeenFine(at', task),
           at'.pc # "down"
    PROVE  LStep
<1>1. \A t \in Tasks : Fine(task[t], t, pushed, granted, queue', holder)
  BY DEF LInv, Fine, Pending, Posted, Silent
<1>2. /\ saved' \in [Tasks -> Task] /\ \A t \in Tasks : Sane(saved'[t], t, pushed, granted)
      /\ \A t \in Tasks : Twin(saved'[t], task[t]) /\ Twin(saved[t], task[t])
  BY DEF LInv, Fine, Twin
<1> QED BY <1>1, <1>2 DEF LInv, LStep

(* A place at which nothing is in hand and nothing is to be worked off.    *)
LEMMA RestKeeps ==
    ASSUME LInv, at.pc # "down", UNCHANGED <<task, holder, pushed, granted>>,
           saved' = saved \/ saved' = task, Silent,
           at'.todo = <<>>, at'.pc \in Handless \ {"reconcile", "down"}
    PROVE  LStep
<1>1. HandFine(at', task, queue', holder) /\ TodoFine(at', task, queue') /\ SeenFine(at', task)
  BY DEF HandFine, TodoFine, SeenFine
<1> QED BY <1>1, FrameKeeps

LEMMA TickStartsKeeps ==
    ASSUME LInv, IInv, TickStarts
    PROVE  LStep
<1> DEFINE D == {s \in Tasks : Exists(s) /\ ~task[s].paused}
<1>1. /\ at.pc # "down" /\ UNCHANGED <<task, holder, pushed, granted, saved>> /\ Silent
      /\ at'.pc = "reconcile" /\ at'.todo = <<>> /\ at'.seen = [t \in D |-> task[t]]
  BY DEF TickStarts, Idle, Silent, worldVars, storeVars
<1>2. SeenFine(at', task)
  <2> SUFFICES ASSUME NEW t \in D
               PROVE  /\ task[t].state # "none" /\ task[t].seq \in Nat
                      /\ task[t].state = "queued" => Over(task[t]) \/ Queued(task[t])
    BY <1>1 DEF SeenFine
  <2> QED BY TaskFine
          DEF Exists, Task, Lives, Unborn, Asking, Underway, Moving, Repairable
<1>3. HandFine(at', task, queue', holder) /\ TodoFine(at', task, queue')
  BY <1>1 DEF HandFine, TodoFine, Handless
<1> QED BY <1>1, <1>2, <1>3, FrameKeeps

LEMMA TickEndsKeeps ==
    ASSUME LInv, IInv, TickEnds
    PROVE  LStep
<1>1. /\ at.pc # "down" /\ UNCHANGED <<task, holder, pushed, granted, saved, queue>>
      /\ at'.pc = "end" /\ at'.todo = <<>>
  BY DEF TickEnds, worldVars, storeVars, IInv, Place
<1> QED BY <1>1, RestKeeps DEF Silent, Handless

(* Whoever is blocked although over already is over still.                 *)
LEMMA EventEndsKeeps ==
    ASSUME LInv, IInv, EventEnds
    PROVE  LStep
<1> DEFINE t == at.ev
           s == [Blocked(task[t]) EXCEPT !.status = "blocked"]
<1>1. /\ at.pc = "end" /\ UNCHANGED <<pushed, granted>>
      /\ Idle.pc \in Handless \ {"reconcile", "down"} /\ Idle.todo = <<>>
  BY DEF EventEnds, worldVars, Idle, Handless
<1>2. CASE Save(task) /\ at' = Idle /\ UNCHANGED <<task, holder, queue>>
  BY <1>1, <1>2, RestKeeps DEF Save, Silent
<1>3. CASE Gone /\ UNCHANGED storeVars
  BY <1>1, <1>3, GoneKeeps DEF Within, storeVars
<1>4. CASE /\ at' = Idle
           /\ task' = IF t = Nobody \/ ~Exists(t) THEN task ELSE [task EXCEPT ![t] = s]
           /\ holder' = IF t = Nobody THEN holder ELSE Release(t, holder)
           /\ queue' = IF t = Nobody \/ Terminal(task[t]) THEN queue ELSE queue \cup {<<"tick">>}
           /\ UNCHANGED saved
  <2>1. Ticks /\ Silent
    BY <1>4 DEF Ticks, Silent
  <2>2. CASE t \notin Tasks \/ ~Exists(t)
    <3>1. task' = task
      BY <1>4, <2>2 DEF LInv
    <3>2. holder' = holder
      BY <1>4, <2>2, HoldersFit DEF LInv, Release, Exists
    <3> QED BY <1>1, <1>4, <2>1, <3>1, <3>2, RestKeeps
  <2>3. CASE t \in Tasks /\ Exists(t)
    <3> DEFINE b == Blocked(task[t])
    <3>0. /\ task[t] \in Task /\ task[t].state # "none" /\ t # Nobody
          /\ (Terminal(task[t]) => Over(task[t])) /\ Sane(saved[t], t, pushed, granted)
      BY <2>3, TaskFine, LoopAssumption DEF Exists, LInv
    <3>1. /\ Sane(b, t, pushed, granted) /\ b \in Task /\ Over(b) /\ b.kind = task[t].kind
          /\ b.state # "none" /\ b.run = task[t].run
      BY <2>3, <3>0, TaskFine, BlockedBased, BlockedOver
    <3>2. task' = [task EXCEPT ![t] = s] /\ holder' = Release(t, holder)
      BY <1>4, <2>3, <3>0
    <3>3. s = [b EXCEPT !.status = "blocked"]
      OBVIOUS
    <3> HIDE DEF b, s
    <3>4. /\ s \in Task /\ s.state = b.state /\ s.kind = b.kind /\ s.receipt = b.receipt
          /\ s.phase = b.phase /\ s.status = "blocked" /\ s.run = b.run
      BY <3>1, <3>3 DEF Task, Statuses
    <3>5. Sane(s, t, pushed, granted) /\ Over(s) /\ s.kind = task[t].kind /\ s.state # "none"
          /\ s.run = task[t].run
      BY <3>1, <3>4 DEF Sane, Over, Based
    <3>6. Touches(t, s) /\ Twin(task[t], s)
      BY <1>1, <1>4, <2>1, <2>3, <3>2, <3>5, TickPosts, ReleaseLeases DEF Touches, Grows, Twin
    <3>7. \A w \in Workspaces : holder'[w] = t => s.state # "none" /\ s.kind.ws = w
      BY <2>3, <3>0, <3>2 DEF Release, LInv
    <3>8. Fine(s, t, pushed', granted', queue', holder')
      BY <1>1, <3>5, <3>7, OverFine
    <3> QED BY <1>1, <1>4, <2>3, <3>0, <3>6, <3>8, CloseKeeps
  <2> QED BY <2>2, <2>3
<1> QED BY <1>2, <1>3, <1>4 DEF EventEnds

(* What a tick decides is about tasks it saw, each of them once.           *)
LEMMA TickDecidesKeeps ==
    ASSUME LInv, IInv, TickDecides
    PROVE  LStep
<1>1. /\ at.pc = "reconcile" /\ UNCHANGED <<task, holder, pushed, granted, saved, queue>> /\ Silent
  BY DEF TickDecides, worldVars, storeVars, Silent
<1>2. PICK ready \in BOOLEAN : \E ds \in Decisions(at.seen, ready) :
          at' = [at EXCEPT !.pc = "deciding", !.seen = Absent, !.todo = ds]
  BY DEF TickDecides
<1>0. PICK ds \in Decisions(at.seen, ready) :
          at' = [at EXCEPT !.pc = "deciding", !.seen = Absent, !.todo = ds]
  BY <1>2
<1>3. at'.pc = "deciding" /\ at'.todo = ds
  BY <1>0 DEF IInv, Place
<1>4. ASSUME NEW i \in DOMAIN ds
      PROVE  /\ ds[i][1] \in Candidates(at.seen) /\ ds[i][2] \in {"dispatch", "wait", "keep", "block"}
  <2>1. PICK t \in Candidates(at.seen) : ds[i] = <<t, Decision(at.seen, ready, t)>>
    BY <1>4 DEF Decisions
  <2> QED BY <2>1 DEF Decision
<1>5. ASSUME NEW t \in Candidates(at.seen)
      PROVE  /\ t \in Tasks /\ task[t].state # "none" /\ at.seen[t].seq \in Nat
             /\ Over(task[t]) \/ Queued(task[t])
  BY <1>1 DEF Candidates, LInv, SeenFine, IInv, Place
<1>6. ASSUME NEW i \in DOMAIN ds, NEW j \in DOMAIN ds, ds[i][1] = ds[j][1]
      PROVE  i = j
  <2>1. i \in Int /\ j \in Int
    BY DEF Decisions
  <2>2. ASSUME NEW x \in DOMAIN ds, NEW y \in DOMAIN ds, x < y PROVE ds[x][1] # ds[y][1]
    <3>1. Before(at.seen, ds[x][1], ds[y][1])
      BY <2>2 DEF Decisions
    <3> QED BY <3>1, <1>4, <1>5 DEF Before
  <2> QED BY <1>6, <2>1, <2>2
<1>7. TodoFine(at', task, queue')
  BY <1>3, <1>4, <1>5, <1>6 DEF TodoFine, Due, Handless
<1>8. HandFine(at', task, queue', holder) /\ SeenFine(at', task)
  BY <1>3 DEF HandFine, SeenFine, Handless
<1> QED BY <1>1, <1>3, <1>7, <1>8, FrameKeeps

(* The first of what is to be worked off, and the rest.                    *)
LEMMA TodoHead ==
    ASSUME LInv, IInv, at.pc = "deciding", at.todo # <<>>
    PROVE  LET t == Head(at.todo)[1] IN
           /\ t \in Tasks /\ Head(at.todo)[2] \in Moves
           /\ task[t].state # "none" /\ Due(task[t], t, Head(at.todo)[2], queue)
           /\ \A i \in DOMAIN Tail(at.todo) :
                  /\ Tail(at.todo)[i][1] \in Tasks \ {t} /\ Tail(at.todo)[i][2] \in Moves
                  /\ task[Tail(at.todo)[i][1]].state # "none"
                  /\ Due(task[Tail(at.todo)[i][1]], Tail(at.todo)[i][1], Tail(at.todo)[i][2], queue)
           /\ \A i, j \in DOMAIN Tail(at.todo) : Tail(at.todo)[i][1] = Tail(at.todo)[j][1] => i = j
<1> DEFINE q == at.todo
           u == Tail(q)
<1>1. q \in Seq(Tasks \X Moves) /\ q # <<>>
  BY DEF IInv, Place
<1>2. TodoFine(at, task, queue)
  BY DEF LInv
<1>3. /\ Head(q) = q[1] /\ 1 \in DOMAIN q
      /\ \A i \in DOMAIN u : i \in Nat /\ i + 1 \in DOMAIN q /\ u[i] = q[i + 1] /\ i + 1 # 1
  BY <1>1
<1>4. \A i \in DOMAIN q : q[i][1] \in Tasks /\ q[i][2] \in Moves
  BY <1>1
<1>5. /\ \A i \in DOMAIN q : task[q[i][1]].state # "none" /\ Due(task[q[i][1]], q[i][1], q[i][2], queue)
      /\ \A i, j \in DOMAIN q : q[i][1] = q[j][1] => i = j
  BY <1>2 DEF TodoFine
<1> HIDE DEF q, u
<1>6. \A i \in DOMAIN u : u[i][1] # Head(q)[1]
  BY <1>3, <1>5
<1>7. \A i, j \in DOMAIN u : u[i][1] = u[j][1] => i = j
  <2> SUFFICES ASSUME NEW i \in DOMAIN u, NEW j \in DOMAIN u, u[i][1] = u[j][1] PROVE i = j
    OBVIOUS
  <2>1. i + 1 = j + 1
    BY <1>3, <1>5
  <2> QED BY <2>1, <1>3
<1> QED BY <1>3, <1>4, <1>5, <1>6, <1>7 DEF q, u

(* The first is worked off, or its handler starts.                         *)
LEMMA WorkKeeps ==
    ASSUME LInv, IInv, at.pc = "deciding", at.todo # <<>>, NEW t, t = Head(at.todo)[1], NEW r,
           Touches(t, r), Twin(task[t], r), Fine(r, t, pushed', granted', queue', holder'),
           Sane(saved[t], t, pushed', granted'), at'.todo = Tail(at.todo),
           \/ at'.pc = "deciding"
           \/ /\ at'.t = t /\ at'.pc \notin Handless
              /\ Held(at'.pc, at'.launch, r, t, queue', holder')
    PROVE  LStep
<1>1. t \in Tasks /\ Nobody \notin Tasks
  BY LoopAssumption, TodoHead
<1>2. /\ task' \in [Tasks -> Task] /\ saved' \in [Tasks -> Task]
      /\ holder' \in [Workspaces -> Tasks \cup {Nobody}]
      /\ \A u \in Tasks : Fine(task'[u], u, pushed', granted', queue', holder')
      /\ \A u \in Tasks : Sane(saved'[u], u, pushed', granted')
      /\ task'[t] = r /\ \A u \in Tasks \ {t} : task'[u] = task[u]
  BY <1>1, TouchKeeps
<1>3. HandFine(at', task', queue', holder') /\ SeenFine(at', task') /\ at'.pc # "down"
  BY <1>2 DEF HandFine, SeenFine, Handless
<1>4. TodoFine(at', task', queue')
  <2> DEFINE u == Tail(at.todo)
  <2>1. /\ \A i \in DOMAIN u :
               /\ u[i][1] \in Tasks \ {t} /\ task[u[i][1]].state # "none"
               /\ Due(task[u[i][1]], u[i][1], u[i][2], queue)
        /\ \A i, j \in DOMAIN u : u[i][1] = u[j][1] => i = j
    BY TodoHead
  <2>2. at'.todo = u
    OBVIOUS
  <2> HIDE DEF u
  <2>3. \A i \in DOMAIN u : Due(task'[u[i][1]], u[i][1], u[i][2], queue')
    BY <1>2, <2>1 DEF Due, Touches, Posts, Posted
  <2>4. at'.pc \notin Handless => at'.t = t
    BY DEF Handless
  <2> QED BY <1>2, <2>1, <2>2, <2>3, <2>4 DEF TodoFine
<1>5. \A u \in Tasks : Twin(saved[u], task'[u]) /\ Twin(saved'[u], task'[u])
  <2>1. \A u \in Tasks : Twin(saved[u], task'[u])
    BY <1>2 DEF LInv, Twin
  <2> QED BY <2>1 DEF Touches, Twin
<1> QED BY <1>2, <1>3, <1>4, <1>5 DEF LInv, LStep

LEMMA DecideKeeps ==
    ASSUME LInv, IInv, Decide
    PROVE  LStep
<1> DEFINE t == Head(at.todo)[1]
           move == Head(at.todo)[2]
           rest == [at EXCEPT !.todo = Tail(@)]
           o == task[t]
<1>1. /\ at.pc = "deciding" /\ at.todo # <<>> /\ UNCHANGED <<saved, pushed, granted>>
  BY DEF Decide, worldVars, storeVars
<1>2. /\ t \in Tasks /\ o.state # "none" /\ Due(o, t, move, queue)
      /\ Sane(saved[t], t, pushed, granted)
  BY <1>1, TodoHead DEF LInv
<1>3. /\ rest.pc = "deciding" /\ rest.todo = Tail(at.todo) /\ Place(at)
  BY <1>1 DEF IInv, Place
<1> HIDE DEF rest, t, move
<1>4. /\ o \in Task /\ Fine(o, t, pushed, granted, queue, holder) /\ Based(o, t, pushed, granted)
      /\ (Terminal(o) => Over(o))
  BY <1>2, TaskFine
<1>5. ASSUME move \in {"dispatch", "wait", "keep", "block"}, ~Over(o)
      PROVE  Queued(o) /\ ~o.running /\ ~Posted(t, queue)
  BY <1>2, <1>4, <1>5
     DEF Due, Queued, Untouched, Fine, Pending, Underway, Moving, Repairable
<1>6. CASE Terminal(o) /\ at' = rest /\ UNCHANGED <<task, holder, queue>>
  <2>1. Touches(t, o) /\ Twin(o, o)
    BY <1>1, <1>2, <1>6, SameTouches DEF Posts
  <2> QED BY <1>1, <1>2, <1>3, <1>4, <1>6, <2>1, WorkKeeps DEF t
<1>7. CASE /\ ~Terminal(o) /\ move = "dispatch"
           /\ at' = [rest EXCEPT !.pc = "base", !.t = t] /\ UNCHANGED <<task, holder, queue>>
  <2>1. Touches(t, o) /\ Twin(o, o)
    BY <1>1, <1>2, <1>7, SameTouches DEF Posts
  <2>2. \A what : Held("base", what, o, t, queue, holder)
    BY <1>2, <1>5, <1>7 DEF Held, Fit, Terminal, TerminalStatuses
  <2>3. at'.pc = "base" /\ at'.t = t /\ at'.todo = Tail(at.todo)
    BY <1>3, <1>7 DEF Place, rest
  <2> QED BY <1>1, <1>2, <1>4, <1>7, <2>1, <2>2, <2>3, WorkKeeps DEF t, Handless
<1>8. CASE /\ ~Terminal(o) /\ move \in {"wait", "keep"} /\ at' = rest /\ UNCHANGED <<holder, queue>>
           /\ task' = [task EXCEPT ![t].status = IF move = "keep" THEN "queued" ELSE "waiting"]
  <2> DEFINE status == IF move = "keep" THEN "queued" ELSE "waiting"
             s == [o EXCEPT !.status = status]
  <2>1. /\ s \in Task /\ Alike(s, o) /\ s.status \in {"queued", "waiting"} /\ s.phase = o.phase
        /\ s.qa = o.qa /\ s.waits = o.waits /\ s.result = o.result
    BY <1>4 DEF Task, Alike, Statuses
  <2>2. task' = [task EXCEPT ![t] = s]
    BY <1>8
  <2> HIDE DEF s, status
  <2>3. ~Over(s) => Queued(s) /\ ~s.running /\ ~Posted(t, queue)
    BY <1>5, <1>8, <2>1 DEF Alike, Over, Queued, Untouched
  <2>4. Sane(s, t, pushed, granted) /\ s.state # "none" /\ (Over(o) <=> Over(s))
    BY <1>2, <1>4, <2>1, <2>3 DEF Sane, Alike, Over, Terminal, TerminalStatuses, Based, Lives
  <2>5. Fine(s, t, pushed, granted, queue, holder)
    BY <1>4, <2>1, <2>3, <2>4 DEF Fine, Pending, Leasing, Letting, Alike
  <2>6. Touches(t, s) /\ Twin(o, s)
    BY <1>1, <1>2, <1>8, <2>1, <2>2, <2>4, ReleaseLeases DEF Touches, Grows, Posts, Twin, Alike
  <2> QED BY <1>1, <1>2, <1>3, <1>8, <2>5, <2>6, WorkKeeps DEF t
<1>9. CASE /\ ~Terminal(o) /\ move = "block" /\ at' = rest /\ task' = [task EXCEPT ![t] = Blocked(@)]
           /\ holder' = Release(t, holder) /\ queue' = queue \cup {<<"tick">>}
  <2> DEFINE s == Blocked(o)
  <2>1. Sane(s, t, pushed, granted) /\ Over(s) /\ s.kind = o.kind /\ s.run = o.run /\ s.state # "none"
    BY <1>2, <1>4, BlockedOver, BlockedBased
  <2>2. task' = [task EXCEPT ![t] = s] /\ Ticks
    BY <1>9 DEF Ticks
  <2> HIDE DEF s
  <2>3. Touches(t, s) /\ Twin(o, s)
    BY <1>1, <1>2, <1>9, <2>1, <2>2, TickPosts, ReleaseLeases DEF Touches, Grows, Twin
  <2>4. \A w \in Workspaces : holder'[w] = t => s.state # "none" /\ s.kind.ws = w
    BY <1>2, <1>9, LoopAssumption DEF Release, LInv
  <2>5. Fine(s, t, pushed', granted', queue', holder')
    BY <1>1, <2>1, <2>4, OverFine
  <2> QED BY <1>1, <1>2, <1>3, <1>9, <2>3, <2>5, WorkKeeps DEF t
<1> QED BY <1>6, <1>7, <1>8, <1>9 DEF Decide, t, move, rest

LEMMA TakeUpKeeps ==
    ASSUME LInv, IInv, TakeUp
    PROVE  LStep
<1> DEFINE t == Head(at.todo)[1]
           move == Head(at.todo)[2]
           o == task[t]
<1>1. /\ at.pc = "deciding" /\ at.todo # <<>> /\ UNCHANGED <<task, holder, queue, saved, pushed, granted>>
      /\ move \in {"resend", "judge"}
  BY DEF TakeUp, worldVars, storeVars
<1>2. /\ t \in Tasks /\ o.state # "none" /\ Due(o, t, move, queue)
      /\ Sane(saved[t], t, pushed, granted)
  BY <1>1, TodoHead DEF LInv
<1>3. Touches(t, o) /\ Twin(o, o) /\ Fine(o, t, pushed, granted, queue, holder)
  BY <1>1, <1>2, SameTouches, TaskFine DEF Posts
<1>4. CASE Terminal(o) /\ at' = [at EXCEPT !.todo = Tail(@)]
  <2>1. at'.pc = "deciding" /\ at'.todo = Tail(at.todo)
    BY <1>1, <1>4 DEF IInv, Place
  <2> QED BY <1>1, <1>2, <1>3, <2>1, WorkKeeps
<1>5. CASE ~Terminal(o) /\ at' = [at EXCEPT !.pc = move, !.t = t, !.todo = Tail(@)]
  <2>1. at'.pc = move /\ at'.t = t /\ at'.todo = Tail(at.todo)
    BY <1>5 DEF IInv, Place
  <2>2. ~Over(o) => ~Posted(t, queue) /\ ~o.running /\ Fit(move, "none", o)
    BY <1>1, <1>2 DEF Due, Fit, Settled, Underway, Moving, Handless
  <2>3. \A what : Held(move, what, o, t, queue, holder)
    BY <1>1, <1>2, <1>5, <2>2 DEF Held, Fit, Terminal, TerminalStatuses
  <2> QED BY <1>1, <1>2, <1>3, <2>1, <2>3, WorkKeeps DEF Handless
<1> QED BY <1>4, <1>5 DEF TakeUp

----------------------------------------------------------------------------
(* Whatever the handler in progress stands at: the owner's direct calls,   *)
(* the Workers.                                                            *)

LEMMA StillKeeps ==
    ASSUME LInv, IInv, UNCHANGED <<at, task, holder, saved, pushed>>, granted \subseteq granted', Silent
    PROVE  LStep
<1>1. ASSUME NEW r, NEW t, Sane(r, t, pushed, granted)
      PROVE  Sane(r, t, pushed, granted')
  BY <1>1 DEF Sane, Based, AcceptedFine
<1>2. \A t \in Tasks : Posted(t, queue') <=> Posted(t, queue)
  BY DEF Posted, Silent
<1>3. \A t \in Tasks : Fine(task[t], t, pushed, granted', queue', holder)
  BY <1>1, <1>2 DEF LInv, Fine, Pending, Silent
<1>4. \A t \in Tasks : Sane(saved[t], t, pushed, granted')
  BY <1>1 DEF LInv
<1>5. HandFine(at, task, queue', holder)
  BY <1>2 DEF LInv, HandFine, Held, IInv, Place
<1>6. TodoFine(at, task, queue')
  <2>1. \A i \in DOMAIN at.todo : at.todo[i][1] \in Tasks
    BY DEF IInv, Place
  <2>2. ASSUME NEW t \in Tasks, NEW move, Due(task[t], t, move, queue) PROVE Due(task[t], t, move, queue')
    BY <1>2, <2>2 DEF Due
  <2> QED BY <2>1, <2>2 DEF LInv, TodoFine
<1> QED BY <1>3, <1>4, <1>5, <1>6 DEF LInv, LStep

(* A task is over now, or nothing of it that a handler looks at differs.   *)
Unmoved(r, o) == Alike(r, o) /\ r.status = o.status /\ r.phase = o.phase /\ r.qa = o.qa
                 /\ r.waits = o.waits /\ r.result = o.result

LEMMA AsideKeeps ==
    ASSUME LInv, IInv, at' = at, at.pc # "down", NEW u \in Tasks, NEW r, Touches(u, r), Silent,
           Fine(r, u, pushed', granted', queue', holder'), UNCHANGED <<pushed, granted>>,
           r.state # "none", r.kind = task[u].kind, r.run = task[u].run, r.status = "accepted" => task[u].status = "accepted",
           Over(r) \/ (Unmoved(r, task[u]) /\ UNCHANGED holder)
    PROVE  LStep
<1>1. Nobody \notin Tasks /\ Sane(saved[u], u, pushed', granted') /\ Twin(task[u], r)
  BY LoopAssumption DEF LInv, Twin
<1>2. /\ task' \in [Tasks -> Task] /\ saved' \in [Tasks -> Task]
      /\ holder' \in [Workspaces -> Tasks \cup {Nobody}]
      /\ \A t \in Tasks : Fine(task'[t], t, pushed', granted', queue', holder')
      /\ \A t \in Tasks : Sane(saved'[t], t, pushed', granted')
      /\ task'[u] = r /\ \A t \in Tasks \ {u} : task'[t] = task[t]
  BY <1>1, TouchKeeps
<1>3. \A t \in Tasks : Posted(t, queue') <=> Posted(t, queue)
  BY DEF Silent, Posted
<1>4. ASSUME NEW t \in Tasks, Queued(task[t]), ~Over(task'[t])
      PROVE  Queued(task'[t])
  BY <1>2, <1>4 DEF Queued, Untouched, Unmoved, Alike
<1>5. ASSUME NEW t \in Tasks, NEW pc, NEW what, Fit(pc, what, task[t]), ~Over(task'[t])
      PROVE  Fit(pc, what, task'[t])
  <2>1. CASE t # u
    BY <1>2, <1>5, <2>1
  <2>2. CASE t = u
    <3>1. Unmoved(r, task[u]) /\ task'[t] = r
      BY <1>2, <1>5, <2>2
    <3>2. /\ Moving(task[u]) => Moving(r)
          /\ Checked(task[u]) <=> Checked(r)
          /\ Relaunching(task[u]) <=> Relaunching(r)
          /\ Unclear(task[u]) <=> Unclear(r)
          /\ Opened(task[u]) <=> Opened(r)
          /\ Untouched(task[u]) <=> Untouched(r)
      BY <3>1 DEF Unmoved, Alike, Moving, Checked, Relaunching, Unclear, Opened, AtMostOne, Untouched
    <3>3. /\ Underway(task[u]) => Underway(r)
          /\ Asking(task[u]) => Asking(r)
          /\ Queued(task[u]) => Queued(r)
          /\ Clean(task[u]) <=> Clean(r)
      BY <3>1, <3>2 DEF Unmoved, Alike, Underway, Asking, Queued, Clean
    <3>4. Settled(task[u]) => Settled(r)
      BY <3>1, <3>2, <3>3 DEF Unmoved, Alike, Settled
    <3> QED BY <1>5, <2>2, <3>1, <3>2, <3>3, <3>4 DEF Unmoved, Alike, Fit
  <2> QED BY <2>1, <2>2
<1>6. \A t \in Tasks : Over(task[t]) => Over(task'[t])
  BY <1>2 DEF Over, Unmoved, Alike
<1>7. HandFine(at', task', queue', holder')
  <2> SUFFICES ASSUME at.pc \notin Handless \cup {"available"}
               PROVE  Held(at.pc, at.launch, task'[at.t], at.t, queue', holder')
    BY DEF HandFine
  <2>1. at.t \in Tasks /\ Held(at.pc, at.launch, task[at.t], at.t, queue, holder)
    BY DEF LInv, HandFine, IInv, Place
  <2>2. /\ task'[at.t].status # "accepted" /\ task'[at.t].state # "none"
        /\ task'[at.t].kind = task[at.t].kind
    BY <1>2, <2>1 DEF Held
  <2>3. ASSUME ~Over(task'[at.t])
        PROVE  /\ ~task'[at.t].running /\ (Holds(task[at.t], at.t, holder) => Holds(task'[at.t], at.t, holder'))
    <3>1. CASE at.t = u
      BY <1>2, <1>6, <2>1, <2>3, <3>1 DEF Held, Unmoved, Alike, Holds
    <3>2. CASE at.t # u
      <4>1. task[at.t].kind.ws \in Workspaces
        BY <2>1, TaskFine DEF Held, Intake
      <4> QED BY <1>1, <1>2, <1>6, <2>1, <2>3, <3>2, <4>1 DEF Held, Holds, Touches, Leases
    <3> QED BY <3>1, <3>2
  <2> QED BY <1>3, <1>5, <1>6, <2>1, <2>2, <2>3 DEF Held
<1>8. TodoFine(at', task', queue')
  <2>1. \A i \in DOMAIN at.todo : at.todo[i][1] \in Tasks
    BY DEF IInv, Place
  <2>2. \A i \in DOMAIN at.todo : task'[at.todo[i][1]].state # "none"
    BY <1>2, <2>1 DEF LInv, TodoFine
  <2>3. ASSUME NEW t \in Tasks, NEW move, Due(task[t], t, move, queue) PROVE Due(task'[t], t, move, queue')
    BY <1>3, <1>4, <1>5, <1>6, <2>3 DEF Due
  <2> QED BY <2>1, <2>2, <2>3 DEF LInv, TodoFine
<1>9. SeenFine(at', task')
  BY <1>2, <1>4, <1>6 DEF LInv, SeenFine, IInv, Place
<1>10. \A t \in Tasks : Twin(saved[t], task'[t]) /\ Twin(saved'[t], task'[t])
  <2>1. \A t \in Tasks : Twin(saved[t], task'[t])
    BY <1>1, <1>2 DEF LInv, Twin
  <2> QED BY <2>1 DEF Touches, Twin
<1> QED BY <1>2, <1>7, <1>8, <1>9, <1>10 DEF LInv, LStep

LEMMA ServingUp == ASSUME LInv, Serving PROVE at.pc # "down"
BY DEF LInv, Serving

LEMMA CancelKeeps ==
    ASSUME LInv, IInv, NEW t \in Tasks, Cancel(t)
    PROVE  LStep
<1> DEFINE o == task[t]
           r == [task[t] EXCEPT !.state = "cancelled", !.status = "blocked", !.paused = FALSE]
<1>1. /\ Exists(t) /\ task' = [task EXCEPT ![t] = r] /\ holder' = Release(t, holder) /\ at' = at
      /\ Ticks /\ UNCHANGED <<pushed, granted>> /\ at.pc # "down"
  BY ServingUp DEF Cancel, worldVars, storeVars, Save, Ticks
<1>0. saved' = saved \/ saved' = task'
  BY DEF Cancel, storeVars, Save
<1>2. o \in Task /\ Based(o, t, pushed, granted) /\ o.state # "none"
  BY <1>1, TaskFine DEF Exists
<1>3. /\ r \in Task /\ r.state = "cancelled" /\ r.status = "blocked" /\ r.kind = o.kind
      /\ r.receipt = o.receipt /\ r.phase = o.phase /\ r.run = o.run
  BY <1>2 DEF Task, States, Statuses
<1> HIDE DEF r
<1>4. Over(r) /\ Sane(r, t, pushed, granted)
  BY <1>2, <1>3 DEF Sane, Over, TerminalStates, Based
<1>5. \A w \in Workspaces : holder'[w] = t => r.state # "none" /\ r.kind.ws = w
  BY <1>1, LoopAssumption DEF Release, LInv
<1>6. Touches(t, r) /\ Silent
  BY <1>0, <1>1, TickPosts, ReleaseLeases DEF Touches, Grows, Silent, Ticks
<1>7. Fine(r, t, pushed', granted', queue', holder')
  BY <1>1, <1>4, <1>5, OverFine
<1>8. r.state # "none" /\ r.status # "accepted"
  BY <1>3
<1>9. (Over(r) \/ (Unmoved(r, task[t]) /\ UNCHANGED holder)) /\ r.kind = task[t].kind /\ r.run = task[t].run
  BY <1>3, <1>4
<1> QED BY <1>1, <1>4, <1>6, <1>7, <1>8, <1>9, AsideKeeps

LEMMA PauseKeeps ==
    ASSUME LInv, IInv, NEW t \in Tasks, Pause(t)
    PROVE  LStep
<1> DEFINE o == task[t]
           r == [task[t] EXCEPT !.paused = TRUE]
<1>1. /\ Exists(t) /\ task' = [task EXCEPT ![t] = r] /\ UNCHANGED <<holder, at, queue, pushed, granted>>
      /\ at.pc # "down"
  BY ServingUp DEF Pause, worldVars, storeVars, Save
<1>0. saved' = saved \/ saved' = task'
  BY DEF Pause, storeVars, Save
<1>2. o \in Task /\ Fine(o, t, pushed, granted, queue, holder) /\ o.state # "none"
  BY <1>1, TaskFine DEF Exists
<1>3. r \in Task /\ Unmoved(r, o)
  BY <1>2 DEF Task, Unmoved, Alike
<1> HIDE DEF r
<1>4. Sane(r, t, pushed, granted)
  <2>1. Based(r, t, pushed, granted) /\ (Terminal(r) => Over(r))
    BY <1>2, <1>3 DEF Fine, Sane, Unmoved, Alike, Over, Terminal, Based, AcceptedFine, Red
  <2>2. Lives(o) => Lives(r)
    BY <1>3
       DEF Unmoved, Alike, Lives, Unborn, Queued, Asking, Underway, Moving, Untouched, Clean, Relaunching,
                Unclear, Opened, AtMostOne, Checked
  <2> QED BY <1>2, <1>3, <2>1, <2>2 DEF Fine, Sane, Over, Unmoved, Alike
<1>5. Fine(r, t, pushed, granted, queue, holder)
  <2>1. Pending(r, t, queue)
    BY <1>2, <1>3 DEF Fine, Pending, Unmoved, Alike, Over, Underway, Moving, Clean, Relaunching,
                      Unclear, Opened, AtMostOne, Checked
  <2> QED BY <1>2, <1>3, <1>4, <2>1 DEF Fine, Leasing, Letting, Holds, Unmoved, Alike, Over
<1>6. Touches(t, r) /\ Silent
  BY <1>0, <1>1, ReleaseLeases DEF Touches, Grows, Silent, Posts
<1> QED BY <1>1, <1>2, <1>3, <1>5, <1>6, AsideKeeps DEF Unmoved, Alike

LEMMA OwnerApprovesKeeps ==
    ASSUME LInv, IInv, NEW t \in Tasks, OwnerApproves(t)
    PROVE  LStep
BY StillKeeps DEF OwnerApproves, loopVars, storeVars, Silent

LEMMA WorkerExitsKeeps ==
    ASSUME LInv, IInv, NEW t \in Tasks, NEW n, WorkerExits(t, n)
    PROVE  LStep
<1> DEFINE done == <<"done", t, n>>
<1>1. /\ queue' = queue \/ queue' = queue \cup {done}
      /\ UNCHANGED <<at, task, holder, saved, pushed, granted>>
  BY DEF WorkerExits, storeVars
<1>2. \A u : done # <<"pushed", u>> /\ done # <<"pr_opened", u>>
  OBVIOUS
<1> HIDE DEF done
<1>3. Silent
  BY <1>1, <1>2 DEF Silent
<1> QED BY <1>1, <1>3, StillKeeps

----------------------------------------------------------------------------
(* The process is gone, and started again.                                 *)

(* Who is to be taken up again is, once each.                              *)
LEMMA TakeUpsOnce ==
    ASSUME NEW resent, NEW rejudged, resent \subseteq Tasks, rejudged \subseteq Tasks,
           NEW ds \in TakeUps(resent, rejudged)
    PROVE  /\ \A i \in DOMAIN ds : \/ ds[i][1] \in resent /\ ds[i][2] = "resend"
                                   \/ ds[i][1] \in rejudged /\ ds[i][2] = "judge"
           /\ \A i, j \in DOMAIN ds : ds[i][1] = ds[j][1] => i = j
<1> DEFINE U == resent \cup rejudged
           n == Cardinality(U)
           g == [i \in 1..n |-> ds[i][1]]
<1>1. /\ DOMAIN ds = 1..n /\ {ds[i][1] : i \in DOMAIN ds} = U
      /\ \A i \in 1..n : ds[i] \in (resent \X {"resend"}) \cup (rejudged \X {"judge"})
  BY DEF TakeUps
<1>2. IsFiniteSet(U) /\ n \in Nat
  BY LoopAssumption, FS_Subset, FS_Union, FS_CardinalityType
<1>3. IsFiniteSet(1..n) /\ Cardinality(1..n) = n
  BY <1>2, FS_Interval
<1>4. g \in Surjection(1..n, U)
  BY <1>1 DEF Surjection
<1>5. g \in Injection(1..n, U)
  BY <1>3, <1>4, FS_Surjection
<1>6. \A i, j \in 1..n : g[i] = g[j] => i = j
  BY <1>5 DEF Injection, IsInjective
<1> QED BY <1>1, <1>6

LEMMA RestartKeeps ==
    ASSUME LInv, IInv, Restart
    PROVE  LStep
<1> DEFINE InTransit == {t \in Tasks : InFlight(saved[t])}
           Live == {t \in Tasks : saved[t].state # "none" /\ ~Terminal(saved[t]) /\ ~StillWaits(saved[t])}
           Unjudged == {t \in Live : saved[t].waits \cap {"review", "diagnosis"} # {}}
           Lost == {t \in Live \ Unjudged : Indeterminate(t)}
           Rest == Live \ (Unjudged \cup Lost)
           Unsure == {t \in Rest : saved[t].receipt # 0 /\ ~saved[t].pr /\ saved[t].planned}
           Judged == {t \in Rest : saved[t].receipt = 0 /\ saved[t].result}
           Of(w) == {t \in InTransit \ Lost : saved[t].kind.ws = w}
           again(t) == [saved[t] EXCEPT !.reviews = 0]
           r(t) == IF t \in Unjudged THEN again(t)
                   ELSE IF t \in Lost THEN Blocked(saved[t]) ELSE saved[t]
<1>1. /\ task' = [t \in Tasks |-> r(t)]
      /\ holder' = [w \in Workspaces |-> IF Of(w) = {} THEN Nobody ELSE CHOOSE t \in Of(w) : TRUE]
      /\ queue' = {<<"tick">>} /\ UNCHANGED <<saved, pushed, granted>>
      /\ \E todo \in TakeUps(Unsure, Judged) :
             at' = [Idle EXCEPT !.pc = "deciding", !.resuming = TRUE, !.todo = todo]
  BY DEF Restart, worldVars, storeVars
<1>2. PICK todo \in TakeUps(Unsure, Judged) :
             at' = [Idle EXCEPT !.pc = "deciding", !.resuming = TRUE, !.todo = todo]
  BY <1>1
<1>3. at'.pc = "deciding" /\ at'.todo = todo
  BY <1>2 DEF Idle
<1>4. ASSUME NEW t \in Tasks
      PROVE  /\ saved[t] \in Task /\ Sane(saved[t], t, pushed, granted)
             /\ Based(saved[t], t, pushed, granted) /\ (Terminal(saved[t]) => Over(saved[t]))
             /\ Over(saved[t]) \/ Lives(saved[t])
             /\ Over(saved[t]) => saved[t].state # "none"
  BY DEF LInv, Sane, Over, TerminalStates
<1>5. ASSUME NEW t \in Tasks
      PROVE  again(t) \in Task /\ Unmoved(again(t), saved[t])
  BY <1>4 DEF Task, Unmoved, Alike
<1>6. ASSUME NEW t \in Tasks
      PROVE  Sane(again(t), t, pushed, granted)
  <2> DEFINE s == again(t)
  <2>1. s \in Task /\ Unmoved(s, saved[t])
    BY <1>5
  <2> HIDE DEF s
  <2>2. Based(s, t, pushed, granted) /\ (Terminal(s) => Over(s))
    BY <1>4, <2>1 DEF Unmoved, Alike, Over, Terminal, Based, AcceptedFine, Red
  <2>3. Lives(saved[t]) => Lives(s)
    BY <2>1
       DEF Unmoved, Alike, Lives, Unborn, Queued, Asking, Underway, Moving, Untouched, Clean, Relaunching,
                Unclear, Opened, AtMostOne, Checked
  <2>4. Sane(s, t, pushed, granted)
    BY <1>4, <2>1, <2>2, <2>3 DEF Sane, Over, Unmoved, Alike
  <2> QED BY <2>4 DEF s
<1>7. ASSUME NEW t \in Lost
      PROVE  /\ t \in Tasks /\ Sane(Blocked(saved[t]), t, pushed, granted) /\ Over(Blocked(saved[t]))
             /\ Blocked(saved[t]).kind = saved[t].kind /\ Blocked(saved[t]).planned = saved[t].planned
             /\ Blocked(saved[t]).state # "none" /\ Blocked(saved[t]).run = saved[t].run
  <2>1. t \in Tasks /\ saved[t].state # "none"
    OBVIOUS
  <2> QED BY <1>4, <2>1, BlockedOver, BlockedBased
<1>8. ASSUME NEW t \in Tasks
      PROVE  /\ Sane(r(t), t, pushed, granted) /\ r(t).kind = saved[t].kind
             /\ r(t).planned = saved[t].planned /\ r(t).run = saved[t].run
             /\ saved[t].state # "none" => r(t).state # "none"
             /\ t \notin Lost => r(t).running = saved[t].running /\ r(t).state = saved[t].state
  <2> HIDE DEF again, Lost, Unjudged
  <2> QED BY <1>4, <1>5, <1>6, <1>7 DEF Unmoved, Alike
(* The rest of the live ones.                                              *)
<1>9. ASSUME NEW t \in Rest, ~Over(saved[t])
      PROVE  /\ t \in Tasks /\ saved[t].state # "none" /\ ~saved[t].running
             /\ Queued(saved[t]) \/ (Underway(saved[t]) /\ Clean(saved[t]) /\ saved[t].qa = 0)
  <2>1. /\ t \in Tasks /\ saved[t].state # "none" /\ ~StillWaits(saved[t]) /\ ~saved[t].running
        /\ "review" \notin saved[t].waits /\ "diagnosis" \notin saved[t].waits
    BY DEF Indeterminate
  <2>2. Queued(saved[t]) \/ Underway(saved[t])
    BY <1>4, <1>9, <2>1 DEF Lives, Unborn, Asking, StillWaits
  <2>3. Underway(saved[t]) => Clean(saved[t]) /\ saved[t].qa = 0
    BY <2>1 DEF Underway, Moving, StillWaits, Clean, Relaunching, Unclear
  <2> QED BY <2>1, <2>2, <2>3
<1>10. ASSUME NEW t \in Tasks, saved[t].running, ~Over(saved[t])
       PROVE  t \in Lost
  <2>1. /\ Underway(saved[t])
    BY <1>4, <1>10 DEF Lives, Unborn, Queued, Untouched, Asking
  <2>2. /\ saved[t].status \in {"running", "repair_requested"} /\ saved[t].state # "none"
        /\ "review" \notin saved[t].waits /\ "diagnosis" \notin saved[t].waits
    BY <1>10, <2>1 DEF Underway, Moving, Repairable
  <2>3. t \in Live \ Unjudged
    BY <2>2 DEF StillWaits, Terminal, TerminalStatuses
  <2> QED BY <1>10, <2>3 DEF Indeterminate
<1>11. ASSUME NEW w \in Workspaces, NEW t \in Tasks, holder'[w] = t
       PROVE  t \in Of(w)
  <2>1. Of(w) # {}
    BY <1>1, <1>11, LoopAssumption
  <2>2. holder'[w] \in Of(w)
    BY <1>1, <2>1
  <2> QED BY <1>11, <2>2
<1>12. holder' \in [Workspaces -> Tasks \cup {Nobody}]
  <2>1. \A w \in Workspaces : Of(w) # {} => (CHOOSE t \in Of(w) : TRUE) \in Tasks
    <3> SUFFICES ASSUME NEW w \in Workspaces, Of(w) # {} PROVE (CHOOSE t \in Of(w) : TRUE) \in Tasks
      OBVIOUS
    <3>1. (CHOOSE t \in Of(w) : TRUE) \in Of(w)
      OBVIOUS
    <3> QED BY <3>1
  <2> HIDE DEF Of
  <2> QED BY <1>1, <2>1
<1>13. ASSUME NEW t \in Tasks
       PROVE  Fine(r(t), t, pushed', granted', queue', holder')
  <2>1. Pending(r(t), t, queue')
    BY <1>1 DEF Pending, Posted
  <2>2. Leasing(r(t), t, holder')
    <3>1. CASE t \in Lost
      <4>1. r(t) = Blocked(saved[t])
        BY <3>1
      <4> QED BY <1>7, <3>1, <4>1 DEF Leasing
    <3>2. CASE t \notin Lost
      <4> HIDE DEF r, Lost
      <4> QED BY <1>8, <1>10, <3>2 DEF Leasing, Over
    <3> QED BY <3>1, <3>2
  <2>3. Letting(r(t), t, holder')
    <3> SUFFICES ASSUME NEW w \in Workspaces, holder'[w] = t
                 PROVE  r(t).state # "none" /\ r(t).kind.ws = w /\ r(t).planned
      BY DEF Letting
    <3>1. saved[t].planned /\ saved[t].kind.ws = w
      BY <1>11 DEF InFlight
    <3>2. saved[t].state # "none"
      BY <1>4, <3>1 DEF Lives, Unborn, Queued, Asking, Underway, Moving, Repairable
    <3> HIDE DEF r
    <3> QED BY <1>8, <3>1, <3>2
  <2> HIDE DEF r
  <2> QED BY <1>1, <1>8, <2>1, <2>2, <2>3 DEF Fine
<1>14. ASSUME NEW t \in Unsure
       PROVE  t \in Tasks /\ r(t) = saved[t] /\ saved[t].state # "none" /\ Due(saved[t], t, "resend", queue')
  <2>1. t \in Rest /\ t \in Tasks /\ r(t) = saved[t] /\ saved[t].state # "none"
        /\ saved[t].receipt # 0 /\ ~saved[t].pr
    OBVIOUS
  <2>2. ~Over(saved[t]) => Fit("resend", "none", saved[t])
    BY <1>9, <2>1 DEF Fit, Queued, Untouched, Opened
  <2> QED BY <1>1, <2>1, <2>2 DEF Due, Posted
<1>15. ASSUME NEW t \in Judged
       PROVE  t \in Tasks /\ r(t) = saved[t] /\ saved[t].state # "none" /\ Due(saved[t], t, "judge", queue')
  <2>1. t \in Rest /\ t \in Tasks /\ r(t) = saved[t] /\ saved[t].state # "none"
        /\ saved[t].receipt = 0 /\ saved[t].result
    OBVIOUS
  <2>2. ~Over(saved[t]) => Settled(saved[t]) /\ ~saved[t].pr
    BY <1>9, <2>1 DEF Settled, Queued, Untouched, Opened, Underway, Moving
  <2> QED BY <1>1, <2>1, <2>2 DEF Due, Posted, Fit
<1>16. /\ \A i \in DOMAIN todo : \/ todo[i][1] \in Unsure /\ todo[i][2] = "resend"
                                 \/ todo[i][1] \in Judged /\ todo[i][2] = "judge"
       /\ \A i, j \in DOMAIN todo : todo[i][1] = todo[j][1] => i = j
  <2>1. Unsure \subseteq Tasks /\ Judged \subseteq Tasks
    OBVIOUS
  <2> HIDE DEF Unsure, Judged
  <2> QED BY <2>1, TakeUpsOnce
<1> HIDE DEF r, Unsure, Judged, Lost, Of
<1>17. \A t \in Tasks : task'[t] = r(t)
  BY <1>1
<1>18. TodoFine(at', task', queue')
  BY <1>3, <1>14, <1>15, <1>16, <1>17 DEF TodoFine, Handless
<1>19. HandFine(at', task', queue', holder') /\ SeenFine(at', task')
  BY <1>3 DEF HandFine, SeenFine, Handless
<1>20. task' \in [Tasks -> Task]
  BY <1>1, <1>8 DEF Sane
<1>21. \A t \in Tasks : Twin(saved'[t], task'[t])
  BY <1>1, <1>8, <1>17 DEF Twin
<1>22. saved' \in [Tasks -> Task] /\ \A t \in Tasks : Sane(saved'[t], t, pushed', granted')
  BY <1>1 DEF LInv
<1> QED BY <1>1, <1>3, <1>12, <1>13, <1>17, <1>18, <1>19, <1>20, <1>21, <1>22 DEF LInv, LStep

LEMMA TickInterruptedKeeps ==
    ASSUME LInv, IInv, TickInterrupted
    PROVE  LStep
<1> DEFINE Lost == {t \in Tasks : task[t].running /\ ~Terminal(task[t])}
           r(t) == IF t \in Lost THEN Blocked(task[t]) ELSE task[t]
<1>1. /\ at.pc = "reconcile" /\ task' = [t \in Tasks |-> r(t)]
      /\ holder' = [w \in Workspaces |-> IF holder[w] \in Lost THEN Nobody ELSE holder[w]]
      /\ queue' = queue \cup {<<"tick">>} /\ at' = Ending(Nobody) /\ UNCHANGED <<saved, pushed, granted>>
  BY DEF TickInterrupted, worldVars, storeVars
<1>2. Silent
  BY <1>1 DEF Silent
<1>3. ASSUME NEW t \in Lost
      PROVE  /\ t \in Tasks /\ Fine(Blocked(task[t]), t, pushed, granted, queue', holder')
             /\ Blocked(task[t]).kind = task[t].kind /\ task[t].state # "none"
             /\ Blocked(task[t]).state # "none" /\ Blocked(task[t]) \in Task
             /\ Blocked(task[t]).run = task[t].run
  <2> DEFINE s == Blocked(task[t])
  <2>1. t \in Tasks /\ task[t].running
    OBVIOUS
  <2>2. task[t].state # "none"
    BY <2>1, TaskFine DEF Lives, Unborn, Untouched, Queued, Asking, Underway, Moving, Repairable
  <2>3. Sane(s, t, pushed, granted) /\ Over(s) /\ s.kind = task[t].kind /\ s.state # "none" /\ s \in Task
      /\ s.run = task[t].run
    BY <2>1, <2>2, TaskFine, BlockedOver, BlockedBased
  <2>4. \A w \in Workspaces : holder'[w] # t
    BY <1>1, <1>3, LoopAssumption
  <2> HIDE DEF s, Lost
  <2>5. Fine(s, t, pushed, granted, queue', holder')
    BY <2>3, <2>4, OverFine
  <2> QED BY <2>1, <2>2, <2>3, <2>5 DEF s
<1>4. ASSUME NEW t \in Tasks, t \notin Lost
      PROVE  Fine(task[t], t, pushed, granted, queue', holder')
  <2> HIDE DEF Lost
  <2>1. Fine(task[t], t, pushed, granted, queue, holder) /\ Nobody # t
    BY TaskFine, LoopAssumption
  <2>2. \A w \in Workspaces : holder'[w] = t <=> holder[w] = t
    BY <1>1, <1>4, <2>1
  <2>3. Letting(task[t], t, holder')
    BY <2>1, <2>2 DEF Fine, Letting
  <2>4. Leasing(task[t], t, holder')
    <3> SUFFICES ASSUME task[t].running, ~Over(task[t]) PROVE Holds(task[t], t, holder')
      BY DEF Leasing
    <3>1. task[t].kind.ws \in Workspaces
      BY TaskFine DEF Lives, Unborn, Untouched, Queued, Asking, Underway, Moving, Repairable, Intake
    <3> QED BY <2>1, <2>2, <3>1 DEF Fine, Leasing, Holds
  <2>5. Pending(task[t], t, queue')
    BY <1>2, <2>1 DEF Fine, Pending, Posted, Silent
  <2> QED BY <2>1, <2>3, <2>4, <2>5 DEF Fine
<1> HIDE DEF Lost
<1>5. \A t \in Tasks : /\ Fine(task'[t], t, pushed, granted, queue', holder') /\ task'[t] \in Task
                       /\ task'[t].kind = task[t].kind /\ task'[t].run = task[t].run
                       /\ task[t].state # "none" => task'[t].state # "none"
  BY <1>1, <1>3, <1>4, TaskFine
<1>6. holder' \in [Workspaces -> Tasks \cup {Nobody}]
  BY <1>1 DEF LInv
<1>7. at'.pc = "end" /\ at'.todo = <<>>
  BY <1>1, HandlerFields
<1>8. HandFine(at', task', queue', holder') /\ TodoFine(at', task', queue') /\ SeenFine(at', task')
  BY <1>7 DEF HandFine, TodoFine, SeenFine, Handless
<1>9. task' \in [Tasks -> Task]
  BY <1>1, <1>5
<1>10. \A t \in Tasks : Twin(saved[t], task'[t])
  BY <1>1, <1>5 DEF LInv, Twin
<1> QED BY <1>1, <1>5, <1>6, <1>7, <1>8, <1>9, <1>10 DEF LInv, LStep

LEMMA InitFine == Init => LInv
<1> SUFFICES ASSUME Init PROVE LInv
  OBVIOUS
<1>1. Absent \in Task /\ Unborn(Absent)
  BY DEF Absent, Task, Unborn, Untouched, States, Statuses, Phases, Waits
<1>2. ASSUME NEW t \in Tasks
      PROVE  Sane(Absent, t, pushed, granted) /\ Fine(Absent, t, pushed, granted, queue, holder)
  <2>1. Sane(Absent, t, pushed, granted)
    BY <1>1 DEF Init, Sane, Lives, Based, Terminal, TerminalStatuses, Absent, NoIntake
  <2>2. Pending(Absent, t, queue) /\ Letting(Absent, t, holder)
    BY LoopAssumption DEF Init, Pending, Posted, Letting
  <2>3. Leasing(Absent, t, holder)
    BY DEF Absent, Leasing
  <2> QED BY <2>1, <2>2, <2>3 DEF Fine
<1>3. at = Idle /\ at.pc = "idle" /\ at.todo = <<>>
  BY DEF Init, Idle
<1>4. HandFine(at, task, queue, holder) /\ TodoFine(at, task, queue) /\ SeenFine(at, task)
  BY <1>3 DEF HandFine, TodoFine, SeenFine, Handless
<1> QED BY <1>1, <1>2, <1>3, <1>4 DEF Init, LInv, Twin

LEMMA CrashKeeps ==
    ASSUME LInv, IInv, Crash
    PROVE  LStep
BY GoneKeeps DEF Crash, Within, worldVars

LEMMA NextKeeps ==
    ASSUME LInv, IInv, Next
    PROVE  LStep
<1>1. CASE HandlerStep
  BY <1>1, TickDecidesKeeps, DecideKeeps, TickEndsKeeps, DispatchPlansKeeps, DispatchStartsKeeps,
     RecordedKeeps, RetryKeeps, ResumeKeeps, AvailableKeeps, LaunchedKeeps, DiagnosedKeeps, RepairKeeps,
     RejudgedKeeps, GuidedKeeps, ApprovalResolvedKeeps, CommitAskedKeeps, ReadOnlyVerifiedKeeps,
     PublishKeeps, CommittedKeeps, PushedKeeps, OpenPrKeeps, PrOpenedKeeps, QaReadKeeps, TakeUpKeeps,
     ResentKeeps, JudgedAgainKeeps, EventEndsKeeps
     DEF HandlerStep
<1>2. CASE EventTaken
  BY <1>2, TickStartsKeeps, BranchPushedKeeps, QaStartsKeeps, RunDoneKeeps DEF EventTaken
<1>3. CASE Outside
  BY <1>3, TaskCreatedKeeps, WorkerAvailableKeeps, HandbackKeeps, ReviewRetryKeeps, HumanDecisionKeeps,
     OwnerApprovesKeeps, ApprovalNoticedKeeps, QaUpdatedKeeps
     DEF Outside
<1>4. CASE WorkerEnds
  BY <1>4, WorkerExitsKeeps DEF WorkerEnds
<1>5. CASE TickInterrupted \/ Crash \/ Restart
  BY <1>5, TickInterruptedKeeps, CrashKeeps, RestartKeeps
<1>6. CASE \E t \in Tasks : Cancel(t) \/ Pause(t)
  BY <1>6, CancelKeeps, PauseKeeps
<1> QED BY <1>1, <1>2, <1>3, <1>4, <1>5, <1>6 DEF Next

LEMMA StepKeeps ==
    ASSUME LInv, IInv, [Next]_vars
    PROVE  LStep
<1>1. CASE UNCHANGED vars
  BY <1>1, StillKeeps DEF vars, Silent
<1> QED BY <1>1, NextKeeps

LEMMA LInvHolds == Spec => []LInv
<1>1. LInv /\ IInv /\ [Next]_vars => LInv'
  BY StepKeeps DEF LStep
<1> QED BY InitFine, IInvHolds, <1>1, PTL DEF Spec


----------------------------------------------------------------------------
(* The other variables, and what was started.                              *)

WorldOK ==
    /\ queue \subseteq Events
    /\ procs \subseteq Tasks \X Nat
    /\ granted \subseteq Tasks \X Phases \X Nat
    /\ latched \in BOOLEAN /\ skipped \in BOOLEAN
    /\ started \subseteq Tasks \X Nat \X Nat
    /\ pushed \subseteq Tasks \X Nat
    /\ faults \in Nat /\ orders \in Nat /\ crashes \in Nat

Spent == faults' = faults \/ (faults > 0 /\ faults' = faults - 1)
Stored ==
    /\ saved' = saved \/ (saved' = task' /\ at'.pc # "down")
    /\ latched' \in BOOLEAN /\ skipped' \in BOOLEAN /\ (skipped => skipped')

(* Nothing is started, pushed or approved, no event but a tick is posted.  *)
Lull ==
    /\ queue' \subseteq queue \cup {<<"tick">>} /\ Stored
    /\ UNCHANGED <<procs, granted, started, pushed>>

(* The next run of a task starts, and its record is saved before.          *)
Begun ==
    \E u \in Tasks, n \in Nat, c \in Nat :
        /\ n = task[u].run + 1 /\ task'[u].run = n
        /\ started' = started \cup {<<u, n, c>>} /\ procs' = procs \cup {<<u, n>>}
        /\ skipped' \/ saved' = task'
        /\ at'.pc # "down" /\ saved[u].run <= task[u].run

Orderly ==
    /\ queue' \subseteq queue \cup Events
    /\ granted' \subseteq granted \cup (Tasks \X Phases \X Nat)
    /\ pushed' \subseteq pushed \cup (Tasks \X Nat)
    /\ faults' \in Nat /\ orders' \in Nat /\ crashes' \in Nat
    /\ Stored
    /\ (started' = started /\ procs' \subseteq procs) \/ Begun

LEMMA EventTypes ==
    /\ <<"tick">> \in Events
    /\ \A t \in Tasks : <<"pushed", t>> \in Events /\ <<"pr_opened", t>> \in Events
    /\ \A t \in Tasks, n \in Nat : <<"done", t, n>> \in Events
BY DEF Events

LEMMA LullOrderly ==
    ASSUME WorldOK, Lull, Spent, UNCHANGED <<orders, crashes>>
    PROVE  Orderly
BY EventTypes DEF WorldOK, Lull, Spent, Orderly

LEMMA StoreKept ==
    ASSUME WorldOK, UNCHANGED storeVars
    PROVE  Stored
BY DEF WorldOK, storeVars, Stored

LEMMA StoreSaved ==
    ASSUME WorldOK, Save(task'), at'.pc # "down"
    PROVE  Stored
<1>1. skipped' = TRUE \/ skipped' = FALSE
  BY DEF Save, WorldOK
<1> QED BY <1>1 DEF WorldOK, Save, Stored

LEMMA BlocksLull ==
    ASSUME WorldOK
    PROVE  /\ \A r, next : StopAs(r, next) /\ UNCHANGED <<worldVars, storeVars>> => Lull
           /\ \A r, next : Become(r, next) => Lull
           /\ \A r : Throws(r) /\ UNCHANGED <<worldVars, storeVars>> => Lull
           /\ \A r : Accept(r) => Lull
<1>1. UNCHANGED storeVars => Stored
  BY StoreKept
<1> QED BY <1>1 DEF StopAs, Become, Throws, Accept, Gone, Lull, worldVars

LEMMA BranchesLull ==
    ASSUME WorldOK
    PROVE  /\ \A next : Stop(next) => Lull
           /\ \A pc : Suspend(pc) => Lull
           /\ \A r : NeedsRepair(r) => Lull
           /\ \A r, what : Launch(r, what) => Lull
           /\ \A r, what, changed : LaunchOrAsk(r, what, changed) => Lull
<1>1. /\ \A next : Stop(next) => Lull
      /\ \A pc : Suspend(pc) => Lull
      /\ \A r : NeedsRepair(r) => Lull
      /\ \A r, what : Launch(r, what) => Lull
  BY BlocksLull DEF Stop, Suspend, NeedsRepair, Launch
<1> QED BY <1>1, BlocksLull DEF LaunchOrAsk

LEMMA JudgeLull ==
    ASSUME WorldOK, NEW r, NEW fresh, Judge(r, fresh)
    PROVE  Lull /\ Spent
<1>1. Spent
  BY DEF Judge, Spent, Fault, Good
<1>2. Lull
  BY BlocksLull, BranchesLull DEF Judge
<1> QED BY <1>1, <1>2

LEMMA IntendLull ==
    ASSUME WorldOK, NEW r, NEW effect, NEW pc, pc \notin Handless, Place(at), Intend(r, effect, pc)
    PROVE  Lull /\ Spent
<1> DEFINE s == [r EXCEPT !.effect = effect]
<1>1. CASE ~latched /\ Fault /\ Throws(s) /\ UNCHANGED <<worldVars, storeVars>>
  BY <1>1, BlocksLull DEF Spent, Fault
<1>2. CASE /\ Save(task') /\ at' = [at EXCEPT !.pc = pc]
           /\ UNCHANGED <<holder, queue, worldVars, faults>>
  <2>1. at'.pc # "down"
    BY <1>2 DEF Place, Handless
  <2> QED BY <1>2, <2>1, StoreSaved DEF Lull, Spent, worldVars
<1> QED BY <1>1, <1>2 DEF Intend

LEMMA StartRunOrderly ==
    ASSUME WorldOK, at.t \in Tasks, task \in [Tasks -> Task], Place(at), NEW r, r \in Task,
           r.run = task[at.t].run, StartRun(r), UNCHANGED <<orders, crashes>>,
           \A t \in Tasks : Twin(saved[t], task[t])
    PROVE  Orderly
<1> DEFINE s == [r EXCEPT !.run = @ + 1, !.running = TRUE, !.effect = "worker"]
<1>1. CASE StopAs(r, Return) /\ Good /\ UNCHANGED <<worldVars, storeVars>>
  BY <1>1, BlocksLull, LullOrderly DEF Spent, Good
<1>2. CASE Fault /\ Throws(s) /\ UNCHANGED <<worldVars, storeVars>>
  BY <1>2, BlocksLull, LullOrderly DEF Spent, Fault
<1>3. CASE /\ task' = [task EXCEPT ![at.t] = s]
           /\ Save(task')
           /\ procs' = procs \cup {<<at.t, s.run>>}
           /\ started' = started \cup {<<at.t, s.run, s.contract>>}
           /\ at' = Return
           /\ Good
           /\ UNCHANGED <<holder, queue, granted, pushed>>
  <2>1. s.run = task[at.t].run + 1 /\ s.run \in Nat /\ s.contract \in Nat /\ task[at.t].run \in Nat
    BY DEF Task
  <2> HIDE DEF s
  <2>2. task'[at.t].run = s.run
    BY <1>3
  <2>3. task' # saved
    BY <2>1, <2>2 DEF Twin
  <2>4. skipped' \/ saved' = task'
    BY <1>3, <2>3 DEF Save
  <2>5. at'.pc # "down" /\ saved[at.t].run <= task[at.t].run
    BY <1>3, <2>1, AllEnd DEF Ends, Twin
  <2>7. Begun
    BY <1>3, <2>1, <2>2, <2>4, <2>5 DEF Begun
  <2>6. Stored
    BY <1>3, AllEnd, StoreSaved DEF Ends
  <2> QED BY <1>3, <2>7, <2>6 DEF Orderly, WorldOK, Good
<1> QED BY <1>1, <1>2, <1>3 DEF StartRun

Known == LInv /\ IInv /\ WorldOK

LEMMA KnownPlace ==
    ASSUME Known
    PROVE  /\ Place(at) /\ WorldOK /\ task \in [Tasks -> Task]
           /\ at.pc \notin Handless => at.t \in Tasks /\ task[at.t] \in Task
                                       /\ \A t \in Tasks : Twin(saved[t], task[t])
           /\ at.pc # "down" => Return.pc # "down" /\ Idle.pc # "down"
BY AllEnd DEF Known, LInv, IInv, Place, Handless, Ends

(* The record with which a Worker is launched.                             *)
LEMMA LaunchedTask ==
    ASSUME NEW r \in Task
    PROVE  /\ [r EXCEPT !.waits = @ \ {"retry"}, !.infra = @ + 1, !.status = Working(r)] \in Task
           /\ [r EXCEPT !.waits = @ \ {"continuation", "pause"}, !.conts = @ + 1,
                        !.status = Working(r)] \in Task
           /\ [r EXCEPT !.waits = @ \ {"repair"}, !.attempt = @ + 1,
                        !.status = "repair_requested"] \in Task
<1>1. /\ r.infra + 1 \in Nat /\ r.conts + 1 \in Nat /\ r.attempt + 1 \in Nat
      /\ Working(r) \in Statuses /\ "repair_requested" \in Statuses
      /\ \A X : r.waits \ X \in SUBSET Waits
  BY DEF Task, Working, Statuses
<1>2. \A w \in SUBSET Waits, n \in Nat, s \in Statuses :
          [r EXCEPT !.waits = w, !.infra = n, !.status = s] \in Task
  BY DEF Task
<1>3. \A w \in SUBSET Waits, n \in Nat, s \in Statuses :
          [r EXCEPT !.waits = w, !.conts = n, !.status = s] \in Task
  BY DEF Task
<1>4. \A w \in SUBSET Waits, n \in Nat, s \in Statuses :
          [r EXCEPT !.waits = w, !.attempt = n, !.status = s] \in Task
  BY DEF Task
<1> QED BY <1>1, <1>2, <1>3, <1>4

LEMMA StartsOrderly ==
    ASSUME Known, DispatchStarts \/ Launched
    PROVE  Orderly
<1> DEFINE r == task[at.t]
           moved == [r EXCEPT !.planned = FALSE, !.replans = @ + 1]
           b == [r EXCEPT !.state = "running", !.status = "running"]
           x == [r EXCEPT !.waits = @ \ {"retry"}, !.infra = @ + 1, !.status = Working(r)]
           y == [r EXCEPT !.waits = @ \ {"continuation", "pause"}, !.conts = @ + 1, !.status = Working(r)]
           z == [r EXCEPT !.waits = @ \ {"repair"}, !.attempt = @ + 1, !.status = "repair_requested"]
<1>1. /\ Place(at) /\ WorldOK /\ task \in [Tasks -> Task] /\ at.t \in Tasks /\ r \in Task
      /\ \A t \in Tasks : Twin(saved[t], task[t])
      /\ UNCHANGED <<orders, crashes>>
  BY KnownPlace DEF DispatchStarts, Launched, Handless
<1>2. /\ b \in Task /\ x \in Task /\ y \in Task /\ z \in Task
  <2>1. x \in Task /\ y \in Task /\ z \in Task
    BY <1>1, LaunchedTask
  <2>2. b \in Task
    BY <1>1 DEF Task, States, Statuses
  <2> QED BY <2>1, <2>2
<1>3. /\ b.run = r.run /\ x.run = r.run /\ y.run = r.run /\ z.run = r.run
  BY <1>1 DEF Task
<1>4. ASSUME NEW s, s \in {b, x, y, z}, StartRun(s)
      PROVE  Orderly
  <2>1. s \in Task /\ s.run = task[at.t].run
    BY <1>2, <1>3, <1>4
  <2> QED BY <1>1, <1>4, <2>1, StartRunOrderly
<1>5. ASSUME Stop(Return), Fault \/ Good
      PROVE  Orderly
  BY <1>1, <1>5, BranchesLull, LullOrderly DEF Fault, Good, Spent
<1>6. CASE StopAs(moved, Return) /\ Fault /\ UNCHANGED <<worldVars, storeVars>>
  BY <1>1, <1>6, BlocksLull, LullOrderly DEF Fault, Spent
<1>7. CASE /\ queue' = queue \cup {<<"tick">>} /\ Fault /\ UNCHANGED <<worldVars, storeVars>>
  BY <1>1, <1>7, StoreKept, LullOrderly DEF Fault, Spent, Lull, worldVars
<1>8. CASE Throws(r) /\ Good /\ UNCHANGED <<worldVars, storeVars>>
  BY <1>1, <1>8, BlocksLull, LullOrderly DEF Good, Spent
<1>9. CASE DispatchStarts
  <2>1. CASE StartRun(b)
    BY <1>4, <2>1
  <2> HIDE DEF moved, b, x, y, z
  <2> QED BY <1>5, <1>6, <1>7, <1>8, <1>9, <2>1 DEF DispatchStarts, moved, b
<1>10. CASE Launched
  <2>1. ASSUME StartRun(x) \/ StartRun(y) \/ StartRun(z) PROVE Orderly
    BY <1>4, <2>1
  <2> HIDE DEF moved, b, x, y, z
  <2> QED BY <1>5, <1>10, <2>1 DEF Launched, x, y, z
<1> QED BY <1>9, <1>10

LEMMA ManagesOrderly ==
    ASSUME Known,
           \/ Recorded \/ Retry \/ Resume \/ Available \/ Diagnosed \/ Repair \/ Rejudged \/ Guided
           \/ CommitAsked \/ ReadOnlyVerified \/ QaRead \/ Resent \/ JudgedAgain
    PROVE  Orderly
<1> USE KnownPlace, BlocksLull, BranchesLull, JudgeLull
<1>1. ASSUME Lull, Fault \/ Good \/ Spent, UNCHANGED <<orders, crashes>> PROVE Orderly
  BY <1>1, LullOrderly DEF Fault, Good, Spent
<1>2. CASE Recorded
  BY <1>1, <1>2 DEF Recorded
<1>3. ASSUME Continue PROVE Lull /\ Good
  BY <1>3 DEF Continue
<1>4. CASE Retry \/ Resume \/ Available
  BY <1>1, <1>3, <1>4 DEF Retry, Resume, Available
<1>5. CASE Diagnosed \/ Repair
  BY <1>1, <1>5 DEF Diagnosed, Repair
<1>6. CASE Rejudged \/ Guided \/ JudgedAgain
  BY <1>1, <1>6 DEF Rejudged, Guided, JudgedAgain
<1>7. CASE CommitAsked \/ ReadOnlyVerified \/ Resent
  BY <1>1, <1>7 DEF CommitAsked, ReadOnlyVerified, Resent
<1>8. CASE QaRead
  BY <1>1, <1>8 DEF QaRead
<1> QED BY <1>2, <1>4, <1>5, <1>6, <1>7, <1>8

LEMMA ApprovesOrderly ==
    ASSUME Known, ApprovalResolved
    PROVE  Orderly
<1> USE KnownPlace, BlocksLull, BranchesLull, JudgeLull
<1>1. ASSUME Lull, Fault \/ Good \/ Spent PROVE Orderly
  BY <1>1, LullOrderly DEF Fault, Good, Spent, ApprovalResolved
<1>2. CASE /\ Good /\ queue' = queue \cup {<<"tick">>} /\ UNCHANGED <<holder, worldVars, storeVars>>
  BY <1>1, <1>2, StoreKept DEF Lull, worldVars
<1> QED BY <1>1, <1>2 DEF ApprovalResolved

LEMMA PublishesOrderly ==
    ASSUME Known, Publish \/ Committed \/ Pushed \/ OpenPr \/ PrOpened
    PROVE  Orderly
<1> USE KnownPlace, BlocksLull, BranchesLull, IntendLull
<1>1. ASSUME Lull, Fault \/ Good \/ Spent, UNCHANGED <<orders, crashes>> PROVE Orderly
  BY <1>1, LullOrderly DEF Fault, Good, Spent
<1>2. "commit" \notin Handless /\ "push" \notin Handless /\ "openpr" \notin Handless
  BY DEF Handless
<1>3. CASE Publish \/ Committed \/ OpenPr
  BY <1>1, <1>2, <1>3 DEF Publish, Committed, OpenPr
<1>4. CASE Pushed
  <2>1. CASE Fault /\ Stop(Return)
    BY <1>1, <1>4, <2>1 DEF Pushed
  <2>2. CASE /\ Good
             /\ pushed' = pushed \cup {<<at.t, task[at.t].evidence>>}
             /\ queue' = queue \cup {<<"pushed", at.t>>}
             /\ UNCHANGED <<holder, procs, granted, started, storeVars>>
    <3>1. at.t \in Tasks /\ task[at.t].evidence \in Nat /\ UNCHANGED <<orders, crashes>>
      BY <1>4 DEF Pushed, Task, Handless
    <3>2. pushed' \subseteq pushed \cup (Tasks \X Nat) /\ queue' \subseteq queue \cup Events
      <4>1. <<at.t, task[at.t].evidence>> \in Tasks \X Nat /\ <<"pushed", at.t>> \in Events
        BY <3>1, EventTypes
      <4> QED BY <2>2, <4>1
    <3> QED BY <2>2, <3>1, <3>2, StoreKept DEF Orderly, WorldOK, Good
  <2> QED BY <1>4, <2>1, <2>2 DEF Pushed
<1>5. CASE PrOpened
  <2>1. CASE Fault /\ Stop(Return)
    BY <1>1, <1>5, <2>1 DEF PrOpened
  <2>2. CASE /\ Good /\ queue' = queue \cup {<<"pr_opened", at.t>>}
             /\ UNCHANGED <<holder, worldVars, storeVars>>
    <3>1. at.t \in Tasks /\ UNCHANGED <<orders, crashes>>
      BY <1>5 DEF PrOpened, Handless
    <3> QED BY <2>2, <3>1, EventTypes, StoreKept DEF Orderly, WorldOK, Good, worldVars
  <2> QED BY <1>1, <1>5, <2>1, <2>2 DEF PrOpened
<1> QED BY <1>3, <1>4, <1>5

LEMMA QuietOrderly ==
    ASSUME Known, queue' \subseteq queue \cup {<<"tick">>}, UNCHANGED <<worldVars, storeVars>>, Spent,
           UNCHANGED <<orders, crashes>>
    PROVE  Orderly
BY KnownPlace, StoreKept, LullOrderly DEF Lull, worldVars

LEMMA TicksOrderly ==
    ASSUME Known, TickStarts \/ TickDecides \/ Decide \/ TickEnds \/ TakeUp
    PROVE  Orderly
<1>1. Spent /\ UNCHANGED <<orders, crashes>>
  BY DEF TickStarts, TickDecides, Decide, TickEnds, TakeUp, Spent, Fault, Good
<1>2. queue' \subseteq queue \cup {<<"tick">>} /\ UNCHANGED <<worldVars, storeVars>>
  BY DEF TickStarts, TickDecides, Decide, TickEnds, TakeUp
<1> QED BY <1>1, <1>2, QuietOrderly

LEMMA NoticesOrderly ==
    ASSUME Known, NEW t \in Tasks,
           \/ \E explicit \in BOOLEAN : WorkerAvailable(t, explicit)
           \/ ReviewRetry(t) \/ HumanDecision(t) \/ ApprovalNoticed(t) \/ QaUpdated(t)
           \/ BranchPushed(t) \/ QaStarts(t)
           \/ \E n \in 1..MaxRuns : RunDone(t, n)
           \/ \E kind \in Intakes[t] : TaskCreated(t, kind)
    PROVE  Orderly
<1>1. Spent /\ UNCHANGED <<orders, crashes>>
  BY
     DEF WorkerAvailable, ReviewRetry, HumanDecision, ApprovalNoticed, QaUpdated, BranchPushed, QaStarts,
         RunDone, TaskCreated, Spent
<1>2. queue' \subseteq queue \cup {<<"tick">>} /\ UNCHANGED <<worldVars, storeVars>>
  BY
     DEF WorkerAvailable, ReviewRetry, HumanDecision, ApprovalNoticed, QaUpdated, BranchPushed, QaStarts,
         RunDone, TaskCreated
<1> QED BY <1>1, <1>2, QuietOrderly

LEMMA PlansOrderly ==
    ASSUME Known, DispatchPlans
    PROVE  Orderly
<1>1. ASSUME Stop(Return) \/ Become([task[at.t] EXCEPT !.status = "waiting"], Return), Fault \/ Good
      PROVE  Orderly
  BY <1>1, KnownPlace, BlocksLull, BranchesLull, LullOrderly DEF Spent, Fault, Good, DispatchPlans
<1>2. CASE Good /\ UNCHANGED <<queue, worldVars, storeVars>>
  BY <1>2, QuietOrderly DEF Good, Spent, DispatchPlans
<1> QED BY <1>1, <1>2 DEF DispatchPlans

LEMMA EndOrderly ==
    ASSUME Known, EventEnds
    PROVE  Orderly
<1>1. Spent /\ UNCHANGED <<orders, crashes, worldVars>> /\ at.pc = "end" /\ WorldOK /\ Idle.pc # "down"
  BY AllEnd, KnownPlace DEF EventEnds, Spent, Good, Fault, Ends, Idle
<1>2. CASE Save(task) /\ at' = Idle /\ UNCHANGED <<task, holder, queue>>
  <2>1. Save(task')
    BY <1>2
  <2> QED BY <1>1, <1>2, <2>1, StoreSaved, LullOrderly DEF Lull, worldVars
<1>3. CASE Gone /\ UNCHANGED storeVars
  BY <1>1, <1>3, QuietOrderly DEF Gone
<1>4. CASE /\ latched' = TRUE /\ UNCHANGED <<saved, skipped>>
           /\ queue' = queue \/ queue' = queue \cup {<<"tick">>}
  <2>1. Stored
    BY <1>1, <1>4 DEF Stored, WorldOK
  <2> QED BY <1>1, <1>4, <2>1, LullOrderly DEF Lull, worldVars
<1> QED BY <1>2, <1>3, <1>4 DEF EventEnds

LEMMA OwnerOrderly ==
    ASSUME Known, NEW t \in Tasks, Handback(t) \/ OwnerApproves(t)
    PROVE  Orderly
<1>1. WorldOK /\ task[t] \in Task
  BY KnownPlace
<1>2. CASE Handback(t)
  <2>1. orders' \in Nat
    BY <1>1, <1>2 DEF Handback, Order, WorldOK
  <2>2. Stored
    BY <1>1, <1>2, StoreKept DEF Handback
  <2> QED BY <1>1, <1>2, <2>1, <2>2 DEF Handback, Orderly, WorldOK, worldVars
<1>3. CASE OwnerApproves(t)
  <2>1. task[t].phase \in Phases /\ Binding(task[t], task[t].phase) \in Nat
    BY <1>1 DEF Task, Binding
  <2>2. Stored
    BY <1>1, <1>3, StoreKept DEF OwnerApproves
  <2>3. granted' \subseteq granted \cup (Tasks \X Phases \X Nat)
    BY <1>3, <2>1 DEF OwnerApproves
  <2> QED BY <1>1, <1>3, <2>2, <2>3 DEF OwnerApproves, Orderly, WorldOK, loopVars
<1> QED BY <1>2, <1>3

LEMMA ExitsOrderly ==
    ASSUME Known, NEW t \in Tasks, NEW n \in 1..MaxRuns, WorkerExits(t, n)
    PROVE  Orderly
<1>1. WorldOK
  BY KnownPlace
<1>2. n \in Nat
  BY <1>1 DEF WorkerExits, WorldOK
<1>3. queue' \subseteq queue \cup Events
  BY <1>2, EventTypes DEF WorkerExits
<1> QED BY <1>1, <1>3, StoreKept DEF WorkerExits, Orderly, WorldOK

LEMMA DirectOrderly ==
    ASSUME Known, NEW t \in Tasks, Cancel(t) \/ Pause(t)
    PROVE  Orderly
<1>1. WorldOK /\ at.pc # "down" /\ at' = at
  BY KnownPlace, ServingUp DEF Known, Cancel, Pause
<1>2. orders' \in Nat /\ crashes' \in Nat /\ faults' \in Nat
  BY <1>1 DEF Cancel, Pause, Order, Good, Fault, WorldOK
<1>3. Stored
  BY <1>1, StoreKept, StoreSaved DEF Cancel, Pause
<1>4. queue' \subseteq queue \cup Events /\ UNCHANGED worldVars
  BY EventTypes DEF Cancel, Pause
<1> QED BY <1>1, <1>2, <1>3, <1>4 DEF Orderly, worldVars, WorldOK

LEMMA FallsOrderly ==
    ASSUME Known, TickInterrupted \/ Crash \/ Restart
    PROVE  Orderly
<1>1. WorldOK
  BY KnownPlace
<1>2. orders' \in Nat /\ crashes' \in Nat /\ faults' \in Nat
  <2>1. CASE TickInterrupted
    BY <1>1, <2>1 DEF TickInterrupted, Fault, WorldOK
  <2>2. CASE Crash
    BY <1>1, <2>2 DEF Crash, WorldOK
  <2>3. CASE Restart
    BY <1>1, <2>3 DEF Restart, WorldOK
  <2> QED BY <2>1, <2>2, <2>3
<1>3. Stored
  BY <1>1, StoreKept DEF TickInterrupted, Crash, Restart, Stored, WorldOK
<1>4. queue' \subseteq queue \cup Events /\ UNCHANGED <<granted, started, pushed>> /\ procs' \subseteq procs
  BY EventTypes DEF TickInterrupted, Crash, Restart, Gone, worldVars
<1> QED BY <1>1, <1>2, <1>3, <1>4 DEF Orderly, WorldOK

LEMMA NextOrderly ==
    ASSUME Known, Next
    PROVE  Orderly
<1>1. CASE HandlerStep
  BY <1>1, StartsOrderly, ManagesOrderly, ApprovesOrderly, PublishesOrderly, TicksOrderly, PlansOrderly,
     EndOrderly
     DEF HandlerStep
<1>2. CASE EventTaken
  BY <1>2, TicksOrderly, NoticesOrderly DEF EventTaken
<1>3. CASE Outside
  BY <1>3, NoticesOrderly, OwnerOrderly DEF Outside
<1>4. CASE WorkerEnds
  BY <1>4, ExitsOrderly DEF WorkerEnds
<1> QED BY <1>1, <1>2, <1>3, <1>4, FallsOrderly, DirectOrderly DEF Next

LEMMA WorldKeeps ==
    ASSUME WorldOK, Orderly
    PROVE  WorldOK'
<1>1. started' \subseteq Tasks \X Nat \X Nat /\ procs' \subseteq Tasks \X Nat
  BY DEF Orderly, Begun, WorldOK
<1> QED BY <1>1 DEF Orderly, WorldOK, Stored

LEMMA WorldHolds == Spec => []WorldOK
<1>1. Init => WorldOK
  BY LoopAssumption DEF Init, WorldOK
<1>2. LInv /\ IInv /\ WorldOK /\ [Next]_vars => WorldOK'
  <2>1. ASSUME LInv, IInv, WorldOK, Next PROVE WorldOK'
    BY <2>1, NextOrderly, WorldKeeps DEF Known
  <2>2. ASSUME WorldOK, UNCHANGED vars PROVE WorldOK'
    BY <2>2 DEF WorldOK, vars
  <2> QED BY <2>1, <2>2
<1> QED BY <1>1, <1>2, LInvHolds, IInvHolds, PTL DEF Spec

(* As long as no save was skipped, the saved records know of every run.    *)
Numbered == ~skipped => \A s \in started : s[2] <= saved[s[1]].run

LEMMA StartedTypes ==
    ASSUME WorldOK, NEW s \in started
    PROVE  s[1] \in Tasks /\ s[2] \in Nat /\ s = <<s[1], s[2], s[3]>>
BY DEF WorldOK

LEMMA NumberedKeeps ==
    ASSUME Known, Numbered, Orderly, LStep
    PROVE  Numbered'
<1> SUFFICES ASSUME ~skipped', NEW s \in started' PROVE s[2] <= saved'[s[1]].run
  BY DEF Numbered
<1>1. /\ WorldOK /\ ~skipped
      /\ \A t \in Tasks : saved[t].run \in Nat /\ saved'[t].run \in Nat /\ task'[t].run \in Nat
  BY KnownPlace DEF Orderly, Stored, LStep, LInv, Known, Task
<1>2. at'.pc # "down" => \A t \in Tasks : saved[t].run <= task'[t].run
  BY <1>1 DEF LStep, Twin
<1>3. CASE s \in started
  <2>1. s[1] \in Tasks /\ s[2] \in Nat
    BY <1>1, <1>3, StartedTypes
  <2>2. s[2] <= saved[s[1]].run
    BY <1>1, <1>3 DEF Numbered
  <2>3. saved[s[1]].run <= saved'[s[1]].run
    BY <1>1, <1>2, <2>1 DEF Orderly, Stored
  <2> QED BY <1>1, <2>1, <2>2, <2>3
<1>4. CASE s \notin started
  <2>1. Begun
    BY <1>4 DEF Orderly
  <2>2. PICK u \in Tasks : \E n \in Nat, c \in Nat :
            /\ n = task[u].run + 1 /\ task'[u].run = n
            /\ started' = started \cup {<<u, n, c>>}
            /\ skipped' \/ saved' = task'
    BY <2>1 DEF Begun
  <2>3. s[1] = u /\ s[2] = task'[u].run /\ saved' = task'
    BY <1>4, <2>2
  <2> QED BY <1>1, <2>3
<1> QED BY <1>3, <1>4

LEMMA NumberedHolds == Spec => []Numbered
<1>1. Init => Numbered
  BY DEF Init, Numbered
<1>2. LInv /\ IInv /\ WorldOK /\ Numbered /\ [Next]_vars => Numbered'
  <2>1. ASSUME LInv, IInv, WorldOK, Numbered, Next PROVE Numbered'
    BY <2>1, NextOrderly, NextKeeps, NumberedKeeps DEF Known
  <2>2. ASSUME Numbered, UNCHANGED vars PROVE Numbered'
    BY <2>2 DEF Numbered, vars
  <2> QED BY <2>1, <2>2
<1> QED BY <1>1, <1>2, LInvHolds, IInvHolds, WorldHolds, PTL DEF Spec

(* A Worker run is started once: startRun numbers a run by the record it   *)
(* saves before the Worker starts, and resume() counts on from what was    *)
(* saved.                                                                  *)
THEOREM StartsOnce == Spec => RunsOnce
<1> DEFINE Once == \A t \in Tasks, n \in 1..MaxRuns :
                      <<t, n>> \in procs' \ procs /\ ~skipped' => \A s \in started : <<s[1], s[2]>> # <<t, n>>
<1>1. ASSUME Known, Numbered, Next PROVE Once
  <2> SUFFICES ASSUME NEW t \in Tasks, NEW n \in 1..MaxRuns, <<t, n>> \in procs', <<t, n>> \notin procs,
                      ~skipped', NEW s \in started, s[1] = t, s[2] = n
               PROVE  FALSE
    OBVIOUS
  <2>1. Orderly /\ WorldOK
    BY <1>1, NextOrderly, KnownPlace
  <2>2. Begun /\ ~skipped
    BY <2>1 DEF Orderly, Stored
  <2>3. PICK u \in Tasks : \E m \in Nat : /\ m = task[u].run + 1 /\ procs' = procs \cup {<<u, m>>}
                                          /\ saved[u].run <= task[u].run
    BY <2>2 DEF Begun
  <2>4. u = t /\ n = task[t].run + 1 /\ saved[t].run <= task[t].run
    BY <2>3
  <2>5. n <= saved[t].run
    BY <1>1, <2>2 DEF Numbered
  <2>6. saved[t].run \in Nat /\ task[t].run \in Nat
    BY <1>1 DEF Known, LInv, Task
  <2> QED BY <2>4, <2>5, <2>6
<1>2. ASSUME UNCHANGED vars PROVE Once
  BY <1>2 DEF vars
<1>3. Known /\ Numbered /\ [Next]_vars => [Once]_vars
  BY <1>1, <1>2
<1>4. Known <=> LInv /\ IInv /\ WorldOK
  BY DEF Known
<1> QED BY <1>3, <1>4, LInvHolds, IInvHolds, WorldHolds, NumberedHolds, PTL DEF Spec, RunsOnce

(* Every variable keeps its type, and no Worker runs for a task that is    *)
(* neither cancelled nor blocked without the lease of its workspace.       *)
THEOREM LeasesSound == Spec => []LeaseSound
<1>1. LInv /\ WorldOK => LeaseSound
  <2>1. ASSUME LInv, WorldOK PROVE TypeOK
    BY <2>1 DEF LInv, WorldOK, TypeOK
  <2>2. ASSUME LInv, NEW t \in Tasks, task[t].running, task[t].state \notin TerminalStates
        PROVE  Leased(t)
    <3>1. Fine(task[t], t, pushed, granted, queue, holder)
      BY <2>2 DEF LInv
    <3>2. Holds(task[t], t, holder)
      BY <2>2, <3>1 DEF Fine, Leasing, Over
    <3>3. task[t].state # "none"
      BY <2>2, <3>1
         DEF Fine, Sane, Over, Lives, Unborn, Untouched, Queued, Asking, Underway, Moving, Repairable
    <3> QED BY <3>2, <3>3 DEF Leased, Exists, Holds
  <2> QED BY <2>1, <2>2 DEF LeaseSound, WorkerHoldsLease
<1> QED BY <1>1, LInvHolds, WorldHolds, PTL

(* An accepted task touched nothing, or what its last run left is what was *)
(* pushed, what CI passed and, for a red task, what the owner approved.    *)
THEOREM AcceptanceIsEarned == Spec => []AcceptedMeansChecked
<1>1. LInv => AcceptedMeansChecked
  BY DEF LInv, Fine, Sane, Based, AcceptedFine, AcceptedMeansChecked
<1> QED BY <1>1, LInvHolds, PTL

============================================================================
