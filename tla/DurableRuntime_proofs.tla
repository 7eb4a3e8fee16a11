------------------------ MODULE DurableRuntime_proofs ------------------------
(***************************************************************************)
(* Theorems about DurableRuntime.                                          *)
(***************************************************************************)
EXTENDS DurableRuntime, AuditLog_proofs, SequenceTheorems

---------------------------------------------------------------------------
(* The records, and what the operators on them do.                         *)
LEMMA CallTypes ==
    /\ \A t \in Tasks : /\ Call("create", t, "create") \in Calls
                        /\ Call("cancel", t, "cancel") \in Calls
                        /\ Call("cancel_requested", t, "cancel_requested") \in Calls
                        /\ Call("approval", t, "approval") \in Calls
    /\ \A t \in Tasks, m \in Messages : Call("intake", t, m) \in Calls
    /\ \A t \in Tasks, v \in Values : /\ Call("decide", t, v) \in Calls
                                      /\ Call("decision", t, v) \in Calls
                                      /\ Call("emitted", t, v) \in Calls
<1>1. \A o \in {"create", "cancel", "cancel_requested", "approval"}, t \in Tasks : Call(o, t, o) \in Calls
  BY DEF Calls
<1>2. \A t \in Tasks, m \in Messages : Call("intake", t, m) \in Calls
  BY DEF Calls
<1>3. \A o \in {"decide", "decision", "emitted"}, t \in Tasks, v \in Values : Call(o, t, v) \in Calls
  BY DEF Calls
<1> QED
  BY <1>1, <1>2, <1>3

LEMMA CallShape ==
    ASSUME NEW r \in Calls
    PROVE  /\ r = Call(r.op, r.task, r.val) /\ r.task \in Tasks /\ r.op # "checkpoint"
           /\ r.op \in {"create", "cancel", "cancel_requested", "approval"} => r.val = r.op
           /\ r.op = "intake" => r.val \in Messages
           /\ r.op \in {"decide", "decision", "emitted"} => r.val \in Values
<1>1. CASE r \in {Call(o, t, o) : o \in {"create", "cancel", "cancel_requested", "approval"}, t \in Tasks}
  BY <1>1 DEF Call
<1>2. CASE r \in {Call("intake", t, m) : t \in Tasks, m \in Messages}
  BY <1>2 DEF Call
<1>3. CASE r \in {Call(o, t, v) : o \in {"decide", "decision", "emitted"}, t \in Tasks, v \in Values}
  BY <1>3 DEF Call
<1> QED
  BY <1>1, <1>2, <1>3 DEF Calls

LEMMA RecordKinds ==
    /\ Calls \subseteq Record
    /\ \A f \in [Tasks -> Statuses] : Checkpoint(f) \in Record
    /\ \A r \in Record : \/ r \in Calls /\ r.op # "checkpoint" /\ Key(r) = NoKey
                         \/ r.op = "checkpoint" /\ r.saved \in [Tasks -> Statuses]
<1>1. Record = Calls \cup {Checkpoint(f) : f \in [Tasks -> Statuses]}
  BY RecordAssumption DEF Records
<1>2. \A r \in Calls : r.op # "checkpoint"
  BY CallShape
<1>3. \A f : Checkpoint(f).op = "checkpoint" /\ Checkpoint(f).saved = f
  BY DEF Checkpoint
<1> QED
  BY <1>1, <1>2, <1>3, RecordAssumption DEF CheckpointKey

LEMMA HasGrows ==
    ASSUME NEW S, NEW c, NEW o, NEW t
    PROVE  Has(S \cup {c}, o, t) <=> Has(S, o, t) \/ (c.op = o /\ c.task = t)
BY DEF Has

LEMMA HasMore ==
    ASSUME NEW S, NEW T, S \subseteq T, NEW o, NEW t, Has(S, o, t)
    PROVE  Has(T, o, t)
BY DEF Has

LEMMA ReplayedGrows ==
    ASSUME NEW S, NEW e
    PROVE  /\ e.rec.op # "checkpoint" => Replayed(S \cup {e}) = Replayed(S) \cup {e.rec}
           /\ e.rec.op = "checkpoint" => Replayed(S \cup {e}) = Replayed(S)
BY DEF Replayed, CallsOf

(* A call that the repositories take can be replayed behind the others.    *)
LEMMA ReplaysGrows ==
    ASSUME NEW S, S \subseteq Entry, Below(S), next \in Nat, Replays(S),
           NEW e, e.id = next, e.rec.op = "checkpoint" \/ Takes(Replayed(S), e.rec)
    PROVE  Replays(S \cup {e})
<1> SUFFICES ASSUME NEW x \in CallsOf(S \cup {e})
             PROVE  Takes(Replayed({f \in S \cup {e} : f.id < x.id}), x.rec)
  BY DEF Replays
<1>1. \A f \in S : f.id \in Nat /\ f.id < next
  BY DEF Entry, Below
<1>2. CASE x \in S
  <2>1. {f \in S \cup {e} : f.id < x.id} = {f \in S : f.id < x.id}
    BY <1>1, <1>2
  <2>2. x \in CallsOf(S)
    BY <1>2 DEF CallsOf
  <2> QED
    BY <2>1, <2>2 DEF Replays
<1>3. CASE x = e
  <2>1. {f \in S \cup {e} : f.id < x.id} = S
    BY <1>1, <1>3
  <2>2. e.rec.op # "checkpoint"
    BY <1>3 DEF CallsOf
  <2> QED
    BY <1>3, <2>1, <2>2
<1> QED
  BY <1>2, <1>3 DEF CallsOf

(* Compaction drops no call.                                               *)
LEMMA KeptCalls ==
    ASSUME NEW S, S \subseteq Entry
    PROVE  /\ CallsOf(Kept(S)) = CallsOf(S) /\ Replayed(Kept(S)) = Replayed(S)
           /\ Kept(S) \subseteq S
           /\ Replays(S) => Replays(Kept(S))
<1>1. \A e \in CallsOf(S) : ~Superseded(e, S)
  <2> TAKE e \in CallsOf(S)
  <2>1. e.rec \in Record /\ e.rec.op # "checkpoint"
    BY DEF CallsOf, Entry
  <2>2. Key(e.rec) = NoKey
    BY <2>1, RecordKinds
  <2> QED
    BY <2>2 DEF Superseded
<1>2. CallsOf(Kept(S)) = CallsOf(S) /\ Kept(S) \subseteq S
  BY <1>1 DEF CallsOf, Kept
<1>3. Replayed(Kept(S)) = Replayed(S)
  BY <1>2 DEF Replayed
<1>4. ASSUME Replays(S), NEW x \in CallsOf(S)
      PROVE  Takes(Replayed({f \in Kept(S) : f.id < x.id}), x.rec)
  <2>1. CallsOf({f \in Kept(S) : f.id < x.id}) = CallsOf({f \in S : f.id < x.id})
    BY <1>2 DEF CallsOf
  <2>2. Replayed({f \in Kept(S) : f.id < x.id}) = Replayed({f \in S : f.id < x.id})
    BY <2>1 DEF Replayed
  <2> QED
    BY <1>4, <2>2 DEF Replays
<1> QED
  BY <1>2, <1>3, <1>4 DEF Replays

(* What a start loads is one of the checkpoints of the file.               *)
LEMMA SavedIs ==
    ASSUME NEW S, S \subseteq Entry, Below(S), next \in Nat
    PROVE  \/ Saved(S) = Nothing
           \/ \E e \in S \ CallsOf(S) : Saved(S) = e.rec.saved
<1> DEFINE saves == S \ CallsOf(S)
           T == {e.id : e \in saves}
<1>1. CASE saves = {}
  BY <1>1 DEF Saved
<1>2. CASE saves # {}
  <2>1. T \subseteq Nat /\ T # {} /\ \A i \in T : i < next
    BY <1>2 DEF Entry, Below
  <2>2. PICK m \in T : \A i \in T : i <= m
    BY <2>1, Greatest
  <2>3. PICK e \in saves : e.id = m
    BY <2>2
  <2>4. \A f \in saves : f.id <= e.id
    BY <2>2, <2>3
  <2>5. (CHOOSE g \in saves : \A f \in saves : f.id <= g.id) \in saves
    BY <2>3, <2>4
  <2> QED
    BY <1>2, <2>5 DEF Saved
<1> QED
  BY <1>1, <1>2

---------------------------------------------------------------------------
(* Wherever the log is: what has been made durable.                        *)
Disk == IF phase = "moved" THEN copy ELSE file
Taken == Replayed(Disk)

(* A decision has its approval, unless the append of that failed.          *)
Stands(S, t, v) == Call("decide", t, v) \in S \/ Spoiled("decide", t)
OneDecision(S) == \A r, s \in S : r.op = "decide" /\ s.op = "decide" /\ r.task = s.task => r = s

(* The journal: it replays, binds a message once, decides a task once, and *)
(* has the row of every task that it binds.                                *)
DiskSound ==
    /\ phase = "copied" => copy = Kept(file)
    /\ unrecorded = {} => Replays(Disk)
    /\ \A t \in Tasks : Has(Taken, "intake", t) => Has(Taken, "create", t)
    /\ \A r, s \in Taken : r.op = "intake" /\ s.op = "intake" /\ r.val = s.val => r.task = s.task
    /\ OneDecision(Taken)
    /\ \A r \in Taken : r.op = "decision" => Stands(Taken, r.task, r.val)

(* What a checkpoint says of a task is backed by the journal.              *)
Backed(f) ==
    \A t \in Tasks :
        /\ f[t] # "absent" => Has(Taken, "create", t) /\ Has(Taken, "intake", t)
        /\ f[t] = "active" => Stands(Taken, t, "approved")
CheckpointsSound == \A e \in Disk \ CallsOf(Disk) : Backed(e.rec.saved)

(* So is what the owner was told.                                          *)
Proven(f) ==
    /\ f.kind = "accepted" => Call("intake", f.task, f.val) \in Taken \/ Spoiled("intake", f.task)
    /\ f.kind = "cancelled" => Has(Taken, "cancel", f.task) \/ Spoiled("cancel", f.task)
    /\ f.kind = "decided" => Stands(Taken, f.task, f.val)
FactsSound == ~lost => \A f \in answered : Proven(f)

(* The repositories in memory are the journal and what could not be        *)
(* appended to it.                                                         *)
MemorySound ==
    /\ Taken \subseteq rows /\ rows \subseteq Taken \cup unrecorded
    /\ \A t \in Tasks : Cancelled(t) \/ Has(rows, "intake", t) => Created(t)
    /\ OneDecision(rows)
    /\ \A r \in rows : r.op = "decision" => Stands(rows, r.task, r.val)

(* The task that a handler holds over its awaits is one that was let in,   *)
(* and nothing has happened to it since but a cancellation.                *)
HandSound ==
    hand # Idle =>
        /\ hand.task \in Tasks /\ hand.job \in {"approval", "work"}
        /\ hand.job = "approval" => loop[hand.task] \in {"waiting"} \cup Gone
        /\ hand.job = "work" => loop[hand.task] \in {"active"} \cup Gone

(* The Manager in memory is backed as its checkpoints are; it is told of a *)
(* task once, before anything else happens to it.                          *)
Announced(t) == \E i \in DOMAIN posted : posted[i].kind = "task_created" /\ posted[i].task = t
Unseen(t) == loop[t] = "absent" /\ ~Cancelled(t)
LoopSound ==
    /\ Backed(loop)
    /\ \A t \in Tasks : Announced(t) => Has(Taken, "create", t) /\ Has(Taken, "intake", t) /\ Unseen(t)
    /\ \A i, j \in DOMAIN posted : posted[i].kind = "task_created" /\ posted[i] = posted[j] => i = j
    /\ section # "start" => Uncancelled = {}
    /\ HandSound

(* What is left of each section, and what it relies on by then.            *)
CreateRow(t) == Journal(Call("create", t, "create"))
Bind(t, m) == Journal(Call("intake", t, m))
Announce(t, m) == Post("task_created", t, {Fact("accepted", t, m)})
CancelRow(t) == Journal(Call("cancel", t, "cancel"))
Mark(t) == Journal(Call("cancel_requested", t, "cancel_requested"))
Confirm(t) ==
    JournalTelling(Call("cancel_requested", t, "cancel_requested"), {Fact("cancelled", t, "cancelled")})
Emit(t, v) == Post(v, t, {})
Emitted(t, v) == JournalTelling(Call("emitted", t, v), {Fact("decided", t, v)})

New(t, m) == ~Has(rows, "intake", t) /\ ~Known(m)
Submitting(t, m) ==
    \/ todo = <<CreateRow(t), Bind(t, m), Announce(t, m)>> /\ ~Created(t) /\ New(t, m)
    \/ /\ todo = <<Bind(t, m), Announce(t, m)>> /\ New(t, m)
       /\ Has(Taken, "create", t) /\ Unseen(t) /\ ~Announced(t)
    \/ /\ todo = <<Announce(t, m)>> /\ Call("intake", t, m) \in Taken
       /\ Has(Taken, "create", t) /\ Unseen(t) /\ ~Announced(t)
Cancelling(t) ==
    /\ loop[t] = "cancelled" /\ Has(rows, "intake", t)
    /\ \/ todo = <<Save(t), CancelRow(t), Confirm(t)>> /\ ~Cancelled(t)
       \/ todo = <<CancelRow(t), Confirm(t)>> /\ ~Cancelled(t)
       \/ todo = <<Confirm(t)>> /\ Cancelled(t)
Deciding(t, v) ==
    /\ todo # <<>>
    /\ \/ todo = Decision(t, v) /\ Decided(t) \subseteq {v}
       \/ /\ todo \in {<<Emit(t, v), Emitted(t, v)>>, <<Emitted(t, v)>>}
          /\ Call("decision", t, v) \in rows /\ Stands(rows, t, v)
Starting ==
    /\ posted = <<>> /\ hand = Idle
    /\ \/ todo \in {<<Reconcile, Honour>>, <<SaveAll, Honour>>, <<Honour>>}
       \/ \E t \in Tasks : todo = <<Save(t), Honour>>
       \/ \E t \in Tasks : /\ Has(rows, "intake", t)
                           /\ \/ todo = <<CancelRow(t), Mark(t), Reconcile, Honour>> /\ ~Cancelled(t)
                              \/ todo = <<Mark(t), Reconcile, Honour>>
SectionSound ==
    \/ section = "none" /\ todo = <<>>
    \/ section = "submit" /\ \E t \in Tasks, m \in Messages : Submitting(t, m)
    \/ section = "cancel" /\ \E t \in Tasks : Cancelling(t)
    \/ section = "decide" /\ \E t \in Tasks, v \in Values : Deciding(t, v)
    \/ section = "drain" /\ hand = Idle /\ \E t \in Tasks : todo = <<Save(t)>>
    \/ section = "start" /\ Starting

Forgotten ==
    /\ rows = {} /\ hand = Idle /\ posted = <<>> /\ todo = <<>> /\ section = "none"
    /\ at = [h \in Handlers |-> Idle]
OpenSound == MemorySound /\ LoopSound /\ SectionSound

Sound ==
    /\ DiskSound /\ CheckpointsSound /\ FactsSound
    /\ phase = "open" => OpenSound
    /\ phase # "open" => Forgotten

RuntimeInv == IInv /\ TypeOK /\ Sound

---------------------------------------------------------------------------
(* What a step does to the log.                                            *)
LEMMA LogStep ==
    ASSUME TypeOK, [Next]_vars
    PROVE  [LogNext]_logVars
<1>1. CASE Recorded \/ RecordFails
  <2>1. Step.call \in Record
    <3>1. todo # <<>> /\ Step.do = "record"
      BY <1>1 DEF Recorded, RecordFails, Running
    <3>2. Step \in Steps
      BY <3>1 DEF TypeOK, Step
    <3>3. Step.call \in Calls
      BY <3>1, <3>2 DEF Steps, Save, SaveAll, Reconcile, Honour
    <3> QED
      BY <3>3, RecordKinds
  <2> QED
    BY <1>1, <2>1 DEF Recorded, RecordFails, LogNext
<1>2. CASE Saves \/ SaveFails
  <2>1. SaveRecord \in Record
    BY RecordKinds DEF TypeOK, SaveRecord
  <2> QED
    BY <1>2, <2>1 DEF Saves, SaveFails, LogNext
<1>3. CASE Crash
  <2>1. CASE Running("record") /\ DiesAppending(Step.call)
    <3>1. Step \in Steps
      BY <2>1 DEF TypeOK, Step, Running
    <3>2. Step.call \in Calls
      BY <2>1, <3>1 DEF Steps, Save, SaveAll, Reconcile, Honour, Running
    <3> QED
      BY <2>1, <3>2, RecordKinds DEF LogNext
  <2>2. CASE DiesAppending(SaveRecord)
    <3>1. SaveRecord \in Record
      BY RecordKinds DEF TypeOK, SaveRecord
    <3> QED
      BY <2>2, <3>1 DEF LogNext
  <2>3. CASE Dies
    BY <2>3 DEF LogNext
  <2> QED
    BY <1>3, <2>1, <2>2, <2>3 DEF Crash
<1>4. CASE Maintain \/ Start
  BY <1>4 DEF Maintain, Start, LogNext
<1>5. CASE UNCHANGED logVars
  BY <1>5
<1>6. CASE \E h \in Handlers : \/ \E m \in Messages : Submit(h, m)
                               \/ Classified(h)
                               \/ \E t \in Tasks, v \in Values : Press(h, t, v)
                               \/ Required(h)
  BY <1>6 DEF Submit, Classified, Press, Required
<1>7. CASE (\E t \in Tasks : Cancel(t) \/ Works(t)) \/ Handle \/ Resolves \/ Finishes \/ Throws
  BY <1>7 DEF Cancel, Works, Handle, Resolves, Finishes, Makes, Throws
<1>8. CASE Posts \/ SaveSkipped \/ Reconciles \/ Honours
  BY <1>8 DEF Posts, SaveSkipped, Reconciles, Honours
<1>9. CASE UNCHANGED vars
  BY <1>9 DEF vars
<1> QED
  BY <1>1, <1>2, <1>3, <1>4, <1>6, <1>7, <1>8, <1>9 DEF Next

LEMMA Writes ==
    ASSUME IInv, phase = "open", NEW r \in Record, Appended(r) \/ AppendFails(r) \/ DiesAppending(r)
    PROVE  /\ Disk = file /\ Disk' = file' /\ lost' = lost
           /\ phase' \in {"open", "down"} /\ (~DiesAppending(r) => phase' = "open")
           /\ \/ file' = file /\ ~Appended(r)
              \/ file' = file \cup {EntryOf(r)}
           /\ EntryOf(r).rec = r /\ EntryOf(r).id = next
<1>1. phase' \in {"open", "down"} /\ (Appended(r) \/ AppendFails(r) => phase' = "open") /\ lost' = lost
  BY DEF Appended, AppendFails, DiesAppending
<1>2. \/ file' = file /\ ~Appended(r)
      \/ file' = file \cup {EntryOf(r)}
  BY DEF Appended, AppendFails, DiesAppending, Written, Write, disk
<1> QED
  BY <1>1, <1>2 DEF Disk, EntryOf

(* What is on disk stays there, and what failed stays failed: every        *)
(* backing outlives the step.                                              *)
LEMMA Outlives ==
    ASSUME Taken \subseteq Taken', unrecorded \subseteq unrecorded'
    PROVE  /\ \A t, v : Stands(Taken, t, v) => Stands(Taken, t, v)'
           /\ \A o, t : Has(Taken, o, t) => Has(Taken, o, t)'
           /\ \A f : Backed(f) => Backed(f)'
           /\ \A f : Proven(f) => Proven(f)'
<1>1. \A o, t : Spoiled(o, t) => Spoiled(o, t)'
  BY DEF Spoiled, Has
<1>2. \A t, v : Stands(Taken, t, v) => Stands(Taken, t, v)'
  BY <1>1 DEF Stands
<1>3. \A o, t : Has(Taken, o, t) => Has(Taken, o, t)'
  BY DEF Has
<1> QED
  BY <1>1, <1>2, <1>3 DEF Backed, Proven

(* What the repositories have is on disk, or its append failed.            *)
LEMMA OnDiskOrFailed ==
    ASSUME MemorySound
    PROVE  /\ \A t, v : Stands(rows, t, v) => Stands(Taken, t, v)
           /\ \A o, t : Has(rows, o, t) => Has(Taken, o, t) \/ Spoiled(o, t)
           /\ \A o, t : Has(Taken, o, t) => Has(rows, o, t)
<1>1. \A o, t : Has(rows, o, t) => Has(Taken, o, t) \/ Spoiled(o, t)
  BY DEF MemorySound, Has, Spoiled
<1>2. \A o, t : Has(Taken, o, t) => Has(rows, o, t)
  BY DEF MemorySound, Has
<1>3. \A t, v : Stands(rows, t, v) => Stands(Taken, t, v)
  <2>1. \A t, v : Call("decide", t, v).op = "decide" /\ Call("decide", t, v).task = t
    BY DEF Call
  <2> QED
    BY <2>1 DEF MemorySound, Stands, Spoiled, Has
<1> QED
  BY <1>1, <1>2, <1>3

---------------------------------------------------------------------------
(* The journal and the checkpoints under an append.                        *)
CallStep(c) ==
    \/ Appended(c) /\ unrecorded' = unrecorded
    \/ AppendFails(c) /\ unrecorded' = unrecorded \cup {c}
    \/ DiesAppending(c) /\ unrecorded' = unrecorded

(* What a call relies on when its turn comes.                              *)
Relies(c) ==
    /\ c \in Calls /\ Takes(rows, c)
    /\ c.op = "intake" => Has(Taken, "create", c.task)
    /\ c.op = "decision" => Stands(rows, c.task, c.val)

LEMMA CallOnDisk ==
    ASSUME IInv, phase = "open", NEW c, CallStep(c), c \in Calls
    PROVE  /\ Taken \subseteq Taken' /\ Taken' \subseteq Taken \cup {c}
           /\ Appended(c) => c \in Taken'
           /\ unrecorded \subseteq unrecorded'
           /\ Disk' \ CallsOf(Disk') = Disk \ CallsOf(Disk)
<1>1. c \in Record /\ c.op # "checkpoint"
  BY RecordKinds, CallShape
<1>2. /\ Disk = file /\ Disk' = file'
      /\ (file' = file /\ ~Appended(c)) \/ file' = file \cup {EntryOf(c)}
      /\ EntryOf(c).rec = c
  BY <1>1, Writes DEF CallStep
<1>3. file' = file \cup {EntryOf(c)} => Taken' = Taken \cup {c}
  BY <1>1, <1>2, ReplayedGrows DEF Taken
<1>4. file' = file => Taken' = Taken
  BY <1>2 DEF Taken
<1>5. Disk' \ CallsOf(Disk') = Disk \ CallsOf(Disk)
  BY <1>1, <1>2 DEF CallsOf
<1> QED
  BY <1>2, <1>3, <1>4, <1>5 DEF CallStep

LEMMA DiskOpen ==
    ASSUME IInv, phase = "open", NEW r \in Record, Appended(r) \/ AppendFails(r) \/ DiesAppending(r)
    PROVE  (phase = "copied" => copy = Kept(file))'
BY Writes

LEMMA DiskCall ==
    ASSUME IInv, phase = "open", NEW c, CallStep(c), Relies(c), MemorySound, DiskSound
    PROVE  DiskSound'
<1>1. c \in Record /\ c \in Calls
  BY RecordKinds DEF Relies
<1>2. /\ Taken \subseteq Taken' /\ Taken' \subseteq Taken \cup {c} /\ unrecorded \subseteq unrecorded'
  BY <1>1, CallOnDisk
<1>3. Taken \subseteq rows /\ rows \subseteq Taken \cup unrecorded
  BY DEF MemorySound
<1>4. (phase = "copied" => copy = Kept(file))'
  BY <1>1, DiskOpen DEF CallStep
<1>5. ASSUME unrecorded' = {}
      PROVE  Replays(Disk')
  <2>1. unrecorded = {} /\ Replays(Disk) /\ rows = Taken
    BY <1>2, <1>3, <1>5 DEF DiskSound
  <2>2. /\ Disk = file /\ Disk' = file'
        /\ file' = file \/ file' = file \cup {EntryOf(c)}
        /\ EntryOf(c).rec = c /\ EntryOf(c).id = next
    BY <1>1, Writes DEF CallStep
  <2>3. file \subseteq Entry /\ Below(file) /\ next \in Nat
    BY DEF IInv, LogTypeOK
  <2>4. Takes(Replayed(file), c)
    BY <2>1, <2>2 DEF Relies, Taken
  <2>5. Replays(file \cup {EntryOf(c)})
    BY <2>1, <2>2, <2>3, <2>4, ReplaysGrows
  <2> QED
    BY <2>1, <2>2, <2>5
<1>6. ASSUME NEW t \in Tasks, Has(Taken, "intake", t)'
      PROVE  Has(Taken, "create", t)'
  <2>1. Has(Taken, "create", t)
    BY <1>2, <1>6 DEF Relies, DiskSound, Has
  <2> QED
    BY <1>2, <2>1 DEF Has
<1>7. ASSUME NEW r \in Taken', NEW s \in Taken', r.op = "intake", s.op = "intake", r.val = s.val
      PROVE  r.task = s.task
  BY <1>2, <1>3, <1>7 DEF Relies, Takes, DiskSound
<1>8. OneDecision(Taken')
  BY <1>2, <1>3 DEF Relies, Takes, Has, DiskSound, OneDecision
<1>9. ASSUME NEW r \in Taken', r.op = "decision"
      PROVE  Stands(Taken, r.task, r.val)'
  <2>1. r \in Taken => Stands(Taken, r.task, r.val)
    BY <1>9 DEF DiskSound
  <2>2. r = c => Stands(Taken, r.task, r.val)
    BY <1>9, OnDiskOrFailed DEF Relies
  <2> QED
    BY <1>2, <2>1, <2>2, Outlives
<1> QED
  BY <1>4, <1>5, <1>6, <1>7, <1>8, <1>9 DEF DiskSound

LEMMA CheckpointsCall ==
    ASSUME IInv, phase = "open", NEW c, CallStep(c), c \in Calls, CheckpointsSound
    PROVE  CheckpointsSound'
BY CallOnDisk, Outlives DEF CheckpointsSound

LEMMA SaveOnDisk ==
    ASSUME TypeOK, IInv, phase = "open",
           Appended(SaveRecord) \/ AppendFails(SaveRecord) \/ DiesAppending(SaveRecord),
           unrecorded' = unrecorded
    PROVE  /\ Taken' = Taken
           /\ CallsOf(Disk') = CallsOf(Disk)
           /\ Disk' \subseteq Disk \cup {EntryOf(SaveRecord)}
           /\ EntryOf(SaveRecord).rec.saved = loop
<1>1. SaveRecord \in Record /\ SaveRecord.op = "checkpoint" /\ SaveRecord.saved = loop
  BY RecordKinds DEF TypeOK, SaveRecord, Checkpoint
<1>2. /\ Disk = file /\ Disk' = file'
      /\ file' = file \/ file' = file \cup {EntryOf(SaveRecord)}
      /\ EntryOf(SaveRecord).rec = SaveRecord
  BY <1>1, Writes
<1>3. CallsOf(Disk') = CallsOf(Disk)
  BY <1>1, <1>2 DEF CallsOf
<1>4. Taken' = Taken
  BY <1>3 DEF Taken, Replayed
<1> QED
  BY <1>1, <1>2, <1>3, <1>4

(* What depends on the disk only through the calls taken from it.          *)
LEMMA DiskKept ==
    ASSUME DiskSound, Taken' = Taken, unrecorded' = unrecorded,
           (phase = "copied" => copy = Kept(file))', unrecorded = {} => Replays(Disk')
    PROVE  DiskSound'
BY DEF DiskSound, OneDecision, Stands, Spoiled, Has

LEMMA DiskSave ==
    ASSUME TypeOK, IInv, phase = "open",
           Appended(SaveRecord) \/ AppendFails(SaveRecord) \/ DiesAppending(SaveRecord),
           unrecorded' = unrecorded, DiskSound, CheckpointsSound, Backed(loop)
    PROVE  DiskSound' /\ CheckpointsSound'
<1>1. SaveRecord \in Record /\ SaveRecord.op = "checkpoint"
  BY RecordKinds DEF TypeOK, SaveRecord, Checkpoint
<1>2. (phase = "copied" => copy = Kept(file))'
  BY <1>1, DiskOpen
<1>3. ASSUME unrecorded = {}
      PROVE  Replays(Disk')
  <2>1. Replays(Disk)
    BY <1>3 DEF DiskSound
  <2>2. /\ Disk = file /\ Disk' = file'
        /\ file' = file \/ file' = file \cup {EntryOf(SaveRecord)}
        /\ EntryOf(SaveRecord).rec = SaveRecord /\ EntryOf(SaveRecord).id = next
    BY <1>1, Writes
  <2>3. file \subseteq Entry /\ Below(file) /\ next \in Nat
    BY DEF IInv, LogTypeOK
  <2>4. Replays(file \cup {EntryOf(SaveRecord)})
    BY <1>1, <2>1, <2>2, <2>3, ReplaysGrows
  <2> QED
    BY <2>1, <2>2, <2>4
<1>4. DiskSound'
  BY <1>2, <1>3, SaveOnDisk, DiskKept
<1>5. CheckpointsSound'
  <2> SUFFICES ASSUME NEW e \in Disk' \ CallsOf(Disk') PROVE Backed(e.rec.saved)'
    BY DEF CheckpointsSound
  <2>1. Backed(e.rec.saved)
    BY SaveOnDisk DEF CheckpointsSound
  <2> QED
    BY <2>1, SaveOnDisk, Outlives
<1> QED
  BY <1>4, <1>5

LEMMA FactsKept ==
    ASSUME FactsSound, Taken \subseteq Taken', unrecorded \subseteq unrecorded', lost' = lost,
           \A f \in answered' : f \in answered \/ Proven(f)'
    PROVE  FactsSound'
BY Outlives DEF FactsSound

---------------------------------------------------------------------------
(* Down: a compaction, and a death, leave the journal and the latest       *)
(* checkpoints as they are, or lose the log between the two renames.       *)
LEMMA NothingTaken ==
    ASSUME NEW S, S = {}
    PROVE  Replayed(S) = {} /\ CallsOf(S) = {} /\ Replays(S)
BY DEF Replayed, CallsOf, Replays

LEMMA MaintainSound ==
    ASSUME IInv, DiskSound, CheckpointsSound, FactsSound, Maintain
    PROVE  DiskSound' /\ CheckpointsSound' /\ FactsSound'
<1>1. unrecorded' = unrecorded /\ answered' = answered /\ lost' = lost
  BY DEF Maintain, Compact, MoveAway, MoveIn, ghosts, ghostVars
<1>2. file \subseteq Entry /\ copy \subseteq Entry
  BY DEF IInv, LogTypeOK
<1>3. Kept(file) \subseteq file
  BY <1>2, KeptCalls
<1>4. /\ Disk' \subseteq Disk /\ CallsOf(Disk') = CallsOf(Disk) /\ Taken' = Taken
      /\ Replays(Disk) => Replays(Disk')
      /\ (phase = "copied" => copy = Kept(file))'
  <2>1. CASE Compact
    <3>1. Disk = file /\ Disk' = file
      BY <2>1 DEF Compact, Disk
    <3> QED
      BY <2>1, <3>1 DEF Compact, Taken
  <2>2. CASE MoveAway
    <3>1. Disk = file /\ Disk' = Kept(file)
      BY <2>2 DEF MoveAway, Disk, DiskSound
    <3> QED
      BY <1>2, <2>2, <3>1, KeptCalls DEF MoveAway, Taken
  <2>3. CASE MoveIn
    <3>1. Disk = copy /\ Disk' = copy
      BY <2>3 DEF MoveIn, Disk
    <3> QED
      BY <2>3, <3>1 DEF MoveIn, Taken
  <2> QED
    BY <2>1, <2>2, <2>3 DEF Maintain
<1>5. DiskSound'
  BY <1>1, <1>4, DiskKept DEF DiskSound
<1>6. CheckpointsSound'
  BY <1>1, <1>4, Outlives DEF CheckpointsSound
<1>7. FactsSound'
  BY <1>1, <1>4, FactsKept
<1> QED
  BY <1>5, <1>6, <1>7

LEMMA DiesSound ==
    ASSUME IInv, DiskSound, CheckpointsSound, FactsSound, Dies, UNCHANGED <<unrecorded, answered>>
    PROVE  DiskSound' /\ CheckpointsSound' /\ FactsSound'
<1>1. CASE phase = "moved"
  <2>1. Disk' = {} /\ lost' /\ phase' = "down"
    BY <1>1 DEF Dies, Disk, disk, IInv
  <2>2. Taken' = {} /\ CallsOf(Disk') = {} /\ Replays(Disk')
    BY <2>1, NothingTaken DEF Taken
  <2>3. DiskSound'
    BY <2>1, <2>2 DEF DiskSound, OneDecision, Has
  <2>4. CheckpointsSound'
    BY <2>1 DEF CheckpointsSound
  <2>5. FactsSound'
    BY <2>1 DEF FactsSound
  <2> QED
    BY <2>3, <2>4, <2>5
<1>2. CASE phase # "moved"
  <2>1. Disk = file /\ Disk' = file /\ lost' = lost /\ phase' = "down"
    BY <1>2 DEF Dies, Disk, disk, IInv, LogTypeOK
  <2>2. Taken' = Taken
    BY <2>1 DEF Taken
  <2>3. DiskSound'
    BY <2>1, <2>2, DiskKept DEF DiskSound
  <2>4. CheckpointsSound'
    BY <2>1, <2>2, Outlives DEF CheckpointsSound
  <2>5. FactsSound'
    BY <2>1, <2>2, FactsKept
  <2> QED
    BY <2>3, <2>4, <2>5
<1> QED
  BY <1>1, <1>2

---------------------------------------------------------------------------
(* The steps of a section, and what each relies on when its turn comes.    *)
Ready(s) ==
    /\ Relies(s.call)
    /\ \A f \in s.tell : /\ f \in Facts /\ f.kind # "accepted"
                         /\ f.kind = "cancelled" => Cancelled(f.task)
                         /\ f.kind = "decided" => Stands(rows, f.task, f.val)
    /\ s.call.op = "cancel" => /\ ~Announced(s.call.task)
                               /\ section # "start" => loop[s.call.task] = "cancelled"

AfterApproval(t, v) == Missing(Call("decide", t, v), Missing(Call("decision", t, v), IF Call("emitted", t, v) \in rows THEN <<>> ELSE Emission(t, v)))
AfterDecide(t, v) == Missing(Call("decision", t, v), IF Call("emitted", t, v) \in rows THEN <<>> ELSE Emission(t, v))
AfterDecision(t, v) == IF Call("emitted", t, v) \in rows THEN <<>> ELSE <<Emit(t, v), Emitted(t, v)>>

LEMMA StepTypes ==
    /\ \A c \in Calls, F \in SUBSET Facts : JournalTelling(c, F) \in Steps
    /\ \A c \in Calls : Journal(c) \in Steps
    /\ \A t \in Tasks : Save(t) \in Steps
    /\ SaveAll \in Steps /\ Reconcile \in Steps /\ Honour \in Steps
    /\ \A t \in Tasks, k \in Values \cup {"task_created"}, F \in SUBSET Facts : Post(k, t, F) \in Steps
    /\ \A t \in Tasks, m \in Messages : Fact("accepted", t, m) \in Facts
    /\ \A t \in Tasks : Fact("cancelled", t, "cancelled") \in Facts
    /\ \A t \in Tasks, v \in Values : Fact("decided", t, v) \in Facts
<1>1. \A c \in Calls, F \in SUBSET Facts : JournalTelling(c, F) \in Steps
  BY DEF Steps, JournalTelling
<1>2. \A c \in Calls : Journal(c) \in Steps
  BY <1>1 DEF Journal
<1>3. \A t \in Tasks : Save(t) \in Steps
  BY DEF Steps
<1>4. SaveAll \in Steps /\ Reconcile \in Steps /\ Honour \in Steps
  BY DEF Steps
<1>5. \A t \in Tasks, k \in Values \cup {"task_created"}, F \in SUBSET Facts : Post(k, t, F) \in Steps
  BY DEF Steps, Post, Events
<1>6. \A t \in Tasks, m \in Messages : Fact("accepted", t, m) \in Facts
  BY DEF Facts
<1>7. \A t \in Tasks : Fact("cancelled", t, "cancelled") \in Facts
  BY DEF Facts
<1>8. \A t \in Tasks, v \in Values : Fact("decided", t, v) \in Facts
  BY DEF Facts
<1> QED
  BY <1>1, <1>2, <1>3, <1>4, <1>5, <1>6, <1>7, <1>8

LEMMA NamedSteps ==
    /\ \A t \in Tasks : /\ CreateRow(t) \in Steps /\ CancelRow(t) \in Steps
                        /\ Mark(t) \in Steps /\ Confirm(t) \in Steps
    /\ \A t \in Tasks, m \in Messages : Bind(t, m) \in Steps /\ Announce(t, m) \in Steps
    /\ \A t \in Tasks, v \in Values : Emit(t, v) \in Steps /\ Emitted(t, v) \in Steps
<1>1. \A t \in Tasks : CreateRow(t) \in Steps /\ CancelRow(t) \in Steps /\ Mark(t) \in Steps
  BY StepTypes, CallTypes DEF CreateRow, CancelRow, Mark
<1>2. \A t \in Tasks : Confirm(t) \in Steps
  BY StepTypes, CallTypes DEF Confirm
<1>3. \A t \in Tasks, m \in Messages : Bind(t, m) \in Steps /\ Announce(t, m) \in Steps
  BY StepTypes, CallTypes DEF Bind, Announce
<1>4. \A t \in Tasks, v \in Values : Emit(t, v) \in Steps /\ Emitted(t, v) \in Steps
  BY StepTypes, CallTypes DEF Emit, Emitted
<1> QED
  BY <1>1, <1>2, <1>3, <1>4

LEMMA RestTypes ==
    ASSUME NEW t \in Tasks, NEW v \in Values
    PROVE  /\ AfterDecision(t, v) \in Seq(Steps) /\ AfterDecide(t, v) \in Seq(Steps)
           /\ AfterApproval(t, v) \in Seq(Steps) /\ Decision(t, v) \in Seq(Steps)
<1>1. AfterDecision(t, v) \in Seq(Steps)
  BY NamedSteps DEF AfterDecision
<1>2. ASSUME NEW c \in Calls, NEW s \in Seq(Steps)
      PROVE  Missing(c, s) \in Seq(Steps)
  <2>1. Journal(c) \in Steps
    BY StepTypes
  <2>2. <<Journal(c)>> \o s \in Seq(Steps)
    BY <2>1
  <2> QED
    BY <2>2 DEF Missing
<1>3. AfterDecide(t, v) = Missing(Call("decision", t, v), AfterDecision(t, v))
  BY DEF AfterDecide, AfterDecision, Emission, Emit, Emitted
<1>4. AfterDecide(t, v) \in Seq(Steps)
  BY <1>1, <1>2, <1>3, CallTypes
<1>5. AfterApproval(t, v) = Missing(Call("decide", t, v), AfterDecide(t, v))
  BY DEF AfterApproval, AfterDecide
<1>6. AfterApproval(t, v) \in Seq(Steps)
  BY <1>2, <1>4, <1>5, CallTypes
<1>7. Decision(t, v) = Missing(Call("approval", t, "approval"), AfterApproval(t, v))
  BY DEF AfterApproval, Decision
<1>8. Decision(t, v) \in Seq(Steps)
  BY <1>2, <1>6, <1>7, CallTypes
<1> QED
  BY <1>1, <1>4, <1>6, <1>8

LEMMA DecisionSteps ==
    ASSUME NEW t \in Tasks, NEW v \in Values
    PROVE  \/ /\ Call("approval", t, "approval") \notin rows
              /\ Decision(t, v) # <<>>
              /\ Head(Decision(t, v)) = Journal(Call("approval", t, "approval"))
              /\ Tail(Decision(t, v)) = AfterApproval(t, v)
           \/ /\ Call("approval", t, "approval") \in rows /\ Call("decide", t, v) \notin rows
              /\ Decision(t, v) # <<>>
              /\ Head(Decision(t, v)) = Journal(Call("decide", t, v))
              /\ Tail(Decision(t, v)) = AfterDecide(t, v)
           \/ /\ Call("decide", t, v) \in rows /\ Call("decision", t, v) \notin rows
              /\ Decision(t, v) # <<>>
              /\ Head(Decision(t, v)) = Journal(Call("decision", t, v))
              /\ Tail(Decision(t, v)) = AfterDecision(t, v)
           \/ /\ Call("approval", t, "approval") \in rows
              /\ Call("decide", t, v) \in rows /\ Call("decision", t, v) \in rows
              /\ Decision(t, v) = AfterDecision(t, v)
<1>1. /\ AfterDecision(t, v) \in Seq(Steps) /\ AfterDecide(t, v) \in Seq(Steps)
      /\ AfterApproval(t, v) \in Seq(Steps)
  BY RestTypes
<1>2. \A c \in Calls : Journal(c) \in Steps
  BY StepTypes
<1>3. ASSUME NEW a \in Steps, NEW s \in Seq(Steps)
      PROVE  Head(<<a>> \o s) = a /\ Tail(<<a>> \o s) = s /\ <<a>> \o s # <<>>
  OBVIOUS
<1>4. AfterDecide(t, v) = Missing(Call("decision", t, v), AfterDecision(t, v))
  BY DEF AfterDecide, AfterDecision, Emission, Emit, Emitted
<1>5. AfterApproval(t, v) = Missing(Call("decide", t, v), AfterDecide(t, v))
  BY DEF AfterApproval, AfterDecide
<1>6. Decision(t, v) = Missing(Call("approval", t, "approval"), AfterApproval(t, v))
  BY DEF AfterApproval, Decision
<1>7. /\ Call("approval", t, "approval") \in Calls /\ Call("decide", t, v) \in Calls
      /\ Call("decision", t, v) \in Calls
  BY CallTypes
<1>8. CASE Call("approval", t, "approval") \notin rows
  BY <1>1, <1>2, <1>3, <1>6, <1>7, <1>8 DEF Missing
<1>9. CASE Call("approval", t, "approval") \in rows /\ Call("decide", t, v) \notin rows
  BY <1>1, <1>2, <1>3, <1>5, <1>6, <1>7, <1>9 DEF Missing
<1>10. CASE /\ Call("approval", t, "approval") \in rows /\ Call("decide", t, v) \in rows
            /\ Call("decision", t, v) \notin rows
  BY <1>1, <1>2, <1>3, <1>4, <1>5, <1>6, <1>7, <1>10 DEF Missing
<1>11. CASE /\ Call("approval", t, "approval") \in rows /\ Call("decide", t, v) \in rows
            /\ Call("decision", t, v) \in rows
  BY <1>4, <1>5, <1>6, <1>11 DEF Missing
<1> QED
  BY <1>8, <1>9, <1>10, <1>11

(* Steps one after the other.                                              *)
LEMMA Tuples ==
    /\ \A a : <<a>> # <<>> /\ Head(<<a>>) = a /\ Tail(<<a>>) = <<>>
    /\ \A a, b : <<a, b>> # <<>> /\ Head(<<a, b>>) = a /\ Tail(<<a, b>>) = <<b>>
    /\ \A a, b, c : <<a, b, c>> # <<>> /\ Head(<<a, b, c>>) = a /\ Tail(<<a, b, c>>) = <<b, c>>
    /\ \A a, b, c, d : /\ <<a, b, c, d>> # <<>> /\ Head(<<a, b, c, d>>) = a
                       /\ Tail(<<a, b, c, d>>) = <<b, c, d>>
<1>1. ASSUME NEW a, NEW b, NEW c, NEW d
      PROVE  /\ <<a>> # <<>> /\ <<a, b>> # <<>> /\ <<a, b, c>> # <<>> /\ <<a, b, c, d>> # <<>>
             /\ Head(<<a>>) = a /\ Head(<<a, b>>) = a
             /\ Head(<<a, b, c>>) = a /\ Head(<<a, b, c, d>>) = a
             /\ Tail(<<a>>) = <<>> /\ Tail(<<a, b>>) = <<b>>
             /\ Tail(<<a, b, c>>) = <<b, c>> /\ Tail(<<a, b, c, d>>) = <<b, c, d>>
  OBVIOUS
<1> QED
  BY <1>1

LEMMA TupleTypes ==
    /\ \A a \in Steps : <<a>> \in Seq(Steps)
    /\ \A a, b \in Steps : <<a, b>> \in Seq(Steps)
    /\ \A a, b, c \in Steps : <<a, b, c>> \in Seq(Steps)
    /\ \A a, b, c, d \in Steps : <<a, b, c, d>> \in Seq(Steps)
OBVIOUS

LEMMA SectionTypes ==
    ASSUME SectionSound
    PROVE  /\ todo \in Seq(Steps)
           /\ section \in {"none", "submit", "cancel", "decide", "drain", "start"}
           /\ section = "none" <=> todo = <<>>
<1>1. CASE section = "none" /\ todo = <<>>
  BY <1>1
<1>2. ASSUME NEW t \in Tasks, NEW m \in Messages, Submitting(t, m)
      PROVE  todo \in Seq(Steps) /\ todo # <<>>
  <2>1. CreateRow(t) \in Steps /\ Bind(t, m) \in Steps /\ Announce(t, m) \in Steps
    BY NamedSteps
  <2> QED
    BY <1>2, <2>1, Tuples, TupleTypes DEF Submitting
<1>3. ASSUME NEW t \in Tasks, Cancelling(t)
      PROVE  todo \in Seq(Steps) /\ todo # <<>>
  <2>1. Save(t) \in Steps /\ CancelRow(t) \in Steps /\ Confirm(t) \in Steps
    BY NamedSteps, StepTypes
  <2> QED
    BY <1>3, <2>1, Tuples, TupleTypes DEF Cancelling
<1>4. ASSUME NEW t \in Tasks, NEW v \in Values, Deciding(t, v)
      PROVE  todo \in Seq(Steps) /\ todo # <<>>
  <2>1. Emit(t, v) \in Steps /\ Emitted(t, v) \in Steps
    BY NamedSteps
  <2>2. <<Emit(t, v), Emitted(t, v)>> \in Seq(Steps) /\ <<Emitted(t, v)>> \in Seq(Steps)
    BY <2>1, Tuples, TupleTypes
  <2> QED
    BY <1>4, <2>2, RestTypes DEF Deciding
<1>5. ASSUME NEW t \in Tasks, todo = <<Save(t)>>
      PROVE  todo \in Seq(Steps) /\ todo # <<>>
  BY <1>5, StepTypes
<1>6. ASSUME Starting
      PROVE  todo \in Seq(Steps) /\ todo # <<>>
  <2>2. todo \in {<<Reconcile, Honour>>, <<SaveAll, Honour>>, <<Honour>>} => todo \in Seq(Steps) /\ todo # <<>>
    <3>1. Reconcile \in Steps /\ SaveAll \in Steps /\ Honour \in Steps
      BY StepTypes
    <3> QED
      BY <3>1, Tuples, TupleTypes
  <2>3. \A t \in Tasks : todo = <<Save(t), Honour>> => todo \in Seq(Steps) /\ todo # <<>>
    <3>1. Honour \in Steps /\ \A t \in Tasks : Save(t) \in Steps
      BY StepTypes
    <3> QED
      BY <3>1, Tuples, TupleTypes
  <2>4. \A t \in Tasks : todo = <<CancelRow(t), Mark(t), Reconcile, Honour>> \/ todo = <<Mark(t), Reconcile, Honour>>
                             => todo \in Seq(Steps) /\ todo # <<>>
    <3> TAKE t \in Tasks
    <3>1. Reconcile \in Steps /\ Honour \in Steps /\ CancelRow(t) \in Steps /\ Mark(t) \in Steps
      BY StepTypes, NamedSteps
    <3>2. <<CancelRow(t), Mark(t), Reconcile, Honour>> \in Seq(Steps)
      BY <3>1
    <3>3. <<Mark(t), Reconcile, Honour>> \in Seq(Steps)
      BY <3>1
    <3>4. <<CancelRow(t), Mark(t), Reconcile, Honour>> # <<>>
      OBVIOUS
    <3>5. <<Mark(t), Reconcile, Honour>> # <<>>
      OBVIOUS
    <3> QED
      BY <3>2, <3>3, <3>4, <3>5
  <2> QED
    BY <1>6, <2>2, <2>3, <2>4 DEF Starting
<1> QED
  BY <1>1, <1>2, <1>3, <1>4, <1>5, <1>6 DEF SectionSound

(* What a repository call is, and what the named steps do.                 *)
LEMMA Kinds ==
    /\ \A c : Journal(c).do = "record" /\ Journal(c).call = c /\ Journal(c).tell = {}
    /\ \A c, F : /\ JournalTelling(c, F).do = "record"
                 /\ JournalTelling(c, F).call = c /\ JournalTelling(c, F).tell = F
    /\ \A k, t, F : Post(k, t, F).do = "post" /\ Post(k, t, F).tell = F
    /\ \A k, t, F : Post(k, t, F).event = [kind |-> k, task |-> t]
    /\ \A t : Save(t).do = "save" /\ Save(t).task = t
    /\ SaveAll.do = "save" /\ Reconcile.do = "reconcile" /\ Honour.do = "honour"
    /\ \A o, t, v : Call(o, t, v).op = o /\ Call(o, t, v).task = t /\ Call(o, t, v).val = v
    /\ \A k, t, v : Fact(k, t, v).kind = k /\ Fact(k, t, v).task = t /\ Fact(k, t, v).val = v
BY DEF Journal, JournalTelling, Post, Save, SaveAll, Reconcile, Honour, Call, Fact

(* The calls that every section makes are taken when their turn comes.     *)
LEMMA SubmitReady ==
    ASSUME NEW t \in Tasks, NEW m \in Messages, Submitting(t, m), Step.do = "record"
    PROVE  Ready(Step)
<1>1. \/ Step = CreateRow(t) /\ ~Created(t)
      \/ Step = Bind(t, m) /\ New(t, m) /\ Has(Taken, "create", t)
      \/ Step = Announce(t, m)
  BY Tuples DEF Submitting, Step
<1>2. CASE Step = CreateRow(t) /\ ~Created(t)
  <2>1. Step.call = Call("create", t, "create") /\ Step.tell = {}
    BY <1>2, Kinds DEF CreateRow
  <2> QED
    BY <1>2, <2>1, Kinds, CallTypes DEF Ready, Relies, Takes, Created
<1>3. CASE Step = Bind(t, m) /\ New(t, m) /\ Has(Taken, "create", t)
  <2>1. Step.call = Call("intake", t, m) /\ Step.tell = {}
    BY <1>3, Kinds DEF Bind
  <2> QED
    BY <1>3, <2>1, Kinds, CallTypes DEF Ready, Relies, Takes, New, Known, Has
<1> QED
  BY <1>1, <1>2, <1>3, Kinds DEF Announce

LEMMA CancelReady ==
    ASSUME NEW t \in Tasks, Cancelling(t), Step.do = "record", MemorySound, LoopSound
    PROVE  Ready(Step)
<1>1. \/ Step = Save(t)
      \/ Step = CancelRow(t) /\ ~Cancelled(t)
      \/ Step = Confirm(t) /\ Cancelled(t)
  BY Tuples DEF Cancelling, Step
<1>2. Created(t) /\ ~Announced(t) /\ loop[t] = "cancelled" /\ Has(rows, "intake", t)
  BY DEF Cancelling, MemorySound, LoopSound, Unseen
<1>3. CASE Step = CancelRow(t) /\ ~Cancelled(t)
  <2>1. Step.call = Call("cancel", t, "cancel") /\ Step.tell = {}
    BY <1>3, Kinds DEF CancelRow
  <2> QED
    BY <1>2, <1>3, <2>1, Kinds, CallTypes DEF Ready, Relies, Takes, Created, Cancelled
<1>4. CASE Step = Confirm(t) /\ Cancelled(t)
  <2>1. /\ Step.call = Call("cancel_requested", t, "cancel_requested")
        /\ Step.tell = {Fact("cancelled", t, "cancelled")}
    BY <1>4, Kinds DEF Confirm
  <2>2. Relies(Step.call)
    BY <1>2, <2>1, Kinds, CallTypes DEF Relies, Takes
  <2> QED
    BY <1>4, <2>1, <2>2, Kinds, StepTypes DEF Ready
<1> QED
  BY <1>1, <1>3, <1>4, Kinds

LEMMA DecideReady ==
    ASSUME NEW t \in Tasks, NEW v \in Values, Deciding(t, v), Step.do = "record",
           rows \subseteq Calls
    PROVE  Ready(Step)
<1>1. CASE todo = Decision(t, v) /\ Decided(t) \subseteq {v}
           /\ ~(/\ Call("approval", t, "approval") \in rows
                /\ Call("decide", t, v) \in rows /\ Call("decision", t, v) \in rows)
  <2>1. CASE Call("approval", t, "approval") \notin rows /\ Step = Journal(Call("approval", t, "approval"))
    <3>1. ~Has(rows, "approval", t)
      BY <2>1, CallShape DEF Has
    <3> QED
      BY <2>1, <3>1, Kinds, CallTypes DEF Ready, Relies, Takes
  <2>2. CASE /\ Call("approval", t, "approval") \in rows /\ Call("decide", t, v) \notin rows
             /\ Step = Journal(Call("decide", t, v))
    <3>1. Has(rows, "approval", t)
      BY <2>2, Kinds DEF Has
    <3>2. ~Has(rows, "decide", t)
      BY <1>1, <2>2, CallShape DEF Has, Decided
    <3> QED
      BY <2>2, <3>1, <3>2, Kinds, CallTypes DEF Ready, Relies, Takes
  <2>3. CASE /\ Call("decide", t, v) \in rows /\ Call("decision", t, v) \notin rows
             /\ Step = Journal(Call("decision", t, v))
    BY <2>3, Kinds, CallTypes DEF Ready, Relies, Takes, Stands
  <2> QED
    BY <1>1, <2>1, <2>2, <2>3, DecisionSteps DEF Step
<1>2. CASE /\ todo = AfterDecision(t, v) \/ todo \in {<<Emit(t, v), Emitted(t, v)>>, <<Emitted(t, v)>>}
           /\ Call("decision", t, v) \in rows /\ Stands(rows, t, v)
  <2>1. Step = Emit(t, v) \/ Step = Emitted(t, v)
    BY <1>2, Tuples DEF AfterDecision, Step, Deciding
  <2>2. CASE Step = Emitted(t, v)
    <3>1. Step.call = Call("emitted", t, v) /\ Step.tell = {Fact("decided", t, v)}
      BY <2>2, Kinds DEF Emitted
    <3>2. Relies(Step.call)
      BY <1>2, <3>1, Kinds, CallTypes DEF Relies, Takes
    <3> QED
      BY <1>2, <3>1, <3>2, Kinds, StepTypes DEF Ready
  <2> QED
    BY <2>1, <2>2, Kinds DEF Emit
<1>3. CASE /\ todo = Decision(t, v) /\ Decided(t) \subseteq {v}
           /\ Call("approval", t, "approval") \in rows
           /\ Call("decide", t, v) \in rows /\ Call("decision", t, v) \in rows
  <2>1. Decision(t, v) = AfterDecision(t, v)
    BY <1>3, DecisionSteps
  <2>2. Stands(rows, t, v)
    BY <1>3 DEF Stands
  <2> QED
    BY <1>2, <1>3, <2>1, <2>2
<1> QED
  BY <1>1, <1>2, <1>3 DEF Deciding

LEMMA StartReady ==
    ASSUME section = "start", Starting, Step.do = "record", MemorySound
    PROVE  Ready(Step)
<1>1. \/ Step \in {Reconcile, SaveAll, Honour}
      \/ \E t \in Tasks : Step = Save(t)
      \/ \E t \in Tasks : Step = CancelRow(t) /\ ~Cancelled(t) /\ Has(rows, "intake", t)
      \/ \E t \in Tasks : Step = Mark(t) /\ Has(rows, "intake", t)
  BY Tuples DEF Starting, Step
<1>2. \A t : ~Announced(t)
  BY DEF Starting, Announced
<1>3. ASSUME NEW t \in Tasks, Step = CancelRow(t), ~Cancelled(t), Has(rows, "intake", t)
      PROVE  Ready(Step)
  <2>1. Step.call = Call("cancel", t, "cancel") /\ Step.tell = {}
    BY <1>3, Kinds DEF CancelRow
  <2>2. Created(t)
    BY <1>3 DEF MemorySound
  <2> QED
    BY <1>2, <1>3, <2>1, <2>2, Kinds, CallTypes DEF Ready, Relies, Takes, Created, Cancelled
<1>4. ASSUME NEW t \in Tasks, Step = Mark(t), Has(rows, "intake", t)
      PROVE  Ready(Step)
  <2>1. Step.call = Call("cancel_requested", t, "cancel_requested") /\ Step.tell = {}
    BY <1>4, Kinds DEF Mark
  <2> QED
    BY <1>4, <2>1, Kinds, CallTypes DEF Ready, Relies, Takes
<1> QED
  BY <1>1, <1>3, <1>4, Kinds

LEMMA StepReady ==
    ASSUME OpenSound, rows \subseteq Calls, Running("record")
    PROVE  Ready(Step)
<1>1. SectionSound /\ MemorySound /\ LoopSound /\ todo # <<>> /\ Step.do = "record"
  BY DEF OpenSound, Running
<1>2. ASSUME NEW t \in Tasks, todo = <<Save(t)>>
      PROVE  FALSE
  BY <1>1, <1>2, Tuples, Kinds DEF Step
<1> QED
  BY <1>1, <1>2, SubmitReady, CancelReady, DecideReady, StartReady DEF SectionSound

---------------------------------------------------------------------------
(* A journalled call, appended or failed: what it leaves of the parts of   *)
(* the invariant.                                                          *)
TakesCall(c) == CallStep(c) /\ rows' = rows \cup {c} /\ phase' = "open"

LEMMA MemoryRecord ==
    ASSUME IInv, phase = "open", NEW c, TakesCall(c), Relies(c), MemorySound
    PROVE  MemorySound'
<1>1. c \in Record /\ c \in Calls
  BY RecordKinds DEF Relies
<1>2. /\ Taken \subseteq Taken' /\ Taken' \subseteq Taken \cup {c}
      /\ unrecorded \subseteq unrecorded' /\ c \in Taken' \cup unrecorded'
      /\ rows' = rows \cup {c}
  <2>1. Appended(c) => c \in Taken'
    BY <1>1, CallOnDisk DEF TakesCall
  <2>2. AppendFails(c) /\ unrecorded' = unrecorded \cup {c} => c \in unrecorded'
    OBVIOUS
  <2>3. ~DiesAppending(c)
    BY DEF TakesCall, DiesAppending
  <2> QED
    BY <1>1, <2>1, <2>2, <2>3, CallOnDisk DEF TakesCall, CallStep
<1>3. Taken' \subseteq rows' /\ rows' \subseteq Taken' \cup unrecorded'
  BY <1>2 DEF MemorySound
<1>4. ASSUME NEW t \in Tasks, Cancelled(t)' \/ Has(rows, "intake", t)'
      PROVE  Created(t)'
  <2>1. Has(rows', "cancel", t) \/ Has(rows', "intake", t)
    BY <1>4 DEF Cancelled
  <2>2. \/ Has(rows, "cancel", t) \/ Has(rows, "intake", t)
        \/ c.op \in {"cancel", "intake"} /\ c.task = t
    BY <1>2, <2>1, HasGrows
  <2>3. Has(rows, "create", t)
    BY <2>2, OnDiskOrFailed DEF Relies, Takes, MemorySound, Created, Cancelled
  <2> QED
    BY <1>2, <2>3, HasGrows DEF Created
<1>5. OneDecision(rows')
  BY <1>2 DEF Relies, Takes, Has, MemorySound, OneDecision
<1>6. ASSUME NEW r \in rows', r.op = "decision"
      PROVE  Stands(rows, r.task, r.val)'
  <2>1. Stands(rows, r.task, r.val)
    BY <1>2, <1>6 DEF Relies, MemorySound
  <2>2. Spoiled("decide", r.task) => Spoiled("decide", r.task)'
    BY <1>2 DEF Spoiled, Has
  <2> QED
    BY <1>2, <2>1, <2>2 DEF Stands
<1> QED
  BY <1>3, <1>4, <1>5, <1>6 DEF MemorySound

LEMMA LoopRecord ==
    ASSUME IInv, phase = "open", NEW c, TakesCall(c), Relies(c), LoopSound,
           c.op = "cancel" => ~Announced(c.task) /\ (section # "start" => loop[c.task] = "cancelled"),
           section' # "start" => section # "start",
           UNCHANGED <<loop, hand, posted>>
    PROVE  LoopSound'
<1>1. c \in Record /\ c \in Calls
  BY RecordKinds DEF Relies
<1>2. /\ Taken \subseteq Taken' /\ unrecorded \subseteq unrecorded' /\ rows' = rows \cup {c}
  BY <1>1, CallOnDisk DEF TakesCall
<1>3. /\ \A o, t : Has(Taken, o, t) => Has(Taken, o, t)'
      /\ Backed(loop)'
  BY <1>2, Outlives DEF LoopSound, Backed
<1>4. \A t : Cancelled(t)' <=> Cancelled(t) \/ (c.op = "cancel" /\ c.task = t)
  BY <1>2, HasGrows DEF Cancelled
<1>5. \A t : Announced(t)' <=> Announced(t)
  BY DEF Announced
<1>6. ASSUME NEW t \in Tasks, Announced(t)'
      PROVE  (Has(Taken, "create", t) /\ Has(Taken, "intake", t) /\ Unseen(t))'
  BY <1>3, <1>4, <1>5, <1>6 DEF LoopSound, Unseen
<1>7. ASSUME section' # "start"
      PROVE  Uncancelled' = {}
  <2>1. Uncancelled = {} /\ (c.op = "cancel" => loop[c.task] = "cancelled")
    BY <1>7 DEF LoopSound
  <2> QED
    BY <1>4, <2>1 DEF Uncancelled
<1>8. HandSound'
  BY DEF LoopSound, HandSound
<1> QED
  BY <1>3, <1>6, <1>7, <1>8 DEF LoopSound

LEMMA TellsProven ==
    ASSUME MemorySound, NEW s, Ready(s), NEW f \in s.tell
    PROVE  Proven(f)
<1>1. /\ f.kind # "accepted"
      /\ f.kind = "cancelled" => Has(rows, "cancel", f.task)
      /\ f.kind = "decided" => Stands(rows, f.task, f.val)
  BY DEF Ready, Cancelled
<1> QED
  BY <1>1, OnDiskOrFailed DEF Proven

(* What is left of the section when the call is done.                      *)
LEMMA Over ==
    ASSUME GoOn(<<>>)
    PROVE  SectionSound'
BY DEF GoOn, Go, SectionSound

LEMMA SubmitRecord ==
    ASSUME NEW t \in Tasks, NEW m \in Messages, Submitting(t, m), section = "submit",
           Step.do = "record", MemorySound, LoopSound,
           rows' = rows \cup {Step.call}, Taken \subseteq Taken', Step.call \in Taken',
           UNCHANGED <<loop, posted>>, GoOn(Tail(todo))
    PROVE  SectionSound'
<1>1. \A u : Announced(u)' <=> Announced(u)
  BY DEF Announced
<1>2. \A o, u : Has(Taken, o, u) => Has(Taken, o, u)'
  BY DEF Has
<1>3. CASE todo = <<CreateRow(t), Bind(t, m), Announce(t, m)>> /\ ~Created(t) /\ New(t, m)
  <2>1. Step = CreateRow(t) /\ Tail(todo) = <<Bind(t, m), Announce(t, m)>>
    BY <1>3, Tuples DEF Step
  <2>2. Step.call = Call("create", t, "create")
    BY <2>1, Kinds DEF CreateRow
  <2>3. New(t, m)'
    BY <1>3, <2>2, Kinds DEF New, Known, Has
  <2>4. Unseen(t) /\ ~Announced(t)
    BY <1>3, OnDiskOrFailed DEF Created, Unseen, LoopSound, Backed, MemorySound
  <2>5. ~Cancelled(t)' /\ Has(Taken, "create", t)'
    BY <2>2, <2>4, Kinds DEF Cancelled, Unseen, Has
  <2>6. todo' = <<Bind(t, m), Announce(t, m)>> /\ section' = "submit"
    BY <2>1, Tuples DEF GoOn, Go
  <2>7. Submitting(t, m)'
    BY <1>1, <2>3, <2>4, <2>5, <2>6 DEF Submitting, Unseen, Bind, Announce
  <2> QED
    BY <2>6, <2>7 DEF SectionSound
<1>4. CASE /\ todo = <<Bind(t, m), Announce(t, m)>> /\ New(t, m)
           /\ Has(Taken, "create", t) /\ Unseen(t) /\ ~Announced(t)
  <2>1. Step = Bind(t, m) /\ Tail(todo) = <<Announce(t, m)>>
    BY <1>4, Tuples DEF Step
  <2>2. Step.call = Call("intake", t, m)
    BY <2>1, Kinds DEF Bind
  <2>3. ~Cancelled(t)' /\ Has(Taken, "create", t)' /\ Call("intake", t, m) \in Taken'
    BY <1>2, <1>4, <2>2, Kinds DEF Cancelled, Unseen, Has
  <2>4. todo' = <<Announce(t, m)>> /\ section' = "submit"
    BY <2>1, Tuples DEF GoOn, Go
  <2>5. Submitting(t, m)'
    BY <1>1, <1>4, <2>3, <2>4 DEF Submitting, Unseen, Announce
  <2> QED
    BY <2>4, <2>5 DEF SectionSound
<1>5. CASE todo = <<Announce(t, m)>>
  BY <1>5, Tuples, Kinds DEF Step, Announce
<1> QED
  BY <1>3, <1>4, <1>5 DEF Submitting

LEMMA CancelRecord ==
    ASSUME NEW t \in Tasks, Cancelling(t), section = "cancel", Step.do = "record",
           rows' = rows \cup {Step.call}, UNCHANGED loop, GoOn(Tail(todo))
    PROVE  SectionSound'
<1>1. CASE todo = <<CancelRow(t), Confirm(t)>>
  <2>1. Step = CancelRow(t) /\ Tail(todo) = <<Confirm(t)>>
    BY <1>1, Tuples DEF Step
  <2>2. Step.call = Call("cancel", t, "cancel")
    BY <2>1, Kinds DEF CancelRow
  <2>3. Cancelled(t)' /\ Has(rows, "intake", t)'
    BY <2>2, Kinds DEF Cancelled, Has, Cancelling
  <2>4. todo' = <<Confirm(t)>> /\ section' = "cancel"
    BY <2>1, Tuples DEF GoOn, Go
  <2>5. Cancelling(t)'
    BY <2>3, <2>4 DEF Cancelling, Confirm
  <2> QED
    BY <2>4, <2>5 DEF SectionSound
<1>2. CASE todo = <<Confirm(t)>>
  <2>1. Tail(todo) = <<>>
    BY <1>2, Tuples
  <2> QED
    BY <2>1, Over
<1>3. CASE todo = <<Save(t), CancelRow(t), Confirm(t)>>
  BY <1>3, Tuples, Kinds DEF Step
<1> QED
  BY <1>1, <1>2, <1>3 DEF Cancelling

LEMMA DecisionThen ==
    ASSUME NEW t \in Tasks, NEW v \in Values, NEW c, rows' = rows \cup {c}
    PROVE  /\ c = Call("approval", t, "approval") => Decision(t, v)' = AfterApproval(t, v)
           /\ Call("approval", t, "approval") \in rows /\ c = Call("decide", t, v)
                => Decision(t, v)' = AfterDecide(t, v)
<1>1. /\ Call("decide", t, v) # Call("approval", t, "approval")
      /\ Call("decision", t, v) # Call("approval", t, "approval")
      /\ Call("emitted", t, v) # Call("approval", t, "approval")
      /\ Call("decision", t, v) # Call("decide", t, v)
      /\ Call("emitted", t, v) # Call("decide", t, v)
  BY DEF Call
<1>2. CASE c = Call("approval", t, "approval")
  <2>1. /\ c \in rows'
        /\ Call("decide", t, v) \in rows' <=> Call("decide", t, v) \in rows
        /\ Call("decision", t, v) \in rows' <=> Call("decision", t, v) \in rows
        /\ Call("emitted", t, v) \in rows' <=> Call("emitted", t, v) \in rows
    BY <1>1, <1>2
  <2> QED
    BY <1>1, <1>2, <2>1 DEF Decision, AfterApproval, Missing
<1>3. CASE Call("approval", t, "approval") \in rows /\ c = Call("decide", t, v)
  <2>1. /\ c \in rows' /\ Call("approval", t, "approval") \in rows'
        /\ Call("decision", t, v) \in rows' <=> Call("decision", t, v) \in rows
        /\ Call("emitted", t, v) \in rows' <=> Call("emitted", t, v) \in rows
    BY <1>1, <1>3
  <2> QED
    BY <1>1, <1>3, <2>1 DEF Decision, AfterDecide, Missing
<1> QED
  BY <1>2, <1>3

LEMMA DecideRecord ==
    ASSUME NEW t \in Tasks, NEW v \in Values, Deciding(t, v), section = "decide",
           Step.do = "record", rows' = rows \cup {Step.call},
           unrecorded \subseteq unrecorded', GoOn(Tail(todo))
    PROVE  SectionSound'
<1>1. todo' = Tail(todo) /\ (todo' # <<>> => section' = "decide")
  BY DEF GoOn, Go
<1>2. Stands(rows, t, v) => Stands(rows, t, v)'
  BY DEF Stands, Spoiled, Has
<1>3. CASE todo' = <<>>
  BY <1>3 DEF GoOn, Go, SectionSound
<1>4. CASE /\ todo' # <<>> /\ todo' \in {<<Emit(t, v), Emitted(t, v)>>, <<Emitted(t, v)>>}
           /\ Call("decision", t, v) \in rows' /\ Stands(rows, t, v)'
  BY <1>1, <1>4 DEF SectionSound, Deciding, Emit, Emitted
<1>5. ASSUME todo' # <<>>, todo' = Decision(t, v)', Decided(t)' \subseteq {v}
      PROVE  SectionSound'
  BY <1>1, <1>5 DEF SectionSound, Deciding
<1>6. CASE todo = Decision(t, v) /\ Decided(t) \subseteq {v}
  <2>1. CASE Step = Journal(Call("approval", t, "approval")) /\ Tail(todo) = AfterApproval(t, v)
    <3>1. Step.call = Call("approval", t, "approval")
      BY <2>1, Kinds
    <3>2. Decided(t)' \subseteq {v}
      BY <1>6, <3>1, Kinds DEF Decided
    <3> QED
      BY <1>1, <1>3, <1>5, <2>1, <3>1, <3>2, DecisionThen
  <2>2. CASE /\ Call("approval", t, "approval") \in rows
             /\ Step = Journal(Call("decide", t, v)) /\ Tail(todo) = AfterDecide(t, v)
    <3>1. Step.call = Call("decide", t, v)
      BY <2>2, Kinds
    <3>2. Decided(t)' \subseteq {v}
      BY <1>6, <3>1, Kinds DEF Decided
    <3> QED
      BY <1>1, <1>3, <1>5, <2>2, <3>1, <3>2, DecisionThen
  <2>3. CASE /\ Call("decide", t, v) \in rows
             /\ Step = Journal(Call("decision", t, v)) /\ Tail(todo) = AfterDecision(t, v)
    <3>1. Step.call = Call("decision", t, v)
      BY <2>3, Kinds
    <3>2. Stands(rows, t, v)'
      BY <1>2, <2>3 DEF Stands
    <3>3. Call("decision", t, v) \in rows'
      BY <3>1
    <3> QED
      BY <1>1, <1>3, <1>4, <2>3, <3>2, <3>3 DEF AfterDecision
  <2>4. CASE todo = AfterDecision(t, v)
    BY <2>4, Tuples, Kinds DEF Deciding, AfterDecision, Step, Emit
  <2> QED
    BY <1>6, <2>1, <2>2, <2>3, <2>4, DecisionSteps DEF Step
<1>7. CASE todo = <<Emit(t, v), Emitted(t, v)>>
  BY <1>7, Tuples, Kinds DEF Step, Emit
<1>8. CASE todo = <<Emitted(t, v)>>
  BY <1>1, <1>3, <1>8, Tuples
<1> QED
  BY <1>6, <1>7, <1>8 DEF Deciding

LEMMA StartRecord ==
    ASSUME Starting, section = "start", Step.do = "record",
           rows' = rows \cup {Step.call}, UNCHANGED <<hand, posted>>, GoOn(Tail(todo))
    PROVE  SectionSound'
<1>1. todo # <<Reconcile, Honour>> /\ todo # <<SaveAll, Honour>> /\ todo # <<Honour>>
  BY Tuples, Kinds DEF Step
<1>2. \A t \in Tasks : todo # <<Save(t), Honour>>
  BY Tuples, Kinds DEF Step
<1>3. PICK t \in Tasks : /\ Has(rows, "intake", t)
                         /\ \/ todo = <<CancelRow(t), Mark(t), Reconcile, Honour>>
                            \/ todo = <<Mark(t), Reconcile, Honour>>
  BY <1>1, <1>2 DEF Starting
<1>4. Has(rows, "intake", t)'
  BY <1>3 DEF Has
<1>5. CASE todo = <<CancelRow(t), Mark(t), Reconcile, Honour>>
  <2>1. todo' = <<Mark(t), Reconcile, Honour>> /\ section' = "start"
    BY <1>5, Tuples DEF GoOn, Go
  <2>2. Starting'
    BY <1>4, <2>1 DEF Starting, Mark
  <2> QED
    BY <2>1, <2>2 DEF SectionSound
<1>6. CASE todo = <<Mark(t), Reconcile, Honour>>
  <2>1. todo' = <<Reconcile, Honour>> /\ section' = "start"
    BY <1>6, Tuples DEF GoOn, Go
  <2>2. Starting'
    BY <2>1 DEF Starting
  <2> QED
    BY <2>1, <2>2 DEF SectionSound
<1> QED
  BY <1>3, <1>5, <1>6

---------------------------------------------------------------------------
(* What a step that records nothing leaves of the parts of the invariant.  *)
LEMMA MemoryKept ==
    ASSUME MemorySound, Taken' = Taken, UNCHANGED <<rows, unrecorded>>
    PROVE  MemorySound'
BY DEF MemorySound, OneDecision, Stands, Spoiled, Has, Cancelled, Created

LEMMA LoopKept ==
    ASSUME LoopSound, Taken' = Taken, UNCHANGED <<rows, unrecorded, posted>>,
           \A t \in Tasks : \/ loop'[t] = loop[t]
                            \/ loop[t] # "absent" /\ loop'[t] \in Terminal \cup Gone,
           section' # "start" => section # "start" \/ Uncancelled = {},
           HandSound'
    PROVE  LoopSound'
<1> USE DEF Terminal, Gone
<1>1. Backed(loop)'
  <2>1. \A t \in Tasks : loop'[t] # "absent" => loop[t] # "absent"
    OBVIOUS
  <2>2. \A t \in Tasks : loop'[t] = "active" => loop[t] = "active"
    OBVIOUS
  <2> QED
    BY <2>1, <2>2 DEF LoopSound, Backed, Stands, Spoiled, Has
<1>2. \A t : (Cancelled(t)' <=> Cancelled(t)) /\ (Announced(t)' <=> Announced(t))
  BY DEF Cancelled, Announced, Has
<1>3. \A t \in Tasks : Announced(t)' => (Has(Taken, "create", t) /\ Has(Taken, "intake", t) /\ Unseen(t))'
  BY <1>2 DEF LoopSound, Unseen, Has
<1>4. ASSUME section' # "start"
      PROVE  Uncancelled' = {}
  <2>1. Uncancelled = {}
    BY <1>4 DEF LoopSound
  <2> QED
    BY <1>2, <2>1 DEF Uncancelled
<1> QED
  BY <1>1, <1>3, <1>4 DEF LoopSound

LEMMA AtFacts ==
    ASSUME TypeOK
    PROVE  /\ \A h \in Handlers : at[h].job = "decide" => at[h].task \in Tasks /\ at[h].val \in Values
           /\ \A h \in Handlers : at[h].job = "classify" => at[h].msg \in Messages
           /\ Idle.job # "decide"
<1>1. \A h \in Handlers : \/ at[h] = Idle \/ at[h] \in [job : {"classify"}, msg : Messages]
                          \/ at[h] \in [job : {"decide"}, task : Tasks, val : Values]
  BY DEF TypeOK
<1> QED
  BY <1>1 DEF Idle

(* A handler that is let in finds no section at work.                      *)
LEMMA NoneAtWork ==
    ASSUME SectionSound, todo = <<>>
    PROVE  section = "none"
BY SectionTypes

LEMMA SectionKept ==
    ASSUME SectionSound, UNCHANGED <<rows, loop, hand, posted, todo, section, unrecorded>>, Taken' = Taken
    PROVE  SectionSound'
<1>1. \A o, t : /\ Has(rows, o, t)' <=> Has(rows, o, t)
                /\ Has(Taken, o, t)' <=> Has(Taken, o, t)
  BY DEF Has
<1>2. \A t : /\ Cancelled(t)' <=> Cancelled(t)
             /\ Created(t)' <=> Created(t)
             /\ Announced(t)' <=> Announced(t)
             /\ Decided(t)' = Decided(t)
  BY <1>1 DEF Cancelled, Created, Announced, Decided
<1>3. \A t, m : Submitting(t, m)' <=> Submitting(t, m)
  BY <1>1, <1>2 DEF Submitting, New, Known, Unseen, CreateRow, Bind, Announce
<1>4. \A t : Cancelling(t)' <=> Cancelling(t)
  BY <1>1, <1>2 DEF Cancelling, CancelRow, Confirm
<1>5. \A t, v : Deciding(t, v)' <=> Deciding(t, v)
  <2>1. \A t, v : Decision(t, v)' = Decision(t, v)
    BY DEF Decision, Missing
  <2>2. \A t, v : Stands(rows, t, v)' <=> Stands(rows, t, v)
    BY DEF Stands, Spoiled, Has
  <2> QED
    BY <1>2, <2>1, <2>2 DEF Deciding, Emit, Emitted
<1>6. Starting' <=> Starting
  BY <1>1, <1>2 DEF Starting, CancelRow, Mark
<1> QED
  BY <1>3, <1>4, <1>5, <1>6 DEF SectionSound

LEMMA Quiet ==
    ASSUME UNCHANGED logVars
    PROVE  Disk' = Disk /\ Taken' = Taken /\ phase' = phase /\ lost' = lost
BY DEF logVars, disk, ghosts, Disk, Taken

LEMMA QuietDisk ==
    ASSUME DiskSound, CheckpointsSound, FactsSound, UNCHANGED logVars, unrecorded' = unrecorded,
           \A f \in answered' : f \in answered \/ Proven(f)
    PROVE  DiskSound' /\ CheckpointsSound' /\ FactsSound'
<1>1. Disk' = Disk /\ Taken' = Taken /\ phase' = phase /\ lost' = lost
  BY Quiet
<1>2. (phase = "copied" => copy = Kept(file))'
  BY DEF logVars, disk, DiskSound
<1>3. DiskSound'
  BY <1>1, <1>2, DiskKept DEF DiskSound
<1>4. CheckpointsSound'
  BY <1>1, Outlives DEF CheckpointsSound
<1>5. FactsSound'
  BY <1>1, Outlives, FactsKept
<1> QED
  BY <1>3, <1>4, <1>5

---------------------------------------------------------------------------
(* The invariant under each action.                                        *)
LEMMA RecordInv ==
    ASSUME RuntimeInv, Recorded \/ RecordFails
    PROVE  Sound'
<1> DEFINE c == Step.call
<1>1. /\ IInv /\ TypeOK /\ DiskSound /\ CheckpointsSound /\ FactsSound
      /\ phase = "open" /\ todo # <<>> /\ Step.do = "record"
      /\ MemorySound /\ LoopSound /\ SectionSound
  BY DEF RuntimeInv, Sound, OpenSound, Recorded, RecordFails, Running
<1>2. Ready(Step)
  BY <1>1, StepReady DEF OpenSound, Running, TypeOK
<1>3. Relies(c) /\ c \in Calls /\ c \in Record
  BY <1>2, RecordKinds DEF Ready, Relies
<1>4. phase' = "open" /\ lost' = lost
  BY DEF Recorded, RecordFails, Appended, AppendFails
<1>5. TakesCall(c) /\ CallStep(c)
  BY <1>4 DEF TakesCall, CallStep, Recorded, RecordFails
<1>6. /\ Taken \subseteq Taken' /\ unrecorded \subseteq unrecorded'
      /\ Appended(c) => c \in Taken'
  BY <1>1, <1>3, <1>5, CallOnDisk
<1>7. DiskSound' /\ CheckpointsSound'
  BY <1>1, <1>3, <1>5, DiskCall, CheckpointsCall
<1>8. FactsSound'
  <2>1. \A f \in answered' : f \in answered \/ f \in Step.tell
    BY DEF Recorded, RecordFails
  <2>2. \A f \in Step.tell : Proven(f)'
    BY <1>1, <1>2, <1>6, TellsProven, Outlives
  <2> QED
    BY <1>1, <1>4, <1>6, <2>1, <2>2, FactsKept
<1>9. MemorySound'
  BY <1>1, <1>3, <1>5, MemoryRecord
<1>10. UNCHANGED <<loop, hand, posted>>
  BY DEF Recorded, RecordFails
<1>11. LoopSound'
  <2>1. section' # "start" => section # "start"
    <3>1. CASE GoOn(Tail(todo)) /\ section = "start"
      <4>1. Starting
        BY <1>1, <3>1 DEF SectionSound
      <4>2. ASSUME NEW t \in Tasks
            PROVE  /\ todo = <<CancelRow(t), Mark(t), Reconcile, Honour>> => Tail(todo) # <<>>
                   /\ todo = <<Mark(t), Reconcile, Honour>> => Tail(todo) # <<>>
                   /\ todo # <<Save(t), Honour>>
        <5>1. todo = <<CancelRow(t), Mark(t), Reconcile, Honour>> => Tail(todo) = <<Mark(t), Reconcile, Honour>>
          BY Tuples
        <5>2. todo = <<Mark(t), Reconcile, Honour>> => Tail(todo) = <<Reconcile, Honour>>
          BY Tuples
        <5>3. todo # <<Save(t), Honour>>
          BY <1>1, Tuples, Kinds DEF Step
        <5> QED
          BY <5>1, <5>2, <5>3
      <4>3. todo \notin {<<Reconcile, Honour>>, <<SaveAll, Honour>>, <<Honour>>}
        BY <1>1, Tuples, Kinds DEF Step
      <4>4. Tail(todo) # <<>>
        BY <4>1, <4>2, <4>3 DEF Starting
      <4> QED
        BY <3>1, <4>4 DEF GoOn, Go
    <3>2. section = "start" => GoOn(Tail(todo))
      BY DEF Recorded, RecordFails
    <3> QED
      BY <3>1, <3>2
  <2> QED
    BY <1>1, <1>2, <1>3, <1>5, <1>10, <2>1, LoopRecord DEF Ready
<1>12. SectionSound'
  <2>1. CASE GoOn(<<>>)
    BY <2>1, Over
  <2>2. CASE GoOn(Tail(todo)) /\ (Appended(c) \/ c.op \in {"cancel", "decision"})
    <3>1. rows' = rows \cup {Step.call}
      BY DEF Recorded, RecordFails
    <3>2. ASSUME NEW t \in Tasks, NEW m \in Messages, section = "submit", Submitting(t, m)
          PROVE  SectionSound'
      <4>1. Step = CreateRow(t) \/ Step = Bind(t, m) \/ Step = Announce(t, m)
        BY <3>2, Tuples DEF Submitting, Step
      <4>2. c.op \in {"create", "intake"}
        BY <1>1, <4>1, Kinds DEF CreateRow, Bind, Announce
      <4> QED
        BY <1>1, <1>6, <1>10, <2>2, <3>1, <3>2, <4>2, SubmitRecord
    <3>3. ASSUME NEW t \in Tasks, section = "cancel", Cancelling(t)
          PROVE  SectionSound'
      BY <1>1, <1>10, <2>2, <3>1, <3>3, CancelRecord
    <3>4. ASSUME NEW t \in Tasks, NEW v \in Values, section = "decide", Deciding(t, v)
          PROVE  SectionSound'
      BY <1>1, <1>6, <1>10, <2>2, <3>1, <3>4, DecideRecord
    <3>5. CASE section = "start" /\ Starting
      BY <1>1, <1>10, <2>2, <3>1, <3>5, StartRecord
    <3>6. ASSUME NEW t \in Tasks, todo = <<Save(t)>>
          PROVE  SectionSound'
      BY <1>1, <3>6, Tuples, Kinds DEF Step
    <3> QED
      BY <1>1, <3>2, <3>3, <3>4, <3>5, <3>6 DEF SectionSound
  <2> QED
    BY <2>1, <2>2 DEF Recorded, RecordFails, CarriesOn
<1> QED
  BY <1>4, <1>7, <1>8, <1>9, <1>11, <1>12 DEF Sound, OpenSound

LEMMA SaveInv ==
    ASSUME RuntimeInv, Saves \/ SaveSkipped \/ SaveFails
    PROVE  Sound'
<1>1. /\ IInv /\ TypeOK /\ DiskSound /\ CheckpointsSound /\ FactsSound
      /\ phase = "open" /\ todo # <<>> /\ Step.do = "save"
      /\ MemorySound /\ LoopSound /\ SectionSound
  BY DEF RuntimeInv, Sound, OpenSound, Saves, SaveSkipped, SaveFails, Running
<1>2. UNCHANGED <<rows, hand, posted, unrecorded, answered>>
  BY DEF Saves, SaveSkipped, SaveFails, ghostVars
<1>3. /\ DiskSound' /\ CheckpointsSound' /\ FactsSound'
      /\ phase' = "open" /\ Taken' = Taken
  <2>1. CASE SaveSkipped
    BY <1>1, <2>1, Quiet, QuietDisk DEF SaveSkipped, ghostVars
  <2>2. CASE Saves \/ SaveFails
    <3>1. Appended(SaveRecord) \/ AppendFails(SaveRecord)
      BY <2>2 DEF Saves, SaveFails
    <3>2. phase' = "open" /\ lost' = lost
      BY <3>1 DEF Appended, AppendFails
    <3>3. Taken' = Taken
      BY <1>1, <1>2, <3>1, SaveOnDisk
    <3>4. DiskSound' /\ CheckpointsSound'
      BY <1>1, <1>2, <3>1, DiskSave DEF LoopSound
    <3>5. FactsSound'
      BY <1>1, <1>2, <3>2, <3>3, FactsKept
    <3> QED
      BY <3>2, <3>3, <3>4, <3>5
  <2> QED
    BY <2>1, <2>2
<1>4. MemorySound'
  BY <1>1, <1>2, <1>3, MemoryKept
<1>5. \/ section = "cancel" /\ \E t \in Tasks : Cancelling(t) /\ todo = <<Save(t), CancelRow(t), Confirm(t)>> /\ ~Cancelled(t)
      \/ section = "drain" /\ hand = Idle /\ \E t \in Tasks : todo = <<Save(t)>>
      \/ section = "start" /\ posted = <<>> /\ hand = Idle /\ Tail(todo) = <<Honour>>
  <2>1. ASSUME NEW t \in Tasks, NEW m \in Messages, Submitting(t, m)
        PROVE  FALSE
    <3>1. Step = CreateRow(t) \/ Step = Bind(t, m) \/ Step = Announce(t, m)
      BY <2>1, Tuples DEF Submitting, Step
    <3> QED
      BY <1>1, <3>1, Kinds DEF CreateRow, Bind, Announce
  <2>2. ASSUME NEW t \in Tasks, Cancelling(t)
        PROVE  todo = <<Save(t), CancelRow(t), Confirm(t)>> /\ ~Cancelled(t)
    BY <1>1, <2>2, Tuples, Kinds DEF Cancelling, Step, CancelRow, Confirm
  <2>3. ASSUME NEW t \in Tasks, NEW v \in Values, Deciding(t, v)
        PROVE  FALSE
    <3>1. Step \in {Emit(t, v), Emitted(t, v), Journal(Call("approval", t, "approval")),
                    Journal(Call("decide", t, v)), Journal(Call("decision", t, v))}
      BY <2>3, Tuples, DecisionSteps DEF Deciding, AfterDecision, Step
    <3> QED
      BY <1>1, <3>1, Kinds DEF Emit, Emitted
  <2>4. ASSUME Starting
        PROVE  posted = <<>> /\ hand = Idle /\ Tail(todo) = <<Honour>>
    <3>1. \A t \in Tasks : todo # <<CancelRow(t), Mark(t), Reconcile, Honour>> /\ todo # <<Mark(t), Reconcile, Honour>>
      BY <1>1, Tuples, Kinds DEF Step, CancelRow, Mark
    <3>2. todo # <<Reconcile, Honour>> /\ todo # <<Honour>>
      BY <1>1, Tuples, Kinds DEF Step
    <3> QED
      BY <2>4, <3>1, <3>2, Tuples DEF Starting
  <2> QED
    BY <1>1, <2>1, <2>2, <2>3, <2>4 DEF SectionSound
<1>6. /\ GoOn(Tail(todo)) \/ GoOn(<<>>)
      /\ section = "start" => GoOn(Tail(todo))
      /\ \/ loop' = loop
         \/ /\ section = "drain" /\ loop[Step.task] # "absent" /\ GoOn(<<>>)
            /\ loop' = [loop EXCEPT ![Step.task] = Stopped(@)]
  BY DEF Saves, SaveSkipped, SaveFails
<1>7. LoopSound'
  <2>1. \A t \in Tasks : \/ loop'[t] = loop[t]
                         \/ loop[t] # "absent" /\ loop'[t] \in Terminal \cup Gone
    <3>1. section = "drain" => Step.task \in Tasks
      BY <1>5, Tuples, Kinds DEF Step
    <3> QED
      BY <1>1, <1>6, <3>1 DEF TypeOK, Stopped, Terminal, Gone
  <2>2. section = "start" => section' = "start"
    BY <1>5, <1>6, Tuples DEF GoOn, Go
  <2>3. HandSound'
    BY <1>1, <1>2, <1>5, <1>6 DEF LoopSound, HandSound
  <2> QED
    BY <1>1, <1>2, <1>3, <2>1, <2>2, <2>3, LoopKept
<1>8. SectionSound'
  <2>1. CASE GoOn(<<>>)
    BY <2>1, Over
  <2>2. ASSUME GoOn(Tail(todo)), section = "cancel", NEW t \in Tasks, Cancelling(t),
               todo = <<Save(t), CancelRow(t), Confirm(t)>>, ~Cancelled(t)
        PROVE  SectionSound'
    <3>1. todo' = <<CancelRow(t), Confirm(t)>> /\ section' = "cancel"
      BY <2>2, Tuples DEF GoOn, Go
    <3>2. loop' = loop
      BY <1>6, <2>2
    <3>3. Cancelling(t)'
      BY <1>2, <2>2, <3>1, <3>2 DEF Cancelling, Cancelled, Has, CancelRow, Confirm
    <3> QED
      BY <3>1, <3>3 DEF SectionSound
  <2>3. ASSUME GoOn(Tail(todo)), NEW t \in Tasks, todo = <<Save(t)>>
        PROVE  SectionSound'
    <3>1. Tail(todo) = <<>>
      BY <2>3, Tuples
    <3> QED
      BY <2>1, <2>3, <3>1
  <2>4. CASE /\ GoOn(Tail(todo)) /\ section = "start"
             /\ posted = <<>> /\ hand = Idle /\ Tail(todo) = <<Honour>>
    <3>1. todo' = <<Honour>> /\ section' = "start"
      BY <2>4, Tuples DEF GoOn, Go
    <3> QED
      BY <1>2, <2>4, <3>1 DEF SectionSound, Starting
  <2> QED
    BY <1>5, <1>6, <2>1, <2>2, <2>3, <2>4
<1> QED
  BY <1>3, <1>4, <1>7, <1>8 DEF Sound, OpenSound

(* Nothing but the memory of a serving runtime changes: a handler is let   *)
(* in, or the Manager takes its turn.                                      *)
LEMMA ServingFacts ==
    ASSUME RuntimeInv, Serving
    PROVE  /\ IInv /\ TypeOK /\ DiskSound /\ CheckpointsSound /\ FactsSound
           /\ phase = "open" /\ todo = <<>> /\ section = "none"
           /\ MemorySound /\ LoopSound /\ SectionSound /\ Uncancelled = {}
<1>1. /\ IInv /\ TypeOK /\ DiskSound /\ CheckpointsSound /\ FactsSound
      /\ phase = "open" /\ todo = <<>> /\ MemorySound /\ LoopSound /\ SectionSound
  BY DEF RuntimeInv, Sound, OpenSound, Serving
<1>2. section = "none"
  BY <1>1, NoneAtWork
<1>3. Uncancelled = {}
  BY <1>1, <1>2 DEF LoopSound
<1> QED
  BY <1>1, <1>2, <1>3

LEMMA ServingKept ==
    ASSUME RuntimeInv, Serving, UNCHANGED <<logVars, rows, unrecorded>>,
           \A f \in answered' : f \in answered \/ Proven(f)
    PROVE  /\ DiskSound' /\ CheckpointsSound' /\ FactsSound' /\ MemorySound'
           /\ Taken' = Taken /\ phase' = "open"
<1>1. Taken' = Taken /\ phase' = phase
  BY Quiet
<1>2. DiskSound' /\ CheckpointsSound' /\ FactsSound'
  BY ServingFacts, QuietDisk
<1>3. MemorySound'
  BY <1>1, ServingFacts, MemoryKept
<1> QED
  BY <1>1, <1>2, <1>3, ServingFacts

(* What a duplicate or a repeated request is told is proven.               *)
LEMMA ToldProven ==
    ASSUME MemorySound
    PROVE  /\ \A m \in Messages : \A f \in Accepted(m) : Proven(f)
           /\ \A t : Cancelled(t) => Proven(Fact("cancelled", t, "cancelled"))
           /\ \A t, v : Call("decision", t, v) \in rows => Proven(Fact("decided", t, v))
<1>1. ASSUME NEW m \in Messages, NEW f \in Accepted(m)
      PROVE  Proven(f)
  <2>1. PICK u \in Tasks : f = Fact("accepted", u, m) /\ Call("intake", u, m) \in rows
    BY DEF Accepted
  <2>2. f.kind = "accepted" /\ f.task = u /\ f.val = m
    BY <2>1, Kinds
  <2>3. Call("intake", u, m) \in Taken \/ Spoiled("intake", u)
    BY <2>1, Kinds DEF MemorySound, Spoiled, Has
  <2> QED
    BY <2>2, <2>3 DEF Proven
<1>2. ASSUME NEW t, Cancelled(t)
      PROVE  Proven(Fact("cancelled", t, "cancelled"))
  <2>1. Has(Taken, "cancel", t) \/ Spoiled("cancel", t)
    BY <1>2, OnDiskOrFailed DEF Cancelled
  <2> QED
    BY <2>1, Kinds DEF Proven
<1>3. ASSUME NEW t, NEW v, Call("decision", t, v) \in rows
      PROVE  Proven(Fact("decided", t, v))
  <2>1. Stands(rows, t, v)
    BY <1>3, Kinds DEF MemorySound
  <2>2. Stands(Taken, t, v)
    BY <2>1, OnDiskOrFailed
  <2> QED
    BY <2>2, Kinds DEF Proven
<1> QED
  BY <1>1, <1>2, <1>3

LEMMA SubmitInv ==
    ASSUME RuntimeInv, NEW h \in Handlers, NEW m \in Messages, Submit(h, m)
    PROVE  Sound'
<1>1. /\ Serving /\ UNCHANGED <<logVars, rows, loop, hand, posted, todo, section, unrecorded>>
      /\ answered' = answered \/ answered' = answered \cup Accepted(m)
  BY DEF Submit
<1>2. \A f \in answered' : f \in answered \/ Proven(f)
  BY <1>1, ServingFacts, ToldProven
<1>3. LoopSound'
  BY <1>1, <1>2, ServingFacts, ServingKept, LoopKept DEF LoopSound, HandSound
<1>4. SectionSound'
  BY <1>1, ServingFacts DEF SectionSound
<1> QED
  BY <1>1, <1>2, <1>3, <1>4, ServingKept DEF Sound, OpenSound

LEMMA ClassifiedInv ==
    ASSUME RuntimeInv, NEW h \in Handlers, Classified(h)
    PROVE  Sound'
<1>1. /\ Serving /\ UNCHANGED <<logVars, rows, loop, hand, posted, unrecorded>>
      /\ at[h].job = "classify"
      /\ answered' = answered \/ answered' = answered \cup Accepted(at[h].msg)
  BY DEF Classified
<1>2. PICK m \in Messages : m = at[h].msg
  BY <1>1, ServingFacts, AtFacts
<1>3. \A f \in answered' : f \in answered \/ Proven(f)
  BY <1>1, <1>2, ServingFacts, ToldProven
<1>4. LoopSound'
  BY <1>1, <1>3, ServingFacts, ServingKept, LoopKept DEF LoopSound, HandSound
<1>5. SectionSound'
  <2>1. CASE UNCHANGED <<todo, section>>
    BY <1>1, <2>1, ServingFacts DEF SectionSound
  <2>2. ASSUME ~Known(m), NEW t \in Tasks, ~Created(t), Go("submit", Submission(t, m))
        PROVE  SectionSound'
    <3>1. todo' = <<CreateRow(t), Bind(t, m), Announce(t, m)>> /\ section' = "submit"
      BY <2>2, Tuples DEF Go, Submission, CreateRow, Bind, Announce
    <3>2. ~Has(rows, "intake", t)
      BY <1>1, <2>2, ServingFacts DEF MemorySound
    <3>3. ~Created(t)' /\ New(t, m)'
      BY <1>1, <2>2, <3>2 DEF Created, New, Known, Has
    <3>4. Submitting(t, m)'
      BY <3>1, <3>3 DEF Submitting, CreateRow, Bind, Announce
    <3> QED
      BY <3>1, <3>4 DEF SectionSound
  <2> QED
    BY <1>2, <2>1, <2>2 DEF Classified
<1> QED
  BY <1>1, <1>3, <1>4, <1>5, ServingKept DEF Sound, OpenSound

LEMMA PressInv ==
    ASSUME RuntimeInv, NEW h \in Handlers, NEW t \in Tasks, NEW v \in Values, Press(h, t, v)
    PROVE  Sound'
<1>1. Serving /\ UNCHANGED <<logVars, rows, loop, hand, posted, unrecorded>>
  BY DEF Press
<1>2. \A f \in answered' : f \in answered \/ Proven(f)
  BY <1>1, ServingFacts, ToldProven DEF Press
<1>3. LoopSound'
  BY <1>1, <1>2, ServingFacts, ServingKept, LoopKept DEF LoopSound, HandSound
<1>4. SectionSound'
  <2>1. CASE UNCHANGED <<todo, section>>
    BY <1>1, <2>1, ServingFacts DEF SectionSound
  <2>2. CASE Call("decision", t, v) \in rows /\ Go("decide", Emission(t, v))
    <3>1. todo' = <<Emit(t, v), Emitted(t, v)>> /\ section' = "decide" /\ todo' # <<>>
      BY <2>2, Tuples DEF Go, Emission, Emit, Emitted
    <3>2. Stands(rows, t, v)
      BY <1>1, <2>2, ServingFacts, Kinds DEF MemorySound
    <3>3. Stands(rows, t, v)'
      BY <1>1, <3>2 DEF Stands, Spoiled, Has
    <3>4. Deciding(t, v)'
      BY <1>1, <2>2, <3>1, <3>3 DEF Deciding, Emit, Emitted
    <3> QED
      BY <3>1, <3>4 DEF SectionSound
  <2> QED
    BY <2>1, <2>2 DEF Press
<1> QED
  BY <1>1, <1>2, <1>3, <1>4, ServingKept DEF Sound, OpenSound

LEMMA RequiredInv ==
    ASSUME RuntimeInv, NEW h \in Handlers, Required(h)
    PROVE  Sound'
<1> DEFINE t == at[h].task
           v == at[h].val
<1>1. /\ Serving /\ UNCHANGED <<logVars, rows, loop, hand, posted, answered, unrecorded>>
      /\ at[h].job = "decide"
  BY DEF Required, ghostVars
<1>2. LoopSound'
  BY <1>1, ServingFacts, ServingKept, LoopKept DEF LoopSound, HandSound
<1>3. SectionSound'
  <2>1. CASE UNCHANGED <<todo, section>>
    BY <1>1, <2>1, ServingFacts DEF SectionSound
  <2>2. CASE Decided(t) \subseteq {v} /\ Go("decide", Decision(t, v))
    <3>1. t \in Tasks /\ v \in Values
      BY <1>1, ServingFacts, AtFacts
    <3>2. todo' = Decision(t, v) /\ (todo' # <<>> => section' = "decide") /\ (todo' = <<>> => section' = "none")
      BY <2>2 DEF Go
    <3>3. ASSUME NEW u, NEW w
          PROVE  Decision(u, w)' = Decision(u, w) /\ Decided(u)' = Decided(u)
      BY <1>1 DEF Decision, Missing, Decided
    <3>4. ASSUME todo' # <<>>, NEW u \in Tasks, NEW w \in Values, u = t, w = v
          PROVE  Deciding(u, w)'
      BY <2>2, <3>1, <3>2, <3>3, <3>4 DEF Deciding
    <3>5. todo' # <<>> => \E u \in Tasks, w \in Values : Deciding(u, w)'
      BY <3>1, <3>4
    <3> QED
      BY <3>2, <3>5 DEF SectionSound
  <2> QED
    BY <2>1, <2>2 DEF Required
<1> QED
  BY <1>1, <1>2, <1>3, ServingKept DEF Sound, OpenSound

LEMMA CancelInv ==
    ASSUME RuntimeInv, NEW t \in Tasks, Cancel(t)
    PROVE  Sound'
<1>1. /\ Serving /\ UNCHANGED <<logVars, rows, hand, posted, unrecorded>>
      /\ Has(rows, "intake", t)
  BY DEF Cancel
<1>2. CASE Cancelled(t) /\ answered' = answered \cup {Fact("cancelled", t, "cancelled")}
           /\ UNCHANGED <<loop, todo, section>>
  <2>1. \A f \in answered' : f \in answered \/ Proven(f)
    BY <1>1, <1>2, ServingFacts, ToldProven
  <2>2. LoopSound'
    BY <1>1, <1>2, <2>1, ServingFacts, ServingKept, LoopKept DEF LoopSound, HandSound
  <2>3. SectionSound'
    BY <1>1, <1>2, ServingFacts DEF SectionSound
  <2> QED
    BY <1>1, <2>1, <2>2, <2>3, ServingKept DEF Sound, OpenSound
<1>3. CASE /\ ~Cancelled(t) /\ loop[t] \in {"waiting", "active"} /\ answered' = answered
           /\ loop' = [loop EXCEPT ![t] = "cancelled"] /\ Go("cancel", Cancellation(t))
  <2>1. loop'[t] = "cancelled" /\ \A u \in Tasks : u # t => loop'[u] = loop[u]
    BY <1>1, <1>3, ServingFacts DEF TypeOK
  <2>2. HandSound'
    BY <1>1, <2>1, ServingFacts DEF LoopSound, HandSound, Gone
  <2>3. LoopSound'
    BY <1>1, <1>3, <2>1, <2>2, ServingFacts, ServingKept, LoopKept DEF Gone
  <2>4. todo' = <<Save(t), CancelRow(t), Confirm(t)>> /\ section' = "cancel"
    BY <1>3, Tuples DEF Go, Cancellation, CancelRow, Confirm
  <2>5. Cancelling(t)'
    BY <1>1, <1>3, <2>1, <2>4 DEF Cancelling, Cancelled, Has, CancelRow, Confirm
  <2>6. SectionSound'
    BY <2>4, <2>5 DEF SectionSound
  <2> QED
    BY <1>1, <1>3, <2>3, <2>6, ServingKept DEF Sound, OpenSound
<1> QED
  BY <1>2, <1>3 DEF Cancel

LEMMA WorksInv ==
    ASSUME RuntimeInv, NEW t \in Tasks, Works(t)
    PROVE  Sound'
<1>1. /\ Serving /\ UNCHANGED <<logVars, rows, loop, posted, todo, section, answered, unrecorded>>
      /\ loop[t] \in {"active", "revived"} /\ hand' = [job |-> "work", task |-> t]
  BY DEF Works, ghostVars
<1>2. HandSound'
  BY <1>1 DEF HandSound, Gone
<1>3. LoopSound'
  BY <1>1, <1>2, ServingFacts, ServingKept, LoopKept
<1>4. SectionSound'
  BY <1>1, ServingFacts DEF SectionSound
<1> QED
  BY <1>1, <1>3, <1>4, ServingKept DEF Sound, OpenSound

(* The end of a handler that held a task: no task that it did not let in   *)
(* becomes active, and none without its approval.                          *)
LEMMA HandEnds ==
    ASSUME RuntimeInv, Serving, hand # Idle, NEW s, loop' = [loop EXCEPT ![hand.task] = s], hand' = Idle,
           UNCHANGED <<logVars, rows, posted, answered, unrecorded>>,
           section' # "start",
           \/ s = loop[hand.task] \/ s \in Terminal \cup Gone
           \/ s = "active" /\ loop[hand.task] = "waiting" /\ Decided(hand.task) = {"approved"}
    PROVE  LoopSound'
<1>1. /\ hand.task \in Tasks /\ loop[hand.task] # "absent" /\ LoopSound /\ MemorySound
      /\ loop'[hand.task] = s /\ \A u \in Tasks : u # hand.task => loop'[u] = loop[u]
  BY ServingFacts DEF LoopSound, HandSound, Gone, TypeOK
<1>2. HandSound' /\ Taken' = Taken
  BY ServingKept DEF HandSound
<1>3. CASE s = loop[hand.task] \/ s \in Terminal \cup Gone
  BY <1>1, <1>2, <1>3, ServingFacts, LoopKept
<1>4. CASE s = "active" /\ loop[hand.task] = "waiting" /\ Decided(hand.task) = {"approved"}
  <2>1. \A t : (Cancelled(t)' <=> Cancelled(t)) /\ (Announced(t)' <=> Announced(t))
    BY DEF Cancelled, Announced, Has
  <2>2. Stands(Taken, hand.task, "approved")
    BY <1>1, <1>4, OnDiskOrFailed DEF Decided, Stands
  <2>3. Backed(loop)'
    BY <1>1, <1>2, <1>4, <2>2 DEF LoopSound, Backed, Stands, Spoiled, Has
  <2>4. \A t \in Tasks : Announced(t)' => (Has(Taken, "create", t) /\ Has(Taken, "intake", t) /\ Unseen(t))'
    BY <1>1, <1>2, <2>1 DEF LoopSound, Unseen, Has
  <2>5. \A t \in Tasks : Cancelled(t) => loop[t] \notin {"waiting", "active"}
    BY ServingFacts DEF Uncancelled
  <2>6. Uncancelled' = {}
    BY <1>1, <1>4, <2>1, <2>5 DEF Uncancelled
  <2> QED
    BY <1>1, <1>2, <2>3, <2>4, <2>6 DEF LoopSound
<1> QED
  BY <1>3, <1>4

LEMMA MakesInv ==
    ASSUME RuntimeInv, Serving, hand # Idle, NEW s, Makes(s),
           \/ s = loop[hand.task] \/ s \in Terminal \cup Gone
           \/ s = "active" /\ loop[hand.task] = "waiting" /\ Decided(hand.task) = {"approved"}
    PROVE  Sound'
<1>1. /\ loop' = [loop EXCEPT ![hand.task] = s] /\ hand' = Idle
      /\ UNCHANGED <<logVars, rows, posted, answered, unrecorded>>
      /\ todo' = <<Save(hand.task)>> /\ section' = "drain"
  BY Tuples DEF Makes, Go, ghostVars
<1>2. LoopSound'
  BY <1>1, HandEnds
<1>3. SectionSound'
  BY <1>1, ServingFacts DEF SectionSound, LoopSound, HandSound
<1> QED
  BY <1>1, <1>2, <1>3, ServingKept DEF Sound, OpenSound

LEMMA StoppedIs == \A s : Stopped(s) \in Terminal \cup Gone
BY DEF Stopped, Terminal, Gone

LEMMA ResolvesInv ==
    ASSUME RuntimeInv, Resolves
    PROVE  Sound'
<1> DEFINE t == hand.task
<1>1. Serving /\ hand # Idle /\ loop[t] \in {"waiting"} \cup Gone
  BY ServingFacts DEF Resolves, LoopSound, HandSound
<1>2. CASE Makes(loop[t])
  BY <1>1, <1>2, MakesInv
<1>3. CASE Makes(Stopped(loop[t]))
  BY <1>1, <1>3, MakesInv, StoppedIs
<1>4. ASSUME Decided(t) = {"approved"}, NEW s \in IF loop[t] \in Gone THEN Gone ELSE {"active", "blocked"}, Makes(s)
      PROVE  Sound'
  <2>1. s \in Terminal \cup Gone \/ (s = "active" /\ loop[t] = "waiting")
    BY <1>1 DEF Terminal, Gone
  <2> QED
    BY <1>1, <1>4, <2>1, MakesInv
<1> QED
  BY <1>2, <1>3, <1>4 DEF Resolves

LEMMA FinishesInv ==
    ASSUME RuntimeInv, Finishes
    PROVE  Sound'
<1>1. Serving /\ hand # Idle
  BY DEF Finishes
<1>2. PICK s \in Terminal \cup Gone : Makes(s)
  BY DEF Finishes, Gone
<1> QED
  BY <1>1, <1>2, MakesInv

LEMMA ThrowsInv ==
    ASSUME RuntimeInv, Throws
    PROVE  Sound'
<1>1. /\ Serving /\ hand # Idle /\ hand' = Idle
      /\ UNCHANGED <<logVars, rows, posted, todo, section, answered, unrecorded>>
      /\ loop' = loop \/ loop' = [loop EXCEPT ![hand.task] = Stopped(loop[hand.task])]
  BY DEF Throws, ghostVars
<1>2. section' # "start"
  BY <1>1, ServingFacts
<1>3. LoopSound'
  <2>1. CASE loop' = loop
    BY <1>1, <2>1, ServingFacts, ServingKept, LoopKept DEF HandSound
  <2>2. CASE loop' = [loop EXCEPT ![hand.task] = Stopped(loop[hand.task])]
    BY <1>1, <1>2, <2>2, HandEnds, StoppedIs
  <2> QED
    BY <1>1, <2>1, <2>2
<1>4. SectionSound'
  BY <1>1, ServingFacts DEF SectionSound
<1> QED
  BY <1>1, <1>3, <1>4, ServingKept DEF Sound, OpenSound

(* The Manager takes an event: what is left of the queue was behind it.    *)
LEMMA TailEvents ==
    ASSUME posted \in Seq(Events), posted # <<>>, posted' = Tail(posted)
    PROVE  /\ 1 \in DOMAIN posted /\ Head(posted) = posted[1] /\ posted[1] \in Events
           /\ \A i \in DOMAIN posted' : i + 1 \in DOMAIN posted /\ posted'[i] = posted[i + 1] /\ i + 1 # 1 /\ i \in Nat
<1>1. DOMAIN posted = 1..Len(posted) /\ Len(posted) \in Nat /\ Len(posted) # 0
  OBVIOUS
<1>2. Len(Tail(posted)) = Len(posted) - 1 /\ \A i \in 1..Len(posted) - 1 : Tail(posted)[i] = posted[i + 1]
  OBVIOUS
<1>3. Tail(posted) \in Seq(Events)
  OBVIOUS
<1>4. DOMAIN posted' = 1..Len(posted) - 1
  BY <1>2, <1>3
<1>5. Head(posted) = posted[1] /\ posted[1] \in Events
  BY <1>1
<1> QED
  BY <1>1, <1>2, <1>4, <1>5

LEMMA HandleInv ==
    ASSUME RuntimeInv, Handle
    PROVE  Sound'
<1>1. /\ Serving /\ UNCHANGED <<logVars, rows, answered, unrecorded>>
      /\ posted # <<>> /\ posted' = Tail(posted) /\ hand = Idle
  BY DEF Handle, ghostVars
<1>2. /\ 1 \in DOMAIN posted /\ Head(posted) = posted[1] /\ posted[1] \in Events
      /\ \A i \in DOMAIN posted' : i + 1 \in DOMAIN posted /\ posted'[i] = posted[i + 1] /\ i + 1 # 1 /\ i \in Nat
  BY <1>1, ServingFacts, TailEvents DEF TypeOK
<1>3. PICK e \in Events : e = Head(posted) /\ e = posted[1]
  BY <1>2
<1>4. PICK t \in Tasks : t = e.task
  BY DEF Events
<1>5. e = [kind |-> e.kind, task |-> t]
  BY <1>4 DEF Events
<1>6. loop \in [Tasks -> Statuses]
  BY <1>1, ServingFacts DEF TypeOK
<1>7. \/ /\ e.kind = "task_created" /\ loop[t] = "absent" /\ loop'[t] = "waiting" /\ hand' = Idle
         /\ todo' = <<Save(t)>> /\ section' = "drain" /\ \A u \in Tasks : u # t => loop'[u] = loop[u]
      \/ /\ e.kind \in Values /\ loop[t] \in {"waiting", "revived"} /\ loop' = loop
         /\ hand' = [job |-> "approval", task |-> t] /\ UNCHANGED <<todo, section>>
      \/ /\ e.kind \in Values /\ loop' = loop /\ hand' = Idle
         /\ todo' = <<Save(t)>> /\ section' = "drain"
  <2>1. Go("drain", <<Save(t)>>) => todo' = <<Save(t)>> /\ section' = "drain"
    BY Tuples DEF Go
  <2>2. CASE /\ e.kind = "task_created" /\ loop[t] = "absent" /\ loop' = [loop EXCEPT ![t] = "waiting"]
             /\ Go("drain", <<Save(t)>>) /\ UNCHANGED hand
    BY <1>1, <1>6, <2>1, <2>2
  <2>3. CASE /\ e.kind \in Values /\ loop[t] \in {"waiting", "revived"}
             /\ hand' = [job |-> "approval", task |-> t] /\ UNCHANGED <<loop, todo, section>>
    BY <2>3
  <2>4. CASE e.kind \in Values /\ Go("drain", <<Save(t)>>) /\ UNCHANGED <<loop, hand>>
    BY <1>1, <2>1, <2>4
  <2> QED
    BY <1>3, <1>4, <2>2, <2>3, <2>4 DEF Handle
<1>8. HandSound'
  BY <1>7 DEF HandSound, Gone
<1>9. /\ \A u : Announced(u)' => Announced(u)
      /\ e.kind = "task_created" => Announced(t) /\ ~Announced(t)'
  <2>1. \A u : Announced(u)' => Announced(u)
    BY <1>2 DEF Announced
  <2>2. ASSUME e.kind = "task_created"
        PROVE  Announced(t)
    BY <1>2, <1>3, <1>4, <2>2 DEF Announced
  <2>3. ASSUME e.kind = "task_created", NEW i \in DOMAIN posted',
               posted'[i].kind = "task_created", posted'[i].task = t
        PROVE  FALSE
    <3>1. /\ i + 1 \in DOMAIN posted /\ posted[i + 1] \in Events
          /\ posted[i + 1].kind = "task_created" /\ posted[i + 1].task = t
      BY <1>1, <1>2, <2>3, ServingFacts DEF TypeOK
    <3>2. posted[i + 1] = posted[1]
      BY <1>3, <1>5, <2>3, <3>1 DEF Events
    <3> QED
      BY <1>1, <1>2, <3>1, <3>2, ServingFacts DEF LoopSound
  <2> QED
    BY <2>1, <2>2, <2>3 DEF Announced
<1>10. \A u : Cancelled(u)' <=> Cancelled(u)
  BY <1>1 DEF Cancelled, Has
<1>11. Taken' = Taken /\ \A u, v : Stands(Taken, u, v)' <=> Stands(Taken, u, v)
  BY <1>1, ServingKept DEF Stands, Spoiled, Has
<1>12. Backed(loop)'
  <2> SUFFICES ASSUME NEW u \in Tasks
               PROVE  /\ loop'[u] # "absent" => Has(Taken, "create", u)' /\ Has(Taken, "intake", u)'
                      /\ loop'[u] = "active" => Stands(Taken, u, "approved")'
    BY DEF Backed
  <2>1. CASE loop'[u] = loop[u]
    BY <1>1, <1>11, <2>1, ServingFacts DEF LoopSound, Backed, Has
  <2>2. CASE u = t /\ loop'[t] = "waiting" /\ e.kind = "task_created"
    BY <1>1, <1>9, <1>11, <2>2, ServingFacts DEF LoopSound, Has
  <2> QED
    BY <1>7, <2>1, <2>2
<1>13. \A u \in Tasks : Announced(u)' => (Has(Taken, "create", u) /\ Has(Taken, "intake", u) /\ Unseen(u))'
  <2> SUFFICES ASSUME NEW u \in Tasks, Announced(u)'
               PROVE  Has(Taken, "create", u)' /\ Has(Taken, "intake", u)' /\ loop'[u] = "absent" /\ ~Cancelled(u)'
    BY DEF Unseen
  <2>1. Has(Taken, "create", u) /\ Has(Taken, "intake", u) /\ loop[u] = "absent" /\ ~Cancelled(u)
    BY <1>1, <1>9, ServingFacts DEF LoopSound, Unseen
  <2>2. u = t => e.kind # "task_created"
    BY <1>9
  <2> QED
    BY <1>7, <1>10, <1>11, <2>1, <2>2 DEF Has
<1>14. \A i, j \in DOMAIN posted' : posted'[i].kind = "task_created" /\ posted'[i] = posted'[j] => i = j
  <2> TAKE i, j \in DOMAIN posted'
  <2>1. posted[i + 1].kind = "task_created" /\ posted[i + 1] = posted[j + 1] => i + 1 = j + 1
    BY <1>1, <1>2, ServingFacts DEF LoopSound
  <2> QED
    BY <1>2, <2>1
<1>15. Uncancelled' = {}
  <2>1. e.kind = "task_created" => ~Cancelled(t)
    BY <1>1, <1>9, ServingFacts DEF LoopSound, Unseen
  <2>2. \A u \in Tasks : Cancelled(u) => loop[u] \notin {"waiting", "active"}
    BY <1>1, ServingFacts DEF Uncancelled
  <2>3. \A u \in Tasks : Cancelled(u)' => loop'[u] \notin {"waiting", "active"}
    BY <1>7, <1>10, <2>1, <2>2
  <2> QED
    BY <2>3 DEF Uncancelled
<1>16. LoopSound'
  BY <1>8, <1>12, <1>13, <1>14, <1>15 DEF LoopSound
<1>17. SectionSound'
  BY <1>1, <1>7, ServingFacts DEF SectionSound
<1> QED
  BY <1>1, <1>16, <1>17, ServingKept DEF Sound, OpenSound

(* Posting an event: a task is announced when its binding is on disk, a    *)
(* decision of a task that the Manager knows.                              *)
LEMMA PostSteps ==
    ASSUME RuntimeInv, Running("post")
    PROVE  \/ \E t \in Tasks, m \in Messages :
                  /\ section = "submit" /\ todo = <<Announce(t, m)>> /\ Call("intake", t, m) \in Taken
                  /\ Has(Taken, "create", t) /\ Unseen(t) /\ ~Announced(t)
           \/ \E t \in Tasks, v \in Values :
                  /\ section = "decide" /\ todo = <<Emit(t, v), Emitted(t, v)>>
                  /\ Call("decision", t, v) \in rows /\ Stands(rows, t, v)
<1>1. SectionSound /\ todo # <<>> /\ Step.do = "post"
  BY DEF RuntimeInv, Sound, OpenSound, Running
<1>2. ASSUME NEW t \in Tasks, NEW m \in Messages, Submitting(t, m)
      PROVE  /\ todo = <<Announce(t, m)>> /\ Call("intake", t, m) \in Taken
             /\ Has(Taken, "create", t) /\ Unseen(t) /\ ~Announced(t)
  BY <1>1, <1>2, Tuples, Kinds DEF Submitting, Step, CreateRow, Bind
<1>3. ASSUME NEW t \in Tasks, Cancelling(t)
      PROVE  FALSE
  <2>1. Step = Save(t) \/ Step = CancelRow(t) \/ Step = Confirm(t)
    BY <1>3, Tuples DEF Cancelling, Step
  <2> QED
    BY <1>1, <2>1, Kinds DEF CancelRow, Confirm
<1>4. ASSUME NEW t \in Tasks, NEW v \in Values, Deciding(t, v)
      PROVE  /\ todo = <<Emit(t, v), Emitted(t, v)>>
             /\ Call("decision", t, v) \in rows /\ Stands(rows, t, v)
  <2>1. todo # <<Emitted(t, v)>>
    BY <1>1, <1>4, Tuples, Kinds DEF Step, Emitted, Deciding
  <2>2. \A c : Step # Journal(c)
    BY <1>1, Kinds
  <2>3. todo = Decision(t, v) => /\ todo = AfterDecision(t, v)
                                 /\ Call("decision", t, v) \in rows /\ Stands(rows, t, v)
    BY <2>2, DecisionSteps DEF Step, Stands
  <2> QED
    BY <1>1, <1>4, <2>1, <2>3 DEF Deciding, AfterDecision
<1>5. ASSUME NEW t \in Tasks, todo = <<Save(t)>>
      PROVE  FALSE
  BY <1>1, <1>5, Tuples, Kinds DEF Step
<1>6. ~Starting
  <2>1. ASSUME Starting
        PROVE  \/ Step \in {Reconcile, SaveAll, Honour}
               \/ \E t \in Tasks : Step = Save(t) \/ Step = CancelRow(t) \/ Step = Mark(t)
    BY <2>1, Tuples DEF Starting, Step
  <2> QED
    BY <1>1, <2>1, Kinds DEF CancelRow, Mark
<1> QED
  BY <1>1, <1>2, <1>3, <1>4, <1>5, <1>6 DEF SectionSound

LEMMA PostedEvents ==
    ASSUME posted \in Seq(Events), NEW e \in Events, posted' = Append(posted, e)
    PROVE  /\ \A i \in DOMAIN posted : i \in DOMAIN posted' /\ posted'[i] = posted[i]
           /\ \A i \in DOMAIN posted' : i \in DOMAIN posted \/ (i = Len(posted) + 1 /\ posted'[i] = e)
           /\ Len(posted) + 1 \in DOMAIN posted' /\ posted'[Len(posted) + 1] = e
OBVIOUS

LEMMA PostsInv ==
    ASSUME RuntimeInv, Posts
    PROVE  Sound'
<1>1. /\ IInv /\ TypeOK /\ DiskSound /\ CheckpointsSound /\ FactsSound
      /\ phase = "open" /\ MemorySound /\ LoopSound /\ SectionSound
  BY DEF RuntimeInv, Sound, OpenSound, Posts, Running
<1>2. /\ UNCHANGED <<logVars, rows, loop, hand, unrecorded>>
      /\ posted' = Append(posted, Step.event) /\ answered' = answered \cup Step.tell /\ GoOn(Tail(todo))
  BY DEF Posts
<1>3. Taken' = Taken /\ phase' = "open"
  BY <1>1, <1>2, Quiet
<1>4. MemorySound'
  BY <1>1, <1>2, <1>3, MemoryKept
<1>5. PICK e \in Events :
        /\ e = Step.event
        /\ \/ /\ e.kind = "task_created" /\ ~Announced(e.task) /\ Unseen(e.task)
              /\ Has(Taken, "create", e.task) /\ Has(Taken, "intake", e.task)
              /\ section = "submit" /\ Tail(todo) = <<>>
              /\ \A f \in Step.tell : Proven(f)
           \/ /\ e.kind \in Values /\ section = "decide"
              /\ Call("decision", e.task, e.kind) \in rows /\ Stands(rows, e.task, e.kind)
              /\ Tail(todo) = <<Emitted(e.task, e.kind)>> /\ Step.tell = {}
  <2>1. ASSUME NEW t \in Tasks, NEW m \in Messages, section = "submit",
               todo = <<Announce(t, m)>>, Call("intake", t, m) \in Taken,
               Has(Taken, "create", t), Unseen(t), ~Announced(t),
               NEW e, e = [kind |-> "task_created", task |-> t]
        PROVE  /\ e \in Events /\ e = Step.event /\ e.kind = "task_created" /\ e.task = t
               /\ Has(Taken, "intake", t) /\ Tail(todo) = <<>>
               /\ \A f \in Step.tell : Proven(f)
    <3>1. Step = Announce(t, m) /\ Tail(todo) = <<>>
      BY <2>1, Tuples DEF Step
    <3>2. Step.event = e /\ Step.tell = {Fact("accepted", t, m)}
      BY <2>1, <3>1, Kinds DEF Announce
    <3>3. Proven(Fact("accepted", t, m))
      BY <2>1, Kinds DEF Proven
    <3>4. Has(Taken, "intake", t)
      BY <2>1, Kinds DEF Has
    <3> QED
      BY <2>1, <3>1, <3>2, <3>3, <3>4 DEF Events
  <2>2. ASSUME NEW t \in Tasks, NEW v \in Values, todo = <<Emit(t, v), Emitted(t, v)>>,
               NEW e, e = [kind |-> v, task |-> t]
        PROVE  /\ e \in Events /\ e = Step.event /\ e.kind = v /\ e.task = t
               /\ Tail(todo) = <<Emitted(t, v)>> /\ Step.tell = {}
    <3>1. Step = Emit(t, v) /\ Tail(todo) = <<Emitted(t, v)>>
      BY <2>2, Tuples DEF Step
    <3> QED
      BY <2>2, <3>1, Kinds DEF Emit, Events
  <2>3. Running("post")
    BY DEF Posts
  <2>4. CASE \E t \in Tasks, m \in Messages :
                  /\ section = "submit" /\ todo = <<Announce(t, m)>> /\ Call("intake", t, m) \in Taken
                  /\ Has(Taken, "create", t) /\ Unseen(t) /\ ~Announced(t)
    <3>1. PICK t \in Tasks, m \in Messages :
                  /\ section = "submit" /\ todo = <<Announce(t, m)>> /\ Call("intake", t, m) \in Taken
                  /\ Has(Taken, "create", t) /\ Unseen(t) /\ ~Announced(t)
      BY <2>4
    <3>2. PICK e : e = [kind |-> "task_created", task |-> t]
      OBVIOUS
    <3> QED
      BY <2>1, <3>1, <3>2
  <2>5. CASE \E t \in Tasks, v \in Values :
                  /\ section = "decide" /\ todo = <<Emit(t, v), Emitted(t, v)>>
                  /\ Call("decision", t, v) \in rows /\ Stands(rows, t, v)
    <3>1. PICK t \in Tasks, v \in Values :
                  /\ section = "decide" /\ todo = <<Emit(t, v), Emitted(t, v)>>
                  /\ Call("decision", t, v) \in rows /\ Stands(rows, t, v)
      BY <2>5
    <3>2. PICK e : e = [kind |-> v, task |-> t]
      OBVIOUS
    <3> QED
      BY <2>2, <3>1, <3>2
  <2> QED
    BY <2>3, <2>4, <2>5, PostSteps
<1>6. DiskSound' /\ CheckpointsSound' /\ FactsSound'
  BY <1>1, <1>2, <1>5, QuietDisk
<1>7. LoopSound'
  <2>1. /\ \A i \in DOMAIN posted : i \in DOMAIN posted' /\ posted'[i] = posted[i]
        /\ \A i \in DOMAIN posted' : i \in DOMAIN posted \/ (i = Len(posted) + 1 /\ posted'[i] = e)
    BY <1>1, <1>2, <1>5, PostedEvents DEF TypeOK
  <2>2. "task_created" \notin Values
    BY DEF Values
  <2>3. \A t : Announced(t)' => Announced(t) \/ (e.kind = "task_created" /\ t = e.task)
    BY <2>1 DEF Announced
  <2>4. \A t : Cancelled(t)' <=> Cancelled(t)
    BY <1>2 DEF Cancelled, Has
  <2>5. \A t \in Tasks : Announced(t)' => (Has(Taken, "create", t) /\ Has(Taken, "intake", t) /\ Unseen(t))'
    BY <1>1, <1>2, <1>3, <1>5, <2>2, <2>3, <2>4 DEF LoopSound, Unseen, Has
  <2>6. \A i, j \in DOMAIN posted' : posted'[i].kind = "task_created" /\ posted'[i] = posted'[j] => i = j
    <3> SUFFICES ASSUME NEW i \in DOMAIN posted', NEW j \in DOMAIN posted',
                        posted'[i].kind = "task_created", posted'[i] = posted'[j]
                 PROVE  i = j
      OBVIOUS
    <3>1. CASE i \in DOMAIN posted /\ j \in DOMAIN posted
      BY <1>1, <2>1, <3>1 DEF LoopSound
    <3>2. CASE i \notin DOMAIN posted /\ j \notin DOMAIN posted
      BY <2>1, <3>2
    <3>3. ASSUME NEW k \in DOMAIN posted, posted[k] = e, e.kind = "task_created"
          PROVE  FALSE
      <4>1. Announced(e.task)
        BY <3>3 DEF Announced
      <4> QED
        BY <1>5, <2>2, <3>3, <4>1
    <3> QED
      BY <2>1, <3>1, <3>2, <3>3
  <2>7. HandSound'
    BY <1>1, <1>2 DEF LoopSound, HandSound
  <2>8. section' # "start" => Uncancelled' = {}
    <3>1. Uncancelled = {}
      BY <1>1, <1>5 DEF LoopSound
    <3> QED
      BY <1>2, <2>4, <3>1 DEF Uncancelled
  <2>9. Backed(loop)'
    BY <1>1, <1>2, <1>3 DEF LoopSound, Backed, Stands, Spoiled, Has
  <2> QED
    BY <1>1, <1>2, <2>5, <2>6, <2>7, <2>8, <2>9 DEF LoopSound
<1>8. SectionSound'
  <2>1. CASE Tail(todo) = <<>>
    BY <1>2, <2>1, Over
  <2>2. CASE /\ e.kind \in Values /\ section = "decide"
             /\ Call("decision", e.task, e.kind) \in rows /\ Stands(rows, e.task, e.kind)
             /\ Tail(todo) = <<Emitted(e.task, e.kind)>>
    <3>1. todo' = <<Emitted(e.task, e.kind)>> /\ todo' # <<>> /\ section' = "decide"
      BY <1>2, <2>2, Tuples DEF GoOn, Go
    <3>2. Deciding(e.task, e.kind)'
      BY <1>2, <2>2, <3>1 DEF Deciding, Emitted, Stands, Spoiled, Has
    <3>3. e.task \in Tasks
      BY DEF Events
    <3> QED
      BY <2>2, <3>1, <3>2, <3>3 DEF SectionSound
  <2> QED
    BY <1>5, <2>1, <2>2
<1> QED
  BY <1>3, <1>4, <1>6, <1>7, <1>8 DEF Sound, OpenSound

(* A start, from the loaded log to the first request.                      *)
LEMMA StartSteps ==
    ASSUME SectionSound, todo # <<>>, Step.do \in {"reconcile", "honour"}
    PROVE  /\ section = "start" /\ posted = <<>> /\ hand = Idle
           /\ Step.do = "reconcile" => todo = <<Reconcile, Honour>>
           /\ Step.do = "honour" => todo = <<Honour>>
<1>1. ASSUME NEW t \in Tasks, NEW m \in Messages, Submitting(t, m)
      PROVE  FALSE
  <2>1. Step = CreateRow(t) \/ Step = Bind(t, m) \/ Step = Announce(t, m)
    BY <1>1, Tuples DEF Submitting, Step
  <2> QED
    BY <2>1, Kinds DEF CreateRow, Bind, Announce
<1>2. ASSUME NEW t \in Tasks, Cancelling(t)
      PROVE  FALSE
  <2>1. Step = Save(t) \/ Step = CancelRow(t) \/ Step = Confirm(t)
    BY <1>2, Tuples DEF Cancelling, Step
  <2> QED
    BY <2>1, Kinds DEF CancelRow, Confirm
<1>3. ASSUME NEW t \in Tasks, NEW v \in Values, Deciding(t, v)
      PROVE  FALSE
  <2>1. Step \in {Emit(t, v), Emitted(t, v), Journal(Call("approval", t, "approval")),
                  Journal(Call("decide", t, v)), Journal(Call("decision", t, v))}
    BY <1>3, Tuples, DecisionSteps DEF Deciding, AfterDecision, Step
  <2> QED
    BY <2>1, Kinds DEF Emit, Emitted
<1>4. \A t \in Tasks : todo # <<Save(t)>> /\ todo # <<Save(t), Honour>>
  BY Tuples, Kinds DEF Step
<1>5. todo # <<SaveAll, Honour>>
  BY Tuples, Kinds DEF Step
<1>6. \A t \in Tasks : todo # <<CancelRow(t), Mark(t), Reconcile, Honour>> /\ todo # <<Mark(t), Reconcile, Honour>>
  BY Tuples, Kinds DEF Step, CancelRow, Mark
<1>7. Starting => posted = <<>> /\ hand = Idle /\ todo \in {<<Reconcile, Honour>>, <<Honour>>}
  BY <1>4, <1>5, <1>6 DEF Starting
<1>8. Step.do = "reconcile" => todo # <<Honour>>
  BY Tuples, Kinds DEF Step
<1>9. Step.do = "honour" => todo # <<Reconcile, Honour>>
  BY Tuples, Kinds DEF Step
<1> QED
  BY <1>1, <1>2, <1>3, <1>4, <1>7, <1>8, <1>9 DEF SectionSound

(* Steps put before others.                                                *)
LEMMA Joined ==
    /\ \A a \in Steps, b \in Steps : <<a>> \o <<b>> = <<a, b>>
    /\ \A a, b, c, d \in Steps : <<a, b>> \o <<c, d>> = <<a, b, c, d>>
<1>1. ASSUME NEW a \in Steps, NEW b \in Steps
      PROVE  <<a>> \o <<b>> = <<a, b>>
  <2>1. <<a>> \in Seq(Steps) /\ <<b>> \in Seq(Steps) /\ <<a, b>> \in Seq(Steps)
    BY TupleTypes
  <2>2. /\ <<a>> \o <<b>> \in Seq(Steps) /\ Len(<<a>> \o <<b>>) = 2
        /\ (<<a>> \o <<b>>)[1] = a /\ (<<a>> \o <<b>>)[2] = b
    BY <2>1, ConcatProperties
  <2>3. Len(<<a, b>>) = 2 /\ <<a, b>>[1] = a /\ <<a, b>>[2] = b
    OBVIOUS
  <2>4. \A i \in 1..2 : i = 1 \/ i = 2
    OBVIOUS
  <2> QED
    BY <2>1, <2>2, <2>3, <2>4, SeqEqual
<1>2. ASSUME NEW a \in Steps, NEW b \in Steps, NEW c \in Steps, NEW d \in Steps
      PROVE  <<a, b>> \o <<c, d>> = <<a, b, c, d>>
  <2>1. <<a, b>> \in Seq(Steps) /\ <<c, d>> \in Seq(Steps) /\ <<a, b, c, d>> \in Seq(Steps)
    BY TupleTypes
  <2>2. /\ <<a, b>> \o <<c, d>> \in Seq(Steps) /\ Len(<<a, b>> \o <<c, d>>) = 4
        /\ (<<a, b>> \o <<c, d>>)[1] = a /\ (<<a, b>> \o <<c, d>>)[2] = b
        /\ (<<a, b>> \o <<c, d>>)[3] = c /\ (<<a, b>> \o <<c, d>>)[4] = d
    BY <2>1, ConcatProperties
  <2>3. /\ Len(<<a, b, c, d>>) = 4 /\ <<a, b, c, d>>[1] = a /\ <<a, b, c, d>>[2] = b
        /\ <<a, b, c, d>>[3] = c /\ <<a, b, c, d>>[4] = d
    OBVIOUS
  <2>4. \A i \in 1..4 : i = 1 \/ i = 2 \/ i = 3 \/ i = 4
    OBVIOUS
  <2> QED
    BY <2>1, <2>2, <2>3, <2>4, SeqEqual
<1> QED
  BY <1>1, <1>2

LEMMA StartingInv ==
    ASSUME RuntimeInv, Reconciles \/ Honours
    PROVE  Sound'
<1>1. /\ IInv /\ TypeOK /\ DiskSound /\ CheckpointsSound /\ FactsSound
      /\ phase = "open" /\ MemorySound /\ LoopSound /\ SectionSound
      /\ todo # <<>> /\ Step.do \in {"reconcile", "honour"}
  BY DEF RuntimeInv, Sound, OpenSound, Reconciles, Honours, Running
<1>2. UNCHANGED <<logVars, rows, hand, posted, answered, unrecorded>>
  BY DEF Reconciles, Honours, ghostVars
<1>3. Taken' = Taken /\ phase' = "open" /\ DiskSound' /\ CheckpointsSound' /\ FactsSound'
  BY <1>1, <1>2, Quiet, QuietDisk
<1>4. MemorySound'
  BY <1>1, <1>2, <1>3, MemoryKept
<1>5. section = "start" /\ posted = <<>> /\ hand = Idle
  BY <1>1, StartSteps
<1>6. Reconcile \in Steps /\ Honour \in Steps /\ SaveAll \in Steps
      /\ \A t \in Tasks : Save(t) \in Steps /\ CancelRow(t) \in Steps /\ Mark(t) \in Steps
  BY StepTypes, NamedSteps
<1>7. CASE Reconciles
  <2>1. todo = <<Reconcile, Honour>> /\ Tail(todo) = <<Honour>> /\ loop' = loop
    BY <1>1, <1>7, StartSteps, Tuples DEF Reconciles, Running
  <2>2. ASSUME NEW t \in Unstarted,
               GoOn(<< Journal(Call("cancel", t, "cancel")),
                       Journal(Call("cancel_requested", t, "cancel_requested")) >> \o todo)
        PROVE  section' = "start" /\ Starting'
    <3>1. t \in Tasks /\ Has(rows, "intake", t) /\ ~Cancelled(t)
      BY <2>2 DEF Unstarted
    <3>2. Has(rows, "intake", t)' /\ ~Cancelled(t)'
      BY <1>2, <3>1 DEF Cancelled, Has
    <3>3. todo' = <<CancelRow(t), Mark(t), Reconcile, Honour>> /\ section' = "start"
      BY <1>5, <1>6, <2>1, <2>2, <3>1, Joined, Tuples DEF GoOn, Go, CancelRow, Mark
    <3> QED
      BY <1>2, <1>5, <3>1, <3>2, <3>3 DEF Starting, CancelRow, Mark
  <2>3. ASSUME GoOn((IF loop = Nothing THEN <<>> ELSE <<SaveAll>>) \o Tail(todo))
        PROVE  section' = "start" /\ Starting'
    <3>1. <<>> \o <<Honour>> = <<Honour>> /\ <<SaveAll>> \o <<Honour>> = <<SaveAll, Honour>>
      BY <1>6, Joined, TupleTypes
    <3>2. todo' \in {<<SaveAll, Honour>>, <<Honour>>} /\ section' = "start"
      BY <1>5, <2>1, <2>3, <3>1, Tuples DEF GoOn, Go
    <3> QED
      BY <1>2, <1>5, <3>2 DEF Starting
  <2>4. section' = "start" /\ Starting'
    BY <1>7, <2>2, <2>3 DEF Reconciles
  <2>5. LoopSound'
    BY <1>1, <1>2, <1>3, <1>5, <2>1, <2>4, LoopKept DEF HandSound
  <2> QED
    BY <1>3, <1>4, <2>4, <2>5 DEF Sound, OpenSound, SectionSound
<1>8. CASE Honours
  <2>1. todo = <<Honour>> /\ Tail(todo) = <<>>
    BY <1>1, <1>8, StartSteps, Tuples DEF Honours, Running
  <2>2. ASSUME NEW t \in Uncancelled, loop' = [loop EXCEPT ![t] = "cancelled"], GoOn(<<Save(t)>> \o todo)
        PROVE  LoopSound' /\ SectionSound'
    <3>1. t \in Tasks /\ loop[t] # "absent" /\ loop'[t] = "cancelled"
          /\ \A u \in Tasks : u # t => loop'[u] = loop[u]
      BY <1>1, <2>2 DEF Uncancelled, TypeOK
    <3>2. <<Save(t)>> \o <<Honour>> = <<Save(t), Honour>>
      BY <1>6, <3>1, Joined
    <3>3. todo' = <<Save(t), Honour>> /\ section' = "start"
      BY <1>5, <2>1, <2>2, <3>2, Tuples DEF GoOn, Go
    <3>4. SectionSound'
      BY <1>2, <1>5, <3>1, <3>3 DEF SectionSound, Starting
    <3>5. LoopSound'
      BY <1>1, <1>2, <1>3, <1>5, <3>1, <3>3, LoopKept DEF HandSound, Gone
    <3> QED
      BY <3>4, <3>5
  <2>3. ASSUME Uncancelled = {}, GoOn(Tail(todo)), loop' = loop
        PROVE  LoopSound' /\ SectionSound'
    <3>1. SectionSound'
      BY <2>1, <2>3, Over
    <3>2. LoopSound'
      BY <1>1, <1>2, <1>3, <1>5, <2>3, LoopKept DEF HandSound
    <3> QED
      BY <3>1, <3>2
  <2>4. LoopSound' /\ SectionSound'
    BY <1>8, <2>2, <2>3 DEF Honours
  <2> QED
    BY <1>3, <1>4, <2>4 DEF Sound, OpenSound
<1> QED
  BY <1>7, <1>8

LEMMA StartInv ==
    ASSUME RuntimeInv, Start
    PROVE  Sound'
<1>1. /\ IInv /\ TypeOK /\ DiskSound /\ CheckpointsSound /\ FactsSound /\ Forgotten
      /\ phase = "down" /\ phase' = "open" /\ lost' = lost
      /\ Disk = file /\ Disk' = file /\ Taken' = Taken /\ Taken = Replayed(file)
  BY DEF RuntimeInv, Sound, Start, Open, ghosts, Disk, Taken
<1>2. /\ Replays(file) /\ rows' = Taken /\ UNCHANGED <<hand, posted, answered, unrecorded>>
      /\ todo' = <<Reconcile, Honour>> /\ section' = "start"
  BY <1>1, Tuples DEF Start, Go, ghostVars
<1>3. DiskSound' /\ CheckpointsSound' /\ FactsSound'
  <2>1. DiskSound'
    BY <1>1, <1>2, DiskKept DEF DiskSound
  <2>2. CheckpointsSound'
    BY <1>1, <1>2, Outlives DEF CheckpointsSound
  <2>3. FactsSound'
    BY <1>1, <1>2, FactsKept
  <2> QED
    BY <2>1, <2>2, <2>3
<1>4. MemorySound'
  <2>1. ASSUME NEW t \in Tasks, Has(Taken, "cancel", t)
        PROVE  Has(Taken, "create", t)
    <3>1. PICK e \in CallsOf(file) : e.rec.op = "cancel" /\ e.rec.task = t
      BY <1>1, <2>1 DEF Has, Replayed
    <3>2. Takes(Replayed({f \in file : f.id < e.id}), e.rec)
      BY <1>2 DEF Replays
    <3>3. Has(Replayed({f \in file : f.id < e.id}), "create", t)
      BY <3>1, <3>2 DEF Takes
    <3>4. Replayed({f \in file : f.id < e.id}) \subseteq Taken
      BY <1>1 DEF Replayed, CallsOf
    <3> QED
      BY <3>3, <3>4, HasMore
  <2>2. ASSUME NEW t \in Tasks, Cancelled(t)' \/ Has(rows, "intake", t)'
        PROVE  Created(t)'
    BY <1>1, <1>2, <2>1, <2>2 DEF Cancelled, Created, DiskSound, Has
  <2>3. OneDecision(rows)'
    BY <1>1, <1>2 DEF DiskSound, OneDecision
  <2>4. \A r \in rows' : r.op = "decision" => Stands(rows, r.task, r.val)'
    BY <1>1, <1>2 DEF DiskSound, Stands, Spoiled, Has
  <2> QED
    BY <1>1, <1>2, <2>2, <2>3, <2>4 DEF MemorySound
<1>5. Backed(Saved(file))
  <2>1. Backed(Nothing)
    BY DEF Backed, Nothing
  <2>2. file \subseteq Entry /\ Below(file) /\ next \in Nat
    BY <1>1 DEF IInv, LogTypeOK
  <2> QED
    BY <1>1, <2>1, <2>2, SavedIs DEF CheckpointsSound
<1>6. Backed(loop)'
  <2>1. \A t \in Tasks : /\ loop'[t] # "absent" => Saved(file)[t] # "absent"
                         /\ loop'[t] = "active" => Saved(file)[t] = "active"
    <3> TAKE t \in Tasks
    <3>1. loop'[t] \in Resumed(Saved(file)[t])
      BY DEF Start
    <3> QED
      BY <3>1 DEF Resumed, Gone
  <2> QED
    BY <1>1, <1>2, <1>5, <2>1 DEF Backed, Stands, Spoiled, Has
<1>7. LoopSound'
  <2>1. posted' = <<>> /\ DOMAIN posted' = {}
    BY <1>1, <1>2 DEF Forgotten
  <2>2. HandSound'
    BY <1>1, <1>2 DEF Forgotten, HandSound
  <2> QED
    BY <1>2, <1>6, <2>1, <2>2 DEF LoopSound, Announced
<1>8. SectionSound'
  BY <1>1, <1>2 DEF SectionSound, Starting, Forgotten
<1> QED
  BY <1>1, <1>3, <1>4, <1>7, <1>8 DEF Sound, OpenSound

(* A crash, wherever it comes, and what is done while the runtime is down. *)
LEMMA CrashInv ==
    ASSUME RuntimeInv, Crash
    PROVE  Sound'
<1>1. IInv /\ TypeOK /\ DiskSound /\ CheckpointsSound /\ FactsSound
  BY DEF RuntimeInv, Sound
<1>2. Forgotten' /\ UNCHANGED <<unrecorded, answered>>
  BY DEF Crash, Forget, Forgotten, ghostVars
<1>3. CASE Running("record") /\ DiesAppending(Step.call)
  <2>1. phase = "open" /\ OpenSound /\ MemorySound
    BY <1>3 DEF RuntimeInv, Sound, OpenSound, Running
  <2>2. Relies(Step.call) /\ Step.call \in Calls /\ Step.call \in Record
    BY <1>1, <1>3, <2>1, StepReady, RecordKinds DEF Ready, Relies, TypeOK
  <2>3. CallStep(Step.call)
    BY <1>2, <1>3 DEF CallStep
  <2>4. DiskSound' /\ CheckpointsSound'
    BY <1>1, <2>1, <2>2, <2>3, DiskCall, CheckpointsCall
  <2>5. lost' = lost /\ phase' = "down"
    BY <1>3 DEF DiesAppending
  <2>6. FactsSound'
    BY <1>1, <1>2, <2>1, <2>2, <2>3, <2>5, CallOnDisk, FactsKept
  <2> QED
    BY <1>2, <2>4, <2>5, <2>6 DEF Sound
<1>4. CASE Running("save") /\ DiesAppending(SaveRecord)
  <2>1. phase = "open" /\ Backed(loop)
    BY <1>4 DEF RuntimeInv, Sound, OpenSound, Running, LoopSound
  <2>2. DiskSound' /\ CheckpointsSound' /\ Taken' = Taken
    BY <1>1, <1>2, <1>4, <2>1, DiskSave, SaveOnDisk
  <2>3. lost' = lost /\ phase' = "down"
    BY <1>4 DEF DiesAppending
  <2>4. FactsSound'
    BY <1>1, <1>2, <2>2, <2>3, FactsKept
  <2> QED
    BY <1>2, <2>2, <2>3, <2>4 DEF Sound
<1>5. CASE Dies
  <2>1. phase' = "down"
    BY <1>5 DEF Dies
  <2> QED
    BY <1>1, <1>2, <1>5, <2>1, DiesSound DEF Sound
<1> QED
  BY <1>3, <1>4, <1>5 DEF Crash

LEMMA MaintainInv ==
    ASSUME RuntimeInv, Maintain
    PROVE  Sound'
<1>1. phase # "open" /\ phase' # "open"
  BY DEF Maintain, Compact, MoveAway, MoveIn
<1>2. Forgotten'
  BY <1>1 DEF RuntimeInv, Sound, Forgotten, Maintain, runtimeVars
<1> QED
  BY <1>1, <1>2, MaintainSound DEF RuntimeInv, Sound

LEMMA StutterRuntime ==
    ASSUME RuntimeInv, UNCHANGED vars
    PROVE  Sound'
<1>1. /\ IInv /\ TypeOK /\ DiskSound /\ CheckpointsSound /\ FactsSound
      /\ UNCHANGED <<logVars, rows, loop, hand, posted, todo, section, at, answered, unrecorded>>
  BY DEF RuntimeInv, Sound, vars, runtimeVars, ghostVars
<1>2. DiskSound' /\ CheckpointsSound' /\ FactsSound' /\ Taken' = Taken /\ phase' = phase
  BY <1>1, Quiet, QuietDisk
<1>3. ASSUME phase = "open"
      PROVE  OpenSound'
  <2>1. MemorySound /\ LoopSound /\ SectionSound
    BY <1>3 DEF RuntimeInv, Sound, OpenSound
  <2>2. MemorySound' /\ SectionSound'
    BY <1>1, <1>2, <2>1, MemoryKept, SectionKept
  <2>3. LoopSound'
    BY <1>1, <1>2, <2>1, LoopKept DEF LoopSound, HandSound
  <2> QED
    BY <2>2, <2>3 DEF OpenSound
<1>4. ASSUME phase # "open"
      PROVE  Forgotten'
  BY <1>1, <1>4 DEF RuntimeInv, Sound, Forgotten
<1> QED
  BY <1>2, <1>3, <1>4 DEF Sound

---------------------------------------------------------------------------
(* Types, from the data of each action and the shape of what is left.      *)
Waits ==
    {Idle} \cup [job : {"classify"}, msg : Messages] \cup [job : {"decide"}, task : Tasks, val : Values]
Held == {Idle} \cup [job : {"approval", "work"}, task : Tasks]
DataOK ==
    /\ rows \subseteq Calls /\ unrecorded \subseteq Calls /\ answered \subseteq Facts
    /\ overtaken \subseteq Tasks /\ hand \in Held
    /\ loop \in [Tasks -> Statuses] /\ unsaved \in BOOLEAN /\ requests \in 0..MaxRequests
    /\ posted \in Seq(Events)
    /\ at \in [Handlers -> Waits]

LEMMA RequestData ==
    ASSUME requests \in 0..MaxRequests, requests < MaxRequests, requests' = requests + 1
    PROVE  requests' \in 0..MaxRequests
BY RequestAssumption

LEMMA AtData ==
    ASSUME DataOK, NEW h \in Handlers, NEW w, at' = [at EXCEPT ![h] = w],
           w \in Waits
    PROVE  at' \in [Handlers -> Waits]
BY DEF DataOK

LEMMA StepData ==
    ASSUME TypeOK, todo # <<>>
    PROVE  /\ Step \in Steps
           /\ Step.do = "record" => Step.call \in Calls /\ Step.tell \subseteq Facts
           /\ Step.do = "post" => Step.event \in Events /\ Step.tell \subseteq Facts
<1>1. Step \in Steps
  BY DEF TypeOK, Step
<1>2. \A t : Step # Save(t) \/ Step.do = "save"
  BY Kinds
<1>3. Step \in {SaveAll, Reconcile, Honour} => Step.do \in {"save", "reconcile", "honour"}
  BY Kinds
<1> QED
  BY <1>1, <1>2, <1>3 DEF Steps

LEMMA HandlerData ==
    ASSUME TypeOK, DataOK, NEW h \in Handlers,
           \/ \E m \in Messages : Submit(h, m)
           \/ Classified(h)
           \/ \E t \in Tasks, v \in Values : Press(h, t, v)
           \/ Required(h)
    PROVE  DataOK'
<1>1. UNCHANGED <<rows, loop, hand, unsaved, posted, overtaken, unrecorded>>
  BY DEF Submit, Classified, Press, Required, ghostVars
<1>6. answered' \subseteq Facts
  <2>1. \A m \in Messages : Accepted(m) \subseteq Facts
    BY StepTypes DEF Accepted
  <2>2. \A m \in Messages : Submit(h, m) => answered' \subseteq Facts
    BY <2>1 DEF Submit, DataOK
  <2>3. Classified(h) => answered' \subseteq Facts
    BY <2>1, AtFacts DEF Classified, DataOK
  <2>4. \A t \in Tasks, v \in Values : Press(h, t, v) => answered' \subseteq Facts
    BY StepTypes DEF Press, DataOK
  <2>5. Required(h) => answered' \subseteq Facts
    BY DEF Required, DataOK, ghostVars
  <2> QED
    BY <2>2, <2>3, <2>4, <2>5
<1>2. requests' = requests \/ (requests < MaxRequests /\ requests' = requests + 1)
  BY DEF Submit, Classified, Press, Required
<1>3. \/ at' = at
      \/ at' = [at EXCEPT ![h] = Idle]
      \/ \E m \in Messages : at' = [at EXCEPT ![h] = [job |-> "classify", msg |-> m]]
      \/ \E t \in Tasks, v \in Values : at' = [at EXCEPT ![h] = [job |-> "decide", task |-> t, val |-> v]]
  BY DEF Submit, Classified, Press, Required
<1>4. at' \in [Handlers -> Waits]
  <2>1. CASE at' = at
    BY <2>1 DEF DataOK
  <2>2. CASE at' = [at EXCEPT ![h] = Idle]
    BY <2>2, AtData DEF Waits
  <2>3. ASSUME NEW m \in Messages, at' = [at EXCEPT ![h] = [job |-> "classify", msg |-> m]]
        PROVE  at' \in [Handlers -> Waits]
    BY <2>3, AtData DEF Waits
  <2>4. ASSUME NEW t \in Tasks, NEW v \in Values,
               at' = [at EXCEPT ![h] = [job |-> "decide", task |-> t, val |-> v]]
        PROVE  at' \in [Handlers -> Waits]
    BY <2>4, AtData DEF Waits
  <2> QED
    BY <1>3, <2>1, <2>2, <2>3, <2>4
<1>5. requests' \in 0..MaxRequests
  BY <1>2, RequestData DEF DataOK
<1> QED
  BY <1>1, <1>4, <1>5, <1>6 DEF DataOK

LEMMA LoopData ==
    ASSUME DataOK, NEW t \in Tasks, NEW s \in Statuses, loop' = [loop EXCEPT ![t] = s]
    PROVE  loop' \in [Tasks -> Statuses]
BY DEF DataOK

LEMMA HandData ==
    ASSUME DataOK, hand # Idle
    PROVE  hand.task \in Tasks /\ loop[hand.task] \in Statuses
BY DEF DataOK, Held

LEMMA CancelData ==
    ASSUME DataOK, NEW t \in Tasks, Cancel(t)
    PROVE  DataOK'
<1>1. UNCHANGED <<rows, hand, unsaved, posted, at, unrecorded>>
  BY DEF Cancel
<1>2. loop' \in [Tasks -> Statuses]
  BY LoopData DEF Cancel, Statuses, DataOK
<1>3. answered' \subseteq Facts /\ overtaken' \subseteq Tasks
  BY StepTypes DEF Cancel, DataOK
<1>4. requests' \in 0..MaxRequests
  BY RequestData DEF Cancel, DataOK
<1> QED
  BY <1>1, <1>2, <1>3, <1>4 DEF DataOK

LEMMA MakesData ==
    ASSUME DataOK, hand # Idle, NEW s \in Statuses, Makes(s)
    PROVE  DataOK'
<1>1. UNCHANGED <<rows, unsaved, posted, at, requests, ghostVars>> /\ hand' = Idle
  BY DEF Makes
<1>2. loop' \in [Tasks -> Statuses]
  BY HandData, LoopData DEF Makes
<1> QED
  BY <1>1, <1>2 DEF DataOK, Held, ghostVars

LEMMA ManagerData ==
    ASSUME TypeOK, DataOK,
           Handle \/ Resolves \/ Finishes \/ Throws \/ (\E t \in Tasks : Cancel(t) \/ Works(t))
    PROVE  DataOK'
<1> USE DEF Statuses, Gone, Terminal
<1>1. CASE Handle
  <2>1. posted \in Seq(Events) /\ posted # <<>>
    BY <1>1 DEF DataOK, Handle
  <2>2. Head(posted) \in Events /\ Tail(posted) \in Seq(Events)
    BY <2>1
  <2>3. Head(posted).task \in Tasks
    BY <2>2 DEF Events
  <2>4. loop' \in [Tasks -> Statuses] /\ hand' \in Held
    BY <1>1, <2>3, LoopData DEF Handle, DataOK, Held
  <2>5. posted' \in Seq(Events) /\ UNCHANGED <<rows, unsaved, at, requests, answered, overtaken, unrecorded>>
    BY <1>1, <2>2 DEF Handle, ghostVars
  <2> QED
    BY <2>4, <2>5 DEF DataOK
<1>2. CASE Resolves
  <2>1. hand # Idle /\ \E s \in Statuses : Makes(s)
    BY <1>2, HandData DEF Resolves, Stopped
  <2> QED
    BY <2>1, MakesData
<1>3. CASE Finishes
  <2>1. hand # Idle /\ \E s \in Statuses : Makes(s)
    BY <1>3 DEF Finishes
  <2> QED
    BY <2>1, MakesData
<1>4. CASE Throws
  <2>1. loop' \in [Tasks -> Statuses]
    <3>1. hand.task \in Tasks
      BY <1>4, HandData DEF Throws
    <3>2. Stopped(loop[hand.task]) \in Statuses
      BY DEF Stopped
    <3>3. loop' = loop \/ loop' = [loop EXCEPT ![hand.task] = Stopped(loop[hand.task])]
      BY <1>4 DEF Throws
    <3> QED
      BY <3>1, <3>2, <3>3, LoopData DEF DataOK
  <2> QED
    BY <1>4, <2>1 DEF Throws, DataOK, Held, ghostVars
<1>5. ASSUME NEW t \in Tasks, Works(t)
      PROVE  DataOK'
  <2>1. hand' \in Held
    BY <1>5 DEF Works, Held
  <2> QED
    BY <1>5, <2>1 DEF Works, DataOK, ghostVars
<1> QED
  BY <1>1, <1>2, <1>3, <1>4, <1>5, CancelData

LEMMA RunningData ==
    ASSUME TypeOK, DataOK,
           Recorded \/ RecordFails \/ Posts \/ Saves \/ SaveSkipped \/ SaveFails \/ Reconciles \/ Honours
    PROVE  DataOK'
<1>1. todo # <<>> /\ UNCHANGED <<hand, at, requests, overtaken>>
  BY DEF Recorded, RecordFails, Posts, Saves, SaveSkipped, SaveFails, Reconciles, Honours, Running, ghostVars
<1>2. CASE Recorded \/ RecordFails
  BY <1>1, <1>2, StepData DEF Recorded, RecordFails, Running, DataOK
<1>3. CASE Posts
  BY <1>1, <1>3, StepData DEF Posts, Running, DataOK
<1>4. CASE Saves \/ SaveSkipped \/ Reconciles
  BY <1>1, <1>4 DEF Saves, SaveSkipped, Reconciles, DataOK, ghostVars
<1>5. CASE SaveFails
  <2>1. UNCHANGED <<rows, posted, answered, unrecorded>> /\ unsaved' \in BOOLEAN
    BY <1>5 DEF SaveFails, ghostVars
  <2>2. loop' \in [Tasks -> Statuses]
    <3>1. Stopped(loop[Step.task]) \in Statuses
      BY DEF Stopped, Statuses
    <3>2. loop' = loop \/ loop' = [loop EXCEPT ![Step.task] = Stopped(loop[Step.task])]
      BY <1>5 DEF SaveFails
    <3> QED
      BY <3>1, <3>2 DEF DataOK
  <2> QED
    BY <1>1, <2>1, <2>2 DEF DataOK
<1>6. CASE Honours
  <2>1. loop' \in [Tasks -> Statuses]
    BY <1>6 DEF Honours, DataOK, Statuses
  <2> QED
    BY <1>1, <1>6, <2>1 DEF Honours, DataOK, ghostVars
<1> QED
  BY <1>2, <1>3, <1>4, <1>5, <1>6

LEMMA OutsideData ==
    ASSUME TypeOK, IInv, DataOK, Crash \/ Maintain \/ Start \/ UNCHANGED vars
    PROVE  DataOK'
<1>1. CASE Crash
  <2>1. Nothing \in [Tasks -> Statuses]
    BY DEF Nothing, Statuses
  <2>2. /\ rows' = {} /\ loop' = Nothing /\ hand' = Idle /\ unsaved' = FALSE /\ posted' = <<>>
        /\ at' = [h \in Handlers |-> Idle] /\ UNCHANGED <<requests, answered, overtaken, unrecorded>>
    BY <1>1 DEF Crash, Forget, ghostVars
  <2> QED
    <3>1. rows' \subseteq Calls /\ unrecorded' \subseteq Calls /\ answered' \subseteq Facts
      BY <2>2 DEF DataOK
    <3>2. loop' \in [Tasks -> Statuses] /\ requests' \in 0..MaxRequests /\ posted' \in Seq(Events)
      BY <2>1, <2>2 DEF DataOK
    <3>3. unsaved' \in BOOLEAN /\ hand' \in Held /\ overtaken' \subseteq Tasks
      BY <2>2 DEF Held, DataOK
    <3>4. at' \in [Handlers -> Waits]
      BY <2>2 DEF Waits
    <3> QED
      BY <3>1, <3>2, <3>3, <3>4 DEF DataOK
<1>2. CASE Start
  <2>1. file \subseteq Entry /\ Below(file) /\ next \in Nat
    BY DEF IInv, LogTypeOK
  <2>2. Replayed(file) \subseteq Calls
    <3>1. \A e \in CallsOf(file) : e.rec \in Record /\ e.rec.op # "checkpoint"
      BY <2>1 DEF CallsOf, Entry
    <3> QED
      BY <3>1, RecordKinds DEF Replayed
  <2>4. loop' \in [Tasks -> Statuses]
    BY <1>2 DEF Start
  <2>5. rows' = Replayed(file) /\ UNCHANGED <<hand, unsaved, posted, at, requests, answered, overtaken, unrecorded>>
    BY <1>2 DEF Start, ghostVars
  <2> QED
    BY <2>2, <2>4, <2>5 DEF DataOK
<1>3. CASE Maintain \/ UNCHANGED vars
  BY <1>3 DEF Maintain, vars, runtimeVars, ghostVars, DataOK
<1> QED
  BY <1>1, <1>2, <1>3

LEMMA TypeInv ==
    ASSUME RuntimeInv, [Next]_vars, IInv', Sound'
    PROVE  TypeOK'
<1>1. TypeOK /\ IInv /\ DataOK
  BY DEF RuntimeInv, TypeOK, DataOK, Waits, Held
<1>2. DataOK'
  <2>1. CASE \E h \in Handlers : \/ \E m \in Messages : Submit(h, m)
                                 \/ Classified(h)
                                 \/ \E t \in Tasks, v \in Values : Press(h, t, v)
                                 \/ Required(h)
    BY <1>1, <2>1, HandlerData
  <2>2. CASE Handle \/ Resolves \/ Finishes \/ Throws \/ (\E t \in Tasks : Cancel(t) \/ Works(t))
    BY <1>1, <2>2, ManagerData
  <2>3. CASE Recorded \/ RecordFails \/ Posts \/ Saves \/ SaveSkipped \/ SaveFails \/ Reconciles \/ Honours
    BY <1>1, <2>3, RunningData
  <2>4. CASE Crash \/ Maintain \/ Start \/ UNCHANGED vars
    BY <1>1, <2>4, OutsideData
  <2> QED
    BY <2>1, <2>2, <2>3, <2>4 DEF Next
<1>3. (SectionSound => todo \in Seq(Steps) /\ section \in {"none", "submit", "cancel", "decide", "drain", "start"})'
  BY SectionTypes, PTL
<1>4. todo' \in Seq(Steps) /\ section' \in {"none", "submit", "cancel", "decide", "drain", "start"}
  <2>1. CASE phase' = "open"
    BY <1>3, <2>1 DEF Sound, OpenSound
  <2>2. CASE phase' # "open"
    BY <2>2 DEF Sound, Forgotten
  <2> QED
    BY <2>1, <2>2
<1>5. LogTypeOK'
  BY DEF IInv
<1> QED
  BY <1>2, <1>4, <1>5 DEF TypeOK, DataOK, Waits, Held

LEMMA NextSound ==
    ASSUME RuntimeInv, [Next]_vars
    PROVE  Sound'
<1>1. ASSUME NEW h \in Handlers,
             \/ \E m \in Messages : Submit(h, m)
             \/ Classified(h)
             \/ \E t \in Tasks, v \in Values : Press(h, t, v)
             \/ Required(h)
      PROVE  Sound'
  BY <1>1, SubmitInv, ClassifiedInv, PressInv, RequiredInv
<1>2. CASE Handle \/ Resolves \/ Finishes \/ Throws \/ (\E t \in Tasks : Cancel(t) \/ Works(t))
  BY <1>2, HandleInv, ResolvesInv, FinishesInv, ThrowsInv, CancelInv, WorksInv
<1>3. CASE Recorded \/ RecordFails \/ Posts \/ Saves \/ SaveSkipped \/ SaveFails \/ Reconciles \/ Honours
  BY <1>3, RecordInv, PostsInv, SaveInv, StartingInv
<1>4. CASE Crash \/ Maintain \/ Start \/ UNCHANGED vars
  BY <1>4, CrashInv, MaintainInv, StartInv, StutterRuntime
<1> QED
  BY <1>1, <1>2, <1>3, <1>4 DEF Next

LEMMA InitRuntimeInv == Init => RuntimeInv
<1> SUFFICES ASSUME Init PROVE RuntimeInv
  OBVIOUS
<1>1. IInv /\ LogInit
  BY InitIInv DEF Init
<1>2. TypeOK
  <2>1. LogTypeOK
    BY <1>1 DEF IInv
  <2>2. Nothing \in [Tasks -> Statuses]
    BY DEF Nothing, Statuses
  <2>3. requests \in 0..MaxRequests
    BY RequestAssumption DEF Init
  <2> QED
    <3>1. /\ rows = {} /\ loop = Nothing /\ hand = Idle /\ posted = <<>> /\ todo = <<>> /\ section = "none"
          /\ answered = {} /\ overtaken = {} /\ unrecorded = {} /\ at = [h \in Handlers |-> Idle]
      BY DEF Init
    <3>2. unsaved \in BOOLEAN
      BY DEF Init
    <3>3. posted \in Seq(Events) /\ todo \in Seq(Steps)
      BY <3>1
    <3>4. at \in [Handlers -> Waits]
      BY <3>1 DEF Waits
    <3> QED
      BY <2>1, <2>2, <2>3, <3>1, <3>2, <3>3, <3>4 DEF TypeOK, Waits
<1>3. Disk = {} /\ Taken = {} /\ Replays(Disk) /\ phase = "down"
  BY <1>1, NothingTaken DEF LogInit, Disk, Taken
<1>4. DiskSound /\ CheckpointsSound /\ FactsSound
  BY <1>3 DEF DiskSound, OneDecision, Has, CheckpointsSound, FactsSound, Init
<1>5. Forgotten
  BY DEF Init, Forgotten
<1> QED
  BY <1>1, <1>2, <1>3, <1>4, <1>5 DEF RuntimeInv, Sound

LEMMA NextRuntimeInv == RuntimeInv /\ [Next]_vars => RuntimeInv'
<1> SUFFICES ASSUME RuntimeInv, [Next]_vars PROVE RuntimeInv'
  OBVIOUS
<1>1. IInv'
  BY LogStep, NextIInv DEF RuntimeInv
<1>2. Sound'
  BY NextSound
<1>3. TypeOK'
  BY <1>1, <1>2, TypeInv
<1> QED
  BY <1>1, <1>2, <1>3 DEF RuntimeInv

LEMMA RuntimeInvariance == Spec => []RuntimeInv
BY InitRuntimeInv, NextRuntimeInv, PTL DEF Spec

---------------------------------------------------------------------------
(* What becomes of a cancelled task.  Its status is out of the way unless  *)
(* it was overtaken: in the checkpoint that the next start loads as soon   *)
(* as the cancellation is on disk, and in the Manager as soon as the       *)
(* repository has taken it.                                                *)
Quieted == {"absent", "blocked", "cancelled"}
Distinct(S) == \A e, f \in S : e.id = f.id => e = f
Honoured(S, f) ==
    \A t \in Tasks \ overtaken : (Has(S, "cancel", t) => f[t] \in Quieted) /\ f[t] # "revived"
DiskHonours == Distinct(Disk) /\ Honoured(Taken, Saved(Disk))
MemoryHonours ==
    /\ Honoured(rows, loop)
    /\ hand # Idle /\ loop[hand.task] \in Gone => hand.task \in overtaken

(* What a cancellation and a start still rely on.                          *)
Unreconciled ==
    \/ todo = <<Reconcile, Honour>>
    \/ \E u \in Tasks : todo \in {<<CancelRow(u), Mark(u), Reconcile, Honour>>, <<Mark(u), Reconcile, Honour>>}
CancelHonours ==
    section = "cancel" =>
        \A t \in Tasks \ overtaken :
            /\ todo = <<Save(t), CancelRow(t), Confirm(t)>> => ~unsaved
            /\ todo = <<CancelRow(t), Confirm(t)>> => Saved(Disk)[t] \in Quieted
StartHonours ==
    section = "start" /\ Unreconciled =>
        \A t \in Tasks :
            /\ loop[t] = "absent" => Saved(Disk)[t] = "absent"
            /\ todo = <<CancelRow(t), Mark(t), Reconcile, Honour>> => loop[t] = "absent"
HonourInv ==
    /\ DiskHonours
    /\ phase = "open" => MemoryHonours /\ CancelHonours /\ StartHonours

(* The checkpoint that a start loads is the one with the highest id.       *)
LEMMA SavedOf ==
    ASSUME NEW S, S \subseteq Entry, Distinct(S), NEW e \in S \ CallsOf(S),
           \A f \in S \ CallsOf(S) : f.id <= e.id
    PROVE  Saved(S) = e.rec.saved
<1> DEFINE saves == S \ CallsOf(S)
           Latest == CHOOSE g \in saves : \A f \in saves : f.id <= g.id
<1>1. Latest \in saves /\ \A f \in saves : f.id <= Latest.id
  OBVIOUS
<1>2. Latest.id \in Nat /\ e.id \in Nat
  BY <1>1 DEF Entry
<1>3. Latest.id = e.id
  BY <1>1, <1>2
<1>4. Latest = e
  BY <1>1, <1>3 DEF Distinct
<1>5. saves # {}
  OBVIOUS
<1> QED
  BY <1>4, <1>5 DEF Saved

LEMMA LatestSave ==
    ASSUME NEW S, S \subseteq Entry, Below(S), next \in Nat, S \ CallsOf(S) # {}
    PROVE  \E e \in S \ CallsOf(S) : \A f \in S \ CallsOf(S) : f.id <= e.id
<1> DEFINE saves == S \ CallsOf(S)
           T == {e.id : e \in saves}
<1>1. T \subseteq Nat /\ T # {} /\ \A i \in T : i < next
  BY DEF Entry, Below
<1>2. PICK m \in T : \A i \in T : i <= m
  BY <1>1, Greatest
<1>3. PICK e \in saves : e.id = m
  BY <1>2
<1> QED
  BY <1>2, <1>3

LEMMA SavedKept ==
    ASSUME NEW S, S \subseteq Entry, Below(S), next \in Nat, Distinct(S)
    PROVE  Distinct(Kept(S)) /\ Saved(Kept(S)) = Saved(S)
<1>1. Kept(S) \subseteq S /\ CallsOf(Kept(S)) = CallsOf(S)
  BY KeptCalls
<1>2. Distinct(Kept(S)) /\ Kept(S) \subseteq Entry
  BY <1>1 DEF Distinct
<1>3. CASE S \ CallsOf(S) = {}
  <2>1. Kept(S) \ CallsOf(Kept(S)) = {}
    BY <1>1, <1>3
  <2> QED
    BY <1>2, <1>3, <2>1 DEF Saved
<1>4. CASE S \ CallsOf(S) # {}
  <2>1. PICK e \in S \ CallsOf(S) : \A f \in S \ CallsOf(S) : f.id <= e.id
    BY <1>4, LatestSave
  <2>2. ~Superseded(e, S)
    <3> SUFFICES ASSUME NEW f \in S, f.id > e.id, Key(f.rec) = Key(e.rec), Key(e.rec) # NoKey
                 PROVE  FALSE
      BY DEF Superseded
    <3>1. f.rec \in Record /\ f.id \in Nat /\ e.id \in Nat
      BY DEF Entry
    <3>2. f.rec.op = "checkpoint"
      BY <3>1, RecordKinds
    <3>3. f \in S \ CallsOf(S)
      BY <3>2 DEF CallsOf
    <3> QED
      BY <2>1, <3>1, <3>3
  <2>3. e \in Kept(S) \ CallsOf(Kept(S))
    BY <1>1, <2>2 DEF Kept
  <2>4. \A f \in Kept(S) \ CallsOf(Kept(S)) : f.id <= e.id
    BY <1>1, <2>1
  <2> QED
    BY <1>2, <2>1, <2>3, <2>4, SavedOf
<1> QED
  BY <1>2, <1>3, <1>4

LEMMA DistinctGrows ==
    ASSUME NEW S, S \subseteq Entry, Below(S), Distinct(S), next \in Nat, NEW e, e.id = next
    PROVE  Distinct(S \cup {e})
<1>1. \A f \in S : f.id # e.id
  BY DEF Below, Entry
<1> QED
  BY <1>1 DEF Distinct

(* What the invariant of the log gives while it is open.                   *)
LEMMA OpenLog ==
    ASSUME RuntimeInv, phase = "open"
    PROVE  /\ IInv /\ TypeOK /\ OpenSound /\ MemorySound /\ LoopSound /\ SectionSound
           /\ Disk = file /\ file \subseteq Entry /\ Below(file) /\ next \in Nat
           /\ Taken \subseteq rows /\ loop \in [Tasks -> Statuses]
BY DEF RuntimeInv, Sound, OpenSound, MemorySound, IInv, LogTypeOK, Disk, TypeOK

(* The call by which a task is cancelled is made after the save, or of a   *)
(* task that was never saved.                                              *)
LEMMA CancelCalls ==
    ASSUME RuntimeInv, Running("record"), Step.call.op = "cancel"
    PROVE  \E t \in Tasks :
             /\ Step.call.task = t
             /\ \/ section = "cancel" /\ todo = <<CancelRow(t), Confirm(t)>> /\ loop[t] = "cancelled"
                \/ section = "start" /\ todo = <<CancelRow(t), Mark(t), Reconcile, Honour>>
<1>1. SectionSound /\ todo # <<>> /\ Step.do = "record"
  BY DEF RuntimeInv, Sound, OpenSound, Running
<1>2. ASSUME NEW t \in Tasks, NEW m \in Messages, Submitting(t, m)
      PROVE  FALSE
  <2>1. Step = CreateRow(t) \/ Step = Bind(t, m) \/ Step = Announce(t, m)
    BY <1>2, Tuples DEF Submitting, Step
  <2> QED
    BY <1>1, <2>1, Kinds DEF CreateRow, Bind, Announce
<1>3. ASSUME NEW t \in Tasks, Cancelling(t)
      PROVE  Step.call.task = t /\ todo = <<CancelRow(t), Confirm(t)>> /\ loop[t] = "cancelled"
  <2>1. todo # <<Save(t), CancelRow(t), Confirm(t)>>
    BY <1>1, Tuples, Kinds DEF Step
  <2>2. todo # <<Confirm(t)>>
    BY Tuples, Kinds DEF Step, Confirm
  <2>3. todo = <<CancelRow(t), Confirm(t)>>
    BY <1>3, <2>1, <2>2 DEF Cancelling
  <2>4. Step = CancelRow(t)
    BY <2>3, Tuples DEF Step
  <2> QED
    BY <1>3, <2>3, <2>4, Kinds DEF CancelRow, Cancelling
<1>4. ASSUME NEW t \in Tasks, NEW v \in Values, Deciding(t, v)
      PROVE  FALSE
  <2>1. Step \in {Emit(t, v), Emitted(t, v), Journal(Call("approval", t, "approval")),
                  Journal(Call("decide", t, v)), Journal(Call("decision", t, v))}
    BY <1>4, Tuples, DecisionSteps DEF Deciding, AfterDecision, Step
  <2> QED
    BY <1>1, <2>1, Kinds DEF Emit, Emitted
<1>5. \A t \in Tasks : todo # <<Save(t)>>
  BY <1>1, Tuples, Kinds DEF Step
<1>6. ASSUME Starting
      PROVE  \E t \in Tasks : Step.call.task = t /\ todo = <<CancelRow(t), Mark(t), Reconcile, Honour>>
  <2>1. todo # <<Reconcile, Honour>> /\ todo # <<SaveAll, Honour>> /\ todo # <<Honour>>
    BY <1>1, Tuples, Kinds DEF Step
  <2>2. \A t \in Tasks : todo # <<Save(t), Honour>>
    BY <1>1, Tuples, Kinds DEF Step
  <2>3. \A t \in Tasks : todo # <<Mark(t), Reconcile, Honour>>
    BY Tuples, Kinds DEF Step, Mark
  <2>4. PICK t \in Tasks : todo = <<CancelRow(t), Mark(t), Reconcile, Honour>>
    BY <1>6, <2>1, <2>2, <2>3 DEF Starting
  <2>5. Step = CancelRow(t)
    BY <2>4, Tuples DEF Step
  <2> QED
    BY <2>4, <2>5, Kinds DEF CancelRow
<1> QED
  BY <1>1, <1>2, <1>3, <1>4, <1>5, <1>6 DEF SectionSound

(* The lists of a cancellation and of a start are apart.                   *)
LEMMA Apart ==
    ASSUME NEW t, NEW u
    PROVE  /\ <<Save(t), CancelRow(t), Confirm(t)>> # <<CancelRow(u), Confirm(u)>>
           /\ <<Save(t), CancelRow(t), Confirm(t)>> = <<Save(u), CancelRow(u), Confirm(u)>> => t = u
           /\ <<CancelRow(t), Confirm(t)>> = <<CancelRow(u), Confirm(u)>> => t = u
           /\ <<CancelRow(t), Mark(t), Reconcile, Honour>> = <<CancelRow(u), Mark(u), Reconcile, Honour>> => t = u
           /\ <<Confirm(t)>> # <<Save(u), CancelRow(u), Confirm(u)>> /\ <<Confirm(t)>> # <<CancelRow(u), Confirm(u)>>
           /\ <<Mark(t), Reconcile, Honour>> # <<CancelRow(u), Mark(u), Reconcile, Honour>>
           /\ <<Reconcile, Honour>> # <<CancelRow(u), Mark(u), Reconcile, Honour>>
<1>1. Save(t).do # CancelRow(u).do /\ (Save(t) = Save(u) => t = u)
  BY Kinds DEF CancelRow
<1>2. CancelRow(t) = CancelRow(u) => t = u
  <2>1. CancelRow(t).call.task = t /\ CancelRow(u).call.task = u
    BY Kinds DEF CancelRow
  <2> QED
    BY <2>1
<1>3. Confirm(t).do # Save(u).do /\ Confirm(t).call.op # CancelRow(u).call.op
  BY Kinds DEF Confirm, CancelRow
<1>4. Mark(t).call.op # CancelRow(u).call.op /\ Reconcile.do # CancelRow(u).do
  BY Kinds DEF Mark, CancelRow
<1> QED
  BY <1>1, <1>2, <1>3, <1>4, Tuples

LEMMA NotUnreconciled ==
    /\ <<Honour>> # <<Reconcile, Honour>> /\ <<SaveAll, Honour>> # <<Reconcile, Honour>>
    /\ \A t : <<Save(t), Honour>> # <<Reconcile, Honour>>
    /\ \A u : \A s \in {<<CancelRow(u), Mark(u), Reconcile, Honour>>, <<Mark(u), Reconcile, Honour>>} :
           s # <<Honour>> /\ s # <<SaveAll, Honour>> /\ \A t : s # <<Save(t), Honour>>
<1>1. /\ Honour.do # Reconcile.do /\ SaveAll.do # Reconcile.do /\ \A t : Save(t).do # Reconcile.do
      /\ \A u : CancelRow(u).do = "record" /\ Mark(u).do = "record"
      /\ Honour.do # "record" /\ SaveAll.do # "record" /\ \A t : Save(t).do # "record"
  BY Kinds DEF CancelRow, Mark
<1> QED
  BY <1>1, Tuples

(* What is saved depends on the checkpoints alone.                         *)
LEMMA SavedByCheckpoints ==
    ASSUME NEW S, NEW T, S \ CallsOf(S) = T \ CallsOf(T)
    PROVE  Saved(S) = Saved(T)
<1> DEFINE Latest(saves) == IF saves = {} THEN Nothing
                            ELSE (CHOOSE e \in saves : \A f \in saves : f.id <= e.id).rec.saved
<1>1. Saved(S) = Latest(S \ CallsOf(S)) /\ Saved(T) = Latest(T \ CallsOf(T))
  BY DEF Saved
<1> HIDE DEF Latest
<1> QED
  BY <1>1

(* What is done in memory leaves the disk as it is.                        *)
LEMMA DiskHonoursKept ==
    ASSUME DiskHonours, Disk' = Disk, overtaken \subseteq overtaken'
    PROVE  DiskHonours' /\ Saved(Disk)' = Saved(Disk)
<1>1. Taken' = Taken /\ Saved(Disk)' = Saved(Disk)
  BY DEF Taken
<1> QED
  BY <1>1 DEF DiskHonours, Distinct, Honoured

LEMMA MemoryHonoursKept ==
    ASSUME MemoryHonours, UNCHANGED <<rows, loop, hand>>, overtaken \subseteq overtaken'
    PROVE  MemoryHonours'
BY DEF MemoryHonours, Honoured, Has

(* A journalled call, made, failed or cut off.                             *)
LEMMA CallHonours ==
    ASSUME RuntimeInv, HonourInv, Running("record"), CallStep(Step.call), overtaken' = overtaken
    PROVE  DiskHonours' /\ Saved(Disk') = Saved(Disk)
<1> DEFINE c == Step.call
<1>1. phase = "open" /\ rows \subseteq Calls /\ OpenSound
  BY OpenLog DEF Running, TypeOK
<1>2. Relies(c) /\ c \in Calls /\ c \in Record
  BY <1>1, StepReady, RecordKinds DEF Ready, Relies
<1>3. /\ Taken' \subseteq Taken \cup {c}
      /\ Disk' \ CallsOf(Disk') = Disk \ CallsOf(Disk)
  BY <1>1, <1>2, OpenLog, CallOnDisk
<1>4. Saved(Disk') = Saved(Disk)
  BY <1>3, SavedByCheckpoints
<1>5. Distinct(Disk')
  <2>1. /\ Disk' = Disk \/ Disk' = Disk \cup {EntryOf(c)}
        /\ EntryOf(c).id = next
    BY <1>1, <1>2, OpenLog, Writes DEF CallStep
  <2> QED
    BY <1>1, <2>1, OpenLog, DistinctGrows DEF HonourInv, DiskHonours
<1>6. ASSUME NEW t \in Tasks \ overtaken, c.op = "cancel", c.task = t
      PROVE  Saved(Disk)[t] \in Quieted
  <2>1. CASE section = "cancel" /\ todo = <<CancelRow(t), Confirm(t)>>
    BY <1>1, <2>1 DEF HonourInv, CancelHonours
  <2>2. CASE section = "start" /\ todo = <<CancelRow(t), Mark(t), Reconcile, Honour>>
    BY <1>1, <2>2 DEF HonourInv, StartHonours, Unreconciled, Quieted
  <2> QED
    BY <1>6, <2>1, <2>2, CancelCalls
<1>7. ASSUME NEW t \in Tasks \ overtaken
      PROVE  (Has(Taken', "cancel", t) => Saved(Disk)[t] \in Quieted) /\ Saved(Disk)[t] # "revived"
  <2>1. Has(Taken', "cancel", t) => Has(Taken, "cancel", t) \/ (c.op = "cancel" /\ c.task = t)
    BY <1>3 DEF Has
  <2> QED
    BY <1>6, <2>1 DEF HonourInv, DiskHonours, Honoured
<1> QED
  BY <1>4, <1>5, <1>7 DEF DiskHonours, Honoured

LEMMA RecordHonours ==
    ASSUME RuntimeInv, HonourInv, Recorded \/ RecordFails
    PROVE  HonourInv'
<1> DEFINE c == Step.call
<1>1. /\ Running("record") /\ phase = "open" /\ rows' = rows \cup {c} /\ UNCHANGED <<loop, hand, unsaved, overtaken>>
      /\ phase' = "open" /\ CallStep(c)
  BY DEF Recorded, RecordFails, Running, CallStep, Appended, AppendFails
<1>2. DiskHonours' /\ Saved(Disk)' = Saved(Disk)
  BY <1>1, CallHonours
<1>3. MemoryHonours'
  <2>1. ASSUME NEW t \in Tasks \ overtaken, c.op = "cancel", c.task = t
        PROVE  loop[t] \in Quieted
    <3>1. CASE section = "start" /\ todo = <<CancelRow(t), Mark(t), Reconcile, Honour>>
      BY <1>1, <3>1 DEF HonourInv, StartHonours, Unreconciled, Quieted
    <3> QED
      BY <1>1, <2>1, <3>1, CancelCalls DEF Quieted
  <2>2. ASSUME NEW t \in Tasks \ overtaken, Has(rows', "cancel", t)
        PROVE  loop[t] \in Quieted
    BY <1>1, <2>1, <2>2, HasGrows DEF HonourInv, MemoryHonours, Honoured
  <2> QED
    BY <1>1, <2>2 DEF HonourInv, MemoryHonours, Honoured
<1>4. (todo' = <<>> /\ section' = "none") \/ (todo' = Tail(todo) /\ section' = section /\ todo' # <<>>)
  BY DEF Recorded, RecordFails, GoOn, Go
<1>5. CancelHonours'
  <2> SUFFICES ASSUME section = "cancel", todo' = Tail(todo), section' = section
               PROVE  CancelHonours'
    BY <1>4 DEF CancelHonours
  <2>1. PICK u \in Tasks : Cancelling(u)
    BY <1>1, OpenLog DEF SectionSound
  <2>2. todo # <<Save(u), CancelRow(u), Confirm(u)>>
    BY <1>1, Tuples, Kinds DEF Step, Running
  <2>3. todo' = <<Confirm(u)>> \/ todo' = <<>>
    BY <2>1, <2>2, Tuples DEF Cancelling
  <2>4. ASSUME NEW t \in Tasks
        PROVE  todo' # <<Save(t), CancelRow(t), Confirm(t)>> /\ todo' # <<CancelRow(t), Confirm(t)>>
    BY <2>3, Apart, Tuples
  <2> QED
    BY <2>4 DEF CancelHonours, CancelRow, Confirm
<1>6. StartHonours'
  <2> SUFFICES ASSUME section = "start", todo' = Tail(todo), section' = section
               PROVE  StartHonours'
    BY <1>4 DEF StartHonours
  <2>1. Starting /\ todo # <<>> /\ Step.do = "record"
    BY <1>1, OpenLog DEF SectionSound, Running
  <2>2. todo \notin {<<Reconcile, Honour>>, <<SaveAll, Honour>>, <<Honour>>}
    BY <2>1, Tuples, Kinds DEF Step
  <2>3. \A t \in Tasks : todo # <<Save(t), Honour>>
    BY <2>1, Tuples, Kinds DEF Step
  <2>4. PICK u \in Tasks : \/ todo = <<CancelRow(u), Mark(u), Reconcile, Honour>>
                           \/ todo = <<Mark(u), Reconcile, Honour>>
    BY <2>1, <2>2, <2>3 DEF Starting
  <2>5. todo' = <<Mark(u), Reconcile, Honour>> \/ todo' = <<Reconcile, Honour>>
    <3>1. CASE todo = <<CancelRow(u), Mark(u), Reconcile, Honour>>
      BY <3>1, Tuples
    <3>2. CASE todo = <<Mark(u), Reconcile, Honour>>
      BY <3>2, Tuples
    <3> QED
      BY <2>4, <3>1, <3>2
  <2>6. \A t \in Tasks : todo' # <<CancelRow(t), Mark(t), Reconcile, Honour>>
    BY <2>5, Apart
  <2>7. \A t \in Tasks : loop[t] = "absent" => Saved(Disk)[t] = "absent"
    BY <1>1, <2>4 DEF HonourInv, StartHonours, Unreconciled
  <2> QED
    BY <1>1, <1>2, <2>6, <2>7 DEF StartHonours, CancelRow, Mark
<1> QED
  BY <1>2, <1>3, <1>5, <1>6 DEF HonourInv

(* A save, made, failed or cut off.                                        *)
LEMMA SaveDiskHonours ==
    ASSUME RuntimeInv, HonourInv, phase = "open", overtaken' = overtaken, unrecorded' = unrecorded,
           Appended(SaveRecord) \/ AppendFails(SaveRecord) \/ DiesAppending(SaveRecord)
    PROVE  DiskHonours' /\ (Appended(SaveRecord) => Saved(Disk)' = loop)
<1>1. SaveRecord \in Record /\ SaveRecord.op = "checkpoint"
  BY OpenLog, RecordKinds DEF SaveRecord, Checkpoint
<1>2. /\ (Disk' = Disk /\ ~Appended(SaveRecord)) \/ Disk' = Disk \cup {EntryOf(SaveRecord)}
      /\ EntryOf(SaveRecord).id = next /\ EntryOf(SaveRecord).rec = SaveRecord
  BY <1>1, OpenLog, Writes
<1>3. Taken' = Taken /\ EntryOf(SaveRecord).rec.saved = loop
  BY OpenLog, SaveOnDisk
<1>4. CASE Disk' = Disk /\ ~Appended(SaveRecord)
  BY <1>4, DiskHonoursKept DEF HonourInv
<1>5. CASE Disk' = Disk \cup {EntryOf(SaveRecord)}
  <2> DEFINE e == EntryOf(SaveRecord)
  <2>1. e \in Entry /\ Disk' \subseteq Entry /\ Distinct(Disk')
    <3>1. e \in Entry
      BY <1>1, OpenLog DEF EntryOf, Entry
    <3> QED
      BY <1>2, <1>5, <3>1, OpenLog, DistinctGrows DEF HonourInv, DiskHonours
  <2>2. e \in Disk' \ CallsOf(Disk')
    BY <1>1, <1>2, <1>5 DEF CallsOf
  <2>3. \A f \in Disk' : f.id <= e.id
    BY <1>2, <1>5, OpenLog DEF Below, Entry
  <2>4. Saved(Disk') = loop
    BY <1>3, <2>1, <2>2, <2>3, SavedOf
  <2>5. Honoured(Taken, loop)
    BY OpenLog, HasMore DEF HonourInv, MemoryHonours, Honoured
  <2>6. Honoured(Taken, Saved(Disk))'
    BY <1>3, <2>4, <2>5 DEF Honoured
  <2> QED
    BY <2>1, <2>4, <2>6 DEF DiskHonours
<1> QED
  BY <1>2, <1>4, <1>5

LEMMA SaveHonours ==
    ASSUME RuntimeInv, HonourInv, Saves \/ SaveSkipped \/ SaveFails
    PROVE  HonourInv'
<1>1. /\ Running("save") /\ phase = "open" /\ phase' = "open"
      /\ UNCHANGED <<rows, hand, overtaken, unrecorded>>
  BY DEF Saves, SaveSkipped, SaveFails, Running, Appended, AppendFails, ghostVars, logVars
<1>2. /\ DiskHonours'
      /\ Saves => Saved(Disk)' = loop
      /\ SaveSkipped => Saved(Disk)' = Saved(Disk)
  <2>1. CASE SaveSkipped
    <3>1. ~Saves
      BY <2>1 DEF Saves, SaveSkipped
    <3> QED
      BY <1>1, <2>1, <3>1, Quiet, DiskHonoursKept DEF SaveSkipped, HonourInv
  <2>2. CASE Saves
    <3>1. ~SaveSkipped
      BY <2>2 DEF Saves, SaveSkipped
    <3> QED
      BY <1>1, <2>2, <3>1, SaveDiskHonours DEF Saves
  <2>3. CASE SaveFails
    <3>1. ~SaveSkipped
      BY <2>3 DEF SaveFails, SaveSkipped
    <3>2. ASSUME Saves PROVE Saved(Disk)' = loop
      BY <1>1, <3>2, SaveDiskHonours DEF Saves
    <3> QED
      BY <1>1, <2>3, <3>1, <3>2, SaveDiskHonours DEF SaveFails
  <2> QED
    BY <2>1, <2>2, <2>3
<1>3. MemoryHonours'
  <2>1. \A t \in Tasks : loop'[t] = loop[t] \/ (loop'[t] \in Quieted /\ loop'[t] = Stopped(loop[t]))
    BY <1>1, OpenLog DEF Saves, SaveSkipped, SaveFails, Stopped, Quieted
  <2>2. hand # Idle => hand.task \in Tasks
    BY <1>1, OpenLog DEF LoopSound, HandSound
  <2>3. \A t \in Tasks : loop'[t] \in Gone => loop[t] \in Gone
    BY <2>1 DEF Stopped, Gone
  <2>4. Honoured(rows, loop)'
    BY <1>1, <2>1 DEF HonourInv, MemoryHonours, Honoured, Quieted, Has
  <2> QED
    BY <1>1, <2>2, <2>3, <2>4 DEF HonourInv, MemoryHonours
<1>4. (todo' = <<>> /\ section' = "none") \/ (todo' = Tail(todo) /\ section' = section /\ todo' # <<>> /\ (Saves \/ SaveSkipped))
  BY DEF Saves, SaveSkipped, SaveFails, GoOn, Go
<1>5. CancelHonours'
  <2> SUFFICES ASSUME section = "cancel", todo' = Tail(todo), section' = section, Saves \/ SaveSkipped
               PROVE  CancelHonours'
    BY <1>4 DEF CancelHonours
  <2>1. PICK u \in Tasks : Cancelling(u)
    BY <1>1, OpenLog DEF SectionSound
  <2>2. todo # <<CancelRow(u), Confirm(u)>> /\ todo # <<Confirm(u)>>
    BY <1>1, Tuples, Kinds DEF Step, Running, CancelRow, Confirm
  <2>3. todo = <<Save(u), CancelRow(u), Confirm(u)>> /\ loop[u] = "cancelled"
    BY <2>1, <2>2 DEF Cancelling
  <2>4. todo' = <<CancelRow(u), Confirm(u)>>
    BY <2>3, Tuples
  <2>5. u \notin overtaken => Saved(Disk)'[u] \in Quieted
    <3>1. CASE Saves
      BY <1>2, <2>3, <3>1 DEF Quieted
    <3>2. CASE SaveSkipped
      <4>1. unsaved
        BY <3>2 DEF SaveSkipped
      <4> QED
        BY <1>1, <2>3, <4>1 DEF HonourInv, CancelHonours
    <3> QED
      BY <3>1, <3>2
  <2>6. ASSUME NEW t \in Tasks
        PROVE  /\ todo' # <<Save(t), CancelRow(t), Confirm(t)>>
               /\ todo' = <<CancelRow(t), Confirm(t)>> => t = u
    BY <2>4, Apart
  <2> QED
    BY <1>1, <2>5, <2>6 DEF CancelHonours, CancelRow, Confirm
<1>6. StartHonours'
  <2> SUFFICES ASSUME section = "start", todo' = Tail(todo), section' = section
               PROVE  StartHonours'
    BY <1>4 DEF StartHonours
  <2>1. Starting /\ todo # <<>> /\ Step.do = "save"
    BY <1>1, OpenLog DEF SectionSound, Running
  <2>2. todo \notin {<<Reconcile, Honour>>, <<Honour>>}
    BY <2>1, Tuples, Kinds DEF Step
  <2>3. \A t \in Tasks : todo # <<CancelRow(t), Mark(t), Reconcile, Honour>> /\ todo # <<Mark(t), Reconcile, Honour>>
    BY <2>1, Tuples, Kinds DEF Step, CancelRow, Mark
  <2>4. todo' = <<Honour>>
    BY <2>1, <2>2, <2>3, Tuples DEF Starting
  <2>5. ~Unreconciled'
    BY <2>4, NotUnreconciled DEF Unreconciled, CancelRow, Mark
  <2> QED
    BY <2>5 DEF StartHonours
<1> QED
  BY <1>2, <1>3, <1>5, <1>6 DEF HonourInv

LEMMA StartingHonours ==
    ASSUME RuntimeInv, HonourInv, Reconciles \/ Honours
    PROVE  HonourInv'
<1>1. /\ phase = "open" /\ todo # <<>> /\ Step.do \in {"reconcile", "honour"}
      /\ UNCHANGED <<logVars, rows, hand, overtaken>>
  BY DEF Reconciles, Honours, Running, ghostVars
<1>2. DiskHonours' /\ Saved(Disk)' = Saved(Disk) /\ phase' = "open"
  BY <1>1, Quiet, DiskHonoursKept DEF HonourInv
<1>3. /\ section = "start" /\ hand = Idle
      /\ Step.do = "reconcile" => todo = <<Reconcile, Honour>>
      /\ Step.do = "honour" => todo = <<Honour>>
  BY <1>1, OpenLog, StartSteps
<1>4. section' \in {"start", "none"}
  BY <1>3 DEF Reconciles, Honours, GoOn, Go
<1>5. CancelHonours'
  BY <1>4 DEF CancelHonours
<1>6. MemoryHonours'
  <2>1. \A t \in Tasks : loop'[t] = loop[t] \/ loop'[t] = "cancelled"
    BY <1>1, OpenLog DEF Reconciles, Honours
  <2>2. Honoured(rows, loop)'
    BY <1>1, <2>1 DEF HonourInv, MemoryHonours, Honoured, Quieted, Has
  <2> QED
    BY <1>1, <1>3, <2>2 DEF MemoryHonours
<1>7. StartHonours'
  <2>1. CASE Reconciles
    <3>1. todo = <<Reconcile, Honour>> /\ Tail(todo) = <<Honour>> /\ loop' = loop
      BY <1>3, <2>1, Tuples DEF Reconciles, Running
    <3>2. \A t \in Tasks : loop[t] = "absent" => Saved(Disk)[t] = "absent"
      BY <1>1, <1>3, <3>1 DEF HonourInv, StartHonours, Unreconciled
    <3>3. ASSUME NEW t \in Unstarted,
                 GoOn(<< Journal(Call("cancel", t, "cancel")),
                         Journal(Call("cancel_requested", t, "cancel_requested")) >> \o todo)
          PROVE  StartHonours'
      <4>1. t \in Tasks /\ loop[t] = "absent"
        BY <3>3 DEF Unstarted
      <4>2. /\ Reconcile \in Steps /\ Honour \in Steps /\ CancelRow(t) \in Steps /\ Mark(t) \in Steps
        BY <4>1, StepTypes, NamedSteps
      <4>3. todo' = <<CancelRow(t), Mark(t), Reconcile, Honour>>
        BY <3>1, <3>3, <4>2, Joined DEF GoOn, Go, CancelRow, Mark
      <4>4. \A u \in Tasks : todo' = <<CancelRow(u), Mark(u), Reconcile, Honour>> => u = t
        BY <4>3, Apart
      <4> QED
        BY <1>2, <3>1, <3>2, <4>1, <4>4 DEF StartHonours, CancelRow, Mark
    <3>4. ASSUME GoOn((IF loop = Nothing THEN <<>> ELSE <<SaveAll>>) \o Tail(todo))
          PROVE  StartHonours'
      <4>1. <<>> \o <<Honour>> = <<Honour>> /\ <<SaveAll>> \o <<Honour>> = <<SaveAll, Honour>>
        BY StepTypes, Joined, TupleTypes
      <4>2. todo' \in {<<SaveAll, Honour>>, <<Honour>>}
        BY <3>1, <3>4, <4>1 DEF GoOn, Go
      <4>3. ~Unreconciled'
        BY <4>2, NotUnreconciled DEF Unreconciled, CancelRow, Mark
      <4> QED
        BY <4>3 DEF StartHonours
    <3> QED
      BY <2>1, <3>3, <3>4 DEF Reconciles
  <2>2. CASE Honours
    <3>1. todo = <<Honour>> /\ Tail(todo) = <<>>
      BY <1>3, <2>2, Tuples DEF Honours, Running
    <3>2. ASSUME NEW t \in Uncancelled, GoOn(<<Save(t)>> \o todo)
          PROVE  StartHonours'
      <4>1. t \in Tasks
        BY DEF Uncancelled
      <4>2. <<Save(t)>> \o <<Honour>> = <<Save(t), Honour>>
        BY <4>1, StepTypes, Joined
      <4>3. todo' = <<Save(t), Honour>>
        BY <3>1, <3>2, <4>2 DEF GoOn, Go
      <4>4. ~Unreconciled'
        BY <4>3, NotUnreconciled DEF Unreconciled, CancelRow, Mark
      <4> QED
        BY <4>4 DEF StartHonours
    <3>3. GoOn(Tail(todo)) => StartHonours'
      BY <3>1 DEF GoOn, Go, StartHonours
    <3> QED
      BY <2>2, <3>2, <3>3 DEF Honours
  <2> QED
    BY <2>1, <2>2 DEF Reconciles, Honours
<1> QED
  BY <1>2, <1>5, <1>6, <1>7 DEF HonourInv

(* A serving runtime: requests and events posted change no status.         *)
LEMMA RequestHonours ==
    ASSUME RuntimeInv, HonourInv,
           \/ \E h \in Handlers : \/ \E m \in Messages : Submit(h, m)
                                  \/ Classified(h)
                                  \/ \E t \in Tasks, v \in Values : Press(h, t, v)
                                  \/ Required(h)
           \/ Posts
    PROVE  HonourInv'
<1>1. /\ phase = "open" /\ UNCHANGED <<logVars, rows, loop, hand, overtaken>>
  BY DEF Submit, Classified, Press, Required, Posts, Serving, Running, ghostVars
<1>2. section' \in {"none", "submit", "decide"}
  <2>1. CASE Posts
    <3>1. section \in {"submit", "decide"}
      BY <2>1, PostSteps DEF Posts
    <3> QED
      BY <2>1, <3>1 DEF Posts, GoOn, Go
  <2>2. CASE ~Posts
    <3>1. Serving
      BY <2>2 DEF Submit, Classified, Press, Required
    <3>2. section = "none"
      BY <3>1, ServingFacts
    <3>3. \A s : \A n \in {"submit", "decide"} : Go(n, s) => section' \in {"none", "submit", "decide"}
      BY DEF Go
    <3> QED
      BY <2>2, <3>2, <3>3 DEF Submit, Classified, Press, Required
  <2> QED
    BY <2>1, <2>2
<1>3. DiskHonours' /\ phase' = "open"
  BY <1>1, Quiet, DiskHonoursKept DEF HonourInv
<1>4. MemoryHonours'
  BY <1>1, MemoryHonoursKept DEF HonourInv
<1>5. CancelHonours' /\ StartHonours'
  BY <1>2 DEF CancelHonours, StartHonours
<1> QED
  BY <1>3, <1>4, <1>5 DEF HonourInv

LEMMA CancelOnce ==
    ASSUME RuntimeInv, HonourInv, NEW t \in Tasks, Cancel(t)
    PROVE  HonourInv'
<1>1. /\ Serving /\ phase = "open" /\ UNCHANGED <<logVars, rows, hand, unsaved>> /\ overtaken \subseteq overtaken'
  BY DEF Cancel, Serving
<1>2. DiskHonours' /\ phase' = "open"
  BY <1>1, Quiet, DiskHonoursKept DEF HonourInv
<1>3. CASE UNCHANGED <<loop, todo, section, overtaken>>
  <2>1. section = "none"
    BY <1>1, ServingFacts
  <2>2. MemoryHonours' /\ CancelHonours' /\ StartHonours'
    BY <1>1, <1>3, <2>1, MemoryHonoursKept DEF HonourInv, CancelHonours, StartHonours
  <2> QED
    BY <1>2, <2>2 DEF HonourInv
<1>4. CASE /\ loop' = [loop EXCEPT ![t] = "cancelled"]
           /\ overtaken' = IF Holds(t) \/ unsaved THEN overtaken \cup {t} ELSE overtaken
           /\ Go("cancel", Cancellation(t))
  <2>1. loop'[t] = "cancelled" /\ \A u \in Tasks : u # t => loop'[u] = loop[u]
    BY <1>1, <1>4, OpenLog
  <2>2. MemoryHonours'
    <3>1. Honoured(rows, loop)'
      BY <1>1, <2>1 DEF HonourInv, MemoryHonours, Honoured, Quieted, Has
    <3>2. hand # Idle => hand.task \in Tasks
      BY <1>1, OpenLog DEF LoopSound, HandSound
    <3>3. hand # Idle /\ loop'[hand.task] \in Gone => hand.task \in overtaken'
      BY <1>1, <1>4, <2>1, <3>2 DEF HonourInv, MemoryHonours, Holds
    <3> QED
      BY <1>1, <3>1, <3>3 DEF MemoryHonours
  <2>3. todo' = <<Save(t), CancelRow(t), Confirm(t)>> /\ section' = "cancel"
    BY <1>4, Tuples DEF Go, Cancellation, CancelRow, Confirm
  <2>4. ASSUME NEW u \in Tasks
        PROVE  /\ todo' = <<Save(u), CancelRow(u), Confirm(u)>> => u = t
               /\ todo' # <<CancelRow(u), Confirm(u)>>
    BY <2>3, Apart
  <2>5. CancelHonours'
    BY <1>1, <1>4, <2>4 DEF CancelHonours, CancelRow, Confirm
  <2>6. StartHonours'
    BY <2>3 DEF StartHonours
  <2> QED
    BY <1>2, <2>2, <2>5, <2>6 DEF HonourInv
<1> QED
  BY <1>3, <1>4 DEF Cancel

(* A handler of the Manager ends: a task that it leaves neither as it was  *)
(* nor out of the way was overtaken, or is not cancelled.                  *)
LEMMA HandHonours ==
    ASSUME RuntimeInv, HonourInv, Serving, hand # Idle, NEW s,
           loop' = [loop EXCEPT ![hand.task] = s], hand' = Idle,
           UNCHANGED <<logVars, rows, overtaken>>, section' \in {"none", "drain"},
           \/ s = loop[hand.task] \/ s \in Quieted
           \/ loop[hand.task] \in Gone
           \/ s # "revived" /\ ~Cancelled(hand.task)
    PROVE  HonourInv'
<1>1. phase = "open" /\ hand.task \in Tasks
  BY OpenLog DEF Serving, LoopSound, HandSound
<1>2. loop'[hand.task] = s /\ \A u \in Tasks : u # hand.task => loop'[u] = loop[u]
  BY <1>1, OpenLog
<1>3. Honoured(rows, loop)'
  BY <1>1, <1>2 DEF HonourInv, MemoryHonours, Honoured, Quieted, Has, Cancelled
<1>4. MemoryHonours'
  BY <1>3 DEF MemoryHonours
<1>5. DiskHonours' /\ phase' = "open"
  BY <1>1, Quiet, DiskHonoursKept DEF HonourInv
<1> QED
  BY <1>4, <1>5 DEF HonourInv, CancelHonours, StartHonours

LEMMA ManagerHonours ==
    ASSUME RuntimeInv, HonourInv,
           Handle \/ Resolves \/ Finishes \/ Throws \/ (\E t \in Tasks : Works(t))
    PROVE  HonourInv'
<1>1. /\ Serving /\ phase = "open" /\ section = "none" /\ todo = <<>> /\ Uncancelled = {}
      /\ UNCHANGED <<logVars, rows, overtaken>>
  BY ServingFacts DEF Handle, Resolves, Finishes, Throws, Works, Makes, Serving, ghostVars
<1>2. DiskHonours' /\ phase' = "open"
  BY <1>1, Quiet, DiskHonoursKept DEF HonourInv
<1>3. \A s : Makes(s) => /\ loop' = [loop EXCEPT ![hand.task] = s] /\ hand' = Idle
                         /\ section' \in {"none", "drain"}
  BY DEF Makes, Go
<1>4. \A t \in Tasks : loop[t] \in {"waiting", "active"} => ~Cancelled(t)
  BY <1>1 DEF Uncancelled
<1>5. \A s : Stopped(s) \in Quieted
  BY DEF Stopped, Quieted
<1>6. CASE Handle
  <2>1. section' # "start" /\ section' # "cancel"
    BY <1>1, <1>6 DEF Handle, Go
  <2>2. Sound'
    BY <1>6, HandleInv
  <2>3. Uncancelled' = {}
    BY <1>2, <2>1, <2>2 DEF Sound, OpenSound, LoopSound
  <2>4. \A t \in Tasks : loop'[t] = loop[t] \/ loop'[t] = "waiting"
    <3>1. Head(posted).task \in Tasks
      BY <1>1, <1>6, ServingFacts, TailEvents DEF Handle, TypeOK, Events
    <3> QED
      BY <1>1, <1>6, <3>1, OpenLog DEF Handle
  <2>5. \A t \in Tasks : loop'[t] = "waiting" => ~Cancelled(t)'
    BY <2>3 DEF Uncancelled
  <2>6. Honoured(rows, loop)'
    BY <1>1, <2>4, <2>5 DEF HonourInv, MemoryHonours, Honoured, Cancelled, Has
  <2>7. hand' # Idle => hand'.task \in Tasks /\ loop' = loop /\ loop[hand'.task] \in {"waiting", "revived"}
    <3>1. Head(posted).task \in Tasks
      BY <1>1, <1>6, ServingFacts, TailEvents DEF Handle, TypeOK, Events
    <3> QED
      BY <1>6, <3>1 DEF Handle
  <2>8. hand' # Idle /\ loop'[hand'.task] \in Gone => hand'.task \in overtaken'
    BY <1>1, <2>7 DEF HonourInv, MemoryHonours, Honoured, Gone
  <2> QED
    BY <1>2, <2>1, <2>6, <2>8 DEF HonourInv, MemoryHonours, CancelHonours, StartHonours
<1>7. CASE Resolves
  <2>1. hand # Idle /\ hand.task \in Tasks /\ loop[hand.task] \in {"waiting"} \cup Gone
    BY <1>1, <1>7, OpenLog DEF Resolves, LoopSound, HandSound
  <2>2. PICK s : Makes(s) /\ (\/ s = loop[hand.task] \/ s \in Quieted \/ loop[hand.task] \in Gone
                              \/ s \in {"active", "blocked"} /\ loop[hand.task] \notin Gone)
    BY <1>5, <1>7 DEF Resolves
  <2> QED
    BY <1>1, <1>3, <1>4, <2>1, <2>2, HandHonours
<1>8. CASE Finishes
  <2>1. hand # Idle /\ hand.task \in Tasks /\ loop[hand.task] \in {"active"} \cup Gone
    BY <1>1, <1>8, OpenLog DEF Finishes, LoopSound, HandSound
  <2>2. PICK s : Makes(s) /\ (loop[hand.task] \in Gone \/ (s \in Terminal /\ loop[hand.task] \notin Gone))
    BY <1>8 DEF Finishes, Gone
  <2>3. s \in Terminal => s # "revived"
    BY DEF Terminal
  <2> QED
    BY <1>1, <1>3, <1>4, <2>1, <2>2, <2>3, HandHonours
<1>9. CASE Throws
  <2>1. hand # Idle /\ hand' = Idle /\ section' = "none"
    BY <1>1, <1>9 DEF Throws
  <2>2. CASE loop' = loop
    <3>1. MemoryHonours'
      BY <1>1, <2>1, <2>2 DEF HonourInv, MemoryHonours, Honoured, Has
    <3> QED
      BY <1>2, <2>1, <3>1 DEF HonourInv, CancelHonours, StartHonours
  <2>3. CASE loop' = [loop EXCEPT ![hand.task] = Stopped(loop[hand.task])]
    BY <1>1, <1>5, <2>1, <2>3, HandHonours
  <2> QED
    BY <1>9, <2>2, <2>3 DEF Throws
<1>10. ASSUME NEW t \in Tasks, Works(t)
       PROVE  HonourInv'
  <2>1. hand' = [job |-> "work", task |-> t] /\ loop[t] \in {"active", "revived"} /\ UNCHANGED <<loop, section>>
    BY <1>10 DEF Works
  <2>2. MemoryHonours'
    BY <1>1, <2>1 DEF HonourInv, MemoryHonours, Honoured, Has, Gone
  <2> QED
    BY <1>1, <1>2, <2>1, <2>2 DEF HonourInv, CancelHonours, StartHonours
<1> QED
  BY <1>6, <1>7, <1>8, <1>9, <1>10

(* Down, and up again.                                                     *)
LEMMA CrashHonours ==
    ASSUME RuntimeInv, HonourInv, Crash
    PROVE  HonourInv'
<1>1. UNCHANGED <<overtaken, unrecorded>>
  BY DEF Crash, ghostVars
<1>2. CASE Running("record") /\ DiesAppending(Step.call)
  <2>1. phase' # "open"
    BY <1>2 DEF DiesAppending
  <2> QED
    BY <1>1, <1>2, <2>1, CallHonours DEF CallStep, HonourInv
<1>3. CASE Running("save") /\ DiesAppending(SaveRecord)
  <2>1. phase' # "open" /\ phase = "open"
    BY <1>3 DEF DiesAppending
  <2> QED
    BY <1>1, <1>3, <2>1, SaveDiskHonours DEF HonourInv
<1>4. CASE Dies
  <2>1. phase' # "open"
    BY <1>4 DEF Dies
  <2>2. CASE phase = "moved"
    <3>1. Disk' = {}
      BY <1>4, <2>2 DEF Dies, Disk, disk, RuntimeInv, IInv
    <3>2. Taken' = {} /\ Saved(Disk)' = Nothing
      BY <3>1 DEF Taken, Replayed, CallsOf, Saved
    <3> QED
      BY <2>1, <3>1, <3>2 DEF HonourInv, DiskHonours, Distinct, Honoured, Has, Nothing
  <2>3. CASE phase # "moved"
    <3>1. Disk' = Disk
      BY <1>4, <2>3 DEF Dies, Disk, disk
    <3> QED
      BY <1>1, <2>1, <3>1, DiskHonoursKept DEF HonourInv
  <2> QED
    BY <2>2, <2>3
<1> QED
  BY <1>2, <1>3, <1>4 DEF Crash

LEMMA MaintainHonours ==
    ASSUME RuntimeInv, HonourInv, Maintain
    PROVE  HonourInv'
<1>1. phase' # "open" /\ overtaken' = overtaken
  BY DEF Maintain, Compact, MoveAway, MoveIn, ghostVars
<1>2. CASE Disk' = Disk
  BY <1>1, <1>2, DiskHonoursKept DEF HonourInv
<1>3. CASE MoveAway
  <2>1. Disk = file /\ Disk' = Kept(file)
    BY <1>3 DEF RuntimeInv, Sound, MoveAway, Disk, DiskSound
  <2>2. file \subseteq Entry /\ Below(file) /\ next \in Nat
    BY DEF RuntimeInv, IInv, LogTypeOK
  <2>3. Distinct(Disk') /\ Saved(Disk') = Saved(Disk) /\ Taken' = Taken
    BY <2>1, <2>2, SavedKept, KeptCalls DEF HonourInv, DiskHonours, Taken
  <2> QED
    BY <1>1, <2>3 DEF HonourInv, DiskHonours, Honoured
<1>4. CASE Compact \/ MoveIn
  <2>1. Disk' = Disk
    BY <1>4 DEF Compact, MoveIn, Disk
  <2> QED
    BY <1>2, <2>1
<1> QED
  BY <1>3, <1>4 DEF Maintain

LEMMA StartHonoured ==
    ASSUME RuntimeInv, HonourInv, Start
    PROVE  HonourInv'
<1>1. /\ Forgotten /\ phase = "down" /\ Disk = file /\ Disk' = file /\ Taken = Replayed(file)
      /\ rows' = Taken /\ UNCHANGED <<hand, overtaken>>
      /\ todo' = <<Reconcile, Honour>> /\ section' = "start"
  BY Tuples DEF RuntimeInv, Sound, Start, Open, Disk, Taken, Go, ghostVars
<1>2. DiskHonours' /\ Saved(Disk)' = Saved(Disk)
  BY <1>1, DiskHonoursKept DEF HonourInv
<1>3. ASSUME NEW t \in Tasks
      PROVE  /\ loop'[t] = "absent" <=> Saved(Disk)[t] = "absent"
             /\ Saved(Disk)[t] \in Quieted => loop'[t] \in Quieted
             /\ loop'[t] = "revived" => Saved(Disk)[t] = "revived"
  <2>1. loop'[t] \in Resumed(Saved(Disk)[t])
    BY <1>1 DEF Start
  <2> QED
    BY <2>1 DEF Resumed, Gone, Quieted
<1>4. MemoryHonours'
  BY <1>1, <1>3 DEF Forgotten, MemoryHonours, Honoured, HonourInv, DiskHonours
<1>5. StartHonours'
  <2>1. \A u \in Tasks : todo' # <<CancelRow(u), Mark(u), Reconcile, Honour>>
    BY <1>1, Apart
  <2> QED
    BY <1>2, <1>3, <2>1 DEF StartHonours, CancelRow, Mark
<1>6. CancelHonours'
  BY <1>1 DEF CancelHonours
<1> QED
  BY <1>2, <1>4, <1>5, <1>6 DEF HonourInv

LEMMA StutterHonours ==
    ASSUME HonourInv, UNCHANGED vars
    PROVE  HonourInv'
<1>1. UNCHANGED <<logVars, rows, loop, hand, unsaved, todo, section, overtaken>>
  BY DEF vars, runtimeVars, ghostVars
<1>2. DiskHonours' /\ Saved(Disk)' = Saved(Disk) /\ phase' = phase
  BY <1>1, Quiet, DiskHonoursKept DEF HonourInv
<1>3. MemoryHonours => MemoryHonours'
  BY <1>1, MemoryHonoursKept
<1>4. (CancelHonours => CancelHonours') /\ (StartHonours => StartHonours')
  BY <1>1, <1>2 DEF CancelHonours, StartHonours, Unreconciled, CancelRow, Mark, Confirm
<1> QED
  BY <1>2, <1>3, <1>4 DEF HonourInv

LEMMA InitHonourInv == Init => HonourInv
<1> SUFFICES ASSUME Init PROVE HonourInv
  OBVIOUS
<1>1. Disk = {} /\ phase = "down"
  BY DEF Init, LogInit, Disk
<1>2. Taken = {} /\ Saved(Disk) = Nothing
  BY <1>1 DEF Taken, Replayed, CallsOf, Saved
<1> QED
  BY <1>1, <1>2 DEF HonourInv, DiskHonours, Distinct, Honoured, Has, Nothing

LEMMA NextHonourInv == RuntimeInv /\ HonourInv /\ [Next]_vars => HonourInv'
BY RecordHonours, SaveHonours, StartingHonours, RequestHonours, CancelOnce, ManagerHonours,
   CrashHonours, MaintainHonours, StartHonoured, StutterHonours DEF Next

LEMMA HonourInvariance == Spec => []HonourInv
BY RuntimeInvariance, InitHonourInv, NextHonourInv, PTL DEF Spec

---------------------------------------------------------------------------
(* As long as no append failed, the journal on disk replays, and every     *)
(* call that a section still makes is taken when its turn comes            *)
(* (journal.ts:107-122, intake/service.ts:226-390).                        *)
LEMMA InvJournal == RuntimeInv => JournalSound
<1> SUFFICES ASSUME RuntimeInv PROVE JournalSound
  OBVIOUS
<1>1. TypeOK /\ IInv /\ DiskSound
  BY DEF RuntimeInv, Sound
<1>2. ReplayAccepted
  <2>1. CASE phase = "moved"
    <3>1. file = {}
      BY <1>1, <2>1 DEF IInv
    <3> QED
      BY <3>1, NothingTaken DEF ReplayAccepted
  <2>2. CASE phase # "moved"
    BY <1>1, <2>2 DEF DiskSound, Disk, ReplayAccepted
  <2> QED
    BY <2>1, <2>2
<1>3. CallsTaken
  <2> SUFFICES ASSUME Running("record") PROVE Takes(rows, Step.call)
    BY DEF CallsTaken
  <2>1. OpenSound /\ rows \subseteq Calls
    BY <1>1 DEF RuntimeInv, Sound, Running, TypeOK
  <2> QED
    BY <2>1, StepReady DEF Ready, Relies
<1> QED
  BY <1>1, <1>2, <1>3 DEF JournalSound

THEOREM JournalHolds == Spec => []JournalSound
BY InvJournal, RuntimeInvariance, PTL

(* What the owner was told stands: an accepted message stays bound to its  *)
(* task, a cancelled task is not worked on, a decision is the one that     *)
(* counts, over crossing requests, handlers that resume after an await,    *)
(* failed appends and restarts.  Only what was overtaken is given another  *)
(* status (intake/service.ts:120-440, gateway/service.ts:685-784,          *)
(* reconcile.ts:14-42, loop.ts:2725-2856).                                 *)
LEMMA InvAnswers == RuntimeInv /\ HonourInv => AnswersStand
<1> SUFFICES ASSUME RuntimeInv, HonourInv PROVE AnswersStand
  OBVIOUS
<1>1. FactsSound /\ DiskSound
  BY DEF RuntimeInv, Sound
<1>2. AcceptedOnce
  <2> SUFFICES ASSUME ~lost, NEW f \in answered, NEW g \in answered,
                      f.kind = "accepted", ~Spoiled("intake", f.task),
                      g.kind = "accepted", ~Spoiled("intake", g.task), f.val = g.val
               PROVE  f.task = g.task
    BY DEF AcceptedOnce
  <2>1. Call("intake", f.task, f.val) \in Taken /\ Call("intake", g.task, g.val) \in Taken
    BY <1>1 DEF FactsSound, Proven
  <2> QED
    BY <1>1, <2>1, Kinds DEF DiskSound
<1>3. CancelStays
  <2> SUFFICES ASSUME Serving, ~lost, NEW f \in answered, f.kind = "cancelled", ~Spoiled("cancel", f.task)
               PROVE  /\ loop[f.task] \notin {"waiting", "active"}
                      /\ loop[f.task] \in {"revived", "accepted"} => f.task \in overtaken
    BY DEF CancelStays
  <2>1. Has(rows, "cancel", f.task)
    BY <1>1, ServingFacts, OnDiskOrFailed DEF FactsSound, Proven
  <2>2. f.task \in Tasks
    <3>1. f \in Facts
      BY ServingFacts DEF TypeOK
    <3> QED
      BY <3>1, Kinds DEF Facts
  <2>3. Honoured(rows, loop)
    BY DEF Serving, HonourInv, MemoryHonours
  <2>4. loop[f.task] \in {"revived", "accepted"} => f.task \in overtaken
    BY <2>1, <2>2, <2>3 DEF Honoured, Quieted
  <2> QED
    BY <2>1, <2>2, <2>4, ServingFacts DEF Uncancelled, Cancelled
<1>4. DecisionStands
  <2> SUFFICES ASSUME phase = "open", ~lost, NEW f \in answered, f.kind = "decided", ~Spoiled("decide", f.task)
               PROVE  Decided(f.task) = {f.val}
    BY DEF DecisionStands
  <2>1. MemorySound /\ TypeOK
    BY DEF RuntimeInv, Sound, OpenSound
  <2>2. f.val \in Values
    <3>1. f \in Facts
      BY <2>1 DEF TypeOK
    <3>2. \/ \E t \in Tasks, m \in Messages : f = Fact("accepted", t, m)
          \/ \E t \in Tasks : f = Fact("cancelled", t, "cancelled")
          \/ \E t \in Tasks, v \in Values : f = Fact("decided", t, v)
      BY <3>1 DEF Facts
    <3> QED
      BY <3>2, Kinds
  <2>3. Call("decide", f.task, f.val) \in rows
    BY <1>1, <2>1 DEF FactsSound, Proven, Stands, MemorySound
  <2>4. ASSUME NEW v \in Values, Call("decide", f.task, v) \in rows
        PROVE  v = f.val
    <3>1. Call("decide", f.task, v) = Call("decide", f.task, f.val)
      BY <2>1, <2>3, <2>4, Kinds DEF MemorySound, OneDecision
    <3> QED
      BY <3>1, Kinds
  <2> QED
    BY <2>2, <2>3, <2>4 DEF Decided
<1> QED
  BY <1>2, <1>3, <1>4 DEF AnswersStand

THEOREM AnswersHold == Spec => []AnswersStand
BY InvAnswers, RuntimeInvariance, HonourInvariance, PTL

(* The two records of one task, saved apart, agree: no checkpoint on disk  *)
(* names a task that the journal does not, and no task is active without   *)
(* its approval (reconcile.ts:28-34, loop.ts:2725-2760).                   *)
LEMMA InvCheckpoint == RuntimeInv => CheckpointSound
<1> SUFFICES ASSUME RuntimeInv PROVE CheckpointSound
  OBVIOUS
<1>1. IInv /\ CheckpointsSound
  BY DEF RuntimeInv, Sound
<1>2. CheckpointBacked
  <2>1. file \subseteq Entry /\ Below(file) /\ next \in Nat
    BY <1>1 DEF IInv, LogTypeOK
  <2>2. CASE Saved(file) = Nothing
    BY <2>2 DEF CheckpointBacked, Nothing
  <2>3. ASSUME NEW e \in file \ CallsOf(file), Saved(file) = e.rec.saved
        PROVE  CheckpointBacked
    <3>1. Disk = file
      BY <1>1, <2>3 DEF IInv, Disk
    <3>2. Backed(Saved(file)) /\ Taken = Replayed(file)
      BY <1>1, <2>3, <3>1 DEF CheckpointsSound, Taken
    <3> QED
      BY <3>2 DEF Backed, CheckpointBacked, Journalled
  <2> QED
    BY <2>1, <2>2, <2>3, SavedIs
<1>3. ActiveApproved
  <2> SUFFICES ASSUME phase = "open", NEW t \in Tasks, loop[t] = "active", ~Spoiled("decide", t)
               PROVE  Decided(t) = {"approved"}
    BY DEF ActiveApproved
  <2>1. MemorySound /\ LoopSound
    BY DEF RuntimeInv, Sound, OpenSound
  <2>2. Call("decide", t, "approved") \in rows
    BY <2>1 DEF LoopSound, Backed, Stands, MemorySound
  <2>3. ASSUME NEW v \in Values, Call("decide", t, v) \in rows
        PROVE  v = "approved"
    <3>1. Call("decide", t, v) = Call("decide", t, "approved")
      BY <2>1, <2>2, <2>3, Kinds DEF MemorySound, OneDecision
    <3> QED
      BY <3>1, Kinds
  <2> QED
    BY <2>2, <2>3 DEF Decided, Values
<1> QED
  BY <1>2, <1>3 DEF CheckpointSound

THEOREM CheckpointsHold == Spec => []CheckpointSound
BY InvCheckpoint, RuntimeInvariance, PTL

(* The runtime uses its log as a log: whatever the sections record and     *)
(* wherever they are cut off, readers see the stable log (fileAudit.ts,    *)
(* journal.ts, scheduler/persistence.ts).                                  *)
THEOREM RuntimeUsesStableLog == Spec => ImplementsStableLog
<1>1. Init => Stable!Init
  BY DEF Init, LogInit, Stable!Init
<1>2. RuntimeInv /\ [Next]_vars => [Stable!Next]_<<acked, tried, events, phase = "open">>
  BY LogStep, StepRefines DEF RuntimeInv
<1> QED
  BY <1>1, <1>2, RuntimeInvariance, PTL DEF Spec, ImplementsStableLog, Stable!Spec
=============================================================================
