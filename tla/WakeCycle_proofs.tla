-------------------------- MODULE WakeCycle_proofs --------------------------
(***************************************************************************)
(* Theorems about the wake cycle, for any policy, any answers of GitHub    *)
(* and any number of messages, ticks that throw and evictions: the limits  *)
(* on start requests, the notices the owner gets, the blocks, the retries  *)
(* a failed cycle waits for, and, where the runtime loses no alarm, that   *)
(* the alarm is set and no cycle lasts forever.                            *)
(*                                                                         *)
(* IInv is what the limits rest on: the time each start was asked for, as  *)
(* the persisted history knows it.  Core adds the types and where the      *)
(* machine stands: on disk, or, between a tick's last await and its end,   *)
(* in mem.  Alarms and Course are about its times.                         *)
(***************************************************************************)
EXTENDS WakeCycle, FiniteSetTheorems, SequenceTheorems, WellFoundedInduction, TLAPS

USE DEF Null

(* A wake state, of which only what limits the starts is typed.            *)
IsRecord(s) == {"lastStartAt", "startHistory"} \subseteq DOMAIN s

Kept(s) == IsRecord(s) /\ s.lastStartAt \in Nat /\ s.startHistory \in SUBSET Nat /\ IsFiniteSet(s.startHistory)

(* Where the tick works on the state it loaded.                            *)
Working == {"wakingNotice", "status", "start", "failureNotice", "done"}

Times ==
    /\ now \in Nat \ {0}
    /\ pc # "none" => at \in Nat \ {0} /\ at <= now /\ now - at <= MaxLag

(* A tick that is to come begins no earlier than this.                     *)
Since == IF pc = "none" THEN now ELSE at

(* s knows the same last start as disk, and all starts of the last Day.    *)
From(s) ==
    /\ Kept(s) /\ s.lastStartAt = disk.lastStartAt
    /\ \A t \in disk.startHistory : t \in s.startHistory \/ t + Day <= at

States == Kept(disk) /\ (pc \in Working => From(mem))

(* Each start has a stamp, the time its tick began; the last one is        *)
(* persisted, and of the others those of the last Day.                     *)
Stamps(stamp) ==
    /\ stamp \in [1..Len(started) -> Nat \ {0}]
    /\ \A k \in 1..Len(started) : stamp[k] <= started[k] /\ started[k] <= stamp[k] + MaxLag
    /\ \A j, k \in 1..Len(started) : j < k => stamp[j] < stamp[k]
    /\ Len(started) > 0 => disk.lastStartAt = stamp[Len(started)]
    /\ \A k \in 1..Len(started) : stamp[k] \in disk.startHistory \/ stamp[k] + Day <= Since

Ascending ==
    /\ started \in Seq(Nat)
    /\ \A k \in 1..Len(started) : started[k] <= now
    /\ \A j, k \in 1..Len(started) : j < k => started[j] <= started[k]

IInv == Times /\ States /\ Ascending /\ (\E stamp : Stamps(stamp)) /\ StartsLimited
-----------------------------------------------------------------------------
(* States that differ in other fields.                                     *)
Alike(s, t) ==
    IsRecord(s) => IsRecord(t) /\ t.lastStartAt = s.lastStartAt /\ t.startHistory = s.startHistory

LEMMA AlikeFrom ==
    ASSUME NEW s, NEW t, Alike(s, t)
    PROVE  (Kept(s) => Kept(t)) /\ (From(s) => From(t))
  BY DEF From, Alike, Kept

LEMMA AlikeTwice ==
    ASSUME NEW s, NEW t, NEW u, Alike(s, t), Alike(t, u)
    PROVE  Alike(s, u)
  BY DEF Alike

LEMMA AlikeIdle == \A s : Alike(s, ToIdle(s))
  BY DEF IsRecord, Alike, ToIdle

LEMMA AlikeSteps ==
    ASSUME NEW s, NEW x, NEW y
    PROVE  /\ Alike(s, [s EXCEPT !.retries = x]) /\ Alike(s, [s EXCEPT !.nextActionAt = x])
           /\ Alike(s, [s EXCEPT !.retries = x, !.nextActionAt = y])
           /\ Alike(s, [s EXCEPT !.phase = x, !.deadlineAt = y])
           /\ Alike(s, [s EXCEPT !.blockedUntil = x, !.blockFingerprint = y])
  BY DEF IsRecord, Alike

LEMMA AlikeFailed ==
    ASSUME NEW s, NEW until
    PROVE  Alike(s, [s EXCEPT !.phase = "failed", !.failedAt = at,
                              !.nextActionAt = Null,
                              !.blockedUntil = IF until = Null THEN @ ELSE until,
                              !.blockFingerprint = IF until = Null THEN @ ELSE binding,
                              !.failureNotified = TRUE])
  BY DEF IsRecord, Alike

LEMMA AlikeLoaded == Alike(disk, Loaded)
<1> DEFINE freed == [disk EXCEPT !.blockedUntil = Null, !.blockFingerprint = Null]
<1>0. Alike(disk, freed)
  BY AlikeSteps
<1>1. Alike(disk, disk) /\ Alike(freed, ToIdle(freed))
  BY AlikeIdle DEF Alike
<1> HIDE DEF freed
<1>2. Alike(disk, ToIdle(freed))
  BY <1>0, <1>1, AlikeTwice
<1> QED
  BY <1>1, <1>2 DEF Loaded, freed

LEMMA DiskFrom == Kept(disk) => From(disk)
  BY DEF From

LEMMA LoadedFrom == Kept(disk) => From(Loaded) /\ From(ToIdle(Loaded))
<1> SUFFICES ASSUME Kept(disk) PROVE From(Loaded) /\ From(ToIdle(Loaded))
  OBVIOUS
<1>1. From(Loaded)
  BY DiskFrom, AlikeLoaded, AlikeFrom
<1>2. Alike(Loaded, ToIdle(Loaded))
  BY AlikeIdle
<1> QED
  BY <1>1, <1>2, AlikeFrom
-----------------------------------------------------------------------------
(* A step that starts nothing and forgets no start of the last Day.        *)
Quiet ==
    /\ started' = started /\ now <= now' /\ Times' /\ States' /\ Since <= Since'
    /\ disk'.lastStartAt = disk.lastStartAt
    /\ \A t \in disk.startHistory : t \in disk'.startHistory \/ t + Day <= Since'

LEMMA Numbers ==
    /\ Day \in Nat \ {0} /\ DailyStartCap \in Nat \ {0} /\ Cooldown \in Nat \ {0}
    /\ MaxLag \in Nat
  BY PolicyAssumption DEF PolicyAssumption

(* A start that is at most lag behind its stamp, once the span is over.    *)
LEMMA LateBy ==
    \A start, last, stampOf, lag, span, tickAt, time \in Nat :
        (/\ start <= last /\ last <= stampOf + lag
         /\ stampOf + span <= tickAt /\ tickAt <= time)
        => start + span <= time + lag
  OBVIOUS

LEMMA QuietIInv ==
    ASSUME IInv, Quiet
    PROVE  IInv'
<1>1. PICK stamp : Stamps(stamp)
  BY DEF IInv
<1>2. now \in Nat /\ now' \in Nat /\ Since \in Nat /\ Since' \in Nat /\ Since <= Since'
  BY DEF IInv, Times, Quiet, Since
<1>3. Stamps(stamp)'
  <2>1. \A k \in 1..Len(started) : stamp[k] \in disk'.startHistory \/ stamp[k] + Day <= Since'
    <3> SUFFICES ASSUME NEW k \in 1..Len(started)
                 PROVE  stamp[k] \in disk'.startHistory \/ stamp[k] + Day <= Since'
      OBVIOUS
    <3>1. stamp[k] \in Nat /\ (stamp[k] \in disk.startHistory \/ stamp[k] + Day <= Since)
      BY <1>1 DEF Stamps
    <3>2. CASE stamp[k] \in disk.startHistory
      BY <3>2 DEF Quiet
    <3>3. CASE stamp[k] + Day <= Since
      <4>1. Day \in Nat /\ Since <= Since' /\ Since \in Nat /\ Since' \in Nat
        BY <1>2, Numbers
      <4>2. stamp[k] + Day <= Since'
        BY <3>1, <3>3, <4>1
      <4> QED
        BY <4>2
    <3> QED
      BY <3>1, <3>2, <3>3
  <2> QED
    BY <1>1, <2>1 DEF Stamps, Quiet
<1>4. Ascending'
  <2>1. started \in Seq(Nat) /\ \A k \in 1..Len(started) : started[k] <= now
    BY DEF IInv, Ascending
  <2>2. ASSUME NEW k \in 1..Len(started) PROVE started[k] <= now'
    <3>1. started[k] \in Nat /\ started[k] <= now /\ now <= now'
      <4>1. started[k] \in Nat
        BY <2>1
      <4> QED
        BY <2>1, <4>1 DEF Quiet
    <3> HIDE DEF Quiet
    <3> QED
      BY <1>2, <3>1
  <2> QED
    BY <2>1, <2>2 DEF IInv, Ascending, Quiet
<1>5. StartsLimited'
  BY DEF IInv, Quiet, StartsLimited, StartsSpaced, StartsCapped
<1> QED
  BY <1>3, <1>4, <1>5 DEF IInv, Quiet

(* Outside of the tick's own work: what it loaded and disk stay.           *)
LEMMA OutsideQuiet ==
    ASSUME IInv, UNCHANGED <<started, disk, mem, pc, at>>, Times', now <= now'
    PROVE  Quiet
<1>1. States'
  BY DEF IInv, States, From, Kept
<1>2. Since <= Since'
  BY DEF Since, IInv, Times
<1> QED
  BY <1>1, <1>2 DEF Quiet

LEMMA EventsQuiet ==
    ASSUME IInv, \/ Clock \/ Enqueue \/ EnqueueDuplicate \/ Pull \/ Heartbeat \/ Rebind
                 \/ UNCHANGED vars
    PROVE  Quiet
<1>1. UNCHANGED <<started, disk, mem, pc, at>>
  BY DEF Clock, Enqueue, EnqueueDuplicate, Pull, Heartbeat, Rebind, vars, tickVars, histVars
<1>2. CASE Clock
  <2>1. Times' /\ now <= now'
    BY <1>1, <1>2, Numbers DEF IInv, Times, Clock
  <2> QED
    BY <1>1, <2>1, OutsideQuiet
<1>3. CASE now' = now
  <2>1. Times' /\ now <= now'
    BY <1>1, <1>3 DEF IInv, Times
  <2> QED
    BY <1>1, <2>1, OutsideQuiet
<1> QED
  BY <1>2, <1>3 DEF Enqueue, EnqueueDuplicate, Pull, Heartbeat, Rebind, vars

(* A step of the tick that goes on with a state that follows disk.         *)
LEMMA WorkQuiet ==
    ASSUME IInv, pc # "none", UNCHANGED <<started, now, at>>, pc' # "none",
           From(mem'), disk' = disk \/ disk' = mem'
    PROVE  Quiet
<1>1. Times' /\ now <= now'
  BY DEF IInv, Times
<1>2. Kept(disk') /\ disk'.lastStartAt = disk.lastStartAt
  BY DEF IInv, States, From
<1>3. \A t \in disk.startHistory : t \in disk'.startHistory \/ t + Day <= at
  BY DEF From
<1>4. From(mem)'
  BY DEF From, Kept
<1>5. Since <= Since' /\ Since' = at
  BY DEF Since, IInv, Times
<1> QED
  BY <1>1, <1>2, <1>3, <1>4, <1>5 DEF Quiet, States

LEMMA FailQuiet ==
    ASSUME IInv, pc # "none", UNCHANGED <<now, at>>, NEW s, From(s), NEW until, Fail(s, until)
    PROVE  Quiet
<1>1. From(mem') /\ (disk' = disk \/ disk' = mem') /\ started' = started /\ pc' # "none"
  <2>1. Alike(s, mem')
    BY AlikeFailed DEF Fail
  <2> QED
    BY <2>1, AlikeFrom DEF Fail
<1> QED
  BY <1>1, WorkQuiet

LEMMA GitHubFailsQuiet ==
    ASSUME IInv, pc # "none", UNCHANGED <<now, at>>, NEW s, From(s), GitHubFails(s)
    PROVE  Quiet
<1>1. CASE Fail(s, at + BlockTime)
  BY <1>1, FailQuiet
<1>2. ASSUME NEW r \in RetryAfters, Retry(s, r) PROVE Quiet
  <2>1. CASE Fail([s EXCEPT !.retries = @ + 1], Null)
    <3> DEFINE t == [s EXCEPT !.retries = s.retries + 1]
    <3>0. Alike(s, t)
      BY AlikeSteps
    <3> HIDE DEF t
    <3>1. From(t)
      BY <3>0, AlikeFrom
    <3> USE DEF t
    <3> QED
      BY <2>1, <3>1, FailQuiet
  <2>2. CASE /\ mem' = [s EXCEPT !.retries = @ + 1, !.nextActionAt = at + Larger(Backoff(s.retries + 1), r)]
             /\ pc' = "done" /\ UNCHANGED <<disk, started, told, quiet, fatal>>
    <3>1. Alike(s, mem')
      BY <2>2, AlikeSteps
    <3>2. From(mem')
      BY <3>1, AlikeFrom
    <3> QED
      BY <2>2, <3>2, WorkQuiet
  <2> QED
    BY <1>2, <2>1, <2>2 DEF Retry
<1> QED
  BY <1>1, <1>2 DEF GitHubFails

LEMMA LoadQuiet ==
    ASSUME IInv, TickStart \/ NoticeEnds \/ LoadSettled \/ LoadResting \/ LoadNewCycle \/ LoadSameCycle
    PROVE  Quiet
<1>0. Kept(disk)
  BY DEF IInv, States
<1>1. CASE TickStart
  <2>1. /\ UNCHANGED <<started, disk, mem, now>> /\ pc = "none" /\ at' = now
        /\ pc' \notin Working /\ pc' # "none"
    BY <1>1 DEF TickStart, Working
  <2>2. Times' /\ now <= now' /\ Since <= Since'
    <3>1. now - now = 0 /\ 0 <= MaxLag
      BY Numbers DEF IInv, Times
    <3> QED
      BY <2>1, <3>1 DEF IInv, Times, Since
  <2>3. States'
    BY <1>0, <2>1 DEF States, Kept
  <2> QED
    BY <2>1, <2>2, <2>3 DEF Quiet
<1>2. CASE NoticeEnds
  <2>1. UNCHANGED <<started, disk, mem, now, at>> /\ pc # "none" /\ pc' # "none"
    BY <1>2 DEF NoticeEnds, RestOfTick, histVars
  <2>2. pc' \in Working => pc \in Working
    BY <1>2 DEF NoticeEnds, Working
  <2>3. Times' /\ now <= now' /\ Since' = Since /\ Since <= Since
    BY <2>1 DEF IInv, Times, Since
  <2>4. States'
    BY <2>1, <2>2 DEF IInv, States, From, Kept
  <2> QED
    BY <2>1, <2>3, <2>4 DEF Quiet
<1>3. CASE LoadSettled \/ LoadResting \/ LoadNewCycle \/ LoadSameCycle
  <2>1. UNCHANGED <<started, now, at>> /\ pc # "none" /\ pc' # "none" /\ (disk' = disk \/ disk' = mem')
    BY <1>3 DEF LoadSettled, LoadResting, LoadNewCycle, LoadSameCycle, RestOfTick, histVars
  <2>2. From(Loaded) /\ From(ToIdle(Loaded))
    BY <1>0, LoadedFrom
  <2>3. From(mem')
    <3>1. CASE LoadNewCycle
      <4>1. Alike(ToIdle(Loaded), mem')
        BY <3>1, AlikeSteps DEF LoadNewCycle
      <4> QED
        BY <2>2, <4>1, AlikeFrom
    <3> QED
      BY <1>3, <2>2, <3>1 DEF LoadSettled, LoadResting, LoadSameCycle
  <2> QED
    BY <2>1, <2>3, WorkQuiet
<1> QED
  BY <1>1, <1>2, <1>3

LEMMA EndQuiet ==
    ASSUME IInv, TickDone \/ TickThrows \/ Evicted
    PROVE  Quiet
<1>1. UNCHANGED <<started, now>> /\ pc # "none" /\ pc' = "none"
  BY DEF TickDone, TickThrows, Evicted, Interrupt, Rest, Awaits, histVars
<1>2. Times' /\ now <= now' /\ Since = at /\ Since' = now /\ Since <= Since'
  BY <1>1 DEF IInv, Times, Since
<1>3. From(disk')
  <2>1. CASE TickDone
    BY <2>1 DEF TickDone, IInv, States, Working
  <2>2. CASE TickThrows \/ Evicted
    BY <2>2, DiskFrom DEF TickThrows, Evicted, Interrupt, IInv, States
  <2> QED
    BY <2>1, <2>2
<1>4. States'
  BY <1>1, <1>3 DEF States, From, Kept, Working
<1>5. \A t \in disk.startHistory : t \in disk'.startHistory \/ t + Day <= Since'
  <2> SUFFICES ASSUME NEW t \in disk.startHistory, t + Day <= at PROVE t + Day <= now
    BY <1>2, <1>3 DEF From
  <2>1. t \in Nat
    BY DEF IInv, States, Kept
  <2> QED
    BY <1>1, <2>1, Numbers DEF IInv, Times
<1> QED
  BY <1>1, <1>2, <1>3, <1>4, <1>5 DEF Quiet, From
-----------------------------------------------------------------------------
(* The history of the last Day, as the start sees it.                      *)
Trim(s) == [s EXCEPT !.startHistory = {t \in @ : at - t < Day}]

LEMMA TrimFrom ==
    ASSUME IInv, pc # "none", NEW s, From(s)
    PROVE  From(Trim(s)) /\ \A t \in Trim(s).startHistory : at - t < Day
<1>1. /\ IsRecord(Trim(s)) /\ Trim(s).lastStartAt = s.lastStartAt
      /\ Trim(s).startHistory = {t \in s.startHistory : at - t < Day}
  BY DEF From, Kept, IsRecord, Trim
<1>2. IsFiniteSet(Trim(s).startHistory)
  BY <1>1, FS_Subset DEF From, Kept
<1>3. Kept(Trim(s))
  BY <1>1, <1>2 DEF From, Kept
<1>4. ASSUME NEW t \in disk.startHistory PROVE t \in Trim(s).startHistory \/ t + Day <= at
  <2>1. t \in Nat /\ at \in Nat
    BY DEF IInv, States, Kept, Times
  <2>2. at - t < Day \/ t + Day <= at
    BY <2>1, Numbers
  <2> QED
    BY <1>1, <2>2 DEF From
<1> QED
  BY <1>1, <1>3, <1>4 DEF From

(* The request keeps the cooldown and the cap; its stamp is persisted.     *)
LEMMA RequestIInv ==
    ASSUME IInv, pc # "none", UNCHANGED <<now, at>>, NEW s, From(s), RequestStart(s),
           \A t \in s.startHistory : at - t < Day,
           at >= CooldownEnd(s), Cardinality(s.startHistory) < DailyStartCap
    PROVE  IInv'
<1> DEFINE n == Len(started)
<1>1. PICK stamp : Stamps(stamp)
  BY DEF IInv
<1>2. /\ now \in Nat \ {0} /\ at \in Nat \ {0} /\ at <= now /\ now - at <= MaxLag
      /\ Since = at /\ started \in Seq(Nat) /\ n \in Nat
      /\ started' = Append(started, now) /\ pc' = "start" /\ now' = now /\ at' = at
      /\ mem' = Intent(s) /\ disk' = Intent(s)
  BY DEF IInv, Times, Ascending, Since, RequestStart
<1>3. /\ Len(started') = n + 1 /\ started'[n + 1] = now /\ \A k \in 1..n : started'[k] = started[k]
      /\ started' \in Seq(Nat)
  BY <1>2
<1>31. n \in Nat /\ now \in Nat /\ at \in Nat /\ at <= now /\ now <= at + MaxLag
  BY <1>2, Numbers
<1>32. \A k \in 1..(n + 1) : k = n + 1 \/ k \in 1..n
  BY <1>31
<1>33. \A j, k \in 1..(n + 1) : j < k => j \in 1..n
  BY <1>31
<1>4. /\ disk'.startHistory = s.startHistory \cup {at} /\ disk'.lastStartAt = at /\ Kept(disk')
      /\ mem' = disk'
  <2>1. /\ Intent(s).startHistory = s.startHistory \cup {at} /\ Intent(s).lastStartAt = at
        /\ IsRecord(Intent(s))
    BY DEF Intent, IsRecord, From, Kept
  <2>2. IsFiniteSet(s.startHistory \cup {at})
    BY FS_AddElement DEF From, Kept
  <2> QED
    BY <1>2, <2>1, <2>2 DEF Kept, From
<1>5. n > 0 => stamp[n] + Cooldown <= at /\ stamp[n] \in Nat \ {0}
  <2> SUFFICES ASSUME n > 0 PROVE stamp[n] + Cooldown <= at /\ stamp[n] \in Nat \ {0}
    OBVIOUS
  <2>1. n \in 1..n
    BY <1>2
  <2>2. stamp[n] \in Nat \ {0} /\ disk.lastStartAt = stamp[n]
    BY <1>1, <2>1 DEF Stamps
  <2>3. CooldownEnd(s) = stamp[n] + Cooldown
    BY <2>2 DEF CooldownEnd, From
  <2>4. at \in Nat /\ CooldownEnd(s) \in Nat
    BY <1>2, <2>2, <2>3, Numbers
  <2> QED
    BY <2>2, <2>3, <2>4
<1>6. \A k \in 1..n : /\ stamp[k] \in Nat \ {0} /\ stamp[k] < at /\ started[k] \in Nat
                      /\ stamp[k] <= started[k] /\ started[k] <= stamp[k] + MaxLag
                      /\ started[k] <= started[n] /\ started[k] <= now
  <2> SUFFICES ASSUME NEW k \in 1..n
               PROVE  /\ stamp[k] \in Nat \ {0} /\ stamp[k] < at /\ started[k] \in Nat
                      /\ stamp[k] <= started[k] /\ started[k] <= stamp[k] + MaxLag
                      /\ started[k] <= started[n] /\ started[k] <= now
    OBVIOUS
  <2>1. /\ stamp[k] \in Nat \ {0} /\ (k < n => stamp[k] < stamp[n]) /\ n > 0 /\ n \in 1..n
        /\ stamp[k] <= started[k] /\ started[k] <= stamp[k] + MaxLag
    BY <1>1, <1>2 DEF Stamps
  <2>2. started[k] \in Nat /\ started[n] \in Nat
    BY <1>2, <2>1
  <2>3. started[k] <= now /\ (k < n => started[k] <= started[n])
    BY <1>2, <2>1 DEF IInv, Ascending
  <2>4. k = n \/ k < n
    BY <1>2
  <2>5. stamp[k] < at
    BY <1>2, <1>5, <2>1, <2>4, Numbers
  <2> QED
    BY <2>1, <2>2, <2>3, <2>4, <2>5
<1>7. Times' /\ Since' = at
  BY <1>2 DEF Times, Since
<1>8. States'
  BY <1>2, <1>4 DEF States, From, Working
<1>9. Ascending'
  <2>1. \A k \in 1..(n + 1) : started'[k] <= now
    BY <1>3, <1>31, <1>32, <1>6
  <2>2. ASSUME NEW j \in 1..(n + 1), NEW k \in 1..(n + 1), j < k PROVE started'[j] <= started'[k]
    <3>1. j \in 1..n /\ (k = n + 1 \/ k \in 1..n)
      BY <1>32, <1>33, <2>2
    <3> QED
      BY <1>3, <1>6, <2>2, <3>1 DEF IInv, Ascending
  <2> QED
    BY <1>2, <1>3, <2>1, <2>2 DEF Ascending
<1>10. \E q : Stamps(q)'
  <2> DEFINE q == [k \in 1..(n + 1) |-> IF k = n + 1 THEN at ELSE stamp[k]]
  <2>1. q[n + 1] = at /\ \A k \in 1..n : q[k] = stamp[k] /\ k \in 1..(n + 1)
    BY <1>2
  <2>2. q \in [1..(n + 1) -> Nat \ {0}]
    BY <1>2, <1>6
  <2>3. \A k \in 1..(n + 1) : k = n + 1 \/ k \in 1..n
    BY <1>32
  <2> HIDE DEF q
  <2>0. PICK c : c = q
    OBVIOUS
  <2>4. \A k \in 1..(n + 1) : q[k] <= started'[k] /\ started'[k] <= q[k] + MaxLag
    <3> SUFFICES ASSUME NEW k \in 1..(n + 1)
                 PROVE  q[k] <= started'[k] /\ started'[k] <= q[k] + MaxLag
      OBVIOUS
    <3>1. CASE k = n + 1
      <4>1. q[k] = at /\ started'[k] = now
        BY <1>3, <2>1, <3>1
      <4> QED
        BY <1>31, <4>1
    <3>2. CASE k \in 1..n
      BY <1>3, <1>6, <2>1, <3>2
    <3> QED
      BY <2>3, <3>1, <3>2
  <2>5. ASSUME NEW j \in 1..(n + 1), NEW k \in 1..(n + 1), j < k PROVE q[j] < q[k]
    <3>1. j \in 1..n /\ (k = n + 1 \/ k \in 1..n)
      BY <1>32, <1>33, <2>5
    <3> QED
      BY <1>1, <1>6, <2>1, <2>5, <3>1 DEF Stamps
  <2>6. ASSUME NEW k \in 1..(n + 1) PROVE q[k] \in disk'.startHistory \/ q[k] + Day <= Since'
    <3>1. CASE k = n + 1
      BY <1>4, <2>1, <3>1
    <3>2. CASE k \in 1..n
      <4>1. stamp[k] \in disk.startHistory \/ stamp[k] + Day <= at
        BY <1>1, <1>2, <3>2 DEF Stamps
      <4> QED
        BY <1>4, <1>7, <2>1, <3>2, <4>1 DEF From
    <3> QED
      BY <2>3, <3>1, <3>2
  <2>7. Stamps(c)'
    <3>1. Len(started') = n + 1 /\ disk'.lastStartAt = q[n + 1]
      BY <1>3, <1>4, <2>1
    <3> HIDE DEF n
    <3> QED
      BY <2>0, <2>2, <2>4, <2>5, <2>6, <3>1 DEF Stamps
  <2> QED
    BY <2>7
<1>11. StartsSpaced'
  <2> SUFFICES ASSUME NEW i \in 1..(n + 1), NEW j \in 1..(n + 1), i < j
               PROVE  started'[j] + MaxLag >= started'[i] + Cooldown
    BY <1>3 DEF StartsSpaced
  <2>1. i \in 1..n /\ (j = n + 1 \/ j \in 1..n)
    BY <1>32, <1>33
  <2>2. CASE j \in 1..n
    BY <1>3, <2>1, <2>2 DEF IInv, StartsLimited, StartsSpaced
  <2>3. CASE j = n + 1
    <3>1. n \in 1..n /\ n > 0
      BY <1>2, <2>1
    <3>2. /\ started[i] \in Nat /\ started[n] \in Nat /\ stamp[n] \in Nat
          /\ started[i] <= started[n] /\ started[n] <= stamp[n] + MaxLag /\ stamp[n] + Cooldown <= at
      BY <1>5, <1>6, <2>1, <3>1
    <3>3. started[i] + Cooldown <= now + MaxLag
      <4>1. stamp[n] + Cooldown <= at /\ at <= now
        BY <1>31, <3>2
      <4> QED
        BY <1>31, <3>2, <4>1, Numbers, LateBy
    <3>4. started'[j] = now /\ started'[i] = started[i]
      BY <1>3, <2>1, <2>3
    <3>5. now + MaxLag \in Nat /\ started[i] + Cooldown \in Nat
      BY <1>31, <3>2, Numbers
    <3> QED
      BY <3>3, <3>4, <3>5
  <2> QED
    BY <2>1, <2>2, <2>3
<1>12. StartsCapped'
  <2> SUFFICES ASSUME NEW i \in 1..(n + 1), i + DailyStartCap <= n + 1
               PROVE  started'[i + DailyStartCap] + MaxLag >= started'[i] + Day
    BY <1>3 DEF StartsCapped
  <2>1. i \in 1..n /\ i + DailyStartCap \in 1..(n + 1)
    BY <1>2, Numbers
  <2>2. CASE i + DailyStartCap <= n
    <3>1. i + DailyStartCap \in 1..n
      BY <1>2, <2>1, <2>2, Numbers
    <3> QED
      BY <1>3, <2>1, <2>2, <3>1 DEF IInv, StartsLimited, StartsCapped
  <2>3. CASE i + DailyStartCap = n + 1
    <3>1. stamp[i] + Day <= at
      <4> SUFFICES ASSUME ~(stamp[i] + Day <= at) PROVE FALSE
        OBVIOUS
      <4>1. ASSUME NEW k \in i..n PROVE stamp[k] \in s.startHistory
        <5>1. k \in 1..n /\ (k = i \/ i < k)
          BY <1>2, <2>1
        <5>2. stamp[i] <= stamp[k] /\ stamp[k] \in Nat /\ stamp[i] \in Nat
          BY <1>1, <1>6, <2>1, <5>1 DEF Stamps
        <5>3. ~(stamp[k] + Day <= at)
          <6>1. at \in Nat /\ ~(stamp[i] + Day <= at)
            BY <1>2
          <6> QED
            BY <5>2, <6>1, Numbers
        <5>4. stamp[k] \in disk.startHistory
          BY <1>1, <1>2, <5>1, <5>3 DEF Stamps
        <5> QED
          BY <5>3, <5>4 DEF From
      <4> DEFINE f == [k \in i..n |-> stamp[k]]
      <4>2. f \in Injection(i..n, s.startHistory)
        <5>1. f \in [i..n -> s.startHistory]
          BY <4>1
        <5>2. ASSUME NEW a \in i..n, NEW b \in i..n, f[a] = f[b] PROVE a = b
          <6>1. a \in 1..n /\ b \in 1..n /\ stamp[a] = stamp[b] /\ (a < b \/ b < a \/ a = b)
            BY <1>2, <2>1, <5>2
          <6> QED
            BY <1>1, <1>6, <6>1 DEF Stamps
        <5> HIDE DEF f
        <5>3. DOMAIN f = i..n
          BY <5>1
        <5> QED
          BY <5>1, <5>2, <5>3 DEF Injection, IsInjective
      <4>3. Cardinality(i..n) <= Cardinality(s.startHistory)
        BY <4>2, FS_Injection DEF From, Kept
      <4>4. Cardinality(i..n) = DailyStartCap
        <5>1. i \in Int /\ n \in Int /\ ~(i > n) /\ n - i + 1 = DailyStartCap
          BY <1>2, <2>1, <2>3, Numbers
        <5> QED
          BY <5>1, FS_Interval
      <4>5. Cardinality(s.startHistory) \in Nat
        BY FS_CardinalityType DEF From, Kept
      <4> QED
        BY <4>3, <4>4, <4>5, Numbers
    <3>2. started[i] <= stamp[i] + MaxLag /\ started[i] \in Nat /\ stamp[i] \in Nat
      BY <1>6, <2>1
    <3>3. started[i] + Day <= now + MaxLag
      BY <1>31, <3>1, <3>2, Numbers, LateBy
    <3>4. started'[i + DailyStartCap] = now /\ started'[i] = started[i]
      BY <1>3, <2>1, <2>3
    <3>5. now + MaxLag \in Nat /\ started[i] + Day \in Nat
      BY <1>31, <3>2, Numbers
    <3> QED
      BY <3>3, <3>4, <3>5
  <2>4. i + DailyStartCap <= n \/ i + DailyStartCap = n + 1
    <3>1. i \in Nat /\ n \in Nat /\ DailyStartCap \in Nat
      BY <1>2, <2>1, Numbers
    <3> QED
      BY <3>1
  <2> QED
    BY <2>2, <2>3, <2>4
<1> QED
  BY <1>7, <1>8, <1>9, <1>10, <1>11, <1>12 DEF IInv, StartsLimited

(* Every answer of GitHub: a start happens only in one of them.            *)
LEMMA AnsweredIInv ==
    ASSUME IInv, StatusAnswered \/ StartAnswered
    PROVE  IInv'
<1>0. UNCHANGED <<now, at>> /\ pc # "none" /\ pc \in Working
  BY DEF StatusAnswered, StartAnswered, RestOfTick, Working
<1>1. From(mem)
  BY <1>0 DEF IInv, States
<1>2. From(Observed)
  BY <1>1, AlikeSteps, AlikeFrom DEF Observed
<1>3. ASSUME NEW s, From(s), NEW until, Fail(s, until) PROVE IInv'
  BY <1>0, <1>3, FailQuiet, QuietIInv
<1>4. ASSUME GitHubFails(mem) PROVE IInv'
  BY <1>0, <1>1, <1>4, GitHubFailsQuiet, QuietIInv
<1>5. ASSUME NEW s, From(s), NEW x, mem' = [s EXCEPT !.nextActionAt = x], pc' = "done", UNCHANGED <<disk, started>>
      PROVE  IInv'
  <2>1. From(mem')
    BY <1>5, AlikeSteps, AlikeFrom
  <2> QED
    BY <1>0, <1>5, <2>1, WorkQuiet, QuietIInv
<1>6. CASE WaitForAgent(Observed)
  BY <1>2, <1>3, <1>5, <1>6 DEF WaitForAgent
<1>7. CASE Start(Observed)
  <2> DEFINE recent == Trim(Observed)
  <2>1. From(recent) /\ \A t \in recent.startHistory : at - t < Day
    BY <1>0, <1>2, TrimFrom
  <2>2. CASE Observed.startsThisCycle >= MaxStartsPerCycle
    BY <1>2, <1>3, <1>7, <2>2 DEF Start
  <2> HIDE DEF recent
  <2>3. CASE WaitForCooldown(Observed)
    BY <1>2, <1>5, <2>3 DEF WaitForCooldown
  <2>4. CASE \E until : Fail(recent, until)
    BY <1>3, <2>1, <2>4
  <2>5. CASE /\ ~(at < CooldownEnd(Observed)) /\ RequestStart(recent)
             /\ ~(Cardinality(recent.startHistory) >= DailyStartCap)
    <3>1. CooldownEnd(recent) = CooldownEnd(Observed)
      BY <1>2, <2>1 DEF CooldownEnd, From
    <3>2. at \in Nat /\ CooldownEnd(recent) \in Nat
      BY <1>0, <2>1, Numbers DEF IInv, Times, CooldownEnd, From, Kept
    <3>3. Cardinality(recent.startHistory) \in Nat
      BY <2>1, FS_CardinalityType DEF From, Kept
    <3>4. at >= CooldownEnd(recent) /\ Cardinality(recent.startHistory) < DailyStartCap
      BY <2>5, <3>1, <3>2, <3>3, Numbers
    <3> QED
      BY <1>0, <2>1, <2>5, <3>4, RequestIInv
  <2>6. \/ Observed.startsThisCycle >= MaxStartsPerCycle
        \/ WaitForCooldown(Observed)
        \/ \E until : Fail(recent, until)
        \/ /\ ~(at < CooldownEnd(Observed)) /\ RequestStart(recent)
           /\ ~(Cardinality(recent.startHistory) >= DailyStartCap)
    BY <1>7 DEF Start, Recent, Trim, recent
  <2> QED
    BY <2>2, <2>3, <2>4, <2>5, <2>6
<1>8. CASE pc' = "done" /\ UNCHANGED <<mem, disk, started, told, quiet, fatal>>
  BY <1>0, <1>1, <1>8, WorkQuiet, QuietIInv
<1> QED
  BY <1>2, <1>3, <1>4, <1>6, <1>7, <1>8 DEF StatusAnswered, StartAnswered

LEMMA InitIInv == Init => IInv
<1> SUFFICES ASSUME Init PROVE IInv
  OBVIOUS
<1>1. /\ now = 1 /\ pc = "none" /\ disk = InitialWake /\ started = <<>>
  BY DEF Init
<1>2. Times
  BY <1>1 DEF Times
<1>3. States
  BY <1>1, FS_EmptySet DEF States, Kept, IsRecord, InitialWake, Working
<1>4. Len(started) = 0 /\ started \in Seq(Nat) /\ 1..0 = {}
  BY <1>1
<1>5. Ascending /\ StartsLimited
  BY <1>4 DEF Ascending, StartsLimited, StartsSpaced, StartsCapped
<1>6. Stamps([k \in 1..0 |-> 1])
  BY <1>4 DEF Stamps
<1> QED
  BY <1>2, <1>3, <1>5, <1>6 DEF IInv

LEMMA NextIInv == IInv /\ [Next]_vars => IInv'
<1> SUFFICES ASSUME IInv, [Next]_vars PROVE IInv'
  OBVIOUS
<1>1. CASE StatusAnswered \/ StartAnswered
  BY <1>1, AnsweredIInv
<1>2. CASE TickStart \/ NoticeEnds \/ LoadSettled \/ LoadResting \/ LoadNewCycle \/ LoadSameCycle
  BY <1>2, LoadQuiet, QuietIInv
<1>3. CASE TickDone \/ TickThrows \/ Evicted
  BY <1>3, EndQuiet, QuietIInv
<1>4. CASE \/ Clock \/ Enqueue \/ EnqueueDuplicate \/ Pull \/ Heartbeat \/ Rebind
           \/ UNCHANGED vars
  BY <1>4, EventsQuiet, QuietIInv
<1> QED
  BY <1>1, <1>2, <1>3, <1>4 DEF Next, Tick

(* No two start requests are closer than the cooldown, and no more than    *)
(* dailyStartCap of them fall in any Day, but for the length of one tick:  *)
(* for every policy, over ticks that throw, evictions and lost alarms.     *)
THEOREM PolicyKept == Spec => []StartsLimited
<1>1. IInv => StartsLimited
  BY DEF IInv
<1> QED
  BY <1>1, InitIInv, NextIInv, PTL DEF Spec
-----------------------------------------------------------------------------
Positive == Nat \ {0}

(* The types, with what the arithmetic of alarms needs besides.            *)
Counts == [enqueues : Nat, seen : Nat, faults : Nat, rebinds : Nat]
Typed == TypeOK /\ updates \in Seq(Positive) /\ count \in Counts

LEMMA Policy ==
    /\ QueueCap \in Positive /\ Ttl \in Positive /\ OnlineWindow \in Positive
    /\ AgentTimeout \in Positive /\ PollDelay \in Positive /\ Cooldown \in Positive
    /\ MaxStartsPerCycle \in Positive /\ BackoffBase \in Positive /\ BackoffCap \in Positive
    /\ BlockTime \in Positive /\ NoticeInterval \in Positive /\ Day \in Positive
    /\ DailyStartCap \in Positive /\ MaxTime \in Positive
    /\ MaxLag \in Nat /\ MaxRetries \in Nat /\ MaxRetryAfter \in Nat
    /\ \A r \in RetryAfters : r \in Nat /\ r <= MaxRetryAfter
    /\ \A n \in 0..MaxRetries : 2 ^ n \in Nat
    /\ AlarmsLost \in BOOLEAN
  BY PolicyAssumption DEF PolicyAssumption, Positive

(* The earliest of times there are is one of them.                         *)
LEMMA EarliestIs ==
    ASSUME NEW T, T \subseteq Nat, T # {}
    PROVE  Earliest(T) \in T /\ Earliest(T) \in Nat /\ \A u \in T : Earliest(T) <= u
<1> DEFINE R == OpToRel(<, Nat)
<1>1. IsWellFoundedOn(R, Nat)
  BY NatLessThanWellFounded
<1>2. PICK x \in T : \A y \in T : ~(<<y, x>> \in R)
  <2> HIDE DEF R
  <2> QED
    BY <1>1, WFMin
<1>3. \A y \in T : ~(y < x)
  BY <1>2 DEF OpToRel
<1>4. \A y \in T : x <= y
  BY <1>3
<1>5. Earliest(T) \in T /\ \A u \in T : Earliest(T) <= u
  BY <1>4 DEF Earliest
<1> QED
  BY <1>5

(* What is left of the rows after expire(t).                               *)
LEMMA UnexpiredTyped ==
    ASSUME updates \in Seq(Positive), NEW t \in Nat
    PROVE  /\ Unexpired(t) \in Seq(Positive) /\ Len(Unexpired(t)) <= Len(updates)
           /\ Len(Unexpired(t)) \in Nat
<1> DEFINE live == {k \in 1..Len(updates) : updates[k] > t}
<1>1. CASE live = {}
  BY <1>1 DEF Unexpired
<1>2. CASE live # {}
  <2>1. live \subseteq Nat
    OBVIOUS
  <2>2. Earliest(live) \in live
    <3> HIDE DEF live
    <3> QED
      BY <1>2, <2>1, EarliestIs
  <2>3. Earliest(live) \in 1..Len(updates)
    BY <2>2
  <2>4. Unexpired(t) = SubSeq(updates, Earliest(live), Len(updates))
    BY <1>2 DEF Unexpired
  <2>5. PICK k \in 1..Len(updates) : k = Earliest(live)
    BY <2>3
  <2> HIDE DEF live
  <2>6. SubSeq(updates, k, Len(updates)) \in Seq(Positive) /\ Len(SubSeq(updates, k, Len(updates))) <= Len(updates)
    <3>1. Len(updates) \in Nat
      OBVIOUS
    <3> QED
      BY <3>1
  <2> QED
    BY <2>4, <2>5, <2>6
<1> QED
  BY <1>1, <1>2

(* What the next alarm is computed from.                                   *)
Dated ==
    /\ updates \in Seq(Positive) /\ now \in Positive
    /\ lastSeen \in Nat /\ opsNoticeAt \in Nat
    /\ disk.nextActionAt \in Nat /\ disk.blockedUntil \in Nat

LEMMA AlarmTimesTyped == Dated => AlarmTimes \subseteq Positive
<1> SUFFICES ASSUME Dated PROVE AlarmTimes \subseteq Positive
  OBVIOUS
<1>1. updates # <<>> => Head(updates) \in Positive
  BY DEF Dated
<1>2. disk.nextActionAt \in Nat /\ disk.blockedUntil \in Nat
  BY DEF Dated
<1>3. lastSeen + OnlineWindow + 1 \in Positive /\ now \in Positive
  BY Policy DEF Dated, Positive
<1>4. Larger(now, IF opsNoticeAt = Null THEN 0 ELSE opsNoticeAt + NoticeInterval) \in Positive
  BY Policy DEF Dated, Positive, Larger
<1> QED
  BY <1>1, <1>2, <1>3, <1>4 DEF AlarmTimes, Pending, Positive

(* The alarm a handler computes is the earliest of its times.              *)
LEMMA NextAlarmIs ==
    Dated => /\ NextAlarm \in Nat /\ (AlarmTimes # {} => NextAlarm \in AlarmTimes)
             /\ \A t \in AlarmTimes : NextAlarm # Null /\ NextAlarm <= t
<1> SUFFICES ASSUME Dated
             PROVE  /\ NextAlarm \in Nat /\ (AlarmTimes # {} => NextAlarm \in AlarmTimes)
                    /\ \A t \in AlarmTimes : NextAlarm # Null /\ NextAlarm <= t
  OBVIOUS
<1>1. AlarmTimes \subseteq Positive
  BY AlarmTimesTyped
<1>2. CASE AlarmTimes = {}
  BY <1>2 DEF NextAlarm
<1>3. CASE AlarmTimes # {}
  <2>1. Earliest(AlarmTimes) \in AlarmTimes /\ \A u \in AlarmTimes : Earliest(AlarmTimes) <= u
    BY <1>1, <1>3, EarliestIs DEF Positive
  <2> QED
    BY <1>1, <1>3, <2>1 DEF NextAlarm, Positive
<1> QED
  BY <1>2, <1>3

LEMMA NextAlarmAfter ==
    Dated' => /\ NextAlarm' \in Nat
              /\ AlarmTimes' # {} => NextAlarm' \in AlarmTimes'
              /\ \A t \in AlarmTimes' : NextAlarm' # Null /\ NextAlarm' <= t
<1>1. (Dated => /\ NextAlarm \in Nat /\ (AlarmTimes # {} => NextAlarm \in AlarmTimes)
                /\ \A t \in AlarmTimes : NextAlarm # Null /\ NextAlarm <= t)'
  BY NextAlarmIs, PTL
<1> QED
  BY <1>1
-----------------------------------------------------------------------------
(* The types, in groups: what the tick has, and what the handlers keep.    *)
TickTyped ==
    /\ now \in 1..MaxTime
    /\ pc \in Awaits \cup {"none", "load", "done"}
    /\ at \in Nat /\ (pc = "none") = (at = Null)
    /\ at <= now /\ (pc # "none" => now - at <= MaxLag)
    /\ tellExpired \in BOOLEAN
StatesTyped == mem \in WakeState /\ disk \in WakeState
RowsTyped ==
    /\ updates \in Seq(Positive) /\ Len(updates) <= QueueCap
    /\ lastSeen \in Nat /\ lastEnqueue \in Nat /\ opsNoticeAt \in Nat
    /\ {expiredUnnotified, rejectedUnnotified, fullEpisode} \subseteq BOOLEAN
    /\ binding \in Nat /\ count \in Counts
PastTyped ==
    /\ started \in Seq(Nat) /\ cycleAt \in Nat
    /\ told \in [waking : Nat, failure : Nat, full : Nat]
    /\ quiet \in BOOLEAN /\ fatal \in [until : Nat, binding : Nat]

LEMMA TypedIs == Typed <=> TickTyped /\ StatesTyped /\ RowsTyped /\ PastTyped /\ alarm \in Nat
<1>1. updates \in Seq(Positive) => updates \in Seq(Nat)
  BY DEF Positive
<1> QED
  BY <1>1 DEF Typed, TypeOK, TickTyped, StatesTyped, RowsTyped, PastTyped

LEMMA TypedAfter ==
    ASSUME TickTyped', StatesTyped', RowsTyped', PastTyped', alarm' \in Nat
    PROVE  Typed'
<1>1. updates' \in Seq(Positive) => updates' \in Seq(Nat)
  BY DEF Positive
<1> QED
  BY <1>1 DEF Typed, TypeOK, TickTyped, StatesTyped, RowsTyped, PastTyped

LEMMA ScheduleTyped ==
    ASSUME TickTyped', StatesTyped', RowsTyped', alarm \in Nat,
           alarm' = alarm \/ Schedule \/ alarm' = IF NextAlarm' = Null THEN alarm ELSE NextAlarm'
    PROVE  alarm' \in Nat
<1>1. Dated'
  BY DEF Dated, TickTyped, StatesTyped, RowsTyped, WakeState, Positive
<1> QED
  BY <1>1, NextAlarmAfter DEF Schedule

(* A handler that accepts, confirms or drops rows.                         *)
LEMMA SuffixTyped ==
    ASSUME updates \in Seq(Positive), NEW t \in Nat, NEW k \in 0..Len(Unexpired(t))
    PROVE  /\ SubSeq(Unexpired(t), k + 1, Len(Unexpired(t))) \in Seq(Positive)
           /\ Len(SubSeq(Unexpired(t), k + 1, Len(Unexpired(t)))) <= Len(Unexpired(t))
<1>1. PICK rows : rows = Unexpired(t)
  OBVIOUS
<1>2. rows \in Seq(Positive) /\ Len(rows) \in Nat /\ k \in 0..Len(rows)
  BY <1>1, UnexpiredTyped
<1>3. SubSeq(rows, k + 1, Len(rows)) \in Seq(Positive) /\ Len(SubSeq(rows, k + 1, Len(rows))) <= Len(rows)
  BY <1>2
<1> QED
  BY <1>1, <1>3

LEMMA OutsideTyped ==
    ASSUME Typed, \/ Clock \/ Enqueue \/ EnqueueDuplicate \/ Pull \/ Heartbeat \/ Rebind
                  \/ UNCHANGED vars
    PROVE  Typed'
<1>1. TickTyped /\ StatesTyped /\ RowsTyped /\ PastTyped /\ alarm \in Nat
  BY TypedIs
<1>2. now \in Nat /\ now \in Positive
  BY <1>1, Policy DEF TickTyped, Positive
<1>3. /\ Unexpired(now) \in Seq(Positive) /\ Len(Unexpired(now)) <= Len(updates)
      /\ Len(Unexpired(now)) \in Nat
  BY <1>1, <1>2, UnexpiredTyped DEF RowsTyped
<1>4. UNCHANGED <<pc, at, mem, tellExpired, disk>>
  BY DEF Clock, Enqueue, EnqueueDuplicate, Pull, Heartbeat, Rebind, vars, tickVars
<1>5. StatesTyped'
  BY <1>1, <1>4 DEF StatesTyped
<1>6. TickTyped'
  <2>1. CASE Clock
    BY <1>1, <1>4, <2>1, Policy DEF TickTyped, Clock, Awaits, Positive
  <2>2. CASE now' = now
    BY <1>1, <1>4, <2>2 DEF TickTyped
  <2> QED
    BY <2>1, <2>2 DEF Enqueue, EnqueueDuplicate, Pull, Heartbeat, Rebind, vars
<1>7. CASE Enqueue
  <2>1. now + Ttl \in Positive
    BY <1>2, Policy DEF Positive
  <2>0. /\ count' \in Counts /\ expiredUnnotified' \in BOOLEAN /\ UNCHANGED <<lastSeen, opsNoticeAt, binding>>
    BY <1>1, <1>7 DEF Enqueue, Expire, RowsTyped, Counts
  <2>2. RowsTyped'
    <3>1. CASE Len(Unexpired(now)) < QueueCap
      <4>1. PICK rows : rows = Unexpired(now)
        OBVIOUS
      <4>2. rows \in Seq(Positive) /\ Len(rows) \in Nat /\ Len(rows) < QueueCap /\ QueueCap \in Nat
        BY <1>3, <3>1, <4>1, Policy DEF Positive
      <4>3. Append(rows, now + Ttl) \in Seq(Positive) /\ Len(Append(rows, now + Ttl)) = Len(rows) + 1
        BY <2>1, <4>2
      <4>4. updates' = Append(rows, now + Ttl)
        BY <1>7, <3>1, <4>1 DEF Enqueue
      <4>5. updates' \in Seq(Positive) /\ Len(updates') <= QueueCap
        BY <4>2, <4>3, <4>4
      <4>6. fullEpisode' = FALSE /\ rejectedUnnotified' = rejectedUnnotified /\ lastEnqueue' = now
        BY <1>7, <3>1 DEF Enqueue
      <4> QED
        BY <1>1, <1>2, <2>0, <4>5, <4>6 DEF RowsTyped
    <3>2. CASE ~(Len(Unexpired(now)) < QueueCap)
      <4>1. updates' = Unexpired(now) /\ Len(updates') <= QueueCap
        BY <1>1, <1>3, <1>7, <3>2, Policy DEF Enqueue, RowsTyped, Positive
      <4> QED
        BY <1>1, <1>2, <1>3, <1>7, <2>0, <3>2, <4>1 DEF RowsTyped, Enqueue
    <3> QED
      BY <3>1, <3>2
  <2>3. PastTyped'
    <3>1. told' = told \/ told' = [told EXCEPT !.full = 0]
      BY <1>7 DEF Enqueue
    <3>2. told' \in [waking : Nat, failure : Nat, full : Nat]
      BY <1>1, <3>1 DEF PastTyped
    <3>3. quiet' \in BOOLEAN /\ UNCHANGED <<started, cycleAt, fatal>>
      BY <1>1, <1>7 DEF Enqueue, PastTyped
    <3> QED
      BY <1>1, <3>2, <3>3 DEF PastTyped
  <2>4. alarm' \in Nat
    BY <1>1, <1>5, <1>6, <1>7, <2>2, ScheduleTyped DEF Enqueue
  <2> QED
    BY <1>5, <1>6, <2>2, <2>3, <2>4, TypedAfter
<1>8. CASE EnqueueDuplicate
  <2>1. RowsTyped'
    BY <1>1, <1>3, <1>8, Policy DEF RowsTyped, EnqueueDuplicate, seenVars, Expire, Positive
  <2>2. PastTyped'
    BY <1>1, <1>8 DEF EnqueueDuplicate, PastTyped, histVars
  <2>3. alarm' \in Nat
    BY <1>1, <1>5, <1>6, <1>8, <2>1, ScheduleTyped DEF EnqueueDuplicate
  <2> QED
    BY <1>5, <1>6, <2>1, <2>2, <2>3, TypedAfter
<1>9. CASE Pull
  <2>1. updates' \in Seq(Positive) /\ Len(updates') <= QueueCap
    <3>1. updates' \in Seq(Positive) /\ Len(updates') <= Len(Unexpired(now))
      BY <1>1, <1>2, <1>9, SuffixTyped DEF Pull, RowsTyped
    <3>2. Len(updates') \in Nat /\ Len(updates) \in Nat /\ Len(updates) <= QueueCap
      BY <1>1, <3>1 DEF RowsTyped
    <3> QED
      BY <1>3, <3>1, <3>2, Policy DEF Positive
  <2>2. RowsTyped'
    <3>0. count' \in Counts
      <4>1. count' = [count EXCEPT !.seen = count.seen + 1]
        BY <1>9 DEF Pull
      <4> QED
        BY <1>1, <4>1 DEF RowsTyped, Counts
    <3>1. /\ expiredUnnotified' \in BOOLEAN /\ lastSeen' = now
          /\ UNCHANGED <<lastEnqueue, opsNoticeAt, binding, rejectedUnnotified, fullEpisode>>
      BY <1>1, <1>9 DEF Pull, Expire, RowsTyped
    <3> QED
      BY <1>1, <1>2, <2>1, <3>0, <3>1 DEF RowsTyped
  <2>3. PastTyped'
    BY <1>1, <1>9 DEF Pull, PastTyped
  <2>4. alarm' \in Nat
    BY <1>1, <1>5, <1>6, <1>9, <2>2, ScheduleTyped DEF Pull
  <2> QED
    BY <1>5, <1>6, <2>2, <2>3, <2>4, TypedAfter
<1>10. CASE Clock \/ Heartbeat \/ Rebind \/ UNCHANGED vars
  <2>0. UNCHANGED <<updates, lastEnqueue, opsNoticeAt, expiredUnnotified, rejectedUnnotified, fullEpisode>>
    BY <1>10 DEF Clock, Heartbeat, Rebind, vars, seenVars, opsVars
  <2>00. (lastSeen' = lastSeen \/ lastSeen' = now) /\ (binding' = binding \/ binding' = binding + 1)
    BY <1>10 DEF Clock, Heartbeat, Rebind, vars, seenVars
  <2>01. count' \in Counts
    BY <1>1, <1>10 DEF RowsTyped, Clock, Heartbeat, Rebind, vars, Counts
  <2>1. RowsTyped'
    BY <1>1, <1>2, <2>0, <2>00, <2>01 DEF RowsTyped
  <2>2. PastTyped' /\ alarm' \in Nat
    BY <1>1, <1>10 DEF PastTyped, Clock, Heartbeat, Rebind, vars, histVars
  <2> QED
    BY <1>5, <1>6, <2>1, <2>2, TypedAfter
<1> QED
  BY <1>7, <1>8, <1>9, <1>10
-----------------------------------------------------------------------------
(* The states a tick makes of the one it loaded.                           *)
LEMMA StateSteps ==
    ASSUME NEW s \in WakeState, NEW x \in Nat, NEW y \in Nat
    PROVE  /\ ToIdle(s) \in WakeState
           /\ [s EXCEPT !.retries = x] \in WakeState
           /\ [s EXCEPT !.nextActionAt = x] \in WakeState
           /\ [s EXCEPT !.retries = x, !.nextActionAt = y] \in WakeState
           /\ [s EXCEPT !.phase = "waking", !.deadlineAt = x] \in WakeState
           /\ [s EXCEPT !.blockedUntil = x, !.blockFingerprint = y] \in WakeState
  BY DEF WakeState, ToIdle

LEMMA TrimTyped ==
    ASSUME NEW s \in WakeState
    PROVE  Trim(s) \in WakeState
  BY DEF WakeState, Trim

LEMMA IntentTyped ==
    ASSUME Typed, NEW s \in WakeState
    PROVE  Intent(s) \in WakeState
<1>1. at \in Nat /\ at + AgentTimeout \in Nat /\ at + PollDelay \in Nat
  BY Policy DEF Typed, TypeOK, Positive
<1>2. s.startHistory \cup {at} \in SUBSET Nat /\ s.startsThisCycle + 1 \in Nat
  BY <1>1 DEF WakeState
<1>3. ASSUME NEW h \in SUBSET Nat, NEW n \in Nat, NEW d \in Nat, NEW e \in Nat, NEW a \in Nat
      PROVE  [s EXCEPT !.startHistory = h, !.lastStartAt = a, !.startsThisCycle = n,
                       !.deadlineAt = d, !.nextActionAt = e] \in WakeState
  BY DEF WakeState
<1> QED
  BY <1>1, <1>2, <1>3 DEF Intent

LEMMA LoadedTyped ==
    ASSUME Typed
    PROVE  Loaded \in WakeState /\ ToIdle(Loaded) \in WakeState
<1>1. disk \in WakeState
  BY DEF Typed, TypeOK
<1>2. [disk EXCEPT !.blockedUntil = 0, !.blockFingerprint = 0] \in WakeState
  BY <1>1, StateSteps
<1>3. Loaded \in WakeState
  BY <1>1, <1>2, StateSteps DEF Loaded
<1> QED
  BY <1>3, StateSteps

(* A delay of GitHub's failure: at most the longest retry.                 *)
LEMMA DelayIs ==
    ASSUME NEW n \in 1..MaxRetries, NEW r \in RetryAfters
    PROVE  Larger(Backoff(n), r) \in Nat /\ Larger(Backoff(n), r) <= LongestRetry /\ LongestRetry \in Nat
<1>1. 2 ^ (n - 1) \in Nat
  <2>1. n - 1 \in 0..MaxRetries
    BY Policy
  <2> QED
    BY <2>1, Policy
<1>2. BackoffBase * 2 ^ (n - 1) \in Nat
  <2>1. \A a, b \in Nat : a * b \in Nat
    OBVIOUS
  <2> QED
    BY <1>1, <2>1, Policy DEF Positive
<1>3. Backoff(n) \in Nat /\ Backoff(n) <= BackoffCap
  <2> HIDE DEF Backoff
  <2>1. Backoff(n) = Smaller(BackoffCap, BackoffBase * 2 ^ (n - 1))
    BY DEF Backoff
  <2>2. PICK m \in Nat : m = BackoffBase * 2 ^ (n - 1)
    BY <1>2
  <2> QED
    BY <2>1, <2>2, Policy DEF Smaller, Positive
<1>4. r \in Nat /\ r <= MaxRetryAfter
  BY Policy
<1>5. PICK b \in Nat : b = Backoff(n)
  BY <1>3
<1> QED
  BY <1>3, <1>4, <1>5, Policy DEF Larger, LongestRetry, Positive

(* A failure of GitHub with retries left: s waits a delay d.               *)
Delayed(s, d) ==
    /\ s.retries + 1 <= MaxRetries /\ d \in Nat /\ d <= LongestRetry
    /\ mem' = [s EXCEPT !.retries = s.retries + 1, !.nextActionAt = at + d]
    /\ pc' = "done" /\ UNCHANGED <<disk, started, told, quiet, fatal>>

Counted(s) == [s EXCEPT !.retries = s.retries + 1]

LEMMA RetryIs ==
    ASSUME Typed, NEW s \in WakeState, NEW r \in RetryAfters, Retry(s, r)
    PROVE  (\E d : Delayed(s, d)) \/ (s.retries + 1 > MaxRetries /\ Fail(Counted(s), Null))
<1>1. s.retries \in Nat
  BY DEF WakeState
<1>2. CASE s.retries + 1 > MaxRetries
  BY <1>2 DEF Retry, Counted
<1>3. CASE ~(s.retries + 1 > MaxRetries)
  <2>1. s.retries + 1 \in 1..MaxRetries
    BY <1>1, <1>3, Policy
  <2> DEFINE d == Larger(Backoff(s.retries + 1), r)
  <2>2. d \in Nat /\ d <= LongestRetry
    BY <2>1, DelayIs
  <2>3. /\ mem' = [s EXCEPT !.retries = s.retries + 1, !.nextActionAt = at + d]
        /\ pc' = "done" /\ UNCHANGED <<disk, started, told, quiet, fatal>>
    BY <1>3 DEF Retry
  <2> HIDE DEF d
  <2>4. Delayed(s, d)
    BY <2>1, <2>2, <2>3 DEF Delayed
  <2> QED
    BY <2>4
<1> QED
  BY <1>2, <1>3

(* fail()                                                                  *)
Failed(s, until) ==
    [s EXCEPT !.phase = "failed", !.failedAt = at, !.nextActionAt = Null,
              !.blockedUntil = IF until = Null THEN @ ELSE until,
              !.blockFingerprint = IF until = Null THEN @ ELSE binding,
              !.failureNotified = TRUE]

LEMMA FailTyped ==
    ASSUME Typed, NEW s \in WakeState, NEW until \in Nat, Fail(s, until)
    PROVE  /\ StatesTyped' /\ mem' = Failed(s, until) /\ pc' \in {"done", "failureNotice"}
           /\ disk' = disk \/ disk' = mem'
           /\ told' \in [waking : Nat, failure : Nat, full : Nat]
           /\ quiet' \in BOOLEAN /\ fatal' \in [until : Nat, binding : Nat] /\ started' = started
<1>1. at \in Nat /\ binding \in Nat /\ disk \in WakeState
  BY DEF Typed, TypeOK
<1>2. Failed(s, until) \in WakeState
  BY <1>1 DEF Failed, WakeState
<1>3. mem' = Failed(s, until) /\ (disk' = disk \/ disk' = mem') /\ pc' \in {"done", "failureNotice"}
  BY DEF Fail, Failed
<1>4. told' \in [waking : Nat, failure : Nat, full : Nat]
  <2>1. told \in [waking : Nat, failure : Nat, full : Nat]
    BY DEF Typed, TypeOK
  <2>2. told' = told \/ \E n \in {0, 1} : told' = [told EXCEPT !.waking = 0, !.failure = told.failure + n]
    BY DEF Fail
  <2> QED
    <3>1. CASE told' = told
      BY <2>1, <3>1
    <3>2. ASSUME NEW n \in {0, 1}, told' = [told EXCEPT !.waking = 0, !.failure = told.failure + n]
          PROVE  told' \in [waking : Nat, failure : Nat, full : Nat]
      <4>1. told.failure + n \in Nat
        BY <2>1
      <4> QED
        BY <2>1, <3>2, <4>1
    <3> QED
      BY <2>2, <3>1, <3>2
<1>5. quiet' \in BOOLEAN /\ started' = started
  BY DEF Fail
<1>6. fatal' \in [until : Nat, binding : Nat]
  BY <1>1 DEF Fail, Typed, TypeOK
<1> QED
  BY <1>1, <1>2, <1>3, <1>4, <1>5, <1>6 DEF StatesTyped
-----------------------------------------------------------------------------
(* What an answer of GitHub leads to: the cycle fails, in a state that is  *)
(* akin to mem; it waits longer after a failure of GitHub, or until x; it  *)
(* requests a start; or the start was accepted.                            *)
Akin(s) ==
    /\ s \in WakeState /\ s.lastStartAt = mem.lastStartAt
    /\ s.failureNotified = mem.failureNotified
    /\ s.blockedUntil = mem.blockedUntil /\ s.blockFingerprint = mem.blockFingerprint

GivesUp == \E s : Akin(s) /\ \E until \in Nat : Fail(s, until)

Waits(x) ==
    /\ pc = "status" /\ x \in Nat /\ at < x
    /\ x = CooldownEnd(mem) \/ (x <= mem.deadlineAt /\ x <= at + PollDelay)
    /\ mem' = [Observed EXCEPT !.nextActionAt = x]
    /\ pc' = "done" /\ UNCHANGED <<disk, started, told, quiet, fatal>>

Requests ==
    /\ pc = "status"
    /\ ~(mem.startsThisCycle >= MaxStartsPerCycle) /\ ~(at < CooldownEnd(mem))
    /\ RequestStart(Trim(Observed))

Accepted ==
    /\ pc = "start" /\ pc' = "done" /\ UNCHANGED <<mem, disk, started, told, quiet, fatal>>

LEMMA ObservedIs ==
    ASSUME Typed
    PROVE  /\ Akin(mem) /\ Akin(Counted(mem)) /\ Akin(Observed) /\ Akin(Trim(Observed))
           /\ Observed.startsThisCycle = mem.startsThisCycle
           /\ Observed.deadlineAt = mem.deadlineAt
           /\ CooldownEnd(Observed) = CooldownEnd(mem)
<1>1. mem \in WakeState
  BY DEF Typed, TypeOK
<1>2. mem.retries + 1 \in Nat
  BY <1>1 DEF WakeState
<1>3. Counted(mem) \in WakeState /\ Observed \in WakeState
  BY <1>1, <1>2, StateSteps DEF Counted, Observed
<1>4. Trim(Observed) \in WakeState
  BY <1>3, TrimTyped
<1>5. Akin(mem) /\ Akin(Counted(mem)) /\ Akin(Observed)
  BY <1>1, <1>3 DEF Akin, Counted, Observed, WakeState
<1>6. Akin(Trim(Observed))
  BY <1>4, <1>5 DEF Akin, Trim, WakeState
<1> QED
  BY <1>1, <1>5, <1>6 DEF Observed, CooldownEnd, WakeState

LEMMA AnswersAre ==
    ASSUME IInv, Typed, StatusAnswered \/ StartAnswered
    PROVE  GivesUp \/ (\E d : Delayed(mem, d)) \/ (\E x : Waits(x)) \/ Requests \/ Accepted
<1>0. /\ mem \in WakeState /\ at \in Nat /\ at + BlockTime \in Nat /\ pc # "none" /\ pc \in Working
  BY Policy DEF Typed, TypeOK, StatusAnswered, StartAnswered, Working, Positive
<1>1. /\ Akin(mem) /\ Akin(Counted(mem)) /\ Akin(Observed) /\ Akin(Trim(Observed))
      /\ Observed.startsThisCycle = mem.startsThisCycle
      /\ Observed.deadlineAt = mem.deadlineAt
      /\ CooldownEnd(Observed) = CooldownEnd(mem) /\ 0 \in Nat
  BY ObservedIs
<1>2. CASE GitHubFails(mem)
  <2>1. ASSUME NEW r \in RetryAfters, Retry(mem, r)
        PROVE  GivesUp \/ \E d : Delayed(mem, d)
    BY <1>0, <1>1, <2>1, RetryIs DEF GivesUp
  <2>2. CASE Fail(mem, at + BlockTime)
    BY <1>0, <1>1, <2>2 DEF GivesUp
  <2> QED
    BY <1>2, <2>1, <2>2 DEF GitHubFails
<1>3. CASE pc = "status" /\ WaitForAgent(Observed)
  <2>1. CASE at >= Observed.deadlineAt
    BY <1>1, <1>3, <2>1 DEF WaitForAgent, GivesUp
  <2>2. CASE ~(at >= Observed.deadlineAt)
    <3> DEFINE x == Smaller(mem.deadlineAt, at + PollDelay)
    <3>1. mem.deadlineAt \in Nat /\ at < mem.deadlineAt
      BY <1>0, <1>1, <2>2 DEF WakeState
    <3>2. x \in Nat /\ at < x /\ x <= mem.deadlineAt /\ x <= at + PollDelay
      BY <1>0, <3>1, Policy DEF Smaller, Positive
    <3>3. /\ mem' = [Observed EXCEPT !.nextActionAt = x]
          /\ pc' = "done" /\ UNCHANGED <<disk, started, told, quiet, fatal>>
      BY <1>1, <1>3, <2>2 DEF WaitForAgent
    <3> HIDE DEF x
    <3>4. Waits(x)
      BY <1>3, <3>2, <3>3 DEF Waits
    <3> QED
      BY <3>4
  <2> QED
    BY <2>1, <2>2
<1>4. CASE pc = "status" /\ Start(Observed)
  <2>1. CASE mem.startsThisCycle >= MaxStartsPerCycle
    BY <1>1, <1>4, <2>1 DEF Start, GivesUp
  <2>2. CASE ~(mem.startsThisCycle >= MaxStartsPerCycle) /\ at < CooldownEnd(mem)
    <3>1. CooldownEnd(mem) \in Nat
      BY <1>0, Policy DEF CooldownEnd, WakeState, Positive
    <3>2. Waits(CooldownEnd(mem))
      BY <1>1, <1>4, <2>2, <3>1 DEF Start, WaitForCooldown, Waits
    <3> QED
      BY <3>2
  <2>3. CASE ~(mem.startsThisCycle >= MaxStartsPerCycle) /\ ~(at < CooldownEnd(mem))
    <3> DEFINE recent == Trim(Observed)
    <3>1. \/ /\ Cardinality(recent.startHistory) >= DailyStartCap
             /\ Fail(recent, Earliest(recent.startHistory) + Day)
          \/ RequestStart(recent)
      BY <1>1, <1>4, <2>3 DEF Start, Recent, Trim
    <3> HIDE DEF recent
    <3>2. CASE RequestStart(recent)
      BY <1>4, <2>3, <3>2 DEF Requests, recent
    <3>3. CASE /\ Cardinality(recent.startHistory) >= DailyStartCap
               /\ Fail(recent, Earliest(recent.startHistory) + Day)
      <4>1. recent.startHistory # {}
        BY <3>3, FS_EmptySet, Policy DEF Positive
      <4>2. recent.startHistory \subseteq Nat
        BY <1>1 DEF Akin, WakeState, recent
      <4>3. Earliest(recent.startHistory) + Day \in Nat
        BY <4>1, <4>2, EarliestIs, Policy DEF Positive
      <4> QED
        BY <1>1, <3>3, <4>3 DEF GivesUp, recent
    <3> QED
      BY <3>1, <3>2, <3>3
  <2> QED
    BY <2>1, <2>2, <2>3
<1>5. CASE Fail(Observed, at + BlockTime)
  BY <1>0, <1>1, <1>5 DEF GivesUp
<1>6. CASE StartAnswered /\ pc' = "done" /\ UNCHANGED <<mem, disk, started, told, quiet, fatal>>
  BY <1>6 DEF StartAnswered, Accepted
<1> QED
  BY <1>2, <1>3, <1>4, <1>5, <1>6 DEF StatusAnswered, StartAnswered
-----------------------------------------------------------------------------
LEMMA TickStartTyped ==
    ASSUME Typed, TickStart
    PROVE  Typed'
<1>1. TickTyped /\ StatesTyped /\ RowsTyped /\ PastTyped /\ alarm \in Nat
  BY TypedIs
<1>2. now \in Nat /\ now # 0 /\ now - now = 0 /\ MaxLag \in Nat /\ now <= now
  BY <1>1, Policy DEF TickTyped
<1>3. /\ Unexpired(now) \in Seq(Positive) /\ Len(Unexpired(now)) <= Len(updates)
      /\ Len(Unexpired(now)) \in Nat
  BY <1>1, <1>2, UnexpiredTyped DEF RowsTyped
<1>4. /\ pc' \in {"fullNotice", "expiredNotice", "load"} /\ at' = now /\ now' = now /\ alarm' = 0
      /\ UNCHANGED <<mem, disk, lastSeen, lastEnqueue, fullEpisode, binding, started, cycleAt, quiet, fatal, count>>
      /\ updates' = Unexpired(now) /\ (opsNoticeAt' = now \/ opsNoticeAt' = opsNoticeAt)
      /\ told' = told \/ told' = [told EXCEPT !.full = told.full + 1]
  BY DEF TickStart, seenVars
<1>5. /\ expiredUnnotified' \in BOOLEAN /\ rejectedUnnotified' \in BOOLEAN /\ tellExpired' \in BOOLEAN
  BY <1>1 DEF TickStart, RowsTyped
<1>6. TickTyped'
  BY <1>1, <1>2, <1>4, <1>5 DEF TickTyped, Awaits
<1>7. StatesTyped'
  BY <1>1, <1>4 DEF StatesTyped
<1>8. RowsTyped'
  <2>1. Len(updates) \in Nat /\ QueueCap \in Nat
    BY <1>1, Policy DEF RowsTyped, Positive
  <2>2. Len(Unexpired(now)) <= QueueCap
    BY <1>1, <1>3, <2>1 DEF RowsTyped
  <2> QED
    BY <1>1, <1>2, <1>3, <1>4, <1>5, <2>2 DEF RowsTyped
<1>9. PastTyped'
  <2>1. told.full + 1 \in Nat
    BY <1>1 DEF PastTyped
  <2>2. told' \in [waking : Nat, failure : Nat, full : Nat]
    BY <1>1, <1>4, <2>1 DEF PastTyped
  <2> QED
    BY <1>1, <1>4, <2>2 DEF PastTyped
<1> QED
  BY <1>4, <1>6, <1>7, <1>8, <1>9, TypedAfter

(* The rest of the tick touches neither rows nor alarm.                    *)
LEMMA InTickTyped ==
    ASSUME Typed, pc # "none", RestOfTick, pc' \in Awaits \cup {"load", "done"}, StatesTyped', PastTyped'
    PROVE  Typed'
<1>1. TickTyped /\ StatesTyped /\ RowsTyped /\ PastTyped /\ alarm \in Nat
  BY TypedIs
<1>2. UNCHANGED <<now, alarm, at, tellExpired, updates, lastSeen, lastEnqueue, opsNoticeAt,
                  expiredUnnotified, rejectedUnnotified, fullEpisode, binding, count>>
  BY DEF RestOfTick, seenVars, opsVars
<1>3. RowsTyped' /\ alarm' \in Nat
  BY <1>1, <1>2 DEF RowsTyped
<1>4. TickTyped'
  BY <1>1, <1>2 DEF TickTyped, Awaits
<1> QED
  BY <1>3, <1>4, TypedAfter

LEMMA LoadTyped ==
    ASSUME Typed, NoticeEnds \/ LoadSettled \/ LoadResting \/ LoadNewCycle \/ LoadSameCycle
    PROVE  Typed'
<1>1. TickTyped /\ StatesTyped /\ RowsTyped /\ PastTyped /\ alarm \in Nat
  BY TypedIs
<1>2. Loaded \in WakeState /\ ToIdle(Loaded) \in WakeState
  BY LoadedTyped
<1>3. pc # "none" /\ RestOfTick /\ pc' \in Awaits \cup {"load", "done"}
  BY DEF NoticeEnds, LoadSettled, LoadResting, LoadNewCycle, LoadSameCycle, Awaits
<1>4. StatesTyped'
  <2>1. CASE LoadNewCycle
    <3>1. at + AgentTimeout \in Nat
      BY <1>1, Policy DEF TickTyped, Positive
    <3>2. [ToIdle(Loaded) EXCEPT !.phase = "waking", !.deadlineAt = at + AgentTimeout] \in WakeState
      BY <1>2, <3>1, StateSteps
    <3> QED
      BY <2>1, <3>2 DEF LoadNewCycle, StatesTyped
  <2>2. CASE NoticeEnds
    BY <1>1, <2>2 DEF NoticeEnds, StatesTyped
  <2>3. CASE LoadSettled \/ LoadResting \/ LoadSameCycle
    BY <1>1, <1>2, <2>3 DEF LoadSettled, LoadResting, LoadSameCycle, StatesTyped
  <2> QED
    BY <2>1, <2>2, <2>3
<1>5. PastTyped'
  <2>1. /\ UNCHANGED <<started, quiet, fatal>> /\ (cycleAt' = cycleAt \/ cycleAt' = at)
        /\ \/ told' = told \/ told' = [told EXCEPT !.waking = 0]
           \/ told' = [told EXCEPT !.waking = told.waking + IF OnlineAt(now) THEN 0 ELSE 1, !.failure = 0]
    BY DEF NoticeEnds, LoadSettled, LoadResting, LoadNewCycle, LoadSameCycle, histVars
  <2>2. told.waking + (IF OnlineAt(now) THEN 0 ELSE 1) \in Nat
    <3>1. told.waking \in Nat
      BY <1>1 DEF PastTyped
    <3> HIDE DEF OnlineAt
    <3> QED
      BY <3>1
  <2>3. told' \in [waking : Nat, failure : Nat, full : Nat]
    <3>1. PICK n \in Nat : n = told.waking + IF OnlineAt(now) THEN 0 ELSE 1
      BY <2>2
    <3>2. [told EXCEPT !.waking = n, !.failure = 0] \in [waking : Nat, failure : Nat, full : Nat]
      BY <1>1 DEF PastTyped
    <3>3. [told EXCEPT !.waking = 0] \in [waking : Nat, failure : Nat, full : Nat]
      BY <1>1 DEF PastTyped
    <3>4. told \in [waking : Nat, failure : Nat, full : Nat]
      BY <1>1 DEF PastTyped
    <3> HIDE DEF OnlineAt
    <3> QED
      BY <2>1, <3>1, <3>2, <3>3, <3>4
  <2> QED
    BY <1>1, <2>1, <2>3 DEF PastTyped, TickTyped
<1> QED
  BY <1>3, <1>4, <1>5, InTickTyped

LEMMA AnsweredTyped ==
    ASSUME IInv, Typed, StatusAnswered \/ StartAnswered
    PROVE  Typed'
<1>1. TickTyped /\ StatesTyped /\ RowsTyped /\ PastTyped /\ alarm \in Nat
  BY TypedIs
<1>2. pc # "none" /\ RestOfTick /\ cycleAt' = cycleAt
  BY DEF StatusAnswered, StartAnswered
<1>3. /\ mem \in WakeState /\ Observed \in WakeState /\ Trim(Observed) \in WakeState /\ at \in Nat
      /\ now \in Nat
  BY <1>1, ObservedIs, Policy DEF Akin, TickTyped
<1>4. CASE GivesUp
  <2>0. PICK s : Akin(s) /\ \E until \in Nat : Fail(s, until)
    BY <1>4 DEF GivesUp
  <2>1. PICK until \in Nat : s \in WakeState /\ Fail(s, until)
    BY <2>0 DEF Akin
  <2>2. StatesTyped' /\ pc' \in {"done", "failureNotice"} /\ PastTyped'
    BY <1>1, <1>2, <2>1, FailTyped DEF PastTyped
  <2> QED
    BY <1>2, <2>2, InTickTyped DEF Awaits
<1>5. ASSUME NEW d, Delayed(mem, d) PROVE Typed'
  <2>1. mem.retries + 1 \in Nat /\ at + d \in Nat
    BY <1>3, <1>5 DEF Delayed, WakeState
  <2>2. mem' \in WakeState
    BY <1>3, <1>5, <2>1, StateSteps DEF Delayed
  <2>3. StatesTyped' /\ pc' = "done" /\ PastTyped'
    BY <1>1, <1>2, <1>5, <2>2 DEF PastTyped, StatesTyped, Delayed
  <2> QED
    BY <1>2, <2>3, InTickTyped
<1>6. ASSUME NEW x, Waits(x) PROVE Typed'
  <2>1. mem' \in WakeState
    BY <1>3, <1>6, StateSteps DEF Waits
  <2>2. StatesTyped' /\ pc' = "done" /\ PastTyped'
    BY <1>1, <1>2, <1>6, <2>1 DEF PastTyped, StatesTyped, Waits
  <2> QED
    BY <1>2, <2>2, InTickTyped
<1>7. CASE Requests
  <2>1. Intent(Trim(Observed)) \in WakeState
    BY <1>3, IntentTyped
  <2>2. StatesTyped' /\ pc' = "start"
    BY <1>7, <2>1 DEF Requests, RequestStart, StatesTyped
  <2>3. PastTyped'
    BY <1>1, <1>2, <1>3, <1>7 DEF Requests, RequestStart, PastTyped
  <2> QED
    BY <1>2, <2>2, <2>3, InTickTyped DEF Awaits
<1>8. CASE Accepted
  <2>1. StatesTyped' /\ pc' = "done" /\ PastTyped'
    BY <1>1, <1>2, <1>8 DEF PastTyped, StatesTyped, Accepted
  <2> QED
    BY <1>2, <2>1, InTickTyped
<1> QED
  BY <1>4, <1>5, <1>6, <1>7, <1>8, AnswersAre

LEMMA EndTyped ==
    ASSUME Typed, TickDone \/ TickThrows \/ Evicted
    PROVE  Typed'
<1>1. TickTyped /\ StatesTyped /\ RowsTyped /\ PastTyped /\ alarm \in Nat
  BY TypedIs
<1>2. /\ pc' = "none" /\ at' = 0 /\ mem' = InitialWake /\ tellExpired' \in BOOLEAN /\ now' = now
      /\ UNCHANGED <<updates, lastSeen, lastEnqueue, opsNoticeAt, expiredUnnotified,
                     rejectedUnnotified, fullEpisode, binding, started, cycleAt, told, quiet, fatal>>
      /\ disk' \in {disk, mem}
  BY DEF TickDone, TickThrows, Evicted, Interrupt, Rest, seenVars, opsVars, histVars
<1>3. TickTyped'
  <2>1. now \in Nat
    BY <1>1, Policy DEF TickTyped
  <2> QED
    BY <1>1, <1>2, <2>1 DEF TickTyped
<1>4. InitialWake \in WakeState
  BY DEF InitialWake, WakeState
<1>5. StatesTyped'
  BY <1>1, <1>2, <1>4 DEF StatesTyped
<1>6. PastTyped'
  BY <1>1, <1>2 DEF PastTyped
<1>7. count' \in Counts
  <2>1. count' = count \/ count' = [count EXCEPT !.faults = count.faults + 1]
    BY DEF TickDone, TickThrows, Evicted, Interrupt
  <2> QED
    BY <1>1, <2>1 DEF RowsTyped, Counts
<1>8. RowsTyped'
  BY <1>1, <1>2, <1>7 DEF RowsTyped
<1>9. alarm' \in Nat
  <2>1. CASE TickDone
    BY <1>1, <1>3, <1>5, <1>8, <2>1, ScheduleTyped DEF TickDone
  <2>2. CASE TickThrows \/ Evicted
    BY <1>1, <2>2, Policy DEF TickThrows, Evicted, TickTyped, Positive
  <2> QED
    BY <2>1, <2>2
<1> QED
  BY <1>3, <1>5, <1>6, <1>8, <1>9, TypedAfter

LEMMA TypedStep ==
    ASSUME IInv, Typed, [Next]_vars
    PROVE  Typed'
  BY OutsideTyped, TickStartTyped, LoadTyped, AnsweredTyped, EndTyped DEF Next, Tick

LEMMA TypedInit ==
    ASSUME Init
    PROVE  Typed
<1>1. now \in 1..MaxTime
  BY Policy DEF Init, Positive
<1>2. InitialWake \in WakeState
  BY DEF InitialWake, WakeState
<1>3. updates = <<>> /\ started = <<>> /\ Len(<<>>) = 0 /\ Len(<<>>) <= QueueCap
  BY Policy DEF Init, Positive
<1>4. TickTyped
  <2>1. /\ pc = "none" /\ at = 0 /\ tellExpired \in BOOLEAN /\ now = 1 /\ MaxTime \in Nat
    BY Policy DEF Init, Positive
  <2> QED
    BY <1>1, <2>1 DEF TickTyped
<1>5. StatesTyped /\ PastTyped /\ alarm \in Nat
  <2>1. told \in [waking : Nat, failure : Nat, full : Nat] /\ fatal \in [until : Nat, binding : Nat]
    BY DEF Init, Untold
  <2>2. mem = InitialWake /\ disk = InitialWake /\ cycleAt = 0 /\ quiet \in BOOLEAN /\ alarm = 0 /\ started = <<>>
    BY DEF Init
  <2> QED
    BY <1>2, <2>1, <2>2 DEF StatesTyped, PastTyped
<1>6. RowsTyped
  <2>1. count \in Counts
    BY DEF Init, Counts
  <2>2. /\ updates = <<>> /\ lastSeen = 0 /\ lastEnqueue = 0 /\ opsNoticeAt = 0 /\ binding = 1
        /\ expiredUnnotified \in BOOLEAN /\ rejectedUnnotified \in BOOLEAN /\ fullEpisode \in BOOLEAN
    BY DEF Init
  <2> QED
    BY <1>3, <2>1, <2>2 DEF RowsTyped
<1> QED
  BY <1>4, <1>5, <1>6, TypedIs
-----------------------------------------------------------------------------
(* The course of a cycle.  A tick works on mem, but up to the load, at     *)
(* every await and after the tick the state the machine is in is on disk;  *)
(* only between its last await and its end the tick is ahead of it.        *)
Midway == {"wakingNotice", "status", "start"}
Stand == IF pc = "done" THEN mem ELSE disk

Even ==
    /\ pc \in Midway => mem = disk /\ disk.phase = "waking"
    /\ pc = "failureNotice" => mem = disk /\ disk.phase = "failed"

(* Who was told of what.                                                   *)
Notices ==
    /\ told.waking <= 1 /\ told.failure <= 1 /\ told.full <= 1
    /\ rejectedUnnotified => told.full = 0
    /\ Stand.phase = "waking" => told.failure = 0
    /\ Stand.phase # "waking" => told.waking = 0

(* A cycle under way is not blocked, and was not given up; while the last  *)
(* block counts, the machine's state holds it.                             *)
Shut == fatal.binding = binding /\ Since < fatal.until
Blocks ==
    /\ fatal.binding <= binding
    /\ Stand.phase = "waking" => Stand.blockedUntil = Null /\ ~Stand.failureNotified
    /\ Shut => Stand.blockedUntil = fatal.until /\ Stand.blockFingerprint = binding

(* No news: the Agent is away, and no message came since the failure.      *)
Given(s) ==
    \/ s.phase = "failed" /\ lastEnqueue <= s.failedAt
    \/ s.phase = "idle" /\ ~Pending
News == quiet => Stand.blockedUntil = Null /\ ~OnlineAt(Since) /\ Given(Stand)

(* The times a state holds are at hand.                                    *)
Timers ==
    /\ Stand.nextActionAt <= Since + LongestWait /\ Stand.lastStartAt <= Since
    /\ lastSeen <= now
    /\ pc = "start" => disk.nextActionAt >= at
    /\ pc = "done" /\ mem.phase = "waking" => mem.nextActionAt >= at

Core == IInv /\ Typed /\ Even /\ Notices /\ Blocks /\ News /\ Timers

(* The alarm is set: by the row's expiry, by the end of the online window, *)
(* by the machine's own next action.                                       *)
Alarms ==
    pc = "none" =>
        /\ Pending => /\ alarm # Null /\ alarm <= Larger(now + PollDelay, Head(updates))
                      /\ disk.phase = "idle" /\ disk.blockedUntil = Null =>
                             alarm <= Larger(now + PollDelay, lastSeen + OnlineWindow + 1)
        /\ disk.phase = "waking" => alarm # Null /\ alarm <= now + LongestWait

(* What is left of a stretch of a cycle with r failures of GitHub in a row *)
(* behind it, and when the stretch after n starts must be over.            *)
Span(r) == (MaxRetries - r) * (LongestRetry + MaxLag)
Due(begun, n, faults) == begun + (n + 1) * Stretch + faults * (PollDelay + MaxLag)
Keeps(s, due) ==
    /\ s.startsThisCycle <= MaxStartsPerCycle /\ s.retries <= MaxRetries
    /\ s.deadlineAt + MaxLag + Span(0) <= due
    /\ CooldownEnd(s) + MaxLag + Span(0) <= due
    /\ s.nextActionAt + MaxLag + Span(s.retries) <= due

Faults == count.faults
StandDue == Due(cycleAt, Stand.startsThisCycle, Faults)
Course ==
    /\ Stand.phase = "waking" =>
          /\ Keeps(Stand, StandDue)
          /\ pc = "none" => /\ now + Span(Stand.retries) <= StandDue
                            /\ alarm + Span(Stand.retries) <= StandDue
          /\ pc \notin {"none", "done"} => at + Span(Stand.retries) <= StandDue
    /\ pc = "done" /\ disk.phase = "waking" =>
          /\ disk.startsThisCycle <= MaxStartsPerCycle
          /\ at <= Due(cycleAt, disk.startsThisCycle, Faults)
-----------------------------------------------------------------------------
Outside ==
    \/ Clock \/ Enqueue \/ EnqueueDuplicate \/ Pull \/ Heartbeat \/ Rebind
    \/ UNCHANGED vars
Turns == TickStart \/ NoticeEnds \/ TickDone \/ TickThrows \/ Evicted
Loads == LoadSettled \/ LoadResting \/ LoadNewCycle \/ LoadSameCycle
Answers == StatusAnswered \/ StartAnswered

LEMMA NextIs == [Next]_vars => Outside \/ Turns \/ Loads \/ Answers
  BY DEF Next, Tick, Outside, Turns, Loads, Answers

LEMMA CoreTyped ==
    ASSUME Core
    PROVE  /\ now \in Nat /\ now # 0 /\ at \in Nat /\ alarm \in Nat /\ Since \in Nat /\ Since <= now /\ at <= now
           /\ mem \in WakeState /\ disk \in WakeState /\ Stand \in WakeState
           /\ lastSeen \in Nat /\ lastEnqueue \in Nat /\ binding \in Nat /\ cycleAt \in Nat
           /\ updates \in Seq(Positive) /\ Faults \in Nat
           /\ told \in [waking : Nat, failure : Nat, full : Nat]
           /\ fatal.until \in Nat /\ fatal.binding \in Nat
           /\ quiet \in BOOLEAN /\ rejectedUnnotified \in BOOLEAN
           /\ (pc # "none" => at # 0 /\ at <= now /\ now <= at + MaxLag)
<1>1. Typed
  BY DEF Core
<1>2. TickTyped /\ StatesTyped /\ RowsTyped /\ PastTyped /\ alarm \in Nat
  BY <1>1, TypedIs
<1>3. now \in Nat /\ now # 0 /\ at \in Nat /\ at <= now
  BY <1>2, Policy DEF TickTyped
<1>4. pc # "none" => at # 0 /\ now <= at + MaxLag
  BY <1>2, <1>3, Policy DEF TickTyped
<1> QED
  BY <1>2, <1>3, <1>4 DEF StatesTyped, RowsTyped, PastTyped, Stand, Since, Counts, Faults

(* Only a load and an answer change where the machine stands.              *)
LEMMA StandStays ==
    ASSUME Core, Outside \/ Turns
    PROVE  /\ Stand' = Stand /\ Since <= Since' /\ Since' \in Nat
           /\ UNCHANGED <<fatal, cycleAt, started>>
           /\ told' = told \/ told' = [told EXCEPT !.full = 0]
              \/ told' = [told EXCEPT !.full = told.full + 1]
           /\ (quiet' = quiet \/ ~quiet')
           /\ binding <= binding' /\ (binding' = binding \/ binding' = binding + 1)
<1>1. /\ now \in Nat /\ at \in Nat /\ at <= now /\ binding \in Nat /\ quiet \in BOOLEAN
      /\ (pc # "none" => at # 0 /\ at <= now)
  BY CoreTyped
<1>2. CASE Outside
  <2>1. /\ UNCHANGED <<pc, at, mem, disk, fatal, cycleAt, started>>
        /\ now' = now \/ now' = now + 1
        /\ binding' = binding \/ binding' = binding + 1
        /\ told' = told \/ told' = [told EXCEPT !.full = 0]
    BY <1>2 DEF Outside, Clock, Enqueue, EnqueueDuplicate, Pull, Heartbeat, Rebind, vars, tickVars, histVars
  <2>2. quiet' = quiet \/ ~quiet'
    BY <1>2 DEF Outside, Clock, Enqueue, EnqueueDuplicate, Pull, Heartbeat, Rebind, vars, histVars
  <2> QED
    BY <1>1, <2>1, <2>2 DEF Stand, Since
<1>3. CASE Turns
  <2>1. /\ UNCHANGED <<now, binding, fatal, cycleAt, started, quiet>>
        /\ told' = told \/ told' = [told EXCEPT !.full = told.full + 1]
    BY <1>3 DEF Turns, TickStart, NoticeEnds, TickDone, TickThrows, Evicted, Interrupt, Rest,
                RestOfTick, seenVars, opsVars, histVars
  <2>2. Stand' = Stand
    <3>1. CASE TickStart
      BY <3>1 DEF TickStart, Stand
    <3>2. CASE NoticeEnds
      BY <3>2 DEF NoticeEnds, Stand, Core, Even
    <3>3. CASE TickDone
      BY <3>3 DEF TickDone, Rest, Stand
    <3>4. CASE TickThrows \/ Evicted
      BY <3>4 DEF TickThrows, Evicted, Interrupt, Rest, Stand, Awaits
    <3> QED
      BY <1>3, <3>1, <3>2, <3>3, <3>4 DEF Turns
  <2>3. Since <= Since' /\ Since' \in Nat
    <3>1. CASE TickStart
      BY <1>1, <3>1 DEF TickStart, Since
    <3>2. CASE NoticeEnds
      BY <1>1, <3>2 DEF NoticeEnds, RestOfTick, Since
    <3>3. CASE TickDone \/ TickThrows \/ Evicted
      BY <1>1, <3>3 DEF TickDone, TickThrows, Evicted, Interrupt, Rest, Since
    <3> QED
      BY <1>3, <3>1, <3>2, <3>3 DEF Turns
  <2> QED
    BY <1>1, <2>1, <2>2, <2>3
<1> QED
  BY <1>2, <1>3

(* What a load finds: the state on disk, or one whose block was lifted.    *)
LEMMA LoadedIs ==
    ASSUME Core, pc = "load"
    PROVE  /\ Stand = disk /\ Since = at /\ Loaded \in WakeState /\ ToIdle(Loaded) \in WakeState
           /\ \/ Loaded = disk /\ (disk.blockedUntil = 0 \/ BlockActive(disk, at))
              \/ /\ disk.blockedUntil # 0 /\ ~BlockActive(disk, at) /\ disk.phase # "waking"
                 /\ Loaded.phase = "idle" /\ Loaded.blockedUntil = 0 /\ Loaded.nextActionAt = 0
                 /\ Loaded.lastStartAt = disk.lastStartAt
<1>1. Stand = disk /\ Since = at /\ disk \in WakeState
  BY CoreTyped DEF Stand, Since
<1>2. Loaded \in WakeState /\ ToIdle(Loaded) \in WakeState
  BY LoadedTyped DEF Core
<1>3. disk.blockedUntil # 0 => disk.phase # "waking"
  BY <1>1 DEF Core, Blocks
<1>4. CASE disk.blockedUntil # 0 /\ ~BlockActive(disk, at)
  BY <1>1, <1>2, <1>3, <1>4 DEF Loaded, ToIdle, WakeState
<1>5. CASE ~(disk.blockedUntil # 0 /\ ~BlockActive(disk, at))
  BY <1>1, <1>2, <1>5 DEF Loaded
<1> QED
  BY <1>4, <1>5

(* Where a load leads: back to rest, on with the same cycle, or to a new   *)
(* one, which needs a block lifted or news.                                *)
LEMMA LoadIs ==
    ASSUME Core, Loads
    PROVE  /\ pc = "load" /\ Stand = disk /\ Since = at /\ at' = at /\ now' = now
           /\ UNCHANGED <<lastSeen, lastEnqueue, updates, binding, alarm, count, started, quiet, fatal,
                          rejectedUnnotified>>
           /\ \/ /\ LoadSettled /\ pc' = "done" /\ disk' = disk /\ cycleAt' = cycleAt
                 /\ (~Pending \/ OnlineAt(at))
                 /\ mem'.phase = "idle" /\ told' = [told EXCEPT !.waking = 0]
                 /\ mem'.blockedUntil = Loaded.blockedUntil
                 /\ mem'.blockFingerprint = Loaded.blockFingerprint
                 /\ mem'.nextActionAt \in {Loaded.nextActionAt, 0}
                 /\ mem'.lastStartAt = Loaded.lastStartAt
              \/ /\ LoadResting /\ pc' = "done" /\ mem' = Loaded /\ disk' = disk
                 /\ told' = told /\ cycleAt' = cycleAt
                 /\ disk.phase # "waking" /\ Loaded.phase # "waking"
              \/ /\ LoadNewCycle /\ pc' \in {"status", "wakingNotice"} /\ disk' = mem' /\ cycleAt' = at
                 /\ Loaded.blockedUntil = 0 /\ disk.phase # "waking" /\ Pending /\ ~OnlineAt(at)
                 /\ Loaded.phase = "failed" => ~(lastEnqueue <= Loaded.failedAt)
                 /\ mem' = [ToIdle(Loaded) EXCEPT !.phase = "waking", !.deadlineAt = at + AgentTimeout]
                 /\ \E n \in {0, 1} :
                       told' = [told EXCEPT !.waking = told.waking + n, !.failure = 0]
              \/ /\ LoadSameCycle /\ mem' = disk /\ disk' = disk /\ disk.phase = "waking"
                 /\ told' = told /\ cycleAt' = cycleAt
                 /\ pc' = "status" \/ (pc' = "done" /\ at < disk.nextActionAt)
<1>1. pc = "load"
  BY DEF Loads, LoadSettled, LoadResting, LoadNewCycle, LoadSameCycle
<1>2. /\ Stand = disk /\ Since = at /\ Loaded \in WakeState /\ ToIdle(Loaded) \in WakeState
      /\ \/ Loaded = disk /\ (disk.blockedUntil = 0 \/ BlockActive(disk, at))
         \/ /\ disk.blockedUntil # 0 /\ ~BlockActive(disk, at) /\ disk.phase # "waking"
            /\ Loaded.phase = "idle" /\ Loaded.blockedUntil = 0 /\ Loaded.nextActionAt = 0
            /\ Loaded.lastStartAt = disk.lastStartAt
  BY <1>1, LoadedIs
<1>3. /\ at' = at /\ now' = now
      /\ UNCHANGED <<lastSeen, lastEnqueue, updates, binding, alarm, count, started, quiet, fatal,
                     rejectedUnnotified>>
  BY DEF Loads, LoadSettled, LoadResting, LoadNewCycle, LoadSameCycle, RestOfTick, histVars, seenVars, opsVars
<1>4. CASE LoadSettled
  <2>1. /\ mem'.phase = "idle" /\ mem'.blockedUntil = Loaded.blockedUntil
        /\ mem'.blockFingerprint = Loaded.blockFingerprint
        /\ mem'.nextActionAt \in {Loaded.nextActionAt, 0} /\ mem'.lastStartAt = Loaded.lastStartAt
    BY <1>2, <1>4 DEF LoadSettled, ToIdle, WakeState
  <2> QED
    BY <1>1, <1>2, <1>3, <1>4, <2>1 DEF LoadSettled, NothingToWake
<1>5. CASE LoadResting
  <2>1. disk.blockedUntil # 0 => disk.phase # "waking"
    BY <1>2 DEF Core, Blocks
  <2>2. disk.phase # "waking" /\ Loaded.phase # "waking"
    BY <1>2, <1>5, <2>1 DEF LoadResting, Resting
  <2> QED
    BY <1>1, <1>2, <1>3, <1>5, <2>2 DEF LoadResting, histVars
<1>6. CASE LoadNewCycle
  <2>1. /\ Loaded.blockedUntil = 0 /\ disk.phase # "waking" /\ Pending /\ ~OnlineAt(at)
        /\ Loaded.phase = "failed" => ~(lastEnqueue <= Loaded.failedAt)
    BY <1>2, <1>6 DEF LoadNewCycle, Resting, NothingToWake
  <2>2. \E n \in {0, 1} : told' = [told EXCEPT !.waking = told.waking + n, !.failure = 0]
    BY <1>6 DEF LoadNewCycle
  <2> QED
    BY <1>1, <1>2, <1>3, <1>6, <2>1, <2>2 DEF LoadNewCycle
<1>7. CASE LoadSameCycle
  BY <1>1, <1>2, <1>3, <1>7 DEF LoadSameCycle, histVars
<1> QED
  BY <1>4, <1>5, <1>6, <1>7 DEF Loads

(* Where an answer leads: to a failure, which is told, a wait, or a start. *)
LEMMA AnswerIs ==
    ASSUME Core, Answers
    PROVE  /\ pc \in {"status", "start"} /\ Stand = disk /\ mem = disk /\ Since = at
           /\ disk.phase = "waking"
           /\ UNCHANGED <<at, now, cycleAt, lastSeen, lastEnqueue, updates, binding, alarm, count,
                          rejectedUnnotified>>
           /\ \/ \E s, until : /\ Akin(s) /\ until \in Nat /\ Fail(s, until)
                               /\ Stand' = Failed(s, until) /\ mem' = Stand'
                               /\ pc' \in {"done", "failureNotice"} /\ disk' = mem'
                               /\ \E n \in {0, 1} : told' = [told EXCEPT !.waking = 0, !.failure = told.failure + n]
                               /\ started' = started
              \/ (\E d : Delayed(mem, d)) /\ Stand' = mem'
              \/ (\E x : Waits(x)) /\ Stand' = mem'
              \/ Requests /\ Stand' = mem'
              \/ Accepted /\ Stand' = mem'
<1>1. /\ pc \in {"status", "start"}
      /\ UNCHANGED <<at, now, cycleAt, lastSeen, lastEnqueue, updates, binding, alarm, count, rejectedUnnotified>>
  BY DEF Answers, StatusAnswered, StartAnswered, RestOfTick, seenVars, opsVars
<1>2. Stand = disk /\ mem = disk /\ Since = at /\ disk.phase = "waking" /\ ~mem.failureNotified
  BY <1>1 DEF Core, Even, Midway, Stand, Since, Blocks
<1>3. GivesUp \/ (\E d : Delayed(mem, d)) \/ (\E x : Waits(x)) \/ Requests \/ Accepted
  BY AnswersAre DEF Core, Answers
<1>4. CASE GivesUp
  <2>1. PICK s : Akin(s) /\ \E until \in Nat : Fail(s, until)
    BY <1>4 DEF GivesUp
  <2>2. PICK until \in Nat : Fail(s, until)
    BY <2>1
  <2>3. ~s.failureNotified
    BY <1>2, <2>1 DEF Akin
  <2>4. /\ mem' = Failed(s, until) /\ disk' = Failed(s, until)
        /\ pc' \in {"done", "failureNotice"} /\ started' = started
        /\ \E n \in {0, 1} : told' = [told EXCEPT !.waking = 0, !.failure = told.failure + n]
    BY <2>2, <2>3 DEF Fail, Failed
  <2>5. Stand' = Failed(s, until)
    BY <2>4 DEF Stand
  <2> QED
    BY <1>1, <1>2, <2>1, <2>2, <2>4, <2>5
<1>5. CASE Requests
  BY <1>1, <1>2, <1>5 DEF Requests, RequestStart, Stand
<1>6. CASE (\E d : Delayed(mem, d)) \/ (\E x : Waits(x)) \/ Accepted
  <2>1. pc' = "done"
    BY <1>6 DEF Delayed, Waits, Accepted
  <2> QED
    BY <1>1, <1>2, <1>6, <2>1 DEF Stand
<1> QED
  BY <1>3, <1>4, <1>5, <1>6
-----------------------------------------------------------------------------
LEMMA EvenStep ==
    ASSUME Core, [Next]_vars
    PROVE  Even'
<1>1. CASE Outside
  BY <1>1 DEF Outside, Clock, Enqueue, EnqueueDuplicate, Pull, Heartbeat, Rebind, vars, tickVars,
              Core, Even
<1>2. CASE Turns
  <2>1. CASE TickStart
    BY <2>1 DEF TickStart, Even, Midway
  <2>2. CASE NoticeEnds
    BY <2>2 DEF NoticeEnds, Core, Even, Midway
  <2>3. CASE TickDone \/ TickThrows \/ Evicted
    BY <2>3 DEF TickDone, TickThrows, Evicted, Interrupt, Rest, Even, Midway
  <2> QED
    BY <1>2, <2>1, <2>2, <2>3 DEF Turns
<1>3. CASE Loads
  <2>1. CASE LoadNewCycle
    <3>1. ToIdle(Loaded) \in WakeState
      BY LoadedTyped DEF Core
    <3>2. mem'.phase = "waking" /\ disk' = mem' /\ pc' \in {"status", "wakingNotice"}
      BY <2>1, <3>1 DEF LoadNewCycle, WakeState
    <3> QED
      BY <3>2 DEF Even, Midway
  <2>2. CASE ~LoadNewCycle
    <3>1. (mem' = disk' /\ disk'.phase = "waking" /\ pc' = "status") \/ pc' = "done"
      BY <1>3, <2>2, LoadIs
    <3> QED
      BY <3>1 DEF Even, Midway
  <2> QED
    BY <2>1, <2>2
<1>4. CASE Answers
  <2>1. CASE \E s, until : Akin(s) /\ mem' = Failed(s, until) /\ disk' = mem' /\ pc' \in {"done", "failureNotice"}
    <3>1. mem'.phase = "failed"
      BY <2>1 DEF Failed, Akin, WakeState
    <3> QED
      BY <2>1, <3>1 DEF Even, Midway
  <2>2. CASE pc' = "done"
    BY <2>2 DEF Even, Midway
  <2>3. CASE Requests
    <3>1. mem.phase = "waking" /\ mem \in WakeState
      BY <1>4, AnswerIs, CoreTyped
    <3>2. Intent(Trim(Observed)).phase = "waking"
      BY <3>1 DEF Intent, Trim, Observed, WakeState
    <3> QED
      BY <2>3, <3>2 DEF Requests, RequestStart, Even, Midway
  <2> QED
    <3>1. \/ \E s, until : Akin(s) /\ mem' = Failed(s, until) /\ disk' = mem' /\ pc' \in {"done", "failureNotice"}
          \/ pc' = "done" \/ Requests
      BY <1>4, AnswerIs DEF Delayed, Waits, Accepted
    <3> QED
      BY <2>1, <2>2, <2>3, <3>1
<1> QED
  BY <1>1, <1>2, <1>3, <1>4, NextIs

(* The states a cycle goes through keep the phase; a failure ends it.      *)
LEMMA Onward ==
    ASSUME Core, Answers
    PROVE  \/ \E s, until : /\ Akin(s) /\ until \in Nat /\ Fail(s, until)
                            /\ Stand' = Failed(s, until) /\ mem' = Stand'
                            /\ pc' \in {"done", "failureNotice"}
                            /\ \E n \in {0, 1} : told' = [told EXCEPT !.waking = 0, !.failure = told.failure + n]
           \/ /\ Stand'.phase = "waking" /\ Stand'.blockedUntil = Stand.blockedUntil
              /\ Stand'.failureNotified = Stand.failureNotified
              /\ Stand'.blockFingerprint = Stand.blockFingerprint
              /\ told' = told /\ quiet' = quiet /\ fatal' = fatal
<1>1. /\ mem = disk /\ Stand = disk /\ disk.phase = "waking" /\ mem \in WakeState
  BY AnswerIs, CoreTyped
<1>2. CASE (\E d : Delayed(mem, d)) /\ Stand' = mem'
  BY <1>1, <1>2 DEF Delayed, WakeState
<1>3. CASE (\E x : Waits(x)) /\ Stand' = mem'
  BY <1>1, <1>3 DEF Waits, Observed, WakeState
<1>4. CASE Requests /\ Stand' = mem'
  <2>1. /\ Intent(Trim(Observed)).phase = "waking"
        /\ Intent(Trim(Observed)).blockedUntil = mem.blockedUntil
        /\ Intent(Trim(Observed)).failureNotified = mem.failureNotified
        /\ Intent(Trim(Observed)).blockFingerprint = mem.blockFingerprint
    BY <1>1 DEF Intent, Trim, Observed, WakeState
  <2> QED
    BY <1>1, <1>4, <2>1 DEF Requests, RequestStart
<1>5. CASE Accepted /\ Stand' = mem'
  BY <1>1, <1>5 DEF Accepted
<1> QED
  BY <1>2, <1>3, <1>4, <1>5, AnswerIs

LEMMA NoticesStep ==
    ASSUME Core, [Next]_vars
    PROVE  Notices'
<1>0. /\ Notices /\ told \in [waking : Nat, failure : Nat, full : Nat] /\ Stand \in WakeState
      /\ rejectedUnnotified \in BOOLEAN
  BY CoreTyped DEF Core
<1>1. CASE Outside \/ Turns
  <2>1. Stand' = Stand
    BY <1>1, StandStays
  <2>2. CASE told' = told /\ (rejectedUnnotified' => rejectedUnnotified)
    BY <1>0, <2>1, <2>2 DEF Notices
  <2>3. CASE told' = [told EXCEPT !.full = 0]
    BY <1>0, <2>1, <2>3 DEF Notices
  <2>4. CASE told' = [told EXCEPT !.full = told.full + 1] /\ rejectedUnnotified /\ ~rejectedUnnotified'
    BY <1>0, <2>1, <2>4 DEF Notices
  <2>5. \/ told' = told /\ (rejectedUnnotified' => rejectedUnnotified)
        \/ told' = [told EXCEPT !.full = 0]
        \/ told' = [told EXCEPT !.full = told.full + 1] /\ rejectedUnnotified /\ ~rejectedUnnotified'
    <3>1. CASE Enqueue
      BY <3>1 DEF Enqueue
    <3>2. CASE TickStart
      BY <3>2 DEF TickStart
    <3>3. CASE UNCHANGED <<told, rejectedUnnotified>>
      BY <3>3
    <3> QED
      BY <1>1, <3>1, <3>2, <3>3 DEF Outside, Turns, Clock, EnqueueDuplicate, Pull, Heartbeat, Rebind,
           vars, NoticeEnds, TickDone, TickThrows, Evicted, Interrupt, RestOfTick, opsVars, histVars
  <2> QED
    BY <2>2, <2>3, <2>4, <2>5
<1>2. CASE Loads
  <2>0. Stand = disk /\ rejectedUnnotified' = rejectedUnnotified
    BY <1>2, LoadIs
  <2>1. CASE /\ pc' = "done" /\ disk' = disk /\ mem'.phase = "idle" /\ told' = [told EXCEPT !.waking = 0]
    BY <1>0, <2>0, <2>1 DEF Notices, Stand
  <2>2. CASE /\ pc' = "done" /\ mem' = Loaded /\ told' = told /\ disk.phase # "waking" /\ Loaded.phase # "waking"
    BY <1>0, <2>0, <2>2 DEF Notices, Stand
  <2>3. CASE /\ LoadNewCycle /\ pc' \in {"status", "wakingNotice"} /\ disk' = mem' /\ disk.phase # "waking"
             /\ \E n \in {0, 1} : told' = [told EXCEPT !.waking = told.waking + n, !.failure = 0]
    <3>1. ToIdle(Loaded) \in WakeState
      BY LoadedTyped DEF Core
    <3>2. Stand'.phase = "waking"
      BY <2>3, <3>1 DEF LoadNewCycle, WakeState, Stand
    <3> QED
      BY <1>0, <2>0, <2>3, <3>2 DEF Notices
  <2>4. CASE mem' = disk /\ disk' = disk /\ told' = told
    BY <1>0, <2>0, <2>4 DEF Notices, Stand
  <2> QED
    BY <1>2, <2>1, <2>2, <2>3, <2>4, LoadIs
<1>3. CASE Answers
  <2>0. Stand.phase = "waking" /\ rejectedUnnotified' = rejectedUnnotified
    BY <1>3, AnswerIs
  <2>1. ASSUME NEW s, NEW until, Akin(s), Stand' = Failed(s, until), NEW n \in {0, 1},
               told' = [told EXCEPT !.waking = 0, !.failure = told.failure + n]
        PROVE  Notices'
    <3>1. Stand'.phase = "failed"
      BY <2>1 DEF Failed, Akin, WakeState
    <3> QED
      BY <1>0, <2>0, <2>1, <3>1 DEF Notices
  <2>2. CASE Stand'.phase = "waking" /\ told' = told
    BY <1>0, <2>0, <2>2 DEF Notices
  <2> QED
    BY <1>3, <2>1, <2>2, Onward
<1> QED
  BY <1>1, <1>2, <1>3, NextIs

LEMMA BlocksStep ==
    ASSUME Core, [Next]_vars
    PROVE  Blocks'
<1>0. /\ Blocks /\ Stand \in WakeState /\ fatal.until \in Nat /\ fatal.binding \in Nat /\ binding \in Nat
      /\ Since \in Nat
  BY CoreTyped DEF Core
<1>1. CASE Outside \/ Turns
  <2>1. /\ Stand' = Stand /\ Since <= Since' /\ Since' \in Nat /\ fatal' = fatal
        /\ binding <= binding' /\ (binding' = binding \/ binding' = binding + 1)
    BY <1>1, StandStays
  <2>2. fatal.binding <= binding' /\ (Shut' => Shut /\ binding' = binding)
    BY <1>0, <2>1 DEF Blocks, Shut
  <2> QED
    BY <1>0, <2>1, <2>2 DEF Blocks
<1>2. CASE Loads
  <2>0. /\ pc = "load" /\ Stand = disk /\ Since = at /\ at' = at /\ now' = now /\ binding' = binding /\ fatal' = fatal
    BY <1>2, LoadIs
  <2>1. Since' = Since /\ (Shut' <=> Shut)
    BY <2>0, <1>2, LoadIs DEF Since, Shut
  <2>2. Shut => Loaded = disk /\ disk.blockedUntil # 0
    <3>1. SUFFICES ASSUME Shut PROVE Loaded = disk /\ disk.blockedUntil # 0
      OBVIOUS
    <3>2. disk.blockedUntil = fatal.until /\ disk.blockFingerprint = binding /\ at < fatal.until /\ at \in Nat
      BY <1>0, <2>0, <3>1 DEF Blocks, Shut
    <3>3. BlockActive(disk, at) /\ disk.blockedUntil # 0
      BY <1>0, <3>2 DEF BlockActive
    <3> QED
      BY <2>0, <3>3, LoadedIs
  <2>3. CASE /\ pc' = "done" /\ disk' = disk /\ mem'.phase = "idle" /\ mem'.blockedUntil = Loaded.blockedUntil
             /\ mem'.blockFingerprint = Loaded.blockFingerprint
    BY <1>0, <2>0, <2>1, <2>2, <2>3 DEF Blocks, Stand
  <2>4. CASE pc' = "done" /\ mem' = Loaded /\ Loaded.phase # "waking"
    BY <1>0, <2>0, <2>1, <2>2, <2>4 DEF Blocks, Stand
  <2>5. CASE /\ LoadNewCycle /\ Loaded.blockedUntil = 0 /\ disk' = mem' /\ pc' # "done"
             /\ mem' = [ToIdle(Loaded) EXCEPT !.phase = "waking", !.deadlineAt = at + AgentTimeout]
    <3>1. Loaded \in WakeState
      BY LoadedTyped DEF Core
    <3>2. mem'.blockedUntil = 0 /\ mem'.failureNotified = FALSE
      BY <2>5, <3>1 DEF ToIdle, WakeState
    <3>3. ~Shut
      BY <1>0, <2>0, <2>2, <2>5
    <3> QED
      BY <1>0, <2>0, <2>1, <2>5, <3>2, <3>3 DEF Blocks, Stand
  <2>6. CASE mem' = disk /\ disk' = disk
    BY <1>0, <2>0, <2>1, <2>6 DEF Blocks, Stand
  <2>7. \/ /\ pc' = "done" /\ disk' = disk /\ mem'.phase = "idle" /\ mem'.blockedUntil = Loaded.blockedUntil
           /\ mem'.blockFingerprint = Loaded.blockFingerprint
        \/ pc' = "done" /\ mem' = Loaded /\ Loaded.phase # "waking"
        \/ /\ LoadNewCycle /\ Loaded.blockedUntil = 0 /\ disk' = mem' /\ pc' # "done"
           /\ mem' = [ToIdle(Loaded) EXCEPT !.phase = "waking", !.deadlineAt = at + AgentTimeout]
        \/ mem' = disk /\ disk' = disk
    BY <1>2, LoadIs
  <2> QED
    BY <2>3, <2>4, <2>5, <2>6, <2>7
<1>3. CASE Answers
  <2>0. /\ Stand.phase = "waking" /\ Since = at /\ at' = at /\ now' = now /\ binding' = binding /\ pc' # "none"
        /\ Stand = mem /\ Since' = Since
    <3>1. pc' # "none"
      BY <1>3, AnswerIs DEF Delayed, Waits, Requests, RequestStart, Accepted
    <3> QED
      BY <1>3, <3>1, AnswerIs DEF Since
  <2>1. ASSUME NEW s, NEW until \in Nat, Akin(s), Fail(s, until), Stand' = Failed(s, until) PROVE Blocks'
    <3>1. /\ Stand'.phase = "failed"
          /\ Stand'.blockedUntil = IF until = 0 THEN mem.blockedUntil ELSE until
          /\ Stand'.blockFingerprint = IF until = 0 THEN mem.blockFingerprint ELSE binding
      BY <2>1 DEF Failed, Akin, WakeState
    <3>2. fatal' = IF until = 0 THEN fatal ELSE [until |-> until, binding |-> binding]
      BY <2>1 DEF Fail
    <3>3. CASE until = 0
      BY <1>0, <2>0, <3>1, <3>2, <3>3 DEF Blocks, Shut
    <3>4. CASE until # 0
      BY <1>0, <2>0, <3>1, <3>2, <3>4 DEF Blocks, Shut
    <3> QED
      BY <3>3, <3>4
  <2>2. CASE /\ Stand'.phase = "waking" /\ Stand'.blockedUntil = Stand.blockedUntil
             /\ Stand'.failureNotified = Stand.failureNotified
             /\ Stand'.blockFingerprint = Stand.blockFingerprint /\ fatal' = fatal
    BY <1>0, <2>0, <2>2 DEF Blocks, Shut
  <2> QED
    BY <1>3, <2>1, <2>2, Onward
<1> QED
  BY <1>1, <1>2, <1>3, NextIs
-----------------------------------------------------------------------------
LEMMA NothingExpires ==
    ASSUME NEW t, updates = <<>>
    PROVE  Unexpired(t) = <<>>
<1>1. 1..Len(updates) = {}
  OBVIOUS
<1>2. {k \in 1..Len(updates) : updates[k] > t} = {}
  BY <1>1
<1> QED
  BY <1>2 DEF Unexpired

(* Without news nothing is put in the queue, and the Agent is not seen.    *)
LEMMA StillQuiet ==
    ASSUME Core, Outside \/ Turns
    PROVE  ~quiet' \/ (quiet' = quiet /\ UNCHANGED <<lastSeen, lastEnqueue>> /\ (~Pending => ~Pending'))
<1>1. now \in Nat /\ quiet \in BOOLEAN /\ updates \in Seq(Positive)
  BY CoreTyped
<1>2. CASE Enqueue
  <2>1. CASE ~quiet'
    BY <2>1
  <2>2. CASE ~(Len(Unexpired(now)) < QueueCap)
    <3>1. Len(<<>>) = 0 /\ 0 < QueueCap
      BY Policy DEF Positive
    <3>2. Pending
      BY <2>2, <3>1, NothingExpires DEF Pending
    <3>3. quiet' = quiet /\ UNCHANGED <<lastSeen, lastEnqueue>>
      BY <1>2, <2>2 DEF Enqueue
    <3> QED
      BY <3>2, <3>3
  <2>3. CASE Len(Unexpired(now)) < QueueCap
    BY <1>2, <2>3 DEF Enqueue
  <2> QED
    BY <2>2, <2>3
<1>3. CASE EnqueueDuplicate \/ TickStart
  <2>1. updates' = Unexpired(now) /\ quiet' = quiet /\ UNCHANGED <<lastSeen, lastEnqueue>>
    BY <1>3 DEF EnqueueDuplicate, TickStart, seenVars, histVars
  <2> QED
    BY <2>1, NothingExpires DEF Pending
<1>4. CASE Pull \/ Heartbeat
  BY <1>4 DEF Pull, Heartbeat
<1>5. CASE UNCHANGED <<quiet, lastSeen, lastEnqueue, updates>>
  BY <1>5 DEF Pending
<1> QED
  BY <1>2, <1>3, <1>4, <1>5 DEF Outside, Turns, Clock, Rebind, vars, NoticeEnds, TickDone,
     TickThrows, Evicted, Interrupt, RestOfTick, seenVars, histVars

LEMMA LongGone ==
    \A s, t, seen, window \in Nat :
        /\ s <= t /\ s - seen >= window => t - seen >= window
        /\ t - seen < window => ~(t - seen >= window)
  OBVIOUS

LEMMA NewsStep ==
    ASSUME Core, [Next]_vars
    PROVE  News'
<1>0. /\ News /\ Stand \in WakeState /\ Since \in Nat /\ lastSeen \in Nat /\ lastEnqueue \in Nat
      /\ quiet \in BOOLEAN /\ OnlineWindow \in Nat
  BY CoreTyped, Policy DEF Core, Positive
<1>1. CASE Outside \/ Turns
  <2>1. Stand' = Stand /\ Since <= Since' /\ Since' \in Nat
    BY <1>1, StandStays
  <2>2. CASE quiet' = quiet /\ UNCHANGED <<lastSeen, lastEnqueue>> /\ (~Pending => ~Pending')
    <3>1. ~OnlineAt(Since) => ~OnlineAt(Since)'
      <4>1. PICK s \in Nat, t \in Nat : s = Since /\ t = Since' /\ s <= t
        BY <1>0, <2>1
      <4>2. s - lastSeen >= OnlineWindow => t - lastSeen >= OnlineWindow
        BY <1>0, <4>1, LongGone
      <4>3. ~OnlineAt(Since) => lastSeen = 0 \/ s - lastSeen >= OnlineWindow
        BY <1>0, <4>1 DEF OnlineAt
      <4>4. OnlineAt(Since)' => lastSeen # 0 /\ ~(t - lastSeen >= OnlineWindow)
        <5>1. OnlineAt(Since)' => lastSeen' # 0 /\ t - lastSeen' < OnlineWindow
          BY <4>1 DEF OnlineAt
        <5>2. lastSeen' = lastSeen
          BY <2>2
        <5>3. t - lastSeen < OnlineWindow => ~(t - lastSeen >= OnlineWindow)
          BY <1>0, <4>1, LongGone
        <5> HIDE DEF OnlineAt
        <5> QED
          BY <5>1, <5>2, <5>3
      <4> QED
        BY <4>2, <4>3, <4>4
    <3>2. Given(Stand) => Given(Stand)'
      BY <2>1, <2>2 DEF Given
    <3> HIDE DEF OnlineAt
    <3> QED
      BY <1>0, <2>1, <2>2, <3>1, <3>2 DEF News
  <2>3. CASE ~quiet'
    BY <2>3 DEF News
  <2> QED
    BY <1>1, <2>2, <2>3, StillQuiet
<1>2. CASE Loads
  <2>0. /\ pc = "load" /\ Stand = disk /\ Since = at /\ at' = at /\ now' = now
        /\ UNCHANGED <<lastSeen, lastEnqueue, updates, quiet>>
    BY <1>2, LoadIs
  <2>1. SUFFICES ASSUME quiet PROVE Stand'.blockedUntil = 0 /\ ~OnlineAt(Since)' /\ Given(Stand)'
    BY <2>0 DEF News
  <2>2. /\ disk.blockedUntil = 0 /\ ~OnlineAt(at) /\ Given(disk) /\ Loaded = disk
    BY <1>0, <2>0, <2>1, LoadedIs DEF News
  <2>3. ~OnlineAt(Since)' /\ Pending' = Pending
    <3>1. Since' = at
      <4>1. pc' # "none"
        BY <1>2, LoadIs
      <4> QED
        BY <2>0, <4>1 DEF Since
    <3> QED
      BY <2>0, <2>2, <3>1 DEF OnlineAt, Pending
  <2>4. CASE pc' = "done" /\ (~Pending \/ OnlineAt(at)) /\ mem'.phase = "idle" /\ mem'.blockedUntil = Loaded.blockedUntil
    BY <2>2, <2>3, <2>4 DEF Given, Stand
  <2>5. CASE pc' = "done" /\ mem' = Loaded
    BY <2>0, <2>2, <2>3, <2>5 DEF Given, Stand
  <2>6. CASE disk.phase = "waking"
    BY <2>2, <2>6 DEF Given
  <2>7. CASE /\ Pending /\ (Loaded.phase = "failed" => ~(lastEnqueue <= Loaded.failedAt))
    BY <2>2, <2>7 DEF Given
  <2> QED
    BY <1>2, <2>4, <2>5, <2>6, <2>7, LoadIs
<1>3. CASE Answers
  <2>0. /\ Stand.phase = "waking" /\ Since = at /\ at' = at /\ pc' # "none" /\ mem = Stand /\ Since' = at
        /\ UNCHANGED <<lastSeen, lastEnqueue, updates>> /\ Stand.blockedUntil = 0
    <3>1. pc' # "none"
      BY <1>3, AnswerIs DEF Delayed, Waits, Requests, RequestStart, Accepted
    <3> QED
      BY <1>3, <3>1, AnswerIs DEF Since, Core, Blocks
  <2>1. ASSUME NEW s, NEW until \in Nat, Akin(s), Fail(s, until), Stand' = Failed(s, until) PROVE News'
    <3>1. /\ Stand'.phase = "failed" /\ Stand'.failedAt = at
          /\ Stand'.blockedUntil = IF until = 0 THEN mem.blockedUntil ELSE until
      BY <2>1 DEF Failed, Akin, WakeState
    <3>2. quiet' => until = 0 /\ lastEnqueue <= at /\ ~OnlineAt(at)
      BY <2>1 DEF Fail
    <3>3. ~OnlineAt(at) => ~OnlineAt(Since)'
      BY <2>0 DEF OnlineAt
    <3> QED
      BY <2>0, <3>1, <3>2, <3>3 DEF News, Given
  <2>2. CASE quiet' = quiet
    <3>1. ~quiet
      BY <1>0, <2>0 DEF News, Given
    <3> QED
      BY <2>2, <3>1 DEF News
  <2> QED
    BY <1>3, <2>1, <2>2, Onward
<1> QED
  BY <1>1, <1>2, <1>3, NextIs

(* The longest waits, and what they are made of.                           *)
LEMMA Waiting ==
    /\ LongestRetry \in Nat /\ LongestWait \in Nat
    /\ LongestRetry <= LongestWait /\ Cooldown <= LongestWait /\ PollDelay <= LongestWait
  BY Policy DEF LongestWait, LongestRetry, Larger, Positive

LEMMA TimersStep ==
    ASSUME Core, [Next]_vars
    PROVE  Timers'
<1>0. /\ Timers /\ Stand \in WakeState /\ Since \in Nat /\ Since <= now /\ lastSeen \in Nat /\ now \in Nat /\ at \in Nat
      /\ LongestWait \in Nat /\ lastSeen <= now /\ mem \in WakeState /\ disk \in WakeState
  BY CoreTyped, Waiting DEF Core, Timers
<1>1. CASE Outside \/ Turns
  <2>1. Stand' = Stand /\ Since <= Since' /\ Since' \in Nat
    BY <1>1, StandStays
  <2>2. Stand'.nextActionAt <= Since' + LongestWait /\ Stand'.lastStartAt <= Since'
    <3>1. Stand.nextActionAt \in Nat /\ Stand.lastStartAt \in Nat
      BY <1>0 DEF WakeState
    <3> QED
      BY <1>0, <2>1, <3>1 DEF Timers
  <2>3. lastSeen' <= now'
    <3>1. (lastSeen' = lastSeen \/ lastSeen' = now) /\ (now' = now \/ now' = now + 1)
      BY <1>1 DEF Outside, Turns, Clock, Enqueue, EnqueueDuplicate, Pull, Heartbeat, Rebind, vars,
         TickStart, NoticeEnds, TickDone, TickThrows, Evicted, Interrupt, RestOfTick, seenVars
    <3> QED
      BY <1>0, <3>1
  <2>4. /\ pc' = "start" => disk'.nextActionAt >= at'
        /\ pc' = "done" /\ mem'.phase = "waking" => mem'.nextActionAt >= at'
    <3>1. CASE Outside
      BY <1>0, <3>1 DEF Outside, Clock, Enqueue, EnqueueDuplicate, Pull, Heartbeat, Rebind, vars, tickVars, Timers
    <3>2. CASE NoticeEnds
      BY <3>2 DEF NoticeEnds, Core, Even
    <3>3. CASE TickStart \/ TickDone \/ TickThrows \/ Evicted
      BY <3>3 DEF TickStart, TickDone, TickThrows, Evicted, Interrupt, Rest
    <3> QED
      BY <1>1, <3>1, <3>2, <3>3 DEF Turns
  <2> QED
    BY <2>2, <2>3, <2>4 DEF Timers
<1>2. CASE Loads
  <2>0. /\ pc = "load" /\ Stand = disk /\ Since = at /\ at' = at /\ now' = now /\ lastSeen' = lastSeen
        /\ pc' \in {"done", "status", "wakingNotice"} /\ Loaded \in WakeState
    BY <1>2, LoadIs, LoadedIs
  <2>1. Since' = at
    BY <2>0 DEF Since
  <2>2. Loaded.nextActionAt <= at + LongestWait /\ Loaded.lastStartAt <= at
    BY <1>0, <2>0, LoadedIs DEF Timers, WakeState
  <2>3. CASE /\ pc' = "done" /\ mem'.phase = "idle" /\ mem'.nextActionAt \in {Loaded.nextActionAt, 0}
             /\ mem'.lastStartAt = Loaded.lastStartAt
    <3>1. 0 <= at + LongestWait
      BY <1>0
    <3> QED
      BY <1>0, <2>0, <2>1, <2>2, <2>3, <3>1 DEF Timers, Stand
  <2>4. CASE pc' = "done" /\ mem' = Loaded /\ Loaded.phase # "waking"
    BY <1>0, <2>0, <2>1, <2>2, <2>4 DEF Timers, Stand
  <2>5. CASE /\ LoadNewCycle /\ disk' = mem' /\ pc' # "done" /\ pc' # "start"
             /\ mem' = [ToIdle(Loaded) EXCEPT !.phase = "waking", !.deadlineAt = at + AgentTimeout]
    <3>1. mem'.nextActionAt = 0 /\ mem'.lastStartAt = Loaded.lastStartAt
      BY <2>0, <2>5 DEF ToIdle, WakeState
    <3>2. 0 <= at + LongestWait
      BY <1>0
    <3> QED
      BY <1>0, <2>0, <2>1, <2>2, <2>5, <3>1, <3>2 DEF Timers, Stand
  <2>6. CASE mem' = disk /\ disk' = disk /\ (pc' = "status" \/ (pc' = "done" /\ at < disk.nextActionAt))
    <3>1. disk.nextActionAt \in Nat
      BY <1>0 DEF WakeState
    <3> QED
      BY <1>0, <2>0, <2>1, <2>6, <3>1 DEF Timers, Stand
  <2>7. \/ /\ pc' = "done" /\ mem'.phase = "idle" /\ mem'.nextActionAt \in {Loaded.nextActionAt, 0}
           /\ mem'.lastStartAt = Loaded.lastStartAt
        \/ pc' = "done" /\ mem' = Loaded /\ Loaded.phase # "waking"
        \/ /\ LoadNewCycle /\ disk' = mem' /\ pc' # "done" /\ pc' # "start"
           /\ mem' = [ToIdle(Loaded) EXCEPT !.phase = "waking", !.deadlineAt = at + AgentTimeout]
        \/ mem' = disk /\ disk' = disk /\ (pc' = "status" \/ (pc' = "done" /\ at < disk.nextActionAt))
    BY <1>2, LoadIs
  <2> QED
    BY <2>3, <2>4, <2>5, <2>6, <2>7
<1>3. CASE Answers
  <2>0. /\ Since = at /\ at' = at /\ now' = now /\ lastSeen' = lastSeen /\ mem = disk /\ Stand = disk
        /\ pc' \in {"done", "start", "failureNotice"} /\ pc \in {"status", "start"}
    BY <1>3, AnswerIs DEF Delayed, Waits, Requests, RequestStart, Accepted
  <2>1. Since' = at /\ lastSeen' <= now'
    BY <1>0, <2>0 DEF Since
  <2>2. mem.lastStartAt \in Nat /\ mem.lastStartAt <= at
    BY <1>0, <2>0 DEF Timers, WakeState
  <2>3. ASSUME NEW s, NEW until, Akin(s), Stand' = Failed(s, until), mem' = Stand', pc' \in {"done", "failureNotice"} PROVE Timers'
    <3>1. Stand'.nextActionAt = 0 /\ Stand'.lastStartAt = mem.lastStartAt /\ mem'.phase # "waking"
      BY <2>3 DEF Failed, Akin, WakeState
    <3>2. 0 <= at + LongestWait
      BY <1>0
    <3> QED
      BY <2>0, <2>1, <2>2, <2>3, <3>1, <3>2 DEF Timers
  <2>4. ASSUME NEW d, Delayed(mem, d), Stand' = mem' PROVE Timers'
    <3>1. Stand'.nextActionAt = at + d /\ Stand'.lastStartAt = mem.lastStartAt /\ pc' = "done"
      BY <1>0, <2>4 DEF Delayed, WakeState
    <3>2. d \in Nat /\ d <= LongestWait
      BY <2>4, Waiting DEF Delayed
    <3> QED
      BY <1>0, <2>0, <2>1, <2>2, <2>4, <3>1, <3>2 DEF Timers
  <2>5. ASSUME NEW x, Waits(x), Stand' = mem' PROVE Timers'
    <3>1. Stand'.nextActionAt = x /\ Stand'.lastStartAt = mem.lastStartAt /\ pc' = "done"
      BY <1>0, <2>5 DEF Waits, Observed, WakeState
    <3>2. x \in Nat /\ at < x /\ x <= at + LongestWait
      <4>1. CASE x = CooldownEnd(mem)
        <5>1. x <= at + Cooldown
          BY <1>0, <2>2, <4>1, Policy DEF CooldownEnd, Positive
        <5> QED
          BY <1>0, <2>5, <5>1, Waiting, Policy DEF Waits, Positive
      <4>2. CASE x <= at + PollDelay
        BY <1>0, <2>5, <4>2, Waiting, Policy DEF Waits, Positive
      <4> QED
        BY <2>5, <4>1, <4>2 DEF Waits
    <3> QED
      BY <1>0, <2>0, <2>1, <2>2, <2>5, <3>1, <3>2 DEF Timers
  <2>6. CASE Requests /\ Stand' = mem'
    <3>1. /\ Intent(Trim(Observed)).nextActionAt = at + PollDelay /\ Intent(Trim(Observed)).lastStartAt = at
      BY <1>0 DEF Intent, Trim, Observed, WakeState
    <3>2. pc' = "start" /\ mem' = Intent(Trim(Observed)) /\ disk' = mem'
      BY <2>6 DEF Requests, RequestStart
    <3>3. at + PollDelay <= at + LongestWait /\ at + PollDelay >= at /\ at <= at
      BY <1>0, Waiting, Policy DEF Positive
    <3> QED
      BY <1>0, <2>0, <2>1, <2>6, <3>1, <3>2, <3>3 DEF Timers
  <2>7. CASE Accepted /\ Stand' = mem'
    <3>1. mem' = mem /\ pc' = "done" /\ pc = "start"
      BY <2>7 DEF Accepted
    <3> QED
      BY <1>0, <2>0, <2>1, <2>7, <3>1 DEF Timers
  <2> QED
    BY <1>3, <2>3, <2>4, <2>5, <2>6, <2>7, AnswerIs
<1> QED
  BY <1>1, <1>2, <1>3, NextIs

LEMMA CoreInit ==
    ASSUME Init
    PROVE  Core
<1>1. /\ pc = "none" /\ disk = InitialWake /\ told = Untold /\ rejectedUnnotified = FALSE
      /\ fatal = [until |-> 0, binding |-> 0] /\ binding = 1 /\ quiet = FALSE /\ lastSeen = 0 /\ now = 1
  BY DEF Init
<1>2. Even /\ Notices /\ Blocks /\ News
  BY <1>1 DEF Even, Midway, Notices, Blocks, News, Stand, Shut, Since, InitialWake, Untold
<1>3. Timers
  BY <1>1, Waiting DEF Timers, Stand, Since, InitialWake
<1> QED
  BY <1>2, <1>3, InitIInv, TypedInit DEF Core

LEMMA CoreStep ==
    ASSUME Core, [Next]_vars
    PROVE  Core'
<1>1. IInv' /\ Typed'
  BY NextIInv, TypedStep DEF Core
<1> QED
  BY <1>1, EvenStep, NoticesStep, BlocksStep, NewsStep, TimersStep DEF Core

LEMMA CoreHolds == Spec => []Core
  BY CoreInit, CoreStep, PTL DEF Spec

(* The owner hears of the start of a cycle, of its failure and of an       *)
(* overflow of the queue once each, whatever tick dies after a notice went *)
(* out: what the notice is about is persisted before it is sent.           *)
THEOREM OnceTold == Spec => []NoticesOnce
<1>1. Core => NoticesOnce
  BY DEF Core, Typed, Notices, NoticesOnce
<1> QED
  BY <1>1, CoreHolds, PTL

(* A failure that blocks keeps every start back until the block is over or *)
(* the binding changed: a cycle under way is never blocked, and a block    *)
(* that counts is in the state a load finds, after crashes too.            *)
THEOREM BlocksHold == Spec => BlockHolds
<1>1. ASSUME Core, [Next]_vars
      PROVE  Len(started') > Len(started) /\ fatal.binding = binding => now >= fatal.until
  <2>0. now \in Nat /\ at \in Nat /\ at <= now /\ fatal.until \in Nat /\ started \in Seq(Nat)
    BY <1>1, CoreTyped DEF Core, Typed, TypeOK
  <2>1. CASE Outside \/ Turns \/ Loads
    <3>1. started' = started
      BY <1>1, <2>1, StandStays, LoadIs
    <3> QED
      BY <2>0, <3>1
  <2>2. CASE Answers
    <3>1. /\ Stand.phase = "waking" /\ Since = at
      BY <1>1, <2>2, AnswerIs
    <3>2. Stand.blockedUntil = 0 /\ (Shut => Stand.blockedUntil = fatal.until)
      BY <1>1, <3>1 DEF Core, Blocks
    <3>3. ~Shut
      BY <2>0, <3>1, <3>2 DEF Shut
    <3> QED
      BY <2>0, <3>1, <3>3 DEF Shut
  <2> QED
    BY <1>1, <2>1, <2>2, NextIs
<1>2. Core /\ [Next]_vars => [Len(started') > Len(started) /\ fatal.binding = binding => now >= fatal.until]_vars
  BY <1>1
<1> QED
  BY <1>2, CoreHolds, PTL DEF Spec, BlockHolds

(* A cycle that failed without a block is retried only for news: a message *)
(* that came after the failure, or an Agent that was seen since.           *)
THEOREM NewsFirst == Spec => RetriedForNews
<1>1. ASSUME Core, [Next]_vars
      PROVE  cycleAt' # cycleAt => ~quiet
  <2>1. CASE Outside \/ Turns \/ Answers
    BY <1>1, <2>1, StandStays, AnswerIs
  <2>2. CASE Loads /\ cycleAt' # cycleAt
    <3>1. /\ pc = "load" /\ Stand = disk /\ disk.phase # "waking" /\ Pending /\ Loaded.blockedUntil = 0
          /\ Loaded.phase = "failed" => ~(lastEnqueue <= Loaded.failedAt)
      BY <1>1, <2>2, LoadIs
    <3>2. SUFFICES ASSUME quiet PROVE FALSE
      OBVIOUS
    <3>3. disk.blockedUntil = 0 /\ Given(disk)
      BY <1>1, <3>1, <3>2 DEF Core, News
    <3>4. Loaded = disk
      BY <1>1, <3>1, <3>3, LoadedIs
    <3> QED
      BY <3>1, <3>3, <3>4 DEF Given
  <2> QED
    BY <1>1, <2>1, <2>2, NextIs
<1>2. Core /\ [Next]_vars => [cycleAt' # cycleAt => ~quiet]_vars
  BY <1>1
<1> QED
  BY <1>2, CoreHolds, PTL DEF Spec, RetriedForNews
-----------------------------------------------------------------------------
(* What a waiting row and the machine itself put among the alarm's times.  *)
LEMMA AlarmTimesHave ==
    /\ Pending => Head(updates) \in AlarmTimes
    /\ Pending /\ OnlineAt(now) => lastSeen + OnlineWindow + 1 \in AlarmTimes
    /\ Pending /\ ~OnlineAt(now) /\ disk.phase = "idle" /\ disk.blockedUntil = Null => now \in AlarmTimes
    /\ disk.phase = "waking" /\ disk.nextActionAt # Null => disk.nextActionAt \in AlarmTimes
  BY DEF AlarmTimes, BlockActive

LEMMA AlarmTimesHaveAfter ==
    /\ Pending' => Head(updates') \in AlarmTimes'
    /\ Pending' /\ OnlineAt(now)' => lastSeen' + OnlineWindow + 1 \in AlarmTimes'
    /\ Pending' /\ ~OnlineAt(now)' /\ disk'.phase = "idle" /\ disk'.blockedUntil = Null => now' \in AlarmTimes'
    /\ disk'.phase = "waking" /\ disk'.nextActionAt # Null => disk'.nextActionAt \in AlarmTimes'
<1>1. (/\ Pending => Head(updates) \in AlarmTimes
       /\ Pending /\ OnlineAt(now) => lastSeen + OnlineWindow + 1 \in AlarmTimes
       /\ Pending /\ ~OnlineAt(now) /\ disk.phase = "idle" /\ disk.blockedUntil = Null => now \in AlarmTimes
       /\ disk.phase = "waking" /\ disk.nextActionAt # Null => disk.nextActionAt \in AlarmTimes)'
  BY AlarmTimesHave, PTL
<1> QED
  BY <1>1

(* A handler that schedules sets no later alarm than any time calls for.   *)
LEMMA ScheduledBy ==
    ASSUME Typed', alarm \in Nat,
           Schedule \/ alarm' = IF NextAlarm' = Null THEN alarm ELSE NextAlarm'
    PROVE  /\ \A t \in AlarmTimes' : alarm' # Null /\ alarm' <= t
           /\ Schedule /\ alarm # Null => alarm' # Null /\ alarm' <= alarm
<1>1. Dated'
  BY TypedIs, Policy DEF Dated, Typed, TypeOK, WakeState, Positive
<1>2. NextAlarm' \in Nat /\ \A t \in AlarmTimes' : NextAlarm' # Null /\ NextAlarm' <= t
  BY <1>1, NextAlarmAfter
<1>3. AlarmTimes' \subseteq Nat
  <2>1. (Dated => AlarmTimes \subseteq Positive)'
    BY AlarmTimesTyped, PTL
  <2> QED
    BY <1>1, <2>1 DEF Positive
<1>4. ASSUME NEW t \in AlarmTimes' PROVE alarm' # Null /\ alarm' <= t
  BY <1>2, <1>3, <1>4 DEF Schedule
<1>5. Schedule /\ alarm # Null => alarm' # Null /\ alarm' <= alarm
  BY <1>2 DEF Schedule
<1> QED
  BY <1>4, <1>5

(* That is soon enough for a row that waits.                               *)
Roused ==
    Pending => /\ alarm # Null /\ alarm <= Larger(now + PollDelay, Head(updates))
               /\ disk.phase = "idle" /\ disk.blockedUntil = Null =>
                      alarm <= Larger(now + PollDelay, lastSeen + OnlineWindow + 1)

LEMMA LargerIs ==
    \A a, b \in Nat : /\ Larger(a, b) \in Nat /\ a <= Larger(a, b) /\ b <= Larger(a, b)
                      /\ \A c, d \in Nat : a <= c /\ b <= d => Larger(a, b) <= Larger(c, d)
  BY DEF Larger

LEMMA Sums ==
    \A a, b, c, d \in Nat : /\ a + c \in Nat /\ a + c + 1 \in Nat
                            /\ a <= b => a <= b + c /\ a + c <= b + c /\ a + c + 1 <= b + c + 1
  OBVIOUS

LEMMA RousedBy ==
    ASSUME Typed', alarm' \in Nat, \A t \in AlarmTimes' : alarm' # Null /\ alarm' <= t
    PROVE  Roused'
<1>0. /\ now' \in Nat /\ lastSeen' \in Nat /\ updates' \in Seq(Positive) /\ PollDelay \in Nat /\ OnlineWindow \in Nat
      /\ now' + PollDelay \in Nat /\ lastSeen' + OnlineWindow + 1 \in Nat
  <2>1. now' \in 1..MaxTime /\ lastSeen' \in Nat /\ updates' \in Seq(Positive)
    BY DEF Typed, TypeOK
  <2>2. now' \in Nat /\ PollDelay \in Nat /\ OnlineWindow \in Nat
    BY <2>1, Policy DEF Positive
  <2> QED
    BY <2>1, <2>2, Sums
<1>1. SUFFICES ASSUME Pending'
               PROVE  /\ alarm' # Null /\ alarm' <= Larger(now' + PollDelay, Head(updates'))
                      /\ disk'.phase = "idle" /\ disk'.blockedUntil = Null =>
                             alarm' <= Larger(now' + PollDelay, lastSeen' + OnlineWindow + 1)
  BY DEF Roused
<1>2. Head(updates') \in AlarmTimes' /\ Head(updates') \in Nat
  BY <1>0, <1>1, AlarmTimesHaveAfter DEF Pending, Positive
<1>3. alarm' # Null /\ alarm' <= Larger(now' + PollDelay, Head(updates'))
  <2>1. alarm' <= Head(updates') /\ Head(updates') <= Larger(now' + PollDelay, Head(updates'))
        /\ Larger(now' + PollDelay, Head(updates')) \in Nat
    BY <1>0, <1>2, LargerIs
  <2> QED
    BY <1>2, <2>1
<1>4. ASSUME disk'.phase = "idle", disk'.blockedUntil = Null
      PROVE  alarm' <= Larger(now' + PollDelay, lastSeen' + OnlineWindow + 1)
  <2>0. \A a, b \in Nat : alarm' <= a \/ alarm' <= b => alarm' <= Larger(a, b)
    BY DEF Larger
  <2>1. CASE OnlineAt(now)'
    BY <1>0, <1>1, <2>0, <2>1, AlarmTimesHaveAfter
  <2>2. CASE ~OnlineAt(now)'
    <3>1. alarm' <= now'
      BY <1>1, <1>4, <2>2, AlarmTimesHaveAfter
    <3>2. alarm' <= now' + PollDelay
      BY <1>0, <3>1, Sums
    <3> QED
      BY <1>0, <2>0, <3>2
  <2> QED
    BY <2>1, <2>2
<1> QED
  BY <1>3, <1>4

(* A cycle under way has its own alarm.                                    *)
Awaited == disk.phase = "waking" => alarm # Null /\ alarm <= now + LongestWait

LEMMA AlarmsIs == Alarms <=> (pc = "none" => Roused /\ Awaited)
  BY DEF Alarms, Roused, Awaited

LEMMA AlarmsAfter ==
    ASSUME pc' = "none" => Roused' /\ Awaited'
    PROVE  Alarms'
<1>1. (Alarms <=> (pc = "none" => Roused /\ Awaited))'
  BY AlarmsIs, PTL
<1> QED
  BY <1>1

LEMMA AlarmsStep ==
    ASSUME ~AlarmsLost, Core, Core', Alarms, [Next]_vars
    PROVE  Alarms'
<1>0. /\ now \in Nat /\ at \in Nat /\ alarm \in Nat /\ lastSeen \in Nat /\ updates \in Seq(Positive) /\ lastSeen <= now
      /\ PollDelay \in Nat /\ OnlineWindow \in Nat /\ LongestWait \in Nat /\ now # 0 /\ disk \in WakeState
      /\ PollDelay # 0 /\ PollDelay <= LongestWait
  BY CoreTyped, Policy, Waiting DEF Positive, Core, Timers
<1>00. Typed' /\ alarm' \in Nat /\ now' \in Nat /\ lastSeen' \in Nat /\ updates' \in Seq(Positive)
  BY DEF Core, Typed, TypeOK
<1>1. SUFFICES ASSUME pc' = "none" PROVE Roused' /\ Awaited'
  BY AlarmsAfter
<1>2. CASE Enqueue \/ EnqueueDuplicate \/ Pull
  <2>1. Schedule /\ pc = "none" /\ disk' = disk /\ now' = now
    BY <1>1, <1>2 DEF Enqueue, EnqueueDuplicate, Pull, tickVars
  <2>2. Roused'
    BY <1>0, <1>00, <2>1, ScheduledBy, RousedBy
  <2>3. Awaited'
    <3>1. SUFFICES ASSUME disk.phase = "waking" PROVE alarm' # Null /\ alarm' <= now + LongestWait
      BY <2>1 DEF Awaited
    <3>2. alarm # Null /\ alarm <= now + LongestWait
      BY <2>1, <3>1 DEF Alarms
    <3>3. alarm' # Null /\ alarm' <= alarm
      BY <1>0, <1>00, <2>1, <3>2, ScheduledBy
    <3> QED
      BY <1>0, <1>00, <3>2, <3>3
  <2> QED
    BY <2>2, <2>3
<1>3. CASE Clock \/ Heartbeat \/ Rebind \/ UNCHANGED vars
  <2>1. /\ UNCHANGED <<pc, disk, alarm, updates>> /\ (now' = now \/ now' = now + 1)
        /\ (lastSeen' = lastSeen \/ lastSeen' = now)
    BY <1>3 DEF Clock, Heartbeat, Rebind, vars, tickVars, seenVars
  <2>2. Roused /\ Awaited
    BY <1>1, <2>1, AlarmsIs
  <2>3. Awaited'
    BY <1>0, <2>1, <2>2 DEF Awaited
  <2>4. Roused'
    <3>1. SUFFICES ASSUME Pending
                   PROVE  /\ alarm # Null /\ alarm <= Larger(now' + PollDelay, Head(updates))
                          /\ disk.phase = "idle" /\ disk.blockedUntil = Null =>
                                 alarm <= Larger(now' + PollDelay, lastSeen' + OnlineWindow + 1)
      BY <2>1 DEF Roused, Pending
    <3>2. Head(updates) \in Nat /\ now + PollDelay <= now' + PollDelay
          /\ lastSeen + OnlineWindow + 1 <= lastSeen' + OnlineWindow + 1
          /\ now + PollDelay \in Nat /\ now' + PollDelay \in Nat
          /\ lastSeen + OnlineWindow + 1 \in Nat /\ lastSeen' + OnlineWindow + 1 \in Nat
      <4>1. Head(updates) \in Nat
        BY <1>0, <3>1 DEF Pending, Positive
      <4>2. now <= now' /\ lastSeen <= lastSeen'
        BY <1>0, <2>1
      <4> QED
        BY <1>0, <1>00, <4>1, <4>2, Sums
    <3>3. /\ Larger(now + PollDelay, Head(updates)) <= Larger(now' + PollDelay, Head(updates))
          /\ Larger(now + PollDelay, Head(updates)) \in Nat
          /\ Larger(now' + PollDelay, Head(updates)) \in Nat
          /\ Larger(now + PollDelay, lastSeen + OnlineWindow + 1) <= Larger(now' + PollDelay, lastSeen' + OnlineWindow + 1)
          /\ Larger(now + PollDelay, lastSeen + OnlineWindow + 1) \in Nat
          /\ Larger(now' + PollDelay, lastSeen' + OnlineWindow + 1) \in Nat
      <4>1. /\ Larger(now + PollDelay, Head(updates)) \in Nat
            /\ Larger(now' + PollDelay, Head(updates)) \in Nat
            /\ Larger(now + PollDelay, lastSeen + OnlineWindow + 1) \in Nat
            /\ Larger(now' + PollDelay, lastSeen' + OnlineWindow + 1) \in Nat
        BY <3>2, LargerIs
      <4>2. Head(updates) <= Head(updates)
        BY <3>2
      <4> QED
        BY <3>2, <4>1, <4>2, LargerIs
    <3>4. \A a, b, c \in Nat : a <= b /\ b <= c => a <= c
      OBVIOUS
    <3> QED
      BY <1>0, <2>2, <3>1, <3>3, <3>4 DEF Roused
  <2> QED
    BY <2>3, <2>4
<1>4. CASE TickDone
  <2>1. /\ alarm' = IF NextAlarm' = Null THEN alarm ELSE NextAlarm'
        /\ disk' = mem /\ now' = now /\ pc = "done"
    BY <1>4 DEF TickDone
  <2>2. \A t \in AlarmTimes' : alarm' # Null /\ alarm' <= t
    BY <1>0, <1>00, <2>1, ScheduledBy
  <2>3. Roused'
    BY <1>00, <2>2, RousedBy
  <2>4. Awaited'
    <3>1. SUFFICES ASSUME disk'.phase = "waking" PROVE alarm' # Null /\ alarm' <= now + LongestWait
      BY <2>1 DEF Awaited
    <3>2. at # 0 /\ at <= now /\ mem.nextActionAt \in Nat /\ mem.nextActionAt >= at
          /\ mem.nextActionAt <= at + LongestWait
      BY <1>0, <2>1, <3>1, CoreTyped DEF Core, Timers, Stand, Since, WakeState
    <3>3. disk'.nextActionAt \in AlarmTimes'
      BY <1>0, <2>1, <3>1, <3>2, AlarmTimesHaveAfter
    <3>4. alarm' # Null /\ alarm' <= mem.nextActionAt
      BY <2>1, <2>2, <3>3
    <3>5. \A a, b, c, d, e \in Nat : a <= b /\ b <= c + e /\ c <= d => a <= d + e
      OBVIOUS
    <3> QED
      BY <1>0, <1>00, <3>2, <3>4, <3>5
  <2> QED
    BY <2>3, <2>4
<1>5. CASE TickThrows \/ Evicted
  <2>1. alarm' # Null /\ alarm' <= now + PollDelay /\ now' = now
    BY <1>0, <1>5 DEF TickThrows, Evicted, Interrupt
  <2>2. Awaited'
    BY <1>0, <1>00, <2>1 DEF Awaited
  <2>3. Roused'
    <3>1. SUFFICES ASSUME Pending'
                   PROVE  /\ alarm' # Null /\ alarm' <= Larger(now' + PollDelay, Head(updates'))
                          /\ alarm' <= Larger(now' + PollDelay, lastSeen' + OnlineWindow + 1)
      BY DEF Roused
    <3>2. Head(updates') \in Nat
      BY <1>00, <3>1 DEF Pending, Positive
    <3>3. \A a, b \in Nat : alarm' <= a => alarm' <= Larger(a, b)
      BY <1>00 DEF Larger
    <3>4. now' + PollDelay \in Nat /\ lastSeen' + OnlineWindow + 1 \in Nat
      BY <1>0, <1>00, Sums
    <3> QED
      BY <2>1, <3>2, <3>3, <3>4
  <2> QED
    BY <2>2, <2>3
<1>6. CASE TickStart \/ NoticeEnds \/ Loads \/ Answers
  <2>1. pc' # "none"
    <3>1. CASE TickStart \/ NoticeEnds
      BY <3>1 DEF TickStart, NoticeEnds
    <3>2. CASE Loads
      BY <3>2, LoadIs
    <3>3. CASE Answers
      BY <3>3, AnswerIs DEF Delayed, Waits, Requests, RequestStart, Accepted
    <3> QED
      BY <1>6, <3>1, <3>2, <3>3
  <2> QED
    BY <1>1, <2>1
<1> QED
  BY <1>2, <1>3, <1>4, <1>5, <1>6, NextIs DEF Outside, Turns
-----------------------------------------------------------------------------
LEMMA Product == \A a, b \in Nat : a * b \in Nat /\ (a + 1) * b = a * b + b
  OBVIOUS

LEMMA SpanIs ==
    /\ \A r \in Nat : r <= MaxRetries => Span(r) \in Nat
    /\ \A r \in Nat : r + 1 <= MaxRetries => Span(r) = Span(r + 1) + (LongestRetry + MaxLag)
    /\ Span(0) \in Nat
<1>1. MaxRetries \in Nat /\ LongestRetry + MaxLag \in Nat
  BY Policy, Waiting
<1>2. PICK step \in Nat : step = LongestRetry + MaxLag
  BY <1>1
<1>3. ASSUME NEW r \in Nat, r <= MaxRetries PROVE Span(r) \in Nat
  <2>1. MaxRetries - r \in Nat
    BY <1>1, <1>3
  <2> QED
    BY <1>2, <2>1, Product DEF Span
<1>4. ASSUME NEW r \in Nat, r + 1 <= MaxRetries PROVE Span(r) = Span(r + 1) + (LongestRetry + MaxLag)
  <2>1. PICK k \in Nat : k = MaxRetries - (r + 1)
    BY <1>1, <1>4
  <2>2. MaxRetries - r = k + 1
    BY <1>1, <2>1
  <2>3. Span(r) = (k + 1) * step /\ Span(r + 1) = k * step
    BY <1>2, <2>1, <2>2 DEF Span
  <2> QED
    BY <1>2, <2>3, Product
<1> QED
  BY <1>1, <1>3, <1>4

LEMMA StretchIs ==
    /\ Stretch \in Nat
    /\ AgentTimeout + MaxLag + Span(0) <= Stretch /\ Cooldown + MaxLag + Span(0) <= Stretch
    /\ PollDelay + MaxLag + Span(0) <= Stretch /\ MaxLag + Span(0) <= Stretch
<1>1. /\ AgentTimeout \in Nat /\ Cooldown \in Nat /\ PollDelay \in Nat /\ MaxLag \in Nat /\ MaxRetries \in Nat
  BY Policy DEF Positive
<1>2. PICK long \in Nat : /\ long = Larger(Larger(AgentTimeout, Cooldown), PollDelay)
                          /\ AgentTimeout <= long /\ Cooldown <= long /\ PollDelay <= long
  BY <1>1 DEF Larger
<1>3. PICK span \in Nat : span = Span(0)
  BY SpanIs
<1>4. Span(0) = MaxRetries * (LongestRetry + MaxLag)
  BY <1>1 DEF Span
<1>5. Stretch = long + MaxLag + span
  BY <1>2, <1>3, <1>4 DEF Stretch
<1> QED
  BY <1>1, <1>2, <1>3, <1>5

LEMMA DueIs ==
    \A begun, n, faults \in Nat :
       /\ Due(begun, n, faults) \in Nat
       /\ Due(begun, n + 1, faults) = Due(begun, n, faults) + Stretch
       /\ Due(begun, n, faults + 1) = Due(begun, n, faults) + PollDelay + MaxLag
       /\ begun + Stretch <= Due(begun, 0, faults)
<1> TAKE begun, n, faults \in Nat
<1>1. PICK s \in Nat, d \in Nat : s = Stretch /\ d = PollDelay + MaxLag
  BY StretchIs, Policy DEF Positive
<1>2. /\ (n + 1) * s \in Nat /\ faults * d \in Nat /\ (n + 1 + 1) * s = (n + 1) * s + s
      /\ (faults + 1) * d = faults * d + d /\ (0 + 1) * s = s
  <2>1. n + 1 \in Nat
    OBVIOUS
  <2>2. (0 + 1) * s = 0 * s + s /\ 0 * s = 0
    BY <1>1, Product
  <2> QED
    BY <1>1, <2>1, <2>2, Product
<1>3. PICK p \in Nat, q \in Nat : p = (n + 1) * s /\ q = faults * d
  BY <1>2
<1>4. /\ Due(begun, n, faults) = begun + p + q
      /\ Due(begun, n + 1, faults) = begun + (p + s) + q
      /\ Due(begun, n, faults + 1) = begun + p + (q + d)
      /\ Due(begun, 0, faults) = begun + s + q
  BY <1>1, <1>2, <1>3 DEF Due
<1>5. d = PollDelay + MaxLag /\ PollDelay \in Nat /\ MaxLag \in Nat
  BY <1>1, Policy DEF Positive
<1> QED
  BY <1>1, <1>3, <1>4, <1>5

LEMMA KeepsLater ==
    ASSUME NEW s \in WakeState, NEW d \in Nat, NEW e \in Nat, d <= e, Keeps(s, d)
    PROVE  Keeps(s, e)
<1>1. /\ s.deadlineAt \in Nat /\ s.nextActionAt \in Nat /\ s.retries \in Nat /\ MaxLag \in Nat
      /\ CooldownEnd(s) \in Nat
  BY Policy DEF WakeState, CooldownEnd, Positive
<1>2. Span(s.retries) \in Nat /\ Span(0) \in Nat
  BY <1>1, SpanIs DEF Keeps
<1> HIDE DEF Span, CooldownEnd
<1> QED
  BY <1>1, <1>2 DEF Keeps

(* The states a cycle goes through keep its course.                        *)
LEMMA DelayedKeeps ==
    ASSUME NEW s \in WakeState, NEW t \in Nat, NEW d \in Nat, NEW due \in Nat, d <= LongestRetry,
           s.retries + 1 <= MaxRetries, Keeps(s, due), t + Span(s.retries) <= due
    PROVE  Keeps([s EXCEPT !.retries = s.retries + 1, !.nextActionAt = t + d], due)
<1> DEFINE u == [s EXCEPT !.retries = s.retries + 1, !.nextActionAt = t + d]
<1>1. /\ u.startsThisCycle = s.startsThisCycle /\ u.deadlineAt = s.deadlineAt /\ u.lastStartAt = s.lastStartAt
      /\ u.retries = s.retries + 1 /\ u.nextActionAt = t + d /\ s.retries \in Nat
  BY DEF WakeState
<1> HIDE DEF u
<1>2. CooldownEnd(u) = CooldownEnd(s)
  BY <1>1 DEF CooldownEnd
<1>3. Span(s.retries) = Span(s.retries + 1) + (LongestRetry + MaxLag)
  BY <1>1, SpanIs
<1>4. Span(s.retries + 1) \in Nat /\ MaxLag \in Nat /\ LongestRetry \in Nat
  BY <1>1, SpanIs, Policy, Waiting
<1>5. PICK x \in Nat, l \in Nat, m \in Nat : x = Span(s.retries + 1) /\ l = LongestRetry /\ m = MaxLag
  BY <1>4
<1>6. t + (x + (l + m)) <= due /\ d <= l
  BY <1>3, <1>5
<1>7. t + d + m + x <= due
  BY <1>5, <1>6
<1>8. u.nextActionAt + MaxLag + Span(u.retries) <= due
  BY <1>1, <1>5, <1>7
<1>9. Keeps(u, due)
  BY <1>1, <1>2, <1>8 DEF Keeps
<1> QED
  BY <1>9 DEF u

LEMMA WaitsKeeps ==
    ASSUME NEW s \in WakeState, NEW x \in Nat, NEW due \in Nat, Keeps(s, due),
           x = CooldownEnd(s) \/ x <= s.deadlineAt
    PROVE  Keeps([[s EXCEPT !.retries = 0] EXCEPT !.nextActionAt = x], due)
<1> DEFINE u == [[s EXCEPT !.retries = 0] EXCEPT !.nextActionAt = x]
<1>1. /\ u.startsThisCycle = s.startsThisCycle /\ u.deadlineAt = s.deadlineAt /\ u.lastStartAt = s.lastStartAt
      /\ u.retries = 0 /\ u.nextActionAt = x
  BY DEF WakeState
<1> HIDE DEF u
<1>2. CooldownEnd(u) = CooldownEnd(s)
  BY <1>1 DEF CooldownEnd
<1>3. PICK span \in Nat, m \in Nat, y \in Nat : span = Span(0) /\ m = MaxLag /\ y = s.deadlineAt
  BY SpanIs, Policy DEF WakeState
<1>4. CooldownEnd(s) + m + span <= due /\ y + m + span <= due
  BY <1>3 DEF Keeps
<1>5. x + m + span <= due
  <2>1. CASE x = CooldownEnd(s)
    BY <1>4, <2>1
  <2>2. CASE x <= y
    BY <1>3, <1>4, <2>2
  <2> QED
    BY <1>3, <2>1, <2>2
<1>6. u.nextActionAt + MaxLag + Span(u.retries) <= due
  BY <1>1, <1>3, <1>5
<1>7. Keeps(u, due)
  BY <1>1, <1>2, <1>6, Policy DEF Keeps
<1> QED
  BY <1>7 DEF u

(* A cycle that begins, and the stretch a start begins, keep their course. *)
LEMMA FreshKeeps ==
    ASSUME NEW s \in WakeState, NEW t \in Nat, NEW due \in Nat, t + Stretch <= due,
           s.startsThisCycle <= MaxStartsPerCycle, s.retries = 0, s.lastStartAt <= t,
           s.deadlineAt = t + AgentTimeout, s.nextActionAt \in {0, t + PollDelay}
    PROVE  Keeps(s, due) /\ t + Span(0) <= due
<1>1. PICK a \in Nat, c \in Nat, p \in Nat, m \in Nat, span \in Nat, st \in Nat :
          /\ a = AgentTimeout /\ c = Cooldown /\ p = PollDelay /\ m = MaxLag /\ span = Span(0) /\ st = Stretch
  BY SpanIs, StretchIs, Policy DEF Positive
<1>2. a + m + span <= st /\ c + m + span <= st /\ p + m + span <= st /\ m + span <= st
  BY <1>1, StretchIs
<1>3. CooldownEnd(s) \in Nat /\ CooldownEnd(s) <= t + c
  BY <1>1 DEF CooldownEnd, WakeState
<1>4. t + st <= due
  BY <1>1
<1>5. t + a + m + span <= due /\ t + p + m + span <= due /\ t + m + span <= due /\ t + span <= due /\ 0 + m + span <= due
  BY <1>1, <1>2, <1>4
<1>6. CooldownEnd(s) + m + span <= due
  BY <1>1, <1>2, <1>3, <1>4
<1>7. /\ s.deadlineAt + MaxLag + Span(0) <= due /\ CooldownEnd(s) + MaxLag + Span(0) <= due
      /\ s.nextActionAt + MaxLag + Span(s.retries) <= due
  BY <1>1, <1>5, <1>6
<1> QED
  BY <1>1, <1>5, <1>7, Policy DEF Keeps
-----------------------------------------------------------------------------
LEMMA CourseTyped ==
    ASSUME Core, Stand.phase = "waking", Course
    PROVE  /\ StandDue \in Nat /\ Keeps(Stand, StandDue)
           /\ Stand.retries \in Nat /\ Stand.retries <= MaxRetries /\ Span(Stand.retries) \in Nat
           /\ Stand.startsThisCycle \in Nat
<1>1. Stand \in WakeState /\ cycleAt \in Nat /\ Faults \in Nat
  BY CoreTyped
<1>2. Stand.retries \in Nat /\ Stand.startsThisCycle \in Nat
  BY <1>1 DEF WakeState
<1>3. StandDue \in Nat
  BY <1>1, <1>2, DueIs DEF StandDue
<1>4. Keeps(Stand, StandDue)
  BY DEF Course
<1>5. Stand.retries <= MaxRetries
  BY <1>4 DEF Keeps
<1> QED
  BY <1>2, <1>3, <1>4, <1>5, SpanIs

LEMMA FaultsAre ==
    ASSUME Core, [Next]_vars
    PROVE  (TickThrows \/ Evicted => Faults' = Faults + 1) /\ (Faults' = Faults \/ TickThrows \/ Evicted)
<1>0. count \in Counts
  BY DEF Core, Typed
<1>1. ASSUME Clock \/ EnqueueDuplicate \/ UNCHANGED vars \/ TickStart \/ NoticeEnds \/ TickDone \/ Loads \/ Answers
      PROVE  Faults' = Faults
  BY <1>1, LoadIs, AnswerIs DEF Clock, EnqueueDuplicate, vars, TickStart, NoticeEnds, TickDone, RestOfTick, Faults
<1>2. ASSUME Enqueue \/ Pull \/ Heartbeat \/ Rebind
      PROVE  Faults' = Faults
  <2>1. \E x : \/ count' = [count EXCEPT !.enqueues = x] \/ count' = [count EXCEPT !.seen = x]
               \/ count' = [count EXCEPT !.rebinds = x]
    BY <1>2 DEF Enqueue, Pull, Heartbeat, Rebind
  <2> QED
    BY <1>0, <2>1 DEF Counts, Faults
<1>3. ASSUME TickThrows \/ Evicted
      PROVE  Faults' = Faults + 1
  <2>1. count' = [count EXCEPT !.faults = count.faults + 1]
    BY <1>3 DEF TickThrows, Evicted, Interrupt
  <2> QED
    BY <1>0, <2>1 DEF Counts, Faults
<1>5. Faults' = Faults \/ TickThrows \/ Evicted
  BY <1>1, <1>2, NextIs DEF Outside, Turns
<1> QED
  BY <1>3, <1>5

(* Where the machine stands still, the course is that of the clock.        *)
LEMMA AsideCourse ==
    ASSUME ~AlarmsLost, Core, Core', Alarms, Course, [Next]_vars, Outside \/ Turns
    PROVE  Course'
<1>0. /\ Stand' = Stand /\ cycleAt' = cycleAt /\ Stand \in WakeState /\ cycleAt \in Nat /\ Faults \in Nat
      /\ now \in Nat /\ at \in Nat /\ alarm \in Nat /\ alarm' \in Nat /\ MaxLag \in Nat /\ PollDelay \in Nat
      /\ (pc # "none" => at # 0 /\ at <= now /\ now <= at + MaxLag)
  <2>1. alarm' \in Nat
    BY DEF Core, Typed, TypeOK
  <2> QED
    BY <2>1, StandStays, CoreTyped, Policy DEF Positive
<1>1. CASE ~(TickThrows \/ Evicted)
  <2>0. Faults' = Faults /\ StandDue' = StandDue
    BY <1>0, <1>1, FaultsAre DEF StandDue
  <2>1. ASSUME Stand.phase = "waking"
        PROVE  /\ Keeps(Stand, StandDue)
               /\ pc' = "none" => now' + Span(Stand.retries) <= StandDue /\ alarm' + Span(Stand.retries) <= StandDue
               /\ pc' \notin {"none", "done"} => at' + Span(Stand.retries) <= StandDue
    <3>0. StandDue \in Nat /\ Keeps(Stand, StandDue) /\ Span(Stand.retries) \in Nat
      BY <2>1, CourseTyped
    <3>1. PICK due \in Nat, left \in Nat : due = StandDue /\ left = Span(Stand.retries)
      BY <3>0
    <3>2. /\ pc = "none" => now + left <= due /\ alarm + left <= due
          /\ pc \notin {"none", "done"} => at + left <= due
      BY <2>1, <3>1 DEF Course
    <3>3. CASE Outside
      <4>1. /\ pc' = pc /\ at' = at /\ disk' = disk
            /\ now' = now \/ (Clock /\ now' = now + 1)
        BY <3>3 DEF Outside, Clock, Enqueue, EnqueueDuplicate, Pull, Heartbeat, Rebind, vars, tickVars
      <4>2. pc = "none" => alarm # 0
        BY <2>1 DEF Alarms, Stand
      <4>3. pc = "none" => alarm' <= alarm
        <5>1. CASE alarm' = alarm
          BY <1>0, <5>1
        <5>2. CASE Schedule
          BY <1>0, <4>2, <5>2, ScheduledBy DEF Core
        <5> QED
          BY <3>3, <5>1, <5>2 DEF Outside, Clock, Enqueue, EnqueueDuplicate, Pull, Heartbeat, Rebind, vars
      <4>4. pc = "none" => now' + left <= due
        <5>1. CASE now' = now
          BY <3>2, <5>1
        <5>2. CASE Clock /\ now' = now + 1
          <6>1. pc = "none" => now + 1 <= alarm
            BY <1>0, <4>2, <5>2 DEF Clock
          <6> QED
            BY <1>0, <3>1, <3>2, <5>2, <6>1
        <5> QED
          BY <4>1, <5>1, <5>2
      <4>5. pc = "none" => alarm' + left <= due
        BY <1>0, <3>1, <3>2, <4>3
      <4> QED
        BY <3>0, <3>1, <3>2, <4>1, <4>4, <4>5
    <3>4. CASE TickStart
      <4>1. pc = "none" /\ at' = now /\ pc' # "none"
        BY <3>4 DEF TickStart
      <4> QED
        BY <3>0, <3>1, <3>2, <4>1
    <3>5. CASE NoticeEnds
      <4>1. pc \notin {"none", "done"} /\ at' = at /\ pc' # "none"
        BY <3>5 DEF NoticeEnds, RestOfTick
      <4> QED
        BY <3>0, <3>1, <3>2, <4>1
    <3>6. CASE TickDone
      <4>1. pc = "done" /\ pc' = "none" /\ now' = now /\ disk' = mem /\ Stand = mem
            /\ alarm' = IF NextAlarm' = 0 THEN alarm ELSE NextAlarm'
        BY <3>6 DEF TickDone, Rest, Stand
      <4>2. mem.nextActionAt \in Nat /\ mem.nextActionAt >= at /\ mem.phase = "waking"
        BY <1>0, <2>1, <4>1 DEF Core, Timers, WakeState
      <4>3. disk'.nextActionAt \in AlarmTimes'
        BY <1>0, <4>1, <4>2, AlarmTimesHaveAfter
      <4>4. alarm' <= mem.nextActionAt
        BY <1>0, <4>1, <4>3, ScheduledBy DEF Core
      <4>5. PICK next \in Nat, lag \in Nat : next = mem.nextActionAt /\ lag = MaxLag
        BY <1>0, <4>2
      <4>6. next + lag + left <= due
        BY <3>0, <3>1, <4>1, <4>5 DEF Keeps
      <4>7. now + left <= due
        <5>1. now <= at + lag /\ at <= next
          BY <1>0, <4>1, <4>2, <4>5
        <5> QED
          BY <1>0, <4>6, <5>1
      <4>8. alarm' + left <= due
        <5>1. \A a, b, c, d, e \in Nat : a <= b /\ b + d + c <= e => a + c <= e
          OBVIOUS
        <5> QED
          BY <1>0, <3>1, <4>4, <4>5, <4>6, <5>1
      <4> QED
        BY <3>0, <3>1, <4>1, <4>7, <4>8
    <3> QED
      BY <1>1, <3>3, <3>4, <3>5, <3>6 DEF Turns
  <2>2. ASSUME pc' = "done", disk'.phase = "waking"
        PROVE  disk'.startsThisCycle <= MaxStartsPerCycle /\ at' <= Due(cycleAt', disk'.startsThisCycle, Faults')
    <3>1. CASE Outside
      <4>1. pc' = pc /\ at' = at /\ disk' = disk
        BY <3>1 DEF Outside, Clock, Enqueue, EnqueueDuplicate, Pull, Heartbeat, Rebind, vars, tickVars
      <4> QED
        BY <1>0, <2>0, <2>2, <4>1 DEF Course
    <3>2. CASE NoticeEnds
      BY <2>2, <3>2 DEF NoticeEnds, Core, Even
    <3>3. CASE TickStart \/ TickDone
      BY <2>2, <3>3 DEF TickStart, TickDone, Rest
    <3> QED
      BY <1>1, <3>1, <3>2, <3>3 DEF Turns
  <2> QED
    BY <1>0, <2>0, <2>1, <2>2 DEF Course
<1>2. CASE TickThrows \/ Evicted
  <2>0. /\ pc \in Awaits /\ pc' = "none" /\ now' = now /\ Faults' = Faults + 1
        /\ alarm' <= now + PollDelay
    <3>1. Faults' = Faults + 1
      BY <1>2, FaultsAre
    <3> QED
      BY <1>0, <1>2, <3>1 DEF TickThrows, Evicted, Interrupt, Rest
  <2>1. SUFFICES ASSUME Stand.phase = "waking"
                 PROVE  /\ Keeps(Stand, StandDue') /\ now + Span(Stand.retries) <= StandDue'
                        /\ alarm' + Span(Stand.retries) <= StandDue'
    BY <1>0, <2>0 DEF Course
  <2>2. StandDue \in Nat /\ Keeps(Stand, StandDue) /\ Span(Stand.retries) \in Nat /\ Stand.startsThisCycle \in Nat
    BY <2>1, CourseTyped
  <2>3. StandDue' = StandDue + PollDelay + MaxLag
    <3>1. PICK c \in Nat, n \in Nat, f \in Nat : c = cycleAt /\ n = Stand.startsThisCycle /\ f = Faults
      BY <1>0, <2>2
    <3>2. StandDue = Due(c, n, f) /\ StandDue' = Due(c, n, f + 1)
      BY <1>0, <2>0, <3>1 DEF StandDue
    <3> QED
      BY <3>2, DueIs
  <2>4. Keeps(Stand, StandDue')
    <3>1. PICK due \in Nat, later \in Nat : due = StandDue /\ later = StandDue' /\ due <= later
      BY <1>0, <2>2, <2>3
    <3> QED
      BY <1>0, <2>2, <3>1, KeepsLater
  <2>5. at + Span(Stand.retries) <= StandDue
    BY <2>0, <2>1 DEF Course, Awaits
  <2>6. PICK due \in Nat, left \in Nat : due = StandDue /\ left = Span(Stand.retries)
    BY <2>2
  <2>7. now <= at + MaxLag
    BY <1>0, <2>0 DEF Awaits
  <2>8. now + left <= due + PollDelay + MaxLag /\ alarm' + left <= due + PollDelay + MaxLag
    BY <1>0, <2>0, <2>5, <2>6, <2>7
  <2> QED
    BY <2>3, <2>4, <2>6, <2>8
<1> QED
  BY <1>1, <1>2

LEMMA LoadCourse ==
    ASSUME Core, Course, Loads, Faults' = Faults
    PROVE  Course'
<1>0. /\ pc = "load" /\ Stand = disk /\ Since = at /\ at' = at /\ at \in Nat /\ Faults \in Nat /\ cycleAt \in Nat
      /\ disk \in WakeState /\ pc' \in {"done", "status", "wakingNotice"} /\ Loaded \in WakeState
      /\ ToIdle(Loaded) \in WakeState
  BY LoadIs, LoadedIs, CoreTyped
<1>1. CASE /\ LoadNewCycle /\ pc' # "done" /\ disk' = mem' /\ cycleAt' = at
           /\ mem' = [ToIdle(Loaded) EXCEPT !.phase = "waking", !.deadlineAt = at + AgentTimeout]
  <2>1. /\ mem'.phase = "waking" /\ mem'.deadlineAt = at + AgentTimeout /\ mem'.nextActionAt = 0
        /\ mem'.retries = 0 /\ mem'.startsThisCycle = 0 /\ mem'.lastStartAt = Loaded.lastStartAt
    BY <1>0, <1>1 DEF ToIdle, WakeState
  <2>2. mem' \in WakeState
    <3>1. at + AgentTimeout \in Nat
      BY <1>0, Policy DEF Positive
    <3> QED
      BY <1>0, <1>1, <3>1, StateSteps
  <2>3. Loaded.lastStartAt <= at
    BY <1>0, LoadedIs DEF Core, Timers
  <2>4. PICK due \in Nat : due = Due(at, 0, Faults) /\ at + Stretch <= due
    BY <1>0, DueIs
  <2>5. Keeps(mem', due) /\ at + Span(0) <= due
    BY <1>0, <2>1, <2>2, <2>3, <2>4, FreshKeeps, Policy DEF Positive
  <2>6. Stand' = mem' /\ StandDue' = due
    BY <1>1, <2>1, <2>4 DEF Stand, StandDue
  <2> QED
    BY <1>0, <1>1, <2>1, <2>5, <2>6 DEF Course
<1>2. CASE pc' = "done" /\ mem'.phase # "waking" /\ disk' = disk /\ cycleAt' = cycleAt
  <2>1. Stand' = mem'
    BY <1>2 DEF Stand
  <2>2. ASSUME disk.phase = "waking"
        PROVE  disk.startsThisCycle <= MaxStartsPerCycle /\ at <= Due(cycleAt, disk.startsThisCycle, Faults)
    <3>1. /\ StandDue \in Nat /\ Keeps(Stand, StandDue) /\ Span(Stand.retries) \in Nat
          /\ at + Span(Stand.retries) <= StandDue
      BY <1>0, <2>2, CourseTyped DEF Course
    <3>2. at <= StandDue
      <4>1. \A a, b, c \in Nat : a + b <= c => a <= c
        OBVIOUS
      <4> QED
        BY <1>0, <3>1, <4>1
    <3> QED
      BY <1>0, <3>1, <3>2 DEF Keeps, StandDue
  <2> QED
    BY <1>0, <1>2, <2>1, <2>2 DEF Course
<1>3. CASE mem' = disk /\ disk' = disk /\ disk.phase = "waking" /\ cycleAt' = cycleAt
  <2>1. Stand' = disk /\ StandDue' = StandDue
    BY <1>0, <1>3 DEF Stand, StandDue
  <2>2. /\ StandDue \in Nat /\ Keeps(Stand, StandDue) /\ Span(Stand.retries) \in Nat
        /\ at + Span(Stand.retries) <= StandDue
    BY <1>0, <1>3, CourseTyped DEF Course
  <2>3. at <= StandDue
    <3>1. \A a, b, c \in Nat : a + b <= c => a <= c
      OBVIOUS
    <3> QED
      BY <1>0, <2>2, <3>1
  <2>4. disk.startsThisCycle <= MaxStartsPerCycle /\ at <= Due(cycleAt, disk.startsThisCycle, Faults)
    BY <1>0, <2>2, <2>3 DEF Keeps, StandDue
  <2> QED
    BY <1>0, <1>3, <2>1, <2>2, <2>4 DEF Course
<1>4. \/ /\ LoadNewCycle /\ pc' # "done" /\ disk' = mem' /\ cycleAt' = at
         /\ mem' = [ToIdle(Loaded) EXCEPT !.phase = "waking", !.deadlineAt = at + AgentTimeout]
      \/ pc' = "done" /\ mem'.phase # "waking" /\ disk' = disk /\ cycleAt' = cycleAt
      \/ mem' = disk /\ disk' = disk /\ disk.phase = "waking" /\ cycleAt' = cycleAt
  BY LoadIs
<1> QED
  BY <1>1, <1>2, <1>3, <1>4

LEMMA AnswerCourse ==
    ASSUME Core, Core', Course, Answers, Faults' = Faults
    PROVE  Course'
<1>0. /\ pc \in {"status", "start"} /\ Stand = disk /\ mem = disk /\ disk.phase = "waking"
      /\ at' = at /\ cycleAt' = cycleAt /\ at \in Nat /\ disk \in WakeState /\ cycleAt \in Nat /\ Faults \in Nat
  BY AnswerIs, CoreTyped
<1>1. /\ StandDue \in Nat /\ Keeps(mem, StandDue) /\ mem.retries \in Nat /\ mem.retries <= MaxRetries
      /\ Span(mem.retries) \in Nat /\ at + Span(mem.retries) <= StandDue /\ mem.startsThisCycle \in Nat
  BY <1>0, CourseTyped DEF Course
<1>2. PICK due \in Nat : due = StandDue /\ due = Due(cycleAt, mem.startsThisCycle, Faults)
  BY <1>0, <1>1 DEF StandDue
<1>3. at <= due /\ at + Span(mem.retries) <= due /\ Keeps(mem, due)
  <2>1. \A a, b, c \in Nat : a + b <= c => a <= c
    OBVIOUS
  <2> QED
    BY <1>0, <1>1, <1>2, <2>1
<1>4. disk.startsThisCycle <= MaxStartsPerCycle
  BY <1>0, <1>1 DEF Keeps
<1>5. CASE \E s, until : Akin(s) /\ Stand' = Failed(s, until) /\ mem' = Stand' /\ disk' = mem' /\ pc' # "none"
  <2>1. Stand'.phase = "failed" /\ disk'.phase = "failed"
    BY <1>5 DEF Failed, Akin, WakeState
  <2> QED
    BY <2>1 DEF Course
<1>6. ASSUME pc' = "done", disk' = disk, Stand' = mem', Keeps(mem', due), mem'.startsThisCycle = mem.startsThisCycle
      PROVE  Course'
  <2>1. StandDue' = due
    BY <1>0, <1>2, <1>6 DEF StandDue
  <2> QED
    BY <1>0, <1>2, <1>3, <1>4, <1>6, <2>1 DEF Course
<1>7. ASSUME NEW d, Delayed(mem, d), Stand' = mem' PROVE Course'
  <2>1. Keeps(mem', due)
    BY <1>0, <1>3, <1>7, DelayedKeeps DEF Delayed
  <2>2. mem'.startsThisCycle = mem.startsThisCycle
    BY <1>0, <1>7 DEF Delayed, WakeState
  <2> QED
    BY <1>6, <1>7, <2>1, <2>2 DEF Delayed
<1>8. ASSUME NEW x, Waits(x), Stand' = mem' PROVE Course'
  <2>1. Keeps(mem', due)
    BY <1>0, <1>3, <1>8, WaitsKeeps DEF Waits, Observed
  <2>2. mem'.startsThisCycle = mem.startsThisCycle
    BY <1>0, <1>8 DEF Waits, Observed, WakeState
  <2> QED
    BY <1>6, <1>8, <2>1, <2>2 DEF Waits
<1>9. CASE Requests /\ Stand' = mem'
  <2>1. mem' = Intent(Trim(Observed)) /\ disk' = mem' /\ pc' = "start"
    BY <1>9 DEF Requests, RequestStart
  <2>2. /\ mem'.phase = "waking" /\ mem'.deadlineAt = at + AgentTimeout /\ mem'.nextActionAt = at + PollDelay
        /\ mem'.retries = 0 /\ mem'.startsThisCycle = mem.startsThisCycle + 1 /\ mem'.lastStartAt = at
    BY <1>0, <2>1 DEF Intent, Trim, Observed, WakeState
  <2>3. mem' \in WakeState
    BY DEF Core, Typed, TypeOK
  <2>4. PICK due2 \in Nat : due2 = Due(cycleAt, mem.startsThisCycle + 1, Faults) /\ due2 = due + Stretch
    <3>1. PICK n \in Nat : n = mem.startsThisCycle
      BY <1>1
    <3>2. Due(cycleAt, n + 1, Faults) = Due(cycleAt, n, Faults) + Stretch /\ Due(cycleAt, n + 1, Faults) \in Nat
      BY <1>0, DueIs
    <3> QED
      BY <1>2, <3>1, <3>2
  <2>5. at + Stretch <= due2
    BY <1>0, <1>3, <2>4, StretchIs
  <2>6. mem'.startsThisCycle <= MaxStartsPerCycle
    <3>1. ~(mem.startsThisCycle >= MaxStartsPerCycle) /\ MaxStartsPerCycle \in Nat
      BY <1>9, Policy DEF Requests, Positive
    <3> QED
      BY <1>1, <2>2, <3>1
  <2>7. Keeps(mem', due2) /\ at + Span(0) <= due2
    <3>1. mem'.lastStartAt <= at
      BY <1>0, <2>2
    <3> QED
      BY <1>0, <2>2, <2>3, <2>4, <2>5, <2>6, <3>1, FreshKeeps
  <2>8. StandDue' = due2
    BY <1>0, <1>9, <2>2, <2>4 DEF StandDue
  <2> QED
    BY <1>0, <1>9, <2>1, <2>2, <2>7, <2>8 DEF Course
<1>10. CASE Accepted /\ Stand' = mem'
  BY <1>3, <1>6, <1>10 DEF Accepted
<1>11. \/ \E s, until : Akin(s) /\ Stand' = Failed(s, until) /\ mem' = Stand' /\ disk' = mem' /\ pc' # "none"
       \/ (\E d : Delayed(mem, d)) /\ Stand' = mem'
       \/ (\E x : Waits(x)) /\ Stand' = mem'
       \/ Requests /\ Stand' = mem'
       \/ Accepted /\ Stand' = mem'
  BY AnswerIs
<1> QED
  BY <1>5, <1>7, <1>8, <1>9, <1>10, <1>11

LEMMA CourseStep ==
    ASSUME ~AlarmsLost, Core, Core', Alarms, Course, [Next]_vars
    PROVE  Course'
<1>1. CASE Loads
  <2>1. Faults' = Faults
    BY <1>1, LoadIs DEF Faults
  <2> QED
    BY <1>1, <2>1, LoadCourse
<1>2. CASE Answers
  <2>1. Faults' = Faults
    BY <1>2, AnswerIs DEF Faults
  <2> QED
    BY <1>2, <2>1, AnswerCourse
<1> QED
  BY <1>1, <1>2, AsideCourse, NextIs

(* The alarm and the course of a cycle, as long as no alarm is lost.       *)
LEMMA OnTime ==
    ASSUME ~AlarmsLost
    PROVE  Spec => [](Core /\ Alarms /\ Course)
<1>1. Init => Core /\ Alarms /\ Course
  <2>1. SUFFICES ASSUME Init PROVE Alarms /\ Course
    BY CoreInit
  <2>2. pc = "none" /\ disk = InitialWake /\ updates = <<>>
    BY <2>1 DEF Init
  <2> QED
    BY <2>2 DEF Alarms, Course, Pending, InitialWake, Stand
<1>2. Core /\ Alarms /\ Course /\ [Next]_vars => (Core /\ Alarms /\ Course)'
  <2>1. SUFFICES ASSUME Core, Alarms, Course, [Next]_vars PROVE Core' /\ Alarms' /\ Course'
    OBVIOUS
  <2>2. Core'
    BY <2>1, CoreStep
  <2>3. Alarms'
    BY <2>1, <2>2, AlarmsStep
  <2> QED
    BY <2>1, <2>2, <2>3, CourseStep
<1> QED
  BY <1>1, <1>2, PTL DEF Spec

(* While an update waits the alarm is set and soon enough, where the       *)
(* runtime loses no alarm: a handler schedules it for what it changed, the *)
(* tick's end for all that is left, and a tick that threw or was evicted   *)
(* comes back.                                                             *)
THEOREM AlwaysArmed == ~AlarmsLost => (Spec => []Armed)
<1> SUFFICES ASSUME ~AlarmsLost PROVE Spec => []Armed
  OBVIOUS
<1>1. Alarms => Armed
  BY DEF Alarms, Armed
<1> QED
  BY <1>1, OnTime, PTL

(* No cycle lasts forever, where the runtime loses no alarm: it makes only *)
(* so many starts, and is over once the stretch after the last of them and *)
(* what the ticks that threw cost have passed.                             *)
THEOREM CyclesEnd == ~AlarmsLost => (Spec => []CycleBounded)
<1> SUFFICES ASSUME ~AlarmsLost PROVE Spec => []CycleBounded
  OBVIOUS
<1>1. ASSUME Core, Course, disk.phase = "waking"
      PROVE  /\ disk.startsThisCycle <= MaxStartsPerCycle
             /\ now <= Due(cycleAt, disk.startsThisCycle, Faults) + MaxLag
  <2>0. /\ now \in Nat /\ at \in Nat /\ disk \in WakeState /\ cycleAt \in Nat /\ Faults \in Nat /\ MaxLag \in Nat
        /\ (pc # "none" => now <= at + MaxLag)
    BY <1>1, CoreTyped, Policy
  <2>1. PICK due \in Nat : due = Due(cycleAt, disk.startsThisCycle, Faults)
    BY <2>0, DueIs DEF WakeState
  <2>2. CASE pc = "done"
    <3>1. disk.startsThisCycle <= MaxStartsPerCycle /\ at <= due
      BY <1>1, <2>1, <2>2 DEF Course
    <3> QED
      BY <2>0, <2>1, <2>2, <3>1
  <2>3. CASE pc # "done"
    <3>1. Stand = disk /\ StandDue = due
      BY <2>1, <2>3 DEF Stand, StandDue
    <3>2. PICK left \in Nat : left = Span(Stand.retries) /\ Keeps(Stand, due)
      BY <1>1, <3>1, CourseTyped
    <3>3. now + left <= due \/ (at + left <= due /\ now <= at + MaxLag)
      BY <1>1, <2>0, <2>3, <3>1, <3>2 DEF Course
    <3>4. now <= due + MaxLag
      BY <2>0, <3>2, <3>3
    <3> QED
      BY <2>1, <3>1, <3>2, <3>4 DEF Keeps
  <2> QED
    BY <2>2, <2>3
<1>2. Core /\ Course => CycleBounded
  <2>1. SUFFICES ASSUME Core, Course, disk.phase = "waking"
                 PROVE  /\ disk.startsThisCycle <= MaxStartsPerCycle
                        /\ now <= cycleAt + (disk.startsThisCycle + 1) * Stretch + MaxLag
                                          + count.faults * (PollDelay + MaxLag)
    BY DEF CycleBounded
  <2>2. cycleAt \in Nat /\ Faults \in Nat /\ MaxLag \in Nat /\ disk.startsThisCycle \in Nat
    BY <2>1, CoreTyped, Policy DEF WakeState
  <2>3. PICK p \in Nat, q \in Nat : /\ p = (disk.startsThisCycle + 1) * Stretch
                                    /\ q = count.faults * (PollDelay + MaxLag)
    <3>1. disk.startsThisCycle + 1 \in Nat /\ Stretch \in Nat /\ PollDelay + MaxLag \in Nat /\ count.faults \in Nat
      BY <2>2, StretchIs, Policy DEF Positive, Faults
    <3> QED
      BY <3>1, Product
  <2>4. Due(cycleAt, disk.startsThisCycle, Faults) = cycleAt + p + q
    BY <2>3 DEF Due, Faults
  <2>5. now <= cycleAt + p + q + MaxLag /\ cycleAt + p + q + MaxLag = cycleAt + p + MaxLag + q
    BY <1>1, <2>1, <2>2, <2>3, <2>4
  <2> QED
    BY <1>1, <2>1, <2>3, <2>5
<1> QED
  BY <1>2, OnTime, PTL
=============================================================================
