------------------------------ MODULE WakeCycle ------------------------------
(***************************************************************************)
(* The wake state machine of the Wake Gateway's Durable Object             *)
(* (services/wake-gateway/src/ownerQueue.ts): its alarm, the tick the      *)
(* alarm runs, and the webhook, pulls and heartbeats that come in while a  *)
(* tick awaits Telegram or GitHub.                                         *)
(*                                                                         *)
(* Code between two awaits is one step: pc "load" and "done" are the       *)
(* middle and the end of a tick, and nothing else runs while the tick is   *)
(* there.  mem is the state the tick works on, disk the persisted one.     *)
(* Times are absolute, 0 is null.                                          *)
(***************************************************************************)
EXTENDS Integers, FiniteSets, Sequences

CONSTANTS
    QueueCap, Ttl, OnlineWindow, AgentTimeout, PollDelay, Cooldown,
    MaxStartsPerCycle, MaxRetries, BackoffBase, BackoffCap, Day,
    DailyStartCap, BlockTime, NoticeInterval,   \* GatewayPolicy
    MaxRetryAfter,   \* the longest delay GitHub is granted (github.ts)
    RetryAfters,     \* delays GitHub may ask for, 0 for none
    AlarmsLost,      \* whether an eviction may lose the alarm
    MaxLag,          \* how long a tick can take (timeouts of its requests)
    MaxTime, MaxEnqueues, MaxSeen, MaxFaults, MaxRebinds   \* bounds

ASSUME PolicyAssumption ==
    /\ {QueueCap, Ttl, OnlineWindow, AgentTimeout, PollDelay, Cooldown,
        MaxStartsPerCycle, BackoffBase, BackoffCap, Day, DailyStartCap,
        BlockTime, NoticeInterval} \subseteq Nat \ {0}
    /\ MaxRetryAfter \in Nat /\ RetryAfters \subseteq 0..MaxRetryAfter
    /\ MaxTime \in Nat \ {0}
    /\ {MaxRetries, MaxLag, MaxEnqueues, MaxSeen, MaxFaults, MaxRebinds} \subseteq Nat
    /\ \A n \in 0..MaxRetries : 2 ^ n \in Nat
    /\ AlarmsLost \in BOOLEAN

VARIABLES
    now,
    alarm,           \* the Durable Object's alarm
    pc,              \* where the tick is, "none" outside of one
    at,              \* ports.now() when the tick began
    mem,             \* its WakeState
    tellExpired,     \* it still has to send the expired notice
    \* meta and the updates table
    disk,            \* the persisted WakeState
    updates,         \* expires_at of each row, in order
    lastSeen, lastEnqueue, opsNoticeAt,
    expiredUnnotified, rejectedUnnotified, fullEpisode,
    binding,         \* the configured wakeBindingFingerprint
    \* history and bounds
    started,         \* when each start request was made
    cycleAt,         \* when the current cycle began
    told,            \* notices of the current cycle and episode
    quiet,           \* no news since the last failure without a block
    fatal,           \* the last failure that blocks: [until, binding]
    count            \* events so far, for the bounds

tickVars == <<pc, at, mem, tellExpired>>
seenVars == <<lastSeen, lastEnqueue>>
opsVars == <<opsNoticeAt, expiredUnnotified, rejectedUnnotified, fullEpisode>>
histVars == <<started, cycleAt, told, quiet, fatal>>
vars == <<now, alarm, pc, at, mem, tellExpired, disk, updates, lastSeen,
          lastEnqueue, opsNoticeAt, expiredUnnotified, rejectedUnnotified,
          fullEpisode, binding, started, cycleAt, told, quiet, fatal, count>>
-----------------------------------------------------------------------------
Null == 0

WakeState == [phase : {"idle", "waking", "failed"}, deadlineAt : Nat,
              nextActionAt : Nat, retries : Nat, startsThisCycle : Nat,
              lastStartAt : Nat, startHistory : SUBSET Nat, failedAt : Nat,
              blockedUntil : Nat, blockFingerprint : Nat,
              failureNotified : BOOLEAN]

InitialWake == [phase |-> "idle", deadlineAt |-> Null, nextActionAt |-> Null,
                retries |-> 0, startsThisCycle |-> 0, lastStartAt |-> Null,
                startHistory |-> {}, failedAt |-> Null,
                blockedUntil |-> Null, blockFingerprint |-> Null,
                failureNotified |-> FALSE]

ToIdle(s) == [s EXCEPT !.phase = "idle", !.deadlineAt = Null,
                       !.nextActionAt = Null, !.retries = 0,
                       !.startsThisCycle = 0, !.failedAt = Null,
                       !.failureNotified = FALSE]

Larger(a, b) == IF a > b THEN a ELSE b
Smaller(a, b) == IF a < b THEN a ELSE b
Earliest(T) == CHOOSE t \in T : \A u \in T : t <= u

Awaits == {"fullNotice", "expiredNotice", "wakingNotice", "status", "start",
           "failureNotice"}

(* Another handler runs only outside of a tick or while the tick awaits.   *)
Yields == pc \in Awaits \cup {"none"}

OnlineAt(t) == lastSeen # Null /\ t - lastSeen < OnlineWindow

Pending == updates # <<>>

BlockActive(s, t) == /\ s.blockedUntil # Null /\ t < s.blockedUntil
                     /\ s.blockFingerprint = binding

(* expire(t): rows are in the order of expires_at.                         *)
Unexpired(t) ==
    LET live == {k \in 1..Len(updates) : updates[k] > t}
    IN  IF live = {} THEN <<>> ELSE SubSeq(updates, Earliest(live), Len(updates))

(* computeNextAlarm(now, loadWake())                                       *)
AlarmTimes ==
    (IF Pending THEN {Head(updates)} ELSE {})
    \cup {t \in {disk.nextActionAt} : disk.phase = "waking" /\ t # Null}
    \cup ({disk.blockedUntil} \ {Null})
    \cup {t \in {lastSeen + OnlineWindow + 1} : Pending /\ OnlineAt(now)}
    \cup {t \in {now} :
            /\ Pending /\ ~OnlineAt(now) /\ ~BlockActive(disk, now)
            /\ \/ disk.phase = "idle" \/ disk.blockedUntil # Null
               \/ disk.phase = "failed" /\ lastEnqueue > disk.failedAt}
    \cup {t \in {Larger(now, IF opsNoticeAt = Null THEN 0
                             ELSE opsNoticeAt + NoticeInterval)} :
            expiredUnnotified \/ rejectedUnnotified}

NextAlarm == IF AlarmTimes = {} THEN Null ELSE Earliest(AlarmTimes)

(* schedule(nextAlarmAt()): an alarm is only ever moved forward.           *)
Schedule ==
    alarm' = IF NextAlarm' = Null \/ (alarm # Null /\ alarm <= NextAlarm')
             THEN alarm ELSE NextAlarm'

Untold == [waking |-> 0, failure |-> 0, full |-> 0]
-----------------------------------------------------------------------------
Init ==
    /\ now = 1 /\ alarm = Null
    /\ pc = "none" /\ at = Null /\ mem = InitialWake /\ tellExpired = FALSE
    /\ disk = InitialWake /\ updates = <<>>
    /\ lastSeen = Null /\ lastEnqueue = Null /\ opsNoticeAt = Null
    /\ expiredUnnotified = FALSE /\ rejectedUnnotified = FALSE
    /\ fullEpisode = FALSE
    /\ binding = 1
    /\ started = <<>> /\ cycleAt = Null /\ told = Untold /\ quiet = FALSE
    /\ fatal = [until |-> Null, binding |-> Null]
    /\ count = [enqueues |-> 0, seen |-> 0, faults |-> 0, rebinds |-> 0]

(* Time passes, but a due alarm fires and a tick's requests time out.      *)
Clock ==
    /\ now < MaxTime
    /\ IF pc = "none" THEN alarm = Null \/ alarm > now
                      ELSE pc \in Awaits /\ now - at < MaxLag
    /\ now' = now + 1
    /\ UNCHANGED <<alarm, tickVars, disk, updates, seenVars, opsVars, binding,
                   histVars, count>>

Expire(t) ==
    expiredUnnotified' = (expiredUnnotified \/ Unexpired(t) # updates)

(* POST /enqueue of a new update.                                          *)
Enqueue ==
    /\ Yields /\ count.enqueues < MaxEnqueues
    /\ count' = [count EXCEPT !.enqueues = @ + 1]
    /\ Expire(now)
    /\ IF Len(Unexpired(now)) < QueueCap
       THEN /\ updates' = Append(Unexpired(now), now + Ttl)
            /\ lastEnqueue' = now
            /\ fullEpisode' = FALSE
            /\ quiet' = FALSE
            /\ UNCHANGED <<rejectedUnnotified, told>>
       ELSE /\ updates' = Unexpired(now)
            /\ fullEpisode' = TRUE
            /\ rejectedUnnotified' = (rejectedUnnotified \/ ~fullEpisode)
            /\ told' = IF fullEpisode THEN told ELSE [told EXCEPT !.full = 0]
            /\ UNCHANGED <<lastEnqueue, quiet>>
    /\ UNCHANGED <<now, tickVars, disk, lastSeen, opsNoticeAt, binding,
                   started, cycleAt, fatal>>
    /\ Schedule

(* POST /enqueue of an update that is already known.                       *)
EnqueueDuplicate ==
    /\ Yields /\ count.enqueues > 0
    /\ Expire(now)
    /\ updates' = Unexpired(now)
    /\ UNCHANGED <<now, tickVars, disk, seenVars, opsNoticeAt,
                   rejectedUnnotified, fullEpisode, binding, histVars, count>>
    /\ Schedule

(* GET /pull: the Agent confirms the first k rows.                         *)
Pull ==
    /\ Yields /\ count.seen < MaxSeen
    /\ count' = [count EXCEPT !.seen = @ + 1]
    /\ Expire(now)
    /\ \E k \in 0..Len(Unexpired(now)) :
          updates' = SubSeq(Unexpired(now), k + 1, Len(Unexpired(now)))
    /\ lastSeen' = now
    /\ quiet' = FALSE
    /\ UNCHANGED <<now, tickVars, disk, lastEnqueue, opsNoticeAt,
                   rejectedUnnotified, fullEpisode, binding, started, cycleAt,
                   told, fatal>>
    /\ Schedule

Heartbeat ==
    /\ Yields /\ count.seen < MaxSeen
    /\ count' = [count EXCEPT !.seen = @ + 1]
    /\ lastSeen' = now
    /\ quiet' = FALSE
    /\ UNCHANGED <<now, alarm, tickVars, disk, updates, lastEnqueue, opsVars,
                   binding, started, cycleAt, told, fatal>>

(* A new PAT, Codespace or repository is configured.                       *)
Rebind ==
    /\ pc = "none" /\ count.rebinds < MaxRebinds
    /\ count' = [count EXCEPT !.rebinds = @ + 1]
    /\ binding' = binding + 1
    /\ UNCHANGED <<now, alarm, tickVars, disk, updates, seenVars, opsVars,
                   histVars>>
-----------------------------------------------------------------------------
(* alarm(): tickOnce expires rows and claims the ops notices it will send. *)
TickStart ==
    /\ pc = "none" /\ alarm # Null /\ alarm <= now
    /\ alarm' = Null
    /\ at' = now
    /\ updates' = Unexpired(now)
    /\ LET someExpired == expiredUnnotified \/ Unexpired(now) # updates
           tell == someExpired /\ ~OnlineAt(now)
           notice == /\ tell \/ rejectedUnnotified
                     /\ opsNoticeAt = Null \/ now - opsNoticeAt >= NoticeInterval
       IN  /\ opsNoticeAt' = IF notice THEN now ELSE opsNoticeAt
           /\ expiredUnnotified' = (someExpired /\ ~(notice /\ tell))
           /\ rejectedUnnotified' = (rejectedUnnotified /\ ~notice)
           /\ tellExpired' = (notice /\ tell)
           /\ pc' = IF notice /\ rejectedUnnotified THEN "fullNotice"
                    ELSE IF notice THEN "expiredNotice" ELSE "load"
           /\ told' = IF notice /\ rejectedUnnotified
                      THEN [told EXCEPT !.full = @ + 1] ELSE told
    /\ UNCHANGED <<now, mem, disk, seenVars, fullEpisode, binding, started,
                   cycleAt, quiet, fatal, count>>

(* What the middle of a tick never touches.                                *)
RestOfTick == UNCHANGED <<now, alarm, at, tellExpired, updates, seenVars,
                          opsVars, binding, count>>

(* A notice was answered or timed out; one other than queue_full is        *)
(* suppressed while the Agent is online.                                   *)
NoticeEnds ==
    /\ \/ /\ pc = "fullNotice"
          /\ pc' = IF tellExpired /\ ~OnlineAt(now)
                   THEN "expiredNotice" ELSE "load"
       \/ pc = "expiredNotice" /\ pc' = "load"
       \/ pc = "wakingNotice" /\ pc' = "status"
       \/ pc = "failureNotice" /\ pc' = "done"
    /\ UNCHANGED <<mem, disk, histVars>>
    /\ RestOfTick

LoadedOver == ToIdle(disk)   \* faulty form

(* loadWake(), and a block that expired or whose binding changed lifted.   *)
Loaded == IF disk.blockedUntil # Null /\ ~BlockActive(disk, at)
          THEN ToIdle([disk EXCEPT !.blockedUntil = Null,
                                   !.blockFingerprint = Null])
          ELSE disk

NothingToWake == OnlineAt(at) \/ ~Pending

RestingUnlessBlocked ==     \* faulty form
    Loaded.phase = "failed" /\ lastEnqueue <= Loaded.failedAt

RestingOnlyIfBlocked ==     \* faulty form
    Loaded.blockedUntil # Null

(* A failed cycle is retried only for a new owner message.                 *)
Resting == \/ Loaded.blockedUntil # Null
           \/ Loaded.phase = "failed" /\ lastEnqueue <= Loaded.failedAt

LoadSettled ==
    /\ pc = "load" /\ NothingToWake
    /\ mem' = IF Loaded.phase = "idle" THEN Loaded ELSE ToIdle(Loaded)
    /\ pc' = "done"
    /\ told' = [told EXCEPT !.waking = 0]
    /\ UNCHANGED <<disk, started, cycleAt, quiet, fatal>>
    /\ RestOfTick

LoadResting ==
    /\ pc = "load" /\ ~NothingToWake /\ Resting
    /\ mem' = Loaded
    /\ pc' = "done"
    /\ UNCHANGED <<disk, histVars>>
    /\ RestOfTick

(* The new cycle is persisted before its notice goes out.                  *)
LoadNewCycle ==
    /\ pc = "load" /\ ~NothingToWake /\ ~Resting
    /\ Loaded.phase \in {"idle", "failed"}
    /\ mem' = [ToIdle(Loaded) EXCEPT !.phase = "waking",
                                     !.deadlineAt = at + AgentTimeout]
    /\ disk' = mem'
    /\ cycleAt' = at
    /\ pc' = IF OnlineAt(now) THEN "status" ELSE "wakingNotice"
    /\ told' = [told EXCEPT !.waking = @ + IF OnlineAt(now) THEN 0 ELSE 1,
                            !.failure = 0]
    /\ UNCHANGED <<started, quiet, fatal>>
    /\ RestOfTick

LoadSameCycle ==
    /\ pc = "load" /\ ~NothingToWake /\ ~Resting
    /\ Loaded.phase = "waking"
    /\ mem' = Loaded
    /\ pc' = IF Loaded.nextActionAt # Null /\ at < Loaded.nextActionAt
             THEN "done" ELSE "status"
    /\ UNCHANGED <<disk, histVars>>
    /\ RestOfTick

(* fail(s, now, reason, block, blockUntil): until is Null without a block. *)
Fail(s, until) ==
    LET failed == [s EXCEPT !.phase = "failed", !.failedAt = at,
                            !.nextActionAt = Null,
                            !.blockedUntil = IF until = Null THEN @ ELSE until,
                            !.blockFingerprint =
                                IF until = Null THEN @ ELSE binding,
                            !.failureNotified = TRUE]
    IN  /\ mem' = failed
        /\ IF s.failureNotified
           THEN pc' = "done" /\ UNCHANGED <<disk, told>>
           ELSE /\ disk' = failed
                /\ pc' = IF OnlineAt(now) THEN "done" ELSE "failureNotice"
                /\ told' = [told EXCEPT !.waking = 0,
                                 !.failure = @ + IF OnlineAt(now) THEN 0 ELSE 1]
        /\ quiet' = (until = Null /\ lastEnqueue <= at /\ ~OnlineAt(at))
        /\ fatal' = IF until = Null THEN fatal
                    ELSE [until |-> until, binding |-> binding]
        /\ UNCHANGED <<started>>

(* onGitHubFailure                                                         *)
Backoff(n) == Smaller(BackoffCap, BackoffBase * 2 ^ (n - 1))

Retry(s, retryAfter) ==
    IF s.retries + 1 > MaxRetries
    THEN Fail([s EXCEPT !.retries = @ + 1], Null)
    ELSE /\ mem' = [s EXCEPT !.retries = @ + 1,
                             !.nextActionAt =
                                at + Larger(Backoff(s.retries + 1), retryAfter)]
         /\ pc' = "done"
         /\ UNCHANGED <<disk, started, told, quiet, fatal>>

GitHubFails(s) ==
    \/ \E retryAfter \in RetryAfters : Retry(s, retryAfter)
    \/ Fail(s, at + BlockTime)

CooldownEnd(s) == IF s.lastStartAt = Null THEN 0 ELSE s.lastStartAt + Cooldown

Recent(s) == {t \in s.startHistory : at - t < Day}

(* The Codespace is down: give up, wait for the cooldown, or start it; the *)
(* intent is persisted before the request.                                 *)
WaitForCooldown(s) ==
    /\ mem' = [s EXCEPT !.nextActionAt = CooldownEnd(s)]
    /\ pc' = "done"
    /\ UNCHANGED <<disk, started, told, quiet, fatal>>

Intent(s) == [s EXCEPT !.startHistory = @ \cup {at},
                       !.lastStartAt = at,
                       !.startsThisCycle = @ + 1,
                       !.deadlineAt = at + AgentTimeout,
                       !.nextActionAt = at + PollDelay]

RequestStartUnsaved(s) ==    \* faulty form
    /\ mem' = Intent(s)
    /\ started' = Append(started, now)
    /\ pc' = "start"
    /\ UNCHANGED <<disk, told, quiet, fatal>>

RequestStart(s) ==
    /\ mem' = Intent(s)
    /\ disk' = Intent(s)
    /\ started' = Append(started, now)
    /\ pc' = "start"
    /\ UNCHANGED <<told, quiet, fatal>>

Start(s) ==
    LET recent == [s EXCEPT !.startHistory = Recent(s)]
    IN  IF s.startsThisCycle >= MaxStartsPerCycle THEN Fail(s, Null)
        ELSE IF at < CooldownEnd(s) THEN WaitForCooldown(s)
        ELSE IF Cardinality(recent.startHistory) >= DailyStartCap
        THEN Fail(recent, Earliest(recent.startHistory) + Day)
        ELSE RequestStart(recent)

WaitForever(s) ==            \* faulty form
    /\ mem' = [s EXCEPT !.nextActionAt = at + PollDelay]
    /\ pc' = "done"
    /\ UNCHANGED <<disk, started, told, quiet, fatal>>

(* A running or starting Codespace is never started.                       *)
WaitForAgent(s) ==
    IF at >= s.deadlineAt
    THEN Fail(s, Null)
    ELSE /\ mem' = [s EXCEPT !.nextActionAt =
                                Smaller(s.deadlineAt, at + PollDelay)]
         /\ pc' = "done"
         /\ UNCHANGED <<disk, started, told, quiet, fatal>>

Observed == [mem EXCEPT !.retries = 0]

StatusAnswered ==
    /\ pc = "status"
    /\ \/ GitHubFails(mem)
       \/ WaitForAgent(Observed)
       \/ Start(Observed)
       \/ Fail(Observed, at + BlockTime)   \* a terminal state
    /\ UNCHANGED cycleAt
    /\ RestOfTick

StartAnswered ==
    /\ pc = "start"
    /\ \/ GitHubFails(mem)
       \/ pc' = "done" /\ UNCHANGED <<mem, disk, started, told, quiet, fatal>>
    /\ UNCHANGED cycleAt
    /\ RestOfTick

(* done(), and alarm() setting the next one, computed after the tick.      *)
Rest == /\ pc' = "none" /\ at' = Null /\ mem' = InitialWake
        /\ tellExpired' = FALSE

TickDone ==
    /\ pc = "done"
    /\ disk' = mem
    /\ Rest
    /\ UNCHANGED <<now, updates, seenVars, opsVars, binding, histVars, count>>
    /\ alarm' = IF NextAlarm' = Null THEN alarm ELSE NextAlarm'

(* The tick throws at an await: alarm() comes back after the poll delay.   *)
Interrupt ==
    /\ pc \in Awaits /\ count.faults < MaxFaults
    /\ count' = [count EXCEPT !.faults = @ + 1]
    /\ Rest
    /\ UNCHANGED <<now, disk, updates, seenVars, opsVars, binding, histVars>>

TickThrowsUnarmed ==         \* faulty form
    /\ Interrupt
    /\ UNCHANGED alarm

TickThrows ==
    /\ Interrupt
    /\ alarm' = now + PollDelay

(* The instance is evicted during a tick: the runtime retries the alarm.   *)
Evicted ==
    /\ Interrupt
    /\ alarm' \in {now} \cup {t \in {Null} : AlarmsLost}

Tick ==
    \/ TickStart \/ NoticeEnds
    \/ LoadSettled \/ LoadResting \/ LoadNewCycle \/ LoadSameCycle
    \/ StatusAnswered \/ StartAnswered \/ TickDone
    \/ TickThrows \/ Evicted

Next ==
    \/ Clock \/ Enqueue \/ EnqueueDuplicate \/ Pull \/ Heartbeat \/ Rebind
    \/ Tick

Spec == Init /\ [][Next]_vars
-----------------------------------------------------------------------------
TypeOK ==
    /\ now \in 1..MaxTime /\ alarm \in Nat
    /\ pc \in Awaits \cup {"none", "load", "done"}
    /\ at \in Nat /\ (pc = "none") = (at = Null)
    /\ at <= now /\ (pc # "none" => now - at <= MaxLag)
    /\ mem \in WakeState /\ disk \in WakeState
    /\ tellExpired \in BOOLEAN
    /\ updates \in Seq(Nat) /\ Len(updates) <= QueueCap
    /\ lastSeen \in Nat /\ lastEnqueue \in Nat /\ opsNoticeAt \in Nat
    /\ {expiredUnnotified, rejectedUnnotified, fullEpisode} \subseteq BOOLEAN
    /\ binding \in Nat
    /\ started \in Seq(Nat) /\ cycleAt \in Nat
    /\ told \in [waking : Nat, failure : Nat, full : Nat]
    /\ quiet \in BOOLEAN
    /\ fatal \in [until : Nat, binding : Nat]

(* config.ts: cooldownMs is the spacing of start requests.  A tick stamps  *)
(* a request with the time the tick began, so a request may be late and    *)
(* the next one on time: they keep the cooldown but for one tick's length, *)
(* whatever crashes, answers and rebinding happen in between.              *)
StartsSpaced ==
    \A i, j \in 1..Len(started) :
        i < j => started[j] + MaxLag >= started[i] + Cooldown

(* No more than dailyStartCap requests in any Day (but for one tick).      *)
StartsCapped ==
    \A i \in 1..Len(started) : i + DailyStartCap <= Len(started) =>
        started[i + DailyStartCap] + MaxLag >= started[i] + Day

(* The policy of config.ts on start requests, over crashes and evictions.  *)
StartsLimited == StartsSpaced /\ StartsCapped

(* Types, and: the owner hears of a cycle's start and failure once each,   *)
(* and of an overflow once, even when a tick dies after it sent the notice. *)
NoticesOnce == TypeOK /\ told.waking <= 1 /\ told.failure <= 1 /\ told.full <= 1

(* A failure that blocks keeps every start back until the block is over or *)
(* the binding changed.                                                    *)
BlockHolds ==
    [][Len(started') > Len(started) /\ fatal.binding = binding
          => now >= fatal.until]_vars

(* A failed cycle is retried only for news: a message that came after it,  *)
(* or an Agent that was seen since.                                        *)
RetriedForNews == [][cycleAt' # cycleAt => ~quiet]_vars

LongestRetry == Larger(BackoffCap, MaxRetryAfter)
LongestWait == Larger(Larger(Cooldown, PollDelay), LongestRetry)

(* While an update waits an alarm is set, by the row's expiry at the       *)
(* latest; for an idle machine with the Agent away it is due when the      *)
(* online window closes, for a waking one within the longest wait; a tick  *)
(* that threw comes back after the poll delay.                             *)
Armed ==
    pc = "none" /\ Pending =>
        /\ alarm # Null /\ alarm <= Larger(now + PollDelay, Head(updates))
        /\ (disk.phase = "idle" /\ disk.blockedUntil = Null) =>
              alarm <= Larger(now + PollDelay, lastSeen + OnlineWindow + 1)
        /\ disk.phase = "waking" => alarm <= now + LongestWait

(* No cycle lasts forever: it has only so many starts, and each of them,   *)
(* like the time before the first one, is over once the deadline, the      *)
(* cooldown and the retries granted to a failing GitHub are; each tick     *)
(* that threw costs its length and a poll delay.                           *)
Stretch == Larger(Larger(AgentTimeout, Cooldown), PollDelay) + MaxLag
             + MaxRetries * (LongestRetry + MaxLag)
CycleBounded ==
    disk.phase = "waking" =>
        /\ disk.startsThisCycle <= MaxStartsPerCycle
        /\ now <= cycleAt + (disk.startsThisCycle + 1) * Stretch + MaxLag
                          + count.faults * (PollDelay + MaxLag)
==============================================================================
