------------------------------ MODULE AiQuota ------------------------------
(***************************************************************************)
(* The per-factory daily quota of AI chat turns: server/ai/aiQuota.ts and  *)
(* the ai.chat handler of server/routers.ts that calls it.                 *)
(*                                                                         *)
(* The database keeps two tables the quota is about: factoryAiDailyUsage   *)
(* (one counter per factory and Taipei date) and aiUsageTurns (one audit   *)
(* row per user-visible turn, which is also the retry key).  Rows of       *)
(* aiModelCalls are written by a fire-and-forget insert after a provider   *)
(* call.  A transaction locks every row it decides from (FOR UPDATE, or    *)
(* the parent row of the concurrency key), so each one is a single step;   *)
(* the steps of different requests interleave freely.                      *)
(***************************************************************************)
EXTENDS Naturals, FiniteSets

CONSTANTS
    Turns,        \* client turn ids; a retry sends the same one again
    Factories,    \* quota owners
    Admins,       \* administrators with no factory: factoryId IS NULL
    KeyOf,        \* the concurrency key of a turn: its factory or its admin
    Bypass,       \* turns sent by an administrator (bypassQuota)
    Reqs,         \* request handlers of the server
    NoTurn,       \* the turn of a handler that has no request
    Limit,        \* AI_FACTORY_DAILY_TURN_LIMIT
    StaleAfter,   \* AI_CONCURRENT_TURN_STALE_THRESHOLD_MINUTES in clock units
    MaxDeadlocks, \* MAX_DEADLOCK_RETRIES
    MaxClock,     \* bound on the clock
    MaxDate       \* bound on the Taipei date

ASSUME TurnsAssumption ==
    /\ IsFiniteSet(Turns)
    /\ NoTurn \notin Turns
    /\ Factories \cap Admins = {}
    /\ KeyOf \in [Turns -> Factories \cup Admins]
    /\ Bypass \subseteq Turns

ASSUME NumbersAssumption ==
    /\ Limit \in Nat
    /\ StaleAfter \in Nat
    /\ MaxDeadlocks \in Nat
    /\ MaxClock \in Nat
    /\ MaxDate \in Nat

VARIABLES
    row,       \* aiUsageTurns: the row of each turn (status "none": no row)
    used,      \* factoryAiDailyUsage.usedTurns of each factory and date
    logged,    \* turns that have a row in aiModelCalls
    clock,     \* NOW(), in units of the busy threshold
    today,     \* getTaipeiQuotaDate()
    pc,        \* where the handler of each request is
    turn,      \* the turn its request is about
    qdate,     \* quotaDate, read before the transaction starts
    deadlocks, \* attempts of reserveAiTurn that ended in a deadlock
    inserts,   \* turns with an aiModelCalls insert still under way
    called,    \* history: turns for which a provider was called
    drifted    \* history: factories one of whose rows was charged on a date
               \* other than the quotaDate it carries

dbVars == <<row, used, logged>>
timeVars == <<clock, today>>
reqVars == <<pc, turn, qdate, deadlocks>>
vars == <<row, used, logged, clock, today, pc, turn, qdate, deadlocks,
          inserts, called, drifted>>
---------------------------------------------------------------------------
Dates == 0..MaxDate

NoRow == [status |-> "none", charged |-> FALSE, date |-> 0, created |-> 0,
          retried |-> FALSE]

(* attemptCount is abstracted to whether it is above 1.                    *)
Row == [status : {"none", "started", "completed", "failed"},
        charged : BOOLEAN, date : Dates, created : Nat, retried : BOOLEAN]

(* The turns that cost a unit of their factory's quota.                    *)
Pays(t) == KeyOf[t] \in Factories /\ t \notin Bypass

(* A started row that counts as still running (createdAt > NOW() - 10 min) *)
Active(t) == row[t].status = "started" /\ clock < row[t].created + StaleAfter

(* Faulty form: compares with > instead of >=.                             *)
OtherActiveOffByOne(k) ==
    Cardinality({t \in Turns : KeyOf[t] = k /\ Active(t)}) > 1

(* hasOtherActiveTurnLocked; MAX_CONCURRENT_AI_TURNS_PER_FACTORY is 1.     *)
OtherActive(k) == \E t \in Turns : KeyOf[t] = k /\ Active(t)

(* Faulty form: compares with > instead of >=.                             *)
ExhaustedOffByOne(f, d) == used[f][d] > Limit

Exhausted(f, d) == used[f][d] >= Limit

(* tryChargeQuotaLocked, once there is quota left.                         *)
Charge(f, d) == used' = [used EXCEPT ![f][d] = @ + 1]

(* Refund of failAiTurn: GREATEST(usedTurns - 1, 0) at the row's own date. *)
Refund(f, d) == used' = [used EXCEPT ![f][d] = IF @ > 0 THEN @ - 1 ELSE 0]

Idle(r) ==
    /\ pc' = [pc EXCEPT ![r] = "idle"]
    /\ turn' = [turn EXCEPT ![r] = NoTurn]
    /\ qdate' = [qdate EXCEPT ![r] = 0]
    /\ deadlocks' = [deadlocks EXCEPT ![r] = 0]

Goto(r, l) == pc' = [pc EXCEPT ![r] = l] /\ UNCHANGED <<turn, qdate, deadlocks>>
---------------------------------------------------------------------------
Init ==
    /\ row = [t \in Turns |-> NoRow]
    /\ used = [f \in Factories |-> [d \in Dates |-> 0]]
    /\ logged = {}
    /\ clock = 0
    /\ today = 0
    /\ pc = [r \in Reqs |-> "idle"]
    /\ turn = [r \in Reqs |-> NoTurn]
    /\ qdate = [r \in Reqs |-> 0]
    /\ deadlocks = [r \in Reqs |-> 0]
    /\ inserts = {}
    /\ called = {}
    /\ drifted = {}

(* A request for turn t reaches ai.chat: a first send, a retry after an    *)
(* error, or a retry while the first attempt is still running.             *)
Arrive(r, t) ==
    /\ pc[r] = "idle"
    /\ pc' = [pc EXCEPT ![r] = "reserving"]
    /\ turn' = [turn EXCEPT ![r] = t]
    /\ qdate' = [qdate EXCEPT ![r] = today]
    /\ UNCHANGED <<dbVars, timeVars, deadlocks, inserts, called, drifted>>

(* InnoDB rolls the transaction back; the loop of reserveAiTurn runs the   *)
(* attempt again, with a new quotaDate, or gives up with an error.         *)
ReserveDeadlock(r) ==
    /\ pc[r] = "reserving"
    /\ IF deadlocks[r] + 1 < MaxDeadlocks
         THEN /\ deadlocks' = [deadlocks EXCEPT ![r] = @ + 1]
              /\ qdate' = [qdate EXCEPT ![r] = today]
              /\ UNCHANGED <<pc, turn>>
         ELSE Idle(r)
    /\ UNCHANGED <<dbVars, timeVars, inserts, called, drifted>>

(* The row exists and is paid for, or never has to be: attemptCount + 1    *)
(* and status 'started', with no quota check and no busy check.            *)
ReserveRetry(r) ==
    LET t == turn[r] IN
    /\ pc[r] = "reserving"
    /\ row[t].status # "none"
    /\ row[t].charged \/ ~Pays(t)
    /\ row' = [row EXCEPT ![t].status = "started", ![t].retried = TRUE]
    /\ Goto(r, "running")
    /\ UNCHANGED <<used, logged, timeVars, inserts, called, drifted>>

(* Faulty form: the row is marked charged but the counter is not raised.   *)
ReserveRechargeUncounted(r) ==
    LET t == turn[r] IN
    /\ pc[r] = "reserving"
    /\ row[t].status # "none" /\ ~row[t].charged /\ Pays(t)
    /\ ~Exhausted(KeyOf[t], qdate[r])
    /\ row' = [row EXCEPT ![t].status = "started", ![t].retried = TRUE,
                          ![t].charged = TRUE]
    /\ Goto(r, "running")
    /\ UNCHANGED <<used, logged, timeVars, inserts, called, drifted>>

(* The row exists but was refunded: charged again, on the date of this     *)
(* request, while the row keeps the quotaDate of its first attempt.        *)
ReserveRecharge(r) ==
    LET t == turn[r]
        f == KeyOf[t]
    IN
    /\ pc[r] = "reserving"
    /\ row[t].status # "none" /\ ~row[t].charged /\ Pays(t)
    /\ ~Exhausted(f, qdate[r])
    /\ Charge(f, qdate[r])
    /\ row' = [row EXCEPT ![t].status = "started", ![t].retried = TRUE,
                          ![t].charged = TRUE]
    /\ drifted' = IF row[t].date = qdate[r] THEN drifted ELSE drifted \cup {f}
    /\ Goto(r, "running")
    /\ UNCHANGED <<logged, timeVars, inserts, called>>

(* A new turn: nothing else of its key is running, and there is quota left *)
(* unless the turn is free.                                                *)
ReserveNew(r) ==
    LET t == turn[r]
        f == KeyOf[t]
    IN
    /\ pc[r] = "reserving"
    /\ row[t].status = "none"
    /\ ~OtherActive(KeyOf[t])
    /\ IF Pays(t) THEN ~Exhausted(f, qdate[r]) /\ Charge(f, qdate[r])
                  ELSE UNCHANGED used
    /\ row' = [row EXCEPT ![t] = [status |-> "started", charged |-> Pays(t),
                                  date |-> qdate[r], created |-> clock,
                                  retried |-> FALSE]]
    /\ Goto(r, "running")
    /\ UNCHANGED <<logged, timeVars, inserts, called, drifted>>

(* ai_busy or quota_exhausted: rolled back, nothing is written.            *)
ReserveDenied(r) ==
    LET t == turn[r] IN
    /\ pc[r] = "reserving"
    /\ \/ row[t].status = "none" /\ OtherActive(KeyOf[t])
       \/ /\ ~row[t].charged /\ Pays(t)
          /\ Exhausted(KeyOf[t], qdate[r])
    /\ Idle(r)
    /\ UNCHANGED <<dbVars, timeVars, inserts, called, drifted>>
---------------------------------------------------------------------------
(* runPersistentAiChat calls a provider; its usage row is inserted without *)
(* waiting for the insert.                                                 *)
CallProvider(r) ==
    /\ pc[r] = "running"
    /\ called' = called \cup {turn[r]}
    /\ inserts' = inserts \cup {turn[r]}
    /\ UNCHANGED <<dbVars, timeVars, reqVars, drifted>>

InsertLands(t) ==
    /\ t \in inserts
    /\ inserts' = inserts \ {t}
    /\ logged' = logged \cup {t}
    /\ UNCHANGED <<row, used, timeVars, reqVars, called, drifted>>

(* logAiModelCall catches every error of its insert.                       *)
InsertFails(t) ==
    /\ t \in inserts
    /\ inserts' = inserts \ {t}
    /\ UNCHANGED <<dbVars, timeVars, reqVars, called, drifted>>

(* runPersistentAiChat returned a reply, or threw.                         *)
ChatReturns(r) ==
    /\ pc[r] = "running"
    /\ \/ Goto(r, "completing")
       \/ Goto(r, "failing")
    /\ UNCHANGED <<dbVars, timeVars, inserts, called, drifted>>

(* completeAiTurn: one unconditional UPDATE.                               *)
Complete(r) ==
    /\ pc[r] = "completing"
    /\ row' = [row EXCEPT ![turn[r]].status = "completed"]
    /\ Idle(r)
    /\ UNCHANGED <<used, logged, timeVars, inserts, called, drifted>>

(* Faulty form: refunds without clearing quotaCharged.                     *)
FailKeepsCharged(r) ==
    LET t == turn[r] IN
    /\ pc[r] = "failing"
    /\ row' = [row EXCEPT ![t].status = "failed"]
    /\ IF row[t].charged /\ t \notin logged
         THEN Refund(KeyOf[t], row[t].date) ELSE UNCHANGED used
    /\ Idle(r)
    /\ UNCHANGED <<logged, timeVars, inserts, called, drifted>>

(* Faulty form: refunds without looking at aiModelCalls.                   *)
FailAlwaysRefunds(r) ==
    LET t == turn[r] IN
    /\ pc[r] = "failing"
    /\ row' = [row EXCEPT ![t].status = "failed", ![t].charged = FALSE]
    /\ IF row[t].charged
         THEN Refund(KeyOf[t], row[t].date) ELSE UNCHANGED used
    /\ Idle(r)
    /\ UNCHANGED <<logged, timeVars, inserts, called, drifted>>

(* failAiTurn: refunded unless aiModelCalls shows a call for this turn.    *)
Fail(r) ==
    LET t == turn[r]
        refunded == /\ row[t].charged /\ t \notin logged
                    /\ KeyOf[t] \in Factories
    IN
    /\ pc[r] = "failing"
    /\ row' = [row EXCEPT ![t].status = "failed",
                          ![t].charged = @ /\ ~refunded]
    /\ IF refunded THEN Refund(KeyOf[t], row[t].date) ELSE UNCHANGED used
    /\ Idle(r)
    /\ UNCHANGED <<logged, timeVars, inserts, called, drifted>>

(* The bookkeeping of either outcome fails; the handler only logs it and   *)
(* the row keeps the status it has.                                        *)
BookkeepingFails(r) ==
    /\ pc[r] \in {"completing", "failing"}
    /\ Idle(r)
    /\ UNCHANGED <<dbVars, timeVars, inserts, called, drifted>>

(* The server process dies: handlers and pending inserts are gone.         *)
Crash ==
    /\ pc' = [r \in Reqs |-> "idle"]
    /\ turn' = [r \in Reqs |-> NoTurn]
    /\ qdate' = [r \in Reqs |-> 0]
    /\ deadlocks' = [r \in Reqs |-> 0]
    /\ inserts' = {}
    /\ UNCHANGED <<dbVars, timeVars, called, drifted>>

(* Time passes; midnight in Taipei may fall anywhere.                      *)
Tick ==
    /\ clock < MaxClock
    /\ clock' = clock + 1
    /\ today' \in {today, today + 1} \cap Dates
    /\ UNCHANGED <<dbVars, reqVars, inserts, called, drifted>>

Next ==
    \/ \E r \in Reqs : \/ \E t \in Turns : Arrive(r, t)
                       \/ ReserveDeadlock(r)
                       \/ ReserveRetry(r)
                       \/ ReserveRecharge(r)
                       \/ ReserveNew(r)
                       \/ ReserveDenied(r)
                       \/ CallProvider(r)
                       \/ ChatReturns(r)
                       \/ Complete(r)
                       \/ Fail(r)
                       \/ BookkeepingFails(r)
    \/ \E t \in Turns : InsertLands(t) \/ InsertFails(t)
    \/ Crash
    \/ Tick

Spec == Init /\ [][Next]_vars
---------------------------------------------------------------------------
TypeOK ==
    /\ row \in [Turns -> Row]
    /\ used \in [Factories -> [Dates -> Nat]]
    /\ logged \subseteq Turns
    /\ clock \in Nat
    /\ today \in Dates
    /\ pc \in [Reqs -> {"idle", "reserving", "running", "completing", "failing"}]
    /\ turn \in [Reqs -> Turns \cup {NoTurn}]
    /\ \A r \in Reqs : pc[r] # "idle" => turn[r] \in Turns
    /\ qdate \in [Reqs -> Dates]
    /\ deadlocks \in [Reqs -> Nat]
    /\ inserts \subseteq Turns
    /\ called \subseteq Turns
    /\ drifted \subseteq Factories

(* The counter never passes the daily limit, however many co-managers send *)
(* the last turn of the day at once (P0 race of aiQuota.ts).               *)
UsedWithinLimit == \A f \in Factories, d \in Dates : used[f][d] <= Limit

(* The rows auditFactoryDailyCounterIntegrity counts for (f, d).           *)
ChargedRows(f, d) ==
    {t \in Turns : KeyOf[t] = f /\ row[t].charged /\ row[t].date = d}

(* The audit can only report a mismatch for a factory that had a turn      *)
(* charged on a later date than the one its row carries: retries,          *)
(* overlapping attempts, refunds, crashes and lost bookkeeping alone never *)
(* part the counter from the rows.                                         *)
AuditExactUnlessDrifted ==
    \A f \in Factories \ drifted, d \in Dates :
        used[f][d] = Cardinality(ChargedRows(f, d))

(* The units a factory's counters stand for: the first, second, ... of a   *)
(* date, as many as its counter says.  No counter is above Limit           *)
(* (UsedWithinLimit), so there are as many units as the counters sum to.   *)
Units(f) == {u \in Dates \X (1..Limit) : u[2] <= used[f][u[1]]}

(* The rows of a factory that are marked as charged, whatever their date.  *)
Charged(f) == {t \in Turns : KeyOf[t] = f /\ row[t].charged}

(* Even then the factory's counters never lose a charge: summed over all   *)
(* dates they cover every row that is marked as charged.                   *)
ChargesCovered ==
    \A f \in Factories : Cardinality(Units(f)) >= Cardinality(Charged(f))

(* The busy check does its work for new turns: of the turns of one key     *)
(* that count as running, at most one is on its first attempt.             *)
FirstAttemptsExclusive ==
    \A t, u \in Turns :
        t # u /\ KeyOf[t] = KeyOf[u] /\ Active(t) /\ Active(u)
            => row[t].retried \/ row[u].retried

(* A turn that cost a unit stays paid once aiModelCalls shows a call for   *)
(* it: whatever attempts overlap, fail, or are retried, no later step of   *)
(* any handler gives the unit back or takes a second one for it.           *)
LoggedTurnPaidOnce ==
    [][\A t \in Turns :
          t \in logged /\ row[t].charged =>
              /\ row'[t].charged
              /\ row'[t] # row[t] => used' = used]_vars
---------------------------------------------------------------------------
============================================================================
