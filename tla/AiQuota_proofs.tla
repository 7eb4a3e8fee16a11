--------------------------- MODULE AiQuota_proofs ---------------------------
(***************************************************************************)
(* Theorems about AiQuota, for every set of turns, factories and handlers, *)
(* every limit, and every bound of the clock and the date.                 *)
(***************************************************************************)
EXTENDS AiQuota, FiniteSetTheorems, TLAPS

(* A step of one handler is a step of the system: Next, handler by handler *)
Handler(r) ==
    \/ \E t \in Turns : Arrive(r, t)
    \/ ReserveDeadlock(r) \/ ReserveRetry(r) \/ ReserveRecharge(r)
    \/ ReserveNew(r) \/ ReserveDenied(r) \/ CallProvider(r)
    \/ ChatReturns(r) \/ Complete(r) \/ Fail(r) \/ BookkeepingFails(r)

(* A row that a retry starts again.                                        *)
LEMMA RetriedRow ==
    ASSUME NEW w \in Row
    PROVE  [w EXCEPT !.status = "started", !.retried = TRUE] \in Row
BY DEF Row

(* Every step of every handler keeps the types.                            *)
LEMMA HandlerTypes ==
    ASSUME TypeOK, NEW r \in Reqs, Handler(r)
    PROVE  TypeOK'
<1> USE TurnsAssumption, NumbersAssumption
    DEF TypeOK, Row, NoRow, dbVars, timeVars, reqVars, Idle, Goto
<1>0. 0 \in Dates
  BY DEF Dates
<1>1. CASE \E t \in Turns : Arrive(r, t)
  BY <1>1 DEF Arrive
<1>2. CASE ReserveDeadlock(r)
  <2>1. CASE deadlocks[r] + 1 < MaxDeadlocks
    BY <1>2, <2>1 DEF ReserveDeadlock
  <2>2. CASE ~(deadlocks[r] + 1 < MaxDeadlocks)
    BY <1>0, <1>2, <2>2, SMTT(60) DEF ReserveDeadlock
  <2> QED
    BY <2>1, <2>2
<1>3. CASE ReserveRetry(r)
  <2>1. turn[r] \in Turns
    BY <1>3 DEF ReserveRetry
  <2>2. row' \in [Turns -> Row]
    <3>1. row' = [row EXCEPT ![turn[r]] = [@ EXCEPT !.status = "started", !.retried = TRUE]]
      BY <1>3 DEF ReserveRetry
    <3>2. row[turn[r]] \in Row
      BY <2>1
    <3> HIDE DEF Row
    <3> QED
      BY <2>1, <3>1, <3>2, RetriedRow
  <2>3. /\ pc' \in [Reqs -> {"idle", "reserving", "running", "completing", "failing"}]
        /\ \A q \in Reqs : pc'[q] # "idle" => turn'[q] \in Turns
    BY <1>3, <2>1 DEF ReserveRetry
  <2> QED
    BY <1>3, <2>2, <2>3 DEF ReserveRetry
<1>4. CASE ReserveRecharge(r)
  <2> DEFINE t == turn[r]
  <2>1. t \in Turns /\ KeyOf[t] \in Factories /\ qdate[r] \in Dates
    BY <1>4 DEF ReserveRecharge, Pays
  <2>2. row' \in [Turns -> Row]
    BY <1>4, <2>1 DEF ReserveRecharge
  <2>3. used' \in [Factories -> [Dates -> Nat]]
    BY <1>4, <2>1 DEF ReserveRecharge, Charge
  <2>4. drifted' \subseteq Factories
    BY <1>4, <2>1 DEF ReserveRecharge
  <2> QED
    BY <1>4, <2>2, <2>3, <2>4 DEF ReserveRecharge
<1>5. CASE ReserveNew(r)
  <2> DEFINE t == turn[r]
  <2>1. t \in Turns /\ qdate[r] \in Dates
    BY <1>5 DEF ReserveNew
  <2>2. row' \in [Turns -> Row]
    BY <1>5, <2>1 DEF ReserveNew, Pays
  <2>3. used' \in [Factories -> [Dates -> Nat]]
    <3>1. CASE Pays(t)
      BY <1>5, <2>1, <3>1, SMTT(60) DEF ReserveNew, Charge, Pays
    <3>2. CASE ~Pays(t)
      BY <1>5, <3>2 DEF ReserveNew
    <3> QED
      BY <3>1, <3>2
  <2> QED
    BY <1>5, <2>2, <2>3 DEF ReserveNew
<1>6. CASE ReserveDenied(r)
  BY <1>0, <1>6 DEF ReserveDenied
<1>7. CASE CallProvider(r)
  BY <1>7 DEF CallProvider
<1>8. CASE ChatReturns(r)
  BY <1>8 DEF ChatReturns
<1>9. CASE Complete(r)
  BY <1>0, <1>9 DEF Complete
<1>10. CASE Fail(r)
  <2> DEFINE t == turn[r]
  <2>1. t \in Turns /\ row[t].date \in Dates
    BY <1>10 DEF Fail
  <2>2. row' \in [Turns -> Row]
    <3> DEFINE c == row[t].charged
                      /\ ~(row[t].charged /\ t \notin logged /\ KeyOf[t] \in Factories)
    <3>1. row' = [row EXCEPT ![t].status = "failed", ![t].charged = c]
      BY <1>10 DEF Fail
    <3>2. c \in BOOLEAN
      OBVIOUS
    <3> HIDE DEF c
    <3> QED
      BY <2>1, <3>1, <3>2
  <2>3. used' \in [Factories -> [Dates -> Nat]]
    <3>1. CASE UNCHANGED used
      BY <3>1
    <3>2. CASE KeyOf[t] \in Factories /\ Refund(KeyOf[t], row[t].date)
      BY <2>1, <3>2 DEF Refund
    <3> QED
      BY <1>10, <3>1, <3>2 DEF Fail
  <2> QED
    BY <1>0, <1>10, <2>2, <2>3 DEF Fail
<1>11. CASE BookkeepingFails(r)
  BY <1>0, <1>11 DEF BookkeepingFails
<1> QED
  BY <1>1, <1>2, <1>3, <1>4, <1>5, <1>6, <1>7, <1>8, <1>9, <1>10, <1>11
  DEF Handler

LEMMA NextTypes == TypeOK /\ [Next]_vars => TypeOK'
<1> SUFFICES ASSUME TypeOK, [Next]_vars PROVE TypeOK'
  OBVIOUS
<1>1. CASE \E r \in Reqs : Handler(r)
  BY <1>1, HandlerTypes
<1>2. CASE \E t \in Turns : InsertLands(t) \/ InsertFails(t)
  BY <1>2 DEF TypeOK, InsertLands, InsertFails, dbVars, timeVars, reqVars
<1>3. CASE Crash
  BY <1>3, NumbersAssumption DEF TypeOK, Crash, dbVars, timeVars, Dates
<1>4. CASE Tick
  BY <1>4 DEF TypeOK, Tick, dbVars, reqVars
<1>5. CASE UNCHANGED vars
  BY <1>5 DEF TypeOK, vars
<1> QED
  BY <1>1, <1>2, <1>3, <1>4, <1>5 DEF Next, Handler

LEMMA InitTypes == Init => TypeOK
BY NumbersAssumption DEF Init, TypeOK, NoRow, Row, Dates

(* Every table and every handler keeps its type along every behaviour.     *)
THEOREM TypeCorrect == Spec => []TypeOK
BY InitTypes, NextTypes, PTL DEF Spec
---------------------------------------------------------------------------
(* A turn without a row, and a turn that is free, is not charged.          *)
Uncharged ==
    \A t \in Turns : row[t].charged => row[t].status # "none" /\ Pays(t)

LEMMA NextUncharged ==
    ASSUME TypeOK, Uncharged, [Next]_vars
    PROVE  Uncharged'
<1> USE DEF TypeOK, Uncharged, Row, Pays
<1>1. CASE \E r \in Reqs : ReserveRetry(r)
  BY <1>1 DEF ReserveRetry
<1>2. CASE \E r \in Reqs : ReserveRecharge(r)
  BY <1>2 DEF ReserveRecharge
<1>3. CASE \E r \in Reqs : ReserveNew(r)
  BY <1>3 DEF ReserveNew
<1>4. CASE \E r \in Reqs : Complete(r)
  BY <1>4 DEF Complete
<1>5. CASE \E r \in Reqs : Fail(r)
  BY <1>5 DEF Fail
<1>6. CASE UNCHANGED row
  BY <1>6
<1> QED
  BY <1>1, <1>2, <1>3, <1>4, <1>5, <1>6
  DEF Next, vars, dbVars, Arrive, ReserveDeadlock, ReserveDenied, CallProvider,
      ChatReturns, BookkeepingFails, InsertLands, InsertFails, Crash, Tick

(* Only the guarded charge raises a counter, and the guard is evaluated on *)
(* the value that is raised.                                               *)
LEMMA NextWithinLimit ==
    ASSUME TypeOK, Uncharged, UsedWithinLimit, [Next]_vars
    PROVE  UsedWithinLimit'
<1> USE NumbersAssumption DEF TypeOK, UsedWithinLimit
<1>1. CASE \E r \in Reqs : ReserveRecharge(r)
  BY <1>1 DEF ReserveRecharge, Charge, Exhausted
<1>2. CASE \E r \in Reqs : ReserveNew(r)
  BY <1>2 DEF ReserveNew, Charge, Exhausted
<1>3. CASE \E r \in Reqs : Fail(r)
  <2>1. PICK r \in Reqs : Fail(r)
    BY <1>3
  <2> DEFINE t == turn[r]
  <2>2. t \in Turns /\ row[t].date \in Dates
    BY <2>1 DEF Fail, Row
  <2>3. CASE UNCHANGED used
    BY <2>3
  <2>4. CASE KeyOf[t] \in Factories /\ Refund(KeyOf[t], row[t].date)
    BY <2>2, <2>4 DEF Refund
  <2> QED
    BY <2>1, <2>3, <2>4 DEF Fail
<1>4. CASE UNCHANGED used
  BY <1>4
<1> QED
  BY <1>1, <1>2, <1>3, <1>4
  DEF Next, vars, dbVars, Arrive, ReserveDeadlock, ReserveRetry, ReserveDenied,
      CallProvider, ChatReturns, Complete, BookkeepingFails, InsertLands,
      InsertFails, Crash, Tick

(* The daily limit holds for every limit and any number of handlers.       *)
THEOREM LimitHolds == Spec => []UsedWithinLimit
<1>1. Init => Uncharged /\ UsedWithinLimit
  BY NumbersAssumption DEF Init, NoRow, Uncharged, UsedWithinLimit
<1>2. TypeOK /\ Uncharged /\ UsedWithinLimit /\ [Next]_vars
          => Uncharged' /\ UsedWithinLimit'
  BY NextUncharged, NextWithinLimit
<1> QED
  BY <1>1, <1>2, TypeCorrect, PTL DEF Spec
---------------------------------------------------------------------------
(* A row that becomes active was not created now without a busy check: a   *)
(* first attempt starts only when no other row of its key is active, and   *)
(* any later activation of a row marks it as retried.                      *)
LEMMA NextFirstAttempts ==
    ASSUME TypeOK, FirstAttemptsExclusive, [Next]_vars
    PROVE  FirstAttemptsExclusive'
<1> USE NumbersAssumption DEF TypeOK, FirstAttemptsExclusive, Active, Row
<1>1. CASE \E r \in Reqs : ReserveRetry(r)
  BY <1>1 DEF ReserveRetry, timeVars
<1>2. CASE \E r \in Reqs : ReserveRecharge(r)
  BY <1>2 DEF ReserveRecharge, timeVars
<1>3. CASE \E r \in Reqs : ReserveNew(r)
  BY <1>3 DEF ReserveNew, OtherActive, timeVars
<1>4. CASE \E r \in Reqs : Complete(r)
  BY <1>4 DEF Complete, timeVars
<1>5. CASE \E r \in Reqs : Fail(r)
  BY <1>5 DEF Fail, timeVars
<1>6. CASE Tick
  BY <1>6 DEF Tick, dbVars
<1>7. CASE UNCHANGED <<row, clock>>
  BY <1>7
<1> QED
  BY <1>1, <1>2, <1>3, <1>4, <1>5, <1>6, <1>7
  DEF Next, vars, dbVars, timeVars, Arrive, ReserveDeadlock, ReserveDenied,
      CallProvider, ChatReturns, BookkeepingFails, InsertLands, InsertFails,
      Crash

(* Two turns of one factory that run at once: one of them is a retry.      *)
THEOREM FirstAttempts == Spec => []FirstAttemptsExclusive
<1>1. Init => FirstAttemptsExclusive
  BY DEF Init, NoRow, FirstAttemptsExclusive, Active
<1> QED
  BY <1>1, NextFirstAttempts, TypeCorrect, PTL DEF Spec
---------------------------------------------------------------------------
LEMMA ChargedRowsFinite ==
    \A f, d : /\ IsFiniteSet(ChargedRows(f, d))
              /\ Cardinality(ChargedRows(f, d)) \in Nat
<1> TAKE f, d
<1>1. ChargedRows(f, d) \subseteq Turns
  BY DEF ChargedRows
<1>2. IsFiniteSet(ChargedRows(f, d))
  BY <1>1, TurnsAssumption, FS_Subset
<1> QED
  BY <1>2, FS_CardinalityType

(* A charge adds one row to the rows of its factory and date, a refund     *)
(* removes one, and the counter follows; a refund finds the counter above  *)
(* zero because the row it removes is still counted.                       *)
LEMMA NextAudit ==
    ASSUME TypeOK, Uncharged, AuditExactUnlessDrifted, [Next]_vars
    PROVE  AuditExactUnlessDrifted'
<1> SUFFICES ASSUME NEW f \in Factories, f \notin drifted', NEW d \in Dates
             PROVE  used'[f][d] = Cardinality(ChargedRows(f, d)')
  BY DEF AuditExactUnlessDrifted
<1> DEFINE old == ChargedRows(f, d)
<1>0. f \notin drifted => used[f][d] = Cardinality(old)
  BY DEF AuditExactUnlessDrifted
<1>F. IsFiniteSet(old) /\ Cardinality(old) \in Nat
  BY ChargedRowsFinite
<1>1. CASE \E r \in Reqs : ReserveRetry(r)
  <2>1. PICK r \in Reqs : ReserveRetry(r)
    BY <1>1
  <2>2. ChargedRows(f, d)' = old
    BY <2>1 DEF ReserveRetry, ChargedRows, TypeOK, Row
  <2> QED
    BY <1>0, <2>1, <2>2 DEF ReserveRetry
<1>2. CASE \E r \in Reqs : ReserveRecharge(r)
  <2>1. PICK r \in Reqs : ReserveRecharge(r)
    BY <1>2
  <2> DEFINE t == turn[r]
  <2>2. /\ t \in Turns /\ KeyOf[t] \in Factories /\ qdate[r] \in Dates
        /\ ~row[t].charged
        /\ f \notin drifted
        /\ f = KeyOf[t] => row[t].date = qdate[r]
    BY <2>1 DEF ReserveRecharge, TypeOK, Pays
  <2>3. CASE f = KeyOf[t] /\ d = qdate[r]
    <3>1. ChargedRows(f, d)' = old \cup {t} /\ t \notin old
      BY <2>1, <2>2, <2>3 DEF ReserveRecharge, ChargedRows, TypeOK, Row
    <3>2. used'[f][d] = used[f][d] + 1
      BY <2>1, <2>2, <2>3 DEF ReserveRecharge, Charge, TypeOK
    <3> QED
      BY <1>0, <1>F, <2>2, <3>1, <3>2, FS_AddElement
  <2>4. CASE ~(f = KeyOf[t] /\ d = qdate[r])
    <3>1. ChargedRows(f, d)' = old
      BY <2>1, <2>2, <2>4 DEF ReserveRecharge, ChargedRows, TypeOK, Row
    <3>2. used'[f][d] = used[f][d]
      BY <2>1, <2>2, <2>4 DEF ReserveRecharge, Charge, TypeOK
    <3> QED
      BY <1>0, <2>2, <3>1, <3>2
  <2> QED
    BY <2>3, <2>4
<1>3. CASE \E r \in Reqs : ReserveNew(r)
  <2>1. PICK r \in Reqs : ReserveNew(r)
    BY <1>3
  <2> DEFINE t == turn[r]
  <2>2. /\ t \in Turns /\ qdate[r] \in Dates
        /\ ~row[t].charged
        /\ f \notin drifted
        /\ Pays(t) => KeyOf[t] \in Factories
    BY <2>1 DEF ReserveNew, TypeOK, Pays, Uncharged
  <2>3. CASE Pays(t) /\ f = KeyOf[t] /\ d = qdate[r]
    <3>1. ChargedRows(f, d)' = old \cup {t} /\ t \notin old
      BY <2>1, <2>2, <2>3 DEF ReserveNew, ChargedRows, TypeOK, Row
    <3>2. used'[f][d] = used[f][d] + 1
      BY <2>1, <2>2, <2>3 DEF ReserveNew, Charge, TypeOK
    <3> QED
      BY <1>0, <1>F, <2>2, <3>1, <3>2, FS_AddElement
  <2>4. CASE ~(Pays(t) /\ f = KeyOf[t] /\ d = qdate[r])
    <3>1. ChargedRows(f, d)' = old
      BY <2>1, <2>2, <2>4 DEF ReserveNew, ChargedRows, TypeOK, Row
    <3>2. used'[f][d] = used[f][d]
      BY <2>1, <2>2, <2>4 DEF ReserveNew, Charge, TypeOK
    <3> QED
      BY <1>0, <2>2, <3>1, <3>2
  <2> QED
    BY <2>3, <2>4
<1>4. CASE \E r \in Reqs : Complete(r)
  <2>1. PICK r \in Reqs : Complete(r)
    BY <1>4
  <2>2. ChargedRows(f, d)' = old
    BY <2>1 DEF Complete, ChargedRows, TypeOK, Row
  <2> QED
    BY <1>0, <2>1, <2>2 DEF Complete
<1>5. CASE \E r \in Reqs : Fail(r)
  <2>1. PICK r \in Reqs : Fail(r)
    BY <1>5
  <2> DEFINE t == turn[r]
             refunded == /\ row[t].charged /\ t \notin logged
                         /\ KeyOf[t] \in Factories
  <2>2. t \in Turns /\ row[t].date \in Dates /\ f \notin drifted
    BY <2>1 DEF Fail, TypeOK, Row
  <2>3. CASE refunded /\ f = KeyOf[t] /\ d = row[t].date
    <3>1. ChargedRows(f, d)' = old \ {t} /\ t \in old
      BY <2>1, <2>2, <2>3 DEF Fail, ChargedRows, TypeOK, Row
    <3>2. Cardinality(old) # 0
      BY <1>F, <3>1, FS_EmptySet
    <3>3. used[f][d] > 0
      BY <1>0, <1>F, <2>2, <3>2
    <3>4. used'[f][d] = used[f][d] - 1
      BY <2>1, <2>2, <2>3, <3>3 DEF Fail, Refund, TypeOK
    <3> QED
      BY <1>0, <1>F, <2>2, <3>1, <3>4, FS_RemoveElement
  <2>4. CASE ~(refunded /\ f = KeyOf[t] /\ d = row[t].date)
    <3>1. ChargedRows(f, d)' = old
      BY <2>1, <2>2, <2>4 DEF Fail, ChargedRows, TypeOK, Row
    <3>2. used'[f][d] = used[f][d]
      BY <2>1, <2>2, <2>4 DEF Fail, Refund, TypeOK
    <3> QED
      BY <1>0, <2>2, <3>1, <3>2
  <2> QED
    BY <2>3, <2>4
<1>6. CASE UNCHANGED <<row, used, drifted>>
  BY <1>0, <1>6 DEF ChargedRows
<1> QED
  BY <1>1, <1>2, <1>3, <1>4, <1>5, <1>6
  DEF Next, vars, dbVars, Arrive, ReserveDeadlock, ReserveDenied, CallProvider,
      ChatReturns, BookkeepingFails, InsertLands, InsertFails, Crash, Tick

(* auditFactoryDailyCounterIntegrity finds no mismatch for a factory none  *)
(* of whose turns was charged on another date than its row carries,        *)
(* whatever requests overlap, fail, are retried or die.                    *)
THEOREM AuditHolds == Spec => []AuditExactUnlessDrifted
<1>1. Init => Uncharged /\ AuditExactUnlessDrifted
  <2> SUFFICES ASSUME Init PROVE Uncharged /\ AuditExactUnlessDrifted
    OBVIOUS
  <2>1. \A f, d : ChargedRows(f, d) = {}
    BY DEF Init, NoRow, ChargedRows
  <2> QED
    BY <2>1, FS_EmptySet DEF Init, NoRow, Uncharged, AuditExactUnlessDrifted
<1>2. TypeOK /\ Uncharged /\ AuditExactUnlessDrifted /\ [Next]_vars
          => Uncharged' /\ AuditExactUnlessDrifted'
  BY NextUncharged, NextAudit
<1> QED
  BY <1>1, <1>2, TypeCorrect, PTL DEF Spec
---------------------------------------------------------------------------
LEMMA UnitsFinite ==
    ASSUME NEW f
    PROVE  IsFiniteSet(Units(f)) /\ IsFiniteSet(Charged(f))
<1>1. IsFiniteSet(Dates) /\ IsFiniteSet(1..Limit)
  BY NumbersAssumption, FS_Interval DEF Dates
<1>2. IsFiniteSet(Dates \X (1..Limit))
  BY <1>1, FS_Product
<1>3. Units(f) \subseteq Dates \X (1..Limit) /\ Charged(f) \subseteq Turns
  BY DEF Units, Charged
<1> QED
  BY <1>2, <1>3, TurnsAssumption, FS_Subset

(* A charge below the limit adds one unit, the one after the last of its   *)
(* date.                                                                   *)
LEMMA ChargeAddsUnit ==
    ASSUME TypeOK, NEW f \in Factories, NEW d \in Dates,
           ~Exhausted(f, d), Charge(f, d)
    PROVE  /\ \A g \in Factories \ {f} : Units(g)' = Units(g)
           /\ \E u : u \notin Units(f) /\ Units(f)' = Units(f) \cup {u}
<1> DEFINE n == used[f][d]
<1>1. n \in Nat /\ n + 1 \in 1..Limit /\ Limit \in Nat
  BY NumbersAssumption DEF TypeOK, Exhausted
<1>2. \A g \in Factories, e \in Dates :
        used'[g][e] = IF g = f /\ e = d THEN n + 1 ELSE used[g][e]
  BY DEF Charge, TypeOK
<1>3. \A g \in Factories \ {f} : Units(g)' = Units(g)
  BY <1>2 DEF Units
<1>4. <<d, n + 1>> \notin Units(f)
  BY <1>1 DEF Units
<1>5. ASSUME NEW u \in Dates \X (1..Limit)
      PROVE  u \in Units(f)' <=> u \in Units(f) \cup {<<d, n + 1>>}
  <2>1. u = <<u[1], u[2]>> /\ u[1] \in Dates /\ u[2] \in 1..Limit
    BY <1>5
  <2>2. CASE u[1] = d
    BY <1>1, <1>2, <2>1, <2>2 DEF Units
  <2>3. CASE u[1] # d
    BY <1>2, <2>1, <2>3 DEF Units
  <2> QED
    BY <2>2, <2>3
<1>6. Units(f)' = Units(f) \cup {<<d, n + 1>>}
  BY <1>1, <1>5 DEF Units
<1> QED
  BY <1>3, <1>4, <1>6

(* A refund takes back at most one unit, the last of its date.             *)
LEMMA RefundTakesUnit ==
    ASSUME TypeOK, NEW f \in Factories, NEW d \in Dates, Refund(f, d)
    PROVE  /\ \A g \in Factories \ {f} : Units(g)' = Units(g)
           /\ \E u : Units(f)' = Units(f) \ {u}
<1> DEFINE n == used[f][d]
<1>1. n \in Nat /\ Limit \in Nat
  BY NumbersAssumption DEF TypeOK
<1>2. \A g \in Factories, e \in Dates :
        used'[g][e] = IF g = f /\ e = d THEN (IF n > 0 THEN n - 1 ELSE 0)
                                        ELSE used[g][e]
  BY DEF Refund, TypeOK
<1>3. \A g \in Factories \ {f} : Units(g)' = Units(g)
  BY <1>2 DEF Units
<1>4. ASSUME NEW u \in Dates \X (1..Limit)
      PROVE  u \in Units(f)' <=> u \in Units(f) \ {<<d, n>>}
  <2>1. u = <<u[1], u[2]>> /\ u[1] \in Dates /\ u[2] \in 1..Limit
    BY <1>4
  <2>2. CASE u[1] = d
    BY <1>1, <1>2, <2>1, <2>2 DEF Units
  <2>3. CASE u[1] # d
    BY <1>2, <2>1, <2>3 DEF Units
  <2> QED
    BY <2>2, <2>3
<1>5. Units(f)' = Units(f) \ {<<d, n>>}
  BY <1>4 DEF Units
<1> QED
  BY <1>3, <1>5

(* Every step that charges a row adds a unit, whatever the row's date, and *)
(* a refund that takes a unit unmarks a row.                               *)
LEMMA NextCovered ==
    ASSUME TypeOK, Uncharged, ChargesCovered, [Next]_vars
    PROVE  ChargesCovered'
<1> SUFFICES ASSUME NEW f \in Factories
             PROVE  Cardinality(Units(f)') >= Cardinality(Charged(f)')
  BY DEF ChargesCovered
<1> DEFINE units == Units(f)
           rows == Charged(f)
<1>F. /\ IsFiniteSet(units) /\ Cardinality(units) \in Nat
      /\ IsFiniteSet(rows) /\ Cardinality(rows) \in Nat
      /\ Cardinality(units) >= Cardinality(rows)
  BY UnitsFinite, FS_CardinalityType DEF ChargesCovered
<1>K. CASE Units(f)' = units /\ Charged(f)' = rows
  BY <1>F, <1>K
<1>A. ASSUME NEW u, u \notin units, Units(f)' = units \cup {u},
             NEW t, Charged(f)' = rows \cup {t}, t \notin rows
      PROVE  Cardinality(Units(f)') >= Cardinality(Charged(f)')
  <2>1. Cardinality(Units(f)') = Cardinality(units) + 1
    BY <1>A, <1>F, FS_AddElement
  <2>2. Cardinality(Charged(f)') = Cardinality(rows) + 1
    BY <1>A, <1>F, FS_AddElement
  <2> QED
    BY <1>F, <2>1, <2>2
<1>R. ASSUME NEW u, Units(f)' = units \ {u},
             NEW t \in rows, Charged(f)' = rows \ {t}
      PROVE  Cardinality(Units(f)') >= Cardinality(Charged(f)')
  <2>1. Cardinality(Charged(f)') = Cardinality(rows) - 1
    BY <1>R, <1>F, FS_RemoveElement
  <2>2. CASE u \in units
    <3>1. Cardinality(Units(f)') = Cardinality(units) - 1
      BY <1>R, <1>F, <2>2, FS_RemoveElement
    <3> QED
      BY <1>F, <2>1, <3>1
  <2>3. CASE u \notin units
    <3>1. Units(f)' = units
      BY <1>R, <2>3
    <3> QED
      BY <1>F, <2>1, <3>1
  <2> QED
    BY <2>2, <2>3
<1>1. CASE \E r \in Reqs : ReserveRetry(r) \/ Complete(r)
  <2>1. PICK r \in Reqs : ReserveRetry(r) \/ Complete(r)
    BY <1>1
  <2>2. Charged(f)' = rows
    BY <2>1 DEF ReserveRetry, Complete, Charged, TypeOK, Row
  <2>3. Units(f)' = units
    BY <2>1 DEF ReserveRetry, Complete, Units
  <2> QED
    BY <1>K, <2>2, <2>3
<1>2. CASE \E r \in Reqs : ReserveRecharge(r)
  <2>1. PICK r \in Reqs : ReserveRecharge(r)
    BY <1>2
  <2> DEFINE t == turn[r]
  <2>2. /\ t \in Turns /\ KeyOf[t] \in Factories /\ qdate[r] \in Dates
        /\ ~row[t].charged
        /\ ~Exhausted(KeyOf[t], qdate[r]) /\ Charge(KeyOf[t], qdate[r])
    BY <2>1 DEF ReserveRecharge, TypeOK, Pays
  <2>3. CASE f = KeyOf[t]
    <3>1. Charged(f)' = rows \cup {t} /\ t \notin rows
      BY <2>1, <2>2, <2>3 DEF ReserveRecharge, Charged, TypeOK, Row
    <3>2. PICK u : u \notin units /\ Units(f)' = units \cup {u}
      BY <2>2, <2>3, ChargeAddsUnit
    <3> QED
      BY <1>A, <3>1, <3>2
  <2>4. CASE f # KeyOf[t]
    <3>1. Charged(f)' = rows
      BY <2>1, <2>2, <2>4 DEF ReserveRecharge, Charged, TypeOK, Row
    <3>2. Units(f)' = units
      BY <2>2, <2>4, ChargeAddsUnit
    <3> QED
      BY <1>K, <3>1, <3>2
  <2> QED
    BY <2>3, <2>4
<1>3. CASE \E r \in Reqs : ReserveNew(r)
  <2>1. PICK r \in Reqs : ReserveNew(r)
    BY <1>3
  <2> DEFINE t == turn[r]
  <2>2. /\ t \in Turns /\ qdate[r] \in Dates
        /\ ~row[t].charged
        /\ Pays(t) => /\ KeyOf[t] \in Factories
                      /\ ~Exhausted(KeyOf[t], qdate[r]) /\ Charge(KeyOf[t], qdate[r])
        /\ ~Pays(t) => used' = used
    BY <2>1 DEF ReserveNew, TypeOK, Pays, Uncharged
  <2>3. CASE Pays(t) /\ f = KeyOf[t]
    <3>1. Charged(f)' = rows \cup {t} /\ t \notin rows
      BY <2>1, <2>2, <2>3 DEF ReserveNew, Charged, TypeOK, Row
    <3>2. PICK u : u \notin units /\ Units(f)' = units \cup {u}
      BY <2>2, <2>3, ChargeAddsUnit
    <3> QED
      BY <1>A, <3>1, <3>2
  <2>4. CASE ~(Pays(t) /\ f = KeyOf[t])
    <3>1. Charged(f)' = rows
      BY <2>1, <2>2, <2>4 DEF ReserveNew, Charged, TypeOK, Row
    <3>2. CASE Pays(t)
      <4>1. Units(f)' = units
        BY <2>2, <2>4, <3>2, ChargeAddsUnit
      <4> QED
        BY <1>K, <3>1, <4>1
    <3>3. CASE ~Pays(t)
      <4>1. Units(f)' = units
        BY <2>2, <3>3 DEF Units
      <4> QED
        BY <1>K, <3>1, <4>1
    <3> QED
      BY <3>2, <3>3
  <2> QED
    BY <2>3, <2>4
<1>4. CASE \E r \in Reqs : Fail(r)
  <2>1. PICK r \in Reqs : Fail(r)
    BY <1>4
  <2> DEFINE t == turn[r]
             refunded == /\ row[t].charged /\ t \notin logged
                         /\ KeyOf[t] \in Factories
  <2>2. /\ t \in Turns /\ row[t].date \in Dates
        /\ refunded => KeyOf[t] \in Factories /\ Refund(KeyOf[t], row[t].date)
        /\ ~refunded => used' = used
    BY <2>1 DEF Fail, TypeOK, Row
  <2>3. CASE refunded /\ f = KeyOf[t]
    <3>1. Charged(f)' = rows \ {t} /\ t \in rows
      BY <2>1, <2>2, <2>3 DEF Fail, Charged, TypeOK, Row
    <3>2. PICK u : Units(f)' = units \ {u}
      BY <2>2, <2>3, RefundTakesUnit
    <3> QED
      BY <1>R, <3>1, <3>2
  <2>4. CASE ~(refunded /\ f = KeyOf[t])
    <3>1. Charged(f)' = rows
      BY <2>1, <2>2, <2>4 DEF Fail, Charged, TypeOK, Row
    <3>2. CASE refunded
      <4>1. Units(f)' = units
        BY <2>2, <2>4, <3>2, RefundTakesUnit
      <4> QED
        BY <1>K, <3>1, <4>1
    <3>3. CASE ~refunded
      <4>1. Units(f)' = units
        BY <2>2, <3>3 DEF Units
      <4> QED
        BY <1>K, <3>1, <4>1
    <3> QED
      BY <3>2, <3>3
  <2> QED
    BY <2>3, <2>4
<1>5. CASE UNCHANGED <<row, used>>
  <2>1. Units(f)' = units /\ Charged(f)' = rows
    BY <1>5 DEF Units, Charged
  <2> QED
    BY <1>K, <2>1
<1> QED
  BY <1>1, <1>2, <1>3, <1>4, <1>5
  DEF Next, vars, dbVars, Arrive, ReserveDeadlock, ReserveDenied, CallProvider,
      ChatReturns, BookkeepingFails, InsertLands, InsertFails, Crash, Tick

(* A factory's counters, over all dates, never stand for fewer units than  *)
(* it has rows marked as charged: also when retries after midnight charge  *)
(* a row on another date than the one its refund looks at.                 *)
THEOREM ChargesHold == Spec => []ChargesCovered
<1>1. Init => Uncharged /\ ChargesCovered
  <2> SUFFICES ASSUME Init PROVE Uncharged /\ ChargesCovered
    OBVIOUS
  <2>1. \A f : Charged(f) = {}
    BY DEF Init, NoRow, Charged
  <2>2. \A f : Cardinality(Units(f)) \in Nat
    BY UnitsFinite, FS_CardinalityType
  <2>3. ChargesCovered
    BY <2>1, <2>2, FS_EmptySet DEF ChargesCovered
  <2> QED
    BY <2>3 DEF Init, NoRow, Uncharged
<1>2. TypeOK /\ Uncharged /\ ChargesCovered /\ [Next]_vars
          => Uncharged' /\ ChargesCovered'
  BY NextUncharged, NextCovered
<1> QED
  BY <1>1, <1>2, TypeCorrect, PTL DEF Spec
-----------------------------------------------------------------------------
(* A turn whose call is logged and that is charged stays charged, and what *)
(* changes its row leaves the counters alone: whichever attempts overlap.  *)
THEOREM LoggedStaysPaid == Spec => LoggedTurnPaidOnce
<1>1. ASSUME TypeOK, Uncharged, Next, NEW t \in Turns, t \in logged, row[t].charged
      PROVE  row'[t].charged /\ (row'[t] # row[t] => used' = used)
  <2>0. row \in [Turns -> Row]
    BY <1>1 DEF TypeOK
  <2>1. CASE row' = row
    BY <1>1, <2>1
  <2>2. ASSUME NEW r \in Reqs, ReserveRetry(r) \/ Complete(r)
        PROVE  row'[t].charged /\ used' = used
    <3>1. used' = used
      BY <2>2 DEF ReserveRetry, Complete
    <3>2. row'[t].charged
      BY <1>1, <2>0, <2>2 DEF ReserveRetry, Complete, Row
    <3> QED
      BY <3>1, <3>2
  <2>3. ASSUME NEW r \in Reqs, ReserveRecharge(r) \/ ReserveNew(r)
        PROVE  row'[t] = row[t]
    <3>1. turn[r] # t
      BY <1>1, <2>3 DEF ReserveRecharge, ReserveNew, Uncharged
    <3> QED
      BY <2>0, <2>3, <3>1 DEF ReserveRecharge, ReserveNew
  <2>4. ASSUME NEW r \in Reqs, Fail(r)
        PROVE  row'[t].charged /\ (row'[t] # row[t] => used' = used)
    <3>1. CASE turn[r] = t
      BY <1>1, <2>0, <2>4, <3>1 DEF Fail, Row
    <3>2. CASE turn[r] # t
      BY <1>1, <2>0, <2>4, <3>2 DEF Fail
    <3> QED
      BY <3>1, <3>2
  <2>5. \/ row' = row
        \/ \E r \in Reqs : \/ ReserveRetry(r) \/ Complete(r) \/ ReserveRecharge(r)
                           \/ ReserveNew(r) \/ Fail(r)
    BY <1>1 DEF Next, Arrive, ReserveDeadlock, ReserveDenied, CallProvider, ChatReturns,
                BookkeepingFails, InsertLands, InsertFails, Crash, Tick, dbVars
  <2> QED
    BY <1>1, <2>1, <2>2, <2>3, <2>4, <2>5
<1>2. TypeOK /\ Uncharged /\ [Next]_vars =>
        [\A t \in Turns :
            t \in logged /\ row[t].charged =>
                /\ row'[t].charged
                /\ row'[t] # row[t] => used' = used]_vars
  BY <1>1
<1>3. Init => Uncharged
  BY DEF Init, NoRow, Uncharged
<1> QED
  BY <1>2, <1>3, NextUncharged, TypeCorrect, PTL DEF Spec, LoggedTurnPaidOnce
============================================================================
