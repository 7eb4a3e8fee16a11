-------------------------- MODULE OrderDates_proofs --------------------------
(***************************************************************************)
(* Theorems about a collaboration order and its dates.  First the order    *)
(* alone, for any number of requests in flight: its type, ClosedStays,     *)
(* UndueOnlyIfMoved and DerivedOnce and, when no two cancel requests share *)
(* a timestamp, RestoredStatus, OwnAnswerOnlyAfterAnother and StageLogged. *)
(* Then its dates, for any number of date nodes, of change requests and of *)
(* overdue checks, on an order that moves under all of them.               *)
(***************************************************************************)
EXTENDS OrderDates, FiniteSetTheorems, TLAPS

USE DEF Null, NoStage

(* What a free slot holds is well formed.                                  *)
LEMMA FreeIsCall == Free \in Call /\ Free.op = "none" /\ WellFormed(Free)
  BY DEF Free, Call, Users, WellFormed

(* The initial states are well typed.                                      *)
LEMMA TypeInit == Init => TypeOK
  <1> SUFFICES ASSUME Init PROVE TypeOK OBVIOUS
  <1>1. \A s \in {"pending", "accepted"}, g \in {"none", "awaiting_deposit"},
           a \in {"user", "factory"} : NewOrder(s, g, a) \in Order
    BY DEF NewOrder, Order, Statuses, Stages, Active, Users
  <1>2. order \in Order
    BY <1>1 DEF Init
  <1>3. calls \in [Slots -> Call] /\ \A c \in Slots : WellFormed(calls[c])
    BY FreeIsCall DEF Init
  <1> QED
    BY <1>2, <1>3 DEF Init, TypeOK

(* A request that passed its checks keeps the type.                        *)
LEMMA ReadType ==
  ASSUME TypeOK, NEW c \in Slots, NEW request, Read(c, request),
         request \in Call, WellFormed(request)
  PROVE  TypeOK'
  <1>1. calls' \in [Slots -> Call]
    BY DEF Read, TypeOK
  <1>2. \A d \in Slots : calls'[d] = IF d = c THEN request ELSE calls[d]
    BY DEF Read, TypeOK
  <1>3. \A d \in Slots : WellFormed(calls'[d])
    BY <1>2 DEF TypeOK
  <1> QED
    BY <1>1, <1>3 DEF Read, TypeOK, derived

(* What a handler's end leaves.                                            *)
LEMMA FinishType ==
  ASSUME TypeOK, NEW c \in Slots, NEW op, Finish(c, op)
  PROVE  /\ calls' \in [Slots -> Call] /\ \A d \in Slots : WellFormed(calls'[d])
         /\ \A d \in Slots : calls'[d] = IF d = c THEN Free ELSE calls[d]
         /\ calls[c].op = op /\ calls[c] \in Call /\ WellFormed(calls[c])
         /\ dates' \in Dates /\ today' \in Nat
  <1>1. calls' \in [Slots -> Call]
    BY FreeIsCall DEF Finish, TypeOK
  <1>2. \A d \in Slots : calls'[d] = IF d = c THEN Free ELSE calls[d]
    BY DEF Finish, TypeOK
  <1>3. \A d \in Slots : WellFormed(calls'[d])
    BY <1>2, FreeIsCall DEF TypeOK
  <1> QED
    BY <1>1, <1>2, <1>3 DEF Finish, TypeOK

(* What a request is made of.                                              *)
LEMMA RequestType ==
  ASSUME NEW u \in Users, NEW op \in {"respond", "updateStatus",
             "requestCancel", "respondCancel", "markCompleted",
             "advanceStage", "earlyComplete", "earlyShip", "requestRepeat",
             "respondRepeat", "createVerifiedReview"},
         NEW to \in {"none", "accepted", "acceptedAsFactory", "rejected",
             "accept", "reject", "in_progress", "shipped", "completed"}
  PROVE  /\ Request(op, u, to) \in Call
         /\ Request(op, u, to).op = op /\ Request(op, u, to).to = to
         /\ Request(op, u, to).user = u
  BY DEF Request, Call, Free

(* What a request keeps of what it read.                                   *)
LEMMA KeepsStatus ==
  ASSUME NEW r \in Call, NEW s \in Statuses
  PROVE  LET k == [r EXCEPT !.status = s]
         IN  k \in Call /\ k.op = r.op /\ k.to = r.to /\ k.status = s
  BY DEF Call

LEMMA KeepsStage ==
  ASSUME NEW r \in Call, NEW g \in Stages \cup {NoStage}
  PROVE  LET k == [r EXCEPT !.stage = g]
         IN  k \in Call /\ k.op = r.op /\ k.stage = g
  BY DEF Call

LEMMA KeepsRef ==
  ASSUME NEW r \in Call, NEW n \in Nat
  PROVE  LET k == [r EXCEPT !.ref = n]
         IN  k \in Call /\ k.op = r.op /\ k.to = r.to
  BY DEF Call

LEMMA KeepsSeen ==
  ASSUME NEW r \in Call, NEW n \in Nat
  PROVE  LET k == [r EXCEPT !.seen = n]
         IN  k \in Call /\ k.op = r.op
  BY DEF Call

(* The request to complete the order, with the payment's date it read.     *)
Completion(u) == [Request("markCompleted", u, "none") EXCEPT !.ref = dates[Final]]

LEMMA CompletionType ==
  ASSUME TypeOK, NEW u \in Users
  PROVE  /\ Completion(u) \in Call
         /\ Completion(u).op = "markCompleted" /\ Completion(u).ref = dates[Final]
  <1>1. dates[Final] \in Nat
    BY OrderAssumption DEF OrderAssumption, TypeOK, Dates, Fields, Final
  <1> DEFINE q == Request("markCompleted", u, "none")
  <1>2. q \in Call /\ q.op = "markCompleted"
    BY RequestType
  <1> HIDE DEF q
  <1>3. LET k == [q EXCEPT !.ref = dates[Final]]
        IN  k \in Call /\ k.op = q.op /\ k.ref = dates[Final]
    BY <1>1, <1>2 DEF Call
  <1> QED BY <1>2, <1>3 DEF Completion, q

(* What the history is made of.                                            *)
LEMMA LogType ==
  ASSUME NEW H, history \in Seq(H), NEW from, NEW to,
         [from |-> from, to |-> to] \in H, Log(from, to)
  PROVE  history' \in Seq(H)
  BY DEF Log

(* Every step keeps the type.                                              *)
LEMMA TypeStep == TypeOK /\ [Next]_orderVars => TypeOK'
  <1> SUFFICES ASSUME TypeOK, [Next]_orderVars PROVE TypeOK' OBVIOUS
  <1>1. CASE UNCHANGED orderVars
    BY <1>1 DEF orderVars, TypeOK
  <1>2. CASE NextDay \/ ChangeDates
    BY <1>2 DEF NextDay, ChangeDates, TypeOK, derived
  <1>3. CASE Restart
    <2>1. calls' \in [Slots -> Call] /\ \A c \in Slots : WellFormed(calls'[c])
      BY <1>3, FreeIsCall DEF Restart
    <2> QED BY <1>3, <2>1 DEF Restart, TypeOK, derived
  <1>4. ASSUME NEW c \in Slots, OrderCall(c) PROVE TypeOK'
    <2>0. Buyer \in Users /\ Staff \subseteq Users BY DEF Users
    <2>1. CASE ReadRespond(c)
      <3>1. PICK to \in {"accepted", "acceptedAsFactory", "rejected"} :
              Read(c, Request("respond", Buyer, to))
        BY <2>1 DEF ReadRespond
      <3>2. WellFormed(Request("respond", Buyer, to))
        BY <2>0, RequestType DEF WellFormed
      <3> QED BY <2>0, <3>1, <3>2, ReadType, RequestType
    <2>2. CASE Respond(c)
      <3>1. order' \in Order
        BY <2>2 DEF Respond, Update, TypeOK, Order, Statuses, Stages
      <3> QED
        BY <2>2, <3>1, FinishType DEF Respond, Update, TypeOK, derived
    <2>3. CASE ReadUpdateStatus(c)
      <3>1. PICK u \in Staff, to \in DOMAIN AllowedFrom :
              /\ order.status = AllowedFrom[to]
              /\ Read(c, [Request("updateStatus", u, to)
                            EXCEPT !.status = order.status])
        BY <2>3 DEF ReadUpdateStatus
      <3> DEFINE r == [Request("updateStatus", u, to)
                         EXCEPT !.status = order.status]
      <3>2. to \in {"in_progress", "shipped", "completed"}
        BY DEF AllowedFrom
      <3>3. r \in Call /\ r.op = "updateStatus" /\ r.to = to
              /\ r.status = order.status
        <4>1. order.status \in Statuses BY DEF TypeOK, Order
        <4> QED BY <2>0, <3>2, <4>1, RequestType, KeepsStatus
      <3>4. WellFormed(r)
        BY <3>1, <3>3 DEF WellFormed
      <3> QED BY <3>1, <3>3, <3>4, ReadType
    <2>4. CASE UpdateStatus(c)
      <3>1. calls[c].to \in {"in_progress", "shipped", "completed"}
        BY <2>4, FinishType DEF UpdateStatus, WellFormed, AllowedFrom
      <3>2. order' \in Order
        BY <2>4, <3>1 DEF UpdateStatus, Update, TypeOK, Order, Statuses
      <3> QED
        BY <2>4, <3>2, FinishType DEF UpdateStatus, Update, TypeOK, derived
    <2>5. CASE ReadRequestCancel(c)
      <3>1. PICK u \in Users :
              Read(c, [Request("requestCancel", u, "none")
                         EXCEPT !.status = order.status])
        BY <2>5 DEF ReadRequestCancel
      <3> DEFINE r == [Request("requestCancel", u, "none")
                         EXCEPT !.status = order.status]
      <3>2. r \in Call /\ r.op = "requestCancel" /\ r.status = order.status
        <4>1. order.status \in Statuses BY DEF TypeOK, Order
        <4> QED BY <4>1, RequestType, KeepsStatus
      <3>3. WellFormed(r)
        BY <2>5, <3>2 DEF WellFormed, ReadRequestCancel
      <3> QED BY <3>1, <3>2, <3>3, ReadType
    <2>6. CASE RequestCancel(c)
      <3>1. calls[c].status \in Active \cup {"pending"} /\ calls[c].user \in Users \cup {NoUser}
        BY <2>6, FinishType DEF RequestCancel, WellFormed, Call
      <3>2. clock' \in Nat
        BY <2>6 DEF RequestCancel, TypeOK
      <3>3. order' \in Order
        BY <2>6, <3>1, <3>2 DEF RequestCancel, TypeOK, Order, Statuses
      <3> QED
        BY <2>6, <3>2, <3>3, FinishType DEF RequestCancel, TypeOK, derived
    <2>7. CASE ReadRespondCancel(c)
      <3>1. PICK u \in Users \ {order.by}, to \in {"accept", "reject"} :
              Read(c, [Request("respondCancel", u, to)
                         EXCEPT !.seen = order.requestedAt])
        BY <2>7 DEF ReadRespondCancel
      <3> DEFINE r == [Request("respondCancel", u, to)
                         EXCEPT !.seen = order.requestedAt]
      <3>2. r \in Call /\ r.op = "respondCancel"
        <4>1. order.requestedAt \in Nat BY DEF TypeOK, Order
        <4> QED BY <4>1, RequestType, KeepsSeen
      <3>3. WellFormed(r)
        BY <3>2 DEF WellFormed
      <3> QED BY <3>1, <3>2, <3>3, ReadType
    <2>8. CASE RereadRespondCancel(c)
      <3> DEFINE r == [calls[c] EXCEPT
                         !.op = "answerCancel",
                         !.status = IF order.from = "none" THEN "accepted"
                                    ELSE order.from,
                         !.ref = order.requestedAt]
      <3>1. r \in Call /\ r.op = "answerCancel"
              /\ r.status \in Active \cup {"pending"}
        <4> DEFINE s == IF order.from = "none" THEN "accepted" ELSE order.from
        <4>1. s \in Active \cup {"pending"} /\ s \in Statuses
          BY DEF TypeOK, Order, Active, Statuses
        <4>2. order.requestedAt \in Nat /\ calls[c] \in Call
          BY DEF TypeOK, Order
        <4> HIDE DEF s
        <4>3. [calls[c] EXCEPT !.op = "answerCancel", !.status = s,
                               !.ref = order.requestedAt] \in Call
          BY <4>1, <4>2 DEF Call
        <4> QED BY <4>1, <4>2, <4>3 DEF s, Call
      <3>2. calls' = [calls EXCEPT ![c] = r]
        BY <2>8 DEF RereadRespondCancel, TypeOK, Call
      <3>3. WellFormed(r)
        BY <3>1 DEF WellFormed
      <3>4. calls' \in [Slots -> Call] /\ \A d \in Slots : WellFormed(calls'[d])
        BY <3>1, <3>2, <3>3 DEF TypeOK
      <3> QED BY <2>8, <3>4 DEF RereadRespondCancel, TypeOK, derived
    <2>9. CASE RespondCancel(c)
      <3>1. calls[c].status \in Active \cup {"pending"}
        BY <2>9, FinishType DEF RespondCancel, WellFormed
      <3>2. order' \in Order
        BY <2>9, <3>1 DEF RespondCancel, Update, TypeOK, Order, Statuses, Active
      <3> QED
        BY <2>9, <3>2, FinishType DEF RespondCancel, Update, TypeOK, derived
    <2>10. CASE ReadMarkCompleted(c)
      <3>1. PICK u \in Staff : Read(c, Completion(u))
        BY <2>10 DEF ReadMarkCompleted, Completion
      <3>2. Completion(u) \in Call /\ Completion(u).op = "markCompleted"
        BY <2>0, CompletionType
      <3>3. WellFormed(Completion(u))
        BY <3>2 DEF WellFormed
      <3> QED BY <3>1, <3>2, <3>3, ReadType
    <2>11. CASE MarkCompleted(c)
      <3>1. order' \in Order
        BY <2>11 DEF MarkCompleted, Update, TypeOK, Order, Statuses, Stages
      <3>2. history' \in Seq([from : Stages \cup {NoStage}, to : Stages])
        <4>1. [from |-> order.stage, to |-> "completed"]
                \in [from : Stages \cup {NoStage}, to : Stages]
          BY DEF TypeOK, Order, Stages
        <4> QED BY <2>11, <4>1, LogType DEF MarkCompleted, TypeOK
      <3> QED
        BY <2>11, <3>1, <3>2, FinishType
        DEF MarkCompleted, Update, TypeOK, derived
    <2>12. CASE ReadAdvanceStage(c)
      <3>1. PICK u \in Staff :
              Read(c, [Request("advanceStage", u, "none")
                         EXCEPT !.stage = order.stage])
        BY <2>12 DEF ReadAdvanceStage
      <3> DEFINE r == [Request("advanceStage", u, "none")
                         EXCEPT !.stage = order.stage]
      <3>2. r \in Call /\ r.op = "advanceStage" /\ r.stage = order.stage
        <4>1. order.stage \in Stages \cup {NoStage} BY DEF TypeOK, Order
        <4>2. /\ Request("advanceStage", u, "none") \in Call
              /\ Request("advanceStage", u, "none").op = "advanceStage"
          BY <2>0, RequestType
        <4> HIDE DEF r
        <4> QED BY <4>1, <4>2, KeepsStage DEF r
      <3>3. WellFormed(r)
        BY <2>12, <3>2 DEF WellFormed, ReadAdvanceStage
      <3> QED BY <3>1, <3>2, <3>3, ReadType
    <2>13. CASE AdvanceStage(c)
      <3>1. calls[c].stage \in DOMAIN NextStage
        BY <2>13, FinishType DEF AdvanceStage, WellFormed
      <3>2. calls[c].stage \in Stages /\ NextStage[calls[c].stage] \in Stages
        BY <3>1 DEF NextStage, Stages
      <3>3. order' \in Order
        BY <2>13, <3>2 DEF AdvanceStage, Update, TypeOK, Order
      <3>4. history' \in Seq([from : Stages \cup {NoStage}, to : Stages])
        <4>1. [from |-> calls[c].stage, to |-> NextStage[calls[c].stage]]
                \in [from : Stages \cup {NoStage}, to : Stages]
          BY <3>2
        <4> QED BY <2>13, <4>1, LogType DEF AdvanceStage, TypeOK
      <3> QED
        BY <2>13, <3>3, <3>4, FinishType
        DEF AdvanceStage, Update, TypeOK, derived
    <2>14. CASE ReadEarly(c)
      <3>1. PICK u \in Staff, op \in {"earlyComplete", "earlyShip"} :
              Read(c, Request(op, u, "none"))
        BY <2>14 DEF ReadEarly
      <3>2. WellFormed(Request(op, u, "none"))
        BY <2>0, RequestType DEF WellFormed
      <3> QED BY <2>0, <3>1, <3>2, ReadType, RequestType
    <2>15. CASE EarlyComplete(c)
      <3>1. order' \in Order
        BY <2>15 DEF EarlyComplete, Update, TypeOK, Order
      <3> QED
        BY <2>15, <3>1, FinishType DEF EarlyComplete, Update, TypeOK, derived
    <2>16. CASE EarlyShip(c)
      <3>1. order' \in Order
        BY <2>16 DEF EarlyShip, Update, TypeOK, Order
      <3> QED
        BY <2>16, <3>1, FinishType DEF EarlyShip, Update, TypeOK, derived
    <2>17. CASE ReadRequestRepeat(c)
      <3>1. WellFormed(Request("requestRepeat", Buyer, "none"))
        BY <2>0, RequestType DEF WellFormed
      <3> QED
        BY <2>0, <2>17, <3>1, ReadType, RequestType DEF ReadRequestRepeat
    <2>18. CASE RequestRepeat(c)
      BY <2>18, FinishType DEF RequestRepeat, TypeOK
    <2>19. CASE ReadRespondRepeat(c)
      <3>1. PICK u \in Staff, i \in PendingIn(repeats),
                 to \in {"accepted", "rejected"} :
              Read(c, [Request("respondRepeat", u, to) EXCEPT !.ref = i])
        BY <2>19 DEF ReadRespondRepeat
      <3> DEFINE r == [Request("respondRepeat", u, to) EXCEPT !.ref = i]
      <3>2. i \in Nat
        BY DEF PendingIn, TypeOK
      <3>3. r \in Call /\ r.op = "respondRepeat" /\ r.to = to
        BY <2>0, <3>2, RequestType, KeepsRef
      <3>4. WellFormed(r)
        BY <3>3 DEF WellFormed
      <3> QED BY <3>1, <3>3, <3>4, ReadType
    <2>20. CASE RespondRepeat(c)
      <3>1. calls[c].to \in {"accepted", "rejected"}
        BY <2>20, FinishType DEF RespondRepeat, WellFormed
      <3>2. copies' \in Nat
        BY <2>20 DEF RespondRepeat, TypeOK
      <3>3. repeats' \in Seq({"pending", "accepted", "rejected"})
        BY <2>20, <3>1 DEF RespondRepeat, TypeOK
      <3> QED
        BY <2>20, <3>2, <3>3, FinishType DEF RespondRepeat, TypeOK
    <2>21. CASE ReadReview(c)
      <3>1. WellFormed(Request("createVerifiedReview", Buyer, "none"))
        BY <2>0, RequestType DEF WellFormed
      <3> QED BY <2>0, <2>21, <3>1, ReadType, RequestType DEF ReadReview
    <2>22. CASE CreateVerifiedReview(c)
      BY <2>22, FinishType DEF CreateVerifiedReview, TypeOK
    <2> QED
      BY <1>4, <2>1, <2>2, <2>3, <2>4, <2>5, <2>6, <2>7, <2>8, <2>9, <2>10,
         <2>11, <2>12, <2>13, <2>14, <2>15, <2>16, <2>17, <2>18, <2>19, <2>20,
         <2>21, <2>22 DEF OrderCall
  <1> QED BY <1>1, <1>2, <1>3, <1>4 DEF Next

(* The order and the requests in flight are well formed in every state.    *)
THEOREM TypeCorrect == Spec => []TypeOK
  BY TypeInit, TypeStep, PTL DEF Spec

-----------------------------------------------------------------------------
(* A closed order stays closed.                                            *)
LEMMA ClosedStep ==
  ASSUME TypeOK, [Next]_orderVars, order.status \in Closed
  PROVE  order'.status = order.status
  <1>1. order \in Order BY DEF TypeOK
  <1> USE DEF Closed
  <1>2. CASE NextDay \/ ChangeDates \/ Restart
    BY <1>2 DEF NextDay, ChangeDates, Restart
  <1>3. ASSUME NEW c \in Slots, OrderCall(c)
        PROVE  order'.status = order.status
    <2>1. WellFormed(calls[c]) BY DEF TypeOK
    <2>2. CASE order' = order BY <2>2
    <2>3. CASE Respond(c) BY <2>3, <1>1 DEF Respond, Update, Order
    <2>4. CASE UpdateStatus(c)
      BY <2>1, <2>4, <1>1
      DEF UpdateStatus, Update, Order, WellFormed, AllowedFrom, Finish
    <2>5. CASE RequestCancel(c)
      BY <2>1, <2>5, <1>1 DEF RequestCancel, Order, WellFormed, Finish, Active
    <2>6. CASE RespondCancel(c)
      BY <2>6, <1>1 DEF RespondCancel, Update, Order
    <2>7. CASE MarkCompleted(c)
      BY <2>7, <1>1 DEF MarkCompleted, Update, Order, Active
    <2>8. CASE AdvanceStage(c)
      BY <2>8, <1>1 DEF AdvanceStage, Update, Order
    <2>9. CASE EarlyComplete(c) \/ EarlyShip(c)
      BY <2>9, <1>1 DEF EarlyComplete, EarlyShip, Update, Order
    <2> QED
      BY <1>3, <2>2, <2>3, <2>4, <2>5, <2>6, <2>7, <2>8, <2>9
      DEF OrderCall, Read, ReadRespond, ReadUpdateStatus, ReadRequestCancel,
          ReadRespondCancel, RereadRespondCancel, ReadMarkCompleted,
          ReadAdvanceStage, ReadEarly, ReadRequestRepeat, RequestRepeat,
          ReadRespondRepeat, RespondRepeat, ReadReview, CreateVerifiedReview
  <1>4. CASE UNCHANGED orderVars
    BY <1>4 DEF orderVars
  <1> QED BY <1>2, <1>3, <1>4 DEF Next

THEOREM ClosedForGood == Spec => ClosedStays
  <1>1. TypeOK /\ [Next]_orderVars =>
           [order.status \in Closed => order'.status = order.status]_orderVars
    BY ClosedStep
  <1> QED BY <1>1, TypeCorrect, PTL DEF Spec, ClosedStays

-----------------------------------------------------------------------------
(* Every timestamp in flight is one that was given out, and a call that    *)
(* holds the current one knows the current cancel request: the status to   *)
(* go back to and that somebody else made it.                              *)
CancelOps == {"respondCancel", "answerCancel"}

CancelSound ==
    /\ order.requestedAt <= clock
    /\ order.status = "cancel_requested" =>
          order.requestedAt > 0 /\ order.from \in Active \cup {"pending"}
    /\ \A c \in Slots :
          /\ calls[c].op \in CancelOps =>
                /\ calls[c].seen <= clock
                /\ order.status = "cancel_requested"
                      /\ calls[c].seen = order.requestedAt
                         => calls[c].user # order.by
          /\ calls[c].op = "answerCancel" =>
                /\ calls[c].ref <= clock
                /\ order.status = "cancel_requested"
                      /\ calls[c].ref = order.requestedAt
                         => calls[c].status = order.from

LEMMA ReadKeepsCancel ==
  ASSUME TypeOK, CancelSound, NEW c \in Slots, NEW request, Read(c, request),
         request.op \notin CancelOps
  PROVE  CancelSound'
  <1>1. \A d \in Slots : calls'[d] = IF d = c THEN request ELSE calls[d]
    BY DEF Read, TypeOK
  <1> QED BY <1>1 DEF Read, CancelSound, CancelOps

LEMMA FinishKeepsCancel ==
  ASSUME TypeOK, CancelSound, NEW c \in Slots, NEW op, Finish(c, op),
         clock' = clock, order'.requestedAt \in {order.requestedAt, 0},
         order'.status = "cancel_requested" =>
            /\ order.status = "cancel_requested" /\ order'.from = order.from
            /\ order'.by = order.by /\ order'.requestedAt = order.requestedAt
  PROVE  CancelSound'
  <1>1. \A d \in Slots : calls'[d] = IF d = c THEN Free ELSE calls[d]
    BY FinishType
  <1>2. Free.op = "none" BY FreeIsCall
  <1>3. order'.requestedAt <= clock'
    BY DEF CancelSound, TypeOK
  <1> QED BY <1>1, <1>2, <1>3 DEF CancelSound, CancelOps

(* The reads other than respondCancel's.                                   *)
OtherRead(c) ==
    \/ ReadRespond(c) \/ ReadUpdateStatus(c) \/ ReadRequestCancel(c)
    \/ ReadMarkCompleted(c) \/ ReadAdvanceStage(c) \/ ReadEarly(c)
    \/ ReadRequestRepeat(c) \/ ReadRespondRepeat(c) \/ ReadReview(c)

LEMMA OtherReadReads ==
  ASSUME TypeOK, NEW c \in Slots, OtherRead(c)
  PROVE  \E request \in Call : Read(c, request) /\ request.op \notin CancelOps
  <1>1. order.status \in Statuses /\ order.stage \in Stages \cup {NoStage}
    BY DEF TypeOK, Order
  <1>2. Buyer \in Users /\ Staff \subseteq Users BY DEF Users
  <1> USE DEF CancelOps
  <1>3. CASE ReadRespond(c) \/ ReadRequestRepeat(c) \/ ReadReview(c)
    <2>1. PICK op \in {"respond", "requestRepeat", "createVerifiedReview"},
               to \in {"none", "accepted", "acceptedAsFactory", "rejected"} :
            Read(c, Request(op, Buyer, to))
      BY <1>3 DEF ReadRespond, ReadRequestRepeat, ReadReview
    <2> QED BY <1>2, <2>1, RequestType
  <1>4. CASE ReadUpdateStatus(c)
    <2>1. PICK u \in Staff, to \in DOMAIN AllowedFrom :
            Read(c, [Request("updateStatus", u, to)
                       EXCEPT !.status = order.status])
      BY <1>4 DEF ReadUpdateStatus
    <2>2. to \in {"in_progress", "shipped", "completed"} BY DEF AllowedFrom
    <2> DEFINE q == Request("updateStatus", u, to)
    <2>3. q \in Call /\ q.op = "updateStatus"
      BY <1>2, <2>2, RequestType
    <2> HIDE DEF q
    <2>4. [q EXCEPT !.status = order.status] \in Call
            /\ [q EXCEPT !.status = order.status].op = "updateStatus"
      BY <1>1, <2>3, KeepsStatus
    <2> QED BY <2>1, <2>4 DEF q
  <1>5. CASE ReadRequestCancel(c)
    <2>1. PICK u \in Users : Read(c, [Request("requestCancel", u, "none")
                                        EXCEPT !.status = order.status])
      BY <1>5 DEF ReadRequestCancel
    <2> DEFINE q == Request("requestCancel", u, "none")
    <2>2. q \in Call /\ q.op = "requestCancel"
      BY RequestType
    <2> HIDE DEF q
    <2>3. [q EXCEPT !.status = order.status] \in Call
            /\ [q EXCEPT !.status = order.status].op = "requestCancel"
      BY <1>1, <2>2, KeepsStatus
    <2> QED BY <2>1, <2>3 DEF q
  <1>6. CASE ReadEarly(c)
    <2>1. PICK u \in Staff, op \in {"earlyComplete", "earlyShip"} :
            Read(c, Request(op, u, "none"))
      BY <1>6 DEF ReadEarly
    <2> QED BY <1>2, <2>1, RequestType
  <1>9. CASE ReadMarkCompleted(c)
    <2>1. PICK u \in Staff : Read(c, Completion(u))
      BY <1>9 DEF ReadMarkCompleted, Completion
    <2> QED BY <1>2, <2>1, CompletionType
  <1>7. CASE ReadAdvanceStage(c)
    <2>1. PICK u \in Staff : Read(c, [Request("advanceStage", u, "none")
                                        EXCEPT !.stage = order.stage])
      BY <1>7 DEF ReadAdvanceStage
    <2> DEFINE q == Request("advanceStage", u, "none")
    <2>2. q \in Call /\ q.op = "advanceStage"
      BY <1>2, RequestType
    <2> HIDE DEF q
    <2>3. [q EXCEPT !.stage = order.stage] \in Call
            /\ [q EXCEPT !.stage = order.stage].op = "advanceStage"
      BY <1>1, <2>2, KeepsStage
    <2> QED BY <2>1, <2>3 DEF q
  <1>8. CASE ReadRespondRepeat(c)
    <2>1. PICK u \in Staff, i \in PendingIn(repeats),
               to \in {"accepted", "rejected"} :
            Read(c, [Request("respondRepeat", u, to) EXCEPT !.ref = i])
      BY <1>8 DEF ReadRespondRepeat
    <2>2. i \in Nat BY DEF PendingIn, TypeOK
    <2> DEFINE q == Request("respondRepeat", u, to)
    <2>3. q \in Call /\ q.op = "respondRepeat"
      BY <1>2, RequestType
    <2> HIDE DEF q
    <2>4. [q EXCEPT !.ref = i] \in Call
            /\ [q EXCEPT !.ref = i].op = "respondRepeat"
      BY <2>2, <2>3, KeepsRef
    <2> QED BY <2>1, <2>4 DEF q
  <1> QED BY <1>3, <1>4, <1>5, <1>6, <1>7, <1>8, <1>9 DEF OtherRead

LEMMA CancelStep ==
  ASSUME ~SameSecond, TypeOK, CancelSound, [Next]_orderVars
  PROVE  CancelSound'
  <1>0. order \in Order BY DEF TypeOK
  <1>1. CASE UNCHANGED orderVars BY <1>1 DEF orderVars, CancelSound
  <1>2. CASE NextDay \/ ChangeDates
    BY <1>2 DEF NextDay, ChangeDates, CancelSound
  <1>3. CASE Restart
    <2>1. \A c \in Slots : calls'[c].op = "none"
      BY <1>3, FreeIsCall DEF Restart
    <2> QED BY <1>3, <2>1 DEF Restart, CancelSound, CancelOps
  <1>4. ASSUME NEW c \in Slots, OrderCall(c) PROVE CancelSound'
    <2>1. CASE OtherRead(c)
      BY <2>1, OtherReadReads, ReadKeepsCancel
    <2>2. CASE Respond(c)
      BY <1>0, <2>2, FinishKeepsCancel DEF Respond, Update, Order
    <2>3. CASE UpdateStatus(c)
      <3>1. calls[c].to # "cancel_requested"
        BY <2>3, FinishType DEF UpdateStatus, WellFormed, AllowedFrom
      <3> QED BY <1>0, <2>3, <3>1, FinishKeepsCancel
              DEF UpdateStatus, Update, Order
    <2>4. CASE RequestCancel(c)
      <3>1. CASE order' = order /\ clock' = clock
        BY <2>4, <3>1, FinishKeepsCancel DEF RequestCancel
      <3>2. CASE order.status = calls[c].status
        <4>1. clock' = clock + 1 /\ clock \in Nat
          BY <2>4, <3>2 DEF RequestCancel, TypeOK
        <4>2. calls[c].status \in Active \cup {"pending"}
          BY <2>4, FinishType DEF RequestCancel, WellFormed
        <4>3. order'.status = "cancel_requested"
                /\ order'.requestedAt = clock' /\ order'.from = calls[c].status
          BY <1>0, <2>4, <3>2 DEF RequestCancel, Order
        <4>4. \A d \in Slots : calls'[d] = IF d = c THEN Free ELSE calls[d]
          BY <2>4, FinishType DEF RequestCancel
        <4>5. Free.op = "none" BY FreeIsCall
        <4>6. \A d \in Slots : calls[d].seen \in Nat /\ calls[d].ref \in Nat
          BY DEF TypeOK, Call
        <4> QED
          BY <4>1, <4>2, <4>3, <4>4, <4>5, <4>6 DEF CancelSound, CancelOps
      <3> QED BY <2>4, <3>1, <3>2 DEF RequestCancel
    <2>5. CASE ReadRespondCancel(c)
      <3>1. PICK u \in Users \ {order.by}, to \in {"accept", "reject"} :
              Read(c, [Request("respondCancel", u, to)
                         EXCEPT !.seen = order.requestedAt])
        BY <2>5 DEF ReadRespondCancel
      <3> DEFINE r == [Request("respondCancel", u, to)
                         EXCEPT !.seen = order.requestedAt]
      <3>2. r.op = "respondCancel" /\ r.user = u /\ r.seen = order.requestedAt
        BY DEF Request, Free
      <3> HIDE DEF r
      <3>3. \A d \in Slots : calls'[d] = IF d = c THEN r ELSE calls[d]
        BY <3>1 DEF Read, TypeOK, r
      <3>4. order' = order /\ clock' = clock /\ u # order.by
        BY <3>1 DEF Read
      <3>5. r.op # "answerCancel"
        BY <3>2
      <3>6. order.requestedAt <= clock BY DEF CancelSound
      <3>7. ASSUME NEW d \in Slots
            PROVE  /\ calls'[d].op \in CancelOps =>
                         /\ calls'[d].seen <= clock
                         /\ order.status = "cancel_requested"
                               /\ calls'[d].seen = order.requestedAt
                                  => calls'[d].user # order.by
                   /\ calls'[d].op = "answerCancel" =>
                         /\ calls'[d].ref <= clock
                         /\ order.status = "cancel_requested"
                               /\ calls'[d].ref = order.requestedAt
                                  => calls'[d].status = order.from
        <4>1. CASE d = c BY <3>2, <3>3, <3>4, <3>5, <3>6, <4>1
        <4>2. CASE d # c BY <3>3, <4>2 DEF CancelSound
        <4> QED BY <4>1, <4>2
      <3> QED
        BY <3>4, <3>7 DEF CancelSound
    <2>6. CASE RereadRespondCancel(c)
      <3>1. calls[c] \in Call BY DEF TypeOK
      <3>2. \A d \in Slots : d # c => calls'[d] = calls[d]
        BY <2>6 DEF RereadRespondCancel, TypeOK
      <3>3. /\ calls'[c].op = "answerCancel"
            /\ calls'[c].status = IF order.from = "none" THEN "accepted"
                                  ELSE order.from
            /\ calls'[c].ref = order.requestedAt
            /\ calls'[c].seen = calls[c].seen /\ calls'[c].user = calls[c].user
        BY <2>6, <3>1 DEF RereadRespondCancel, TypeOK, Call
      <3>4. calls[c].op = "respondCancel" /\ order' = order /\ clock' = clock
        BY <2>6 DEF RereadRespondCancel
      <3> QED
        BY <3>2, <3>3, <3>4 DEF CancelSound, CancelOps, Active
    <2>7. CASE RespondCancel(c)
      <3>1. calls[c].status # "cancel_requested"
        BY <2>7, FinishType DEF RespondCancel, WellFormed, Active
      <3> QED BY <1>0, <2>7, <3>1, FinishKeepsCancel
              DEF RespondCancel, Update, Order
    <2>8. CASE MarkCompleted(c)
      BY <1>0, <2>8, FinishKeepsCancel DEF MarkCompleted, Update, Order
    <2>9. CASE AdvanceStage(c)
      BY <1>0, <2>9, FinishKeepsCancel DEF AdvanceStage, Update, Order
    <2>10. CASE EarlyComplete(c)
      BY <1>0, <2>10, FinishKeepsCancel DEF EarlyComplete, Update, Order
    <2>11. CASE EarlyShip(c)
      BY <1>0, <2>11, FinishKeepsCancel DEF EarlyShip, Update, Order
    <2>12. CASE RequestRepeat(c)
      BY <2>12, FinishKeepsCancel DEF RequestRepeat
    <2>13. CASE RespondRepeat(c)
      BY <2>13, FinishKeepsCancel DEF RespondRepeat
    <2>14. CASE CreateVerifiedReview(c)
      BY <2>14, FinishKeepsCancel DEF CreateVerifiedReview
    <2> QED
      BY <1>4, <2>1, <2>2, <2>3, <2>4, <2>5, <2>6, <2>7, <2>8, <2>9, <2>10,
         <2>11, <2>12, <2>13, <2>14 DEF OrderCall, OtherRead
  <1> QED BY <1>1, <1>2, <1>3, <1>4 DEF Next

LEMMA CancelInit == Init => CancelSound
  <1> SUFFICES ASSUME Init PROVE CancelSound OBVIOUS
  <1>1. order.requestedAt = 0 /\ order.status # "cancel_requested"
    BY DEF Init, NewOrder
  <1>2. \A c \in Slots : calls[c].op = "none"
    BY FreeIsCall DEF Init
  <1> QED BY <1>1, <1>2 DEF Init, CancelSound, CancelOps

LEMMA CancelInvariant ==
  ASSUME ~SameSecond
  PROVE  Spec => [](TypeOK /\ CancelSound)
  <1>1. Init => TypeOK /\ CancelSound BY TypeInit, CancelInit
  <1>2. TypeOK /\ CancelSound /\ [Next]_orderVars => (TypeOK /\ CancelSound)'
    BY TypeStep, CancelStep
  <1> QED BY <1>1, <1>2, PTL DEF Spec

(* A cancel request that is turned down gives back the status it was made  *)
(* in: the answer that applies holds the current timestamp, hence the      *)
(* current status to go back to.                                           *)
THEOREM StatusRestored ==
  ASSUME ~SameSecond
  PROVE  Spec => RestoredStatus
  <1>1. TypeOK /\ CancelSound /\ [Next]_orderVars =>
           [order.status = "cancel_requested"
              => order'.status \in {"cancel_requested", "cancelled", order.from}
           ]_orderVars
    <2> SUFFICES ASSUME TypeOK, CancelSound, Next,
                        order.status = "cancel_requested"
                 PROVE  order'.status
                          \in {"cancel_requested", "cancelled", order.from}
      OBVIOUS
    <2>1. order \in Order BY DEF TypeOK
    <2>2. CASE NextDay \/ ChangeDates \/ Restart
      BY <2>2 DEF NextDay, ChangeDates, Restart
    <2>3. ASSUME NEW c \in Slots, OrderCall(c)
          PROVE  order'.status
                   \in {"cancel_requested", "cancelled", order.from}
      <3>1. WellFormed(calls[c]) BY DEF TypeOK
      <3>2. CASE order' = order BY <3>2
      <3>3. CASE Respond(c) BY <3>3, <2>1 DEF Respond, Update, Order
      <3>4. CASE UpdateStatus(c)
        BY <3>1, <3>4, <2>1
        DEF UpdateStatus, Update, Order, WellFormed, AllowedFrom, Finish
      <3>5. CASE RequestCancel(c)
        BY <3>5, <2>1 DEF RequestCancel, Order
      <3>6. CASE RespondCancel(c)
        <4>1. calls[c].op = "answerCancel"
          BY <3>6 DEF RespondCancel, Finish
        <4>2. CASE order.requestedAt = calls[c].ref
          <5>1. calls[c].status = order.from
            BY <4>1, <4>2 DEF CancelSound
          <5> QED BY <3>6, <5>1, <2>1 DEF RespondCancel, Update, Order
        <4>3. CASE order.requestedAt # calls[c].ref
          BY <3>6, <4>3 DEF RespondCancel, Update
        <4> QED BY <4>2, <4>3
      <3>7. CASE MarkCompleted(c)
        BY <3>7, <2>1 DEF MarkCompleted, Update, Order, Active
      <3>8. CASE AdvanceStage(c)
        BY <3>8, <2>1 DEF AdvanceStage, Update, Order
      <3>9. CASE EarlyComplete(c) \/ EarlyShip(c)
        BY <3>9, <2>1 DEF EarlyComplete, EarlyShip, Update, Order
      <3> QED
        BY <2>3, <3>2, <3>3, <3>4, <3>5, <3>6, <3>7, <3>8, <3>9
        DEF OrderCall, Read, ReadRespond, ReadUpdateStatus, ReadRequestCancel,
            ReadRespondCancel, RereadRespondCancel, ReadMarkCompleted,
            ReadAdvanceStage, ReadEarly, ReadRequestRepeat, RequestRepeat,
            ReadRespondRepeat, RespondRepeat, ReadReview, CreateVerifiedReview
    <2> QED BY <2>2, <2>3 DEF Next
  <1> QED BY <1>1, CancelInvariant, PTL DEF Spec, RestoredStatus

(* An answer that applies to the answerer's own request comes from a call  *)
(* whose check saw an earlier request.                                     *)
THEOREM OwnAnswerExplained ==
  ASSUME ~SameSecond
  PROVE  Spec => OwnAnswerOnlyAfterAnother
  <1>1. TypeOK /\ CancelSound /\ [Next]_orderVars =>
           [\A c \in Slots : Acts(c) /\ calls[c].op = "answerCancel"
               => calls[c].user # order.by \/ calls[c].seen # order.requestedAt
           ]_orderVars
    <2> SUFFICES ASSUME TypeOK, CancelSound, Next, NEW c \in Slots, Acts(c),
                        calls[c].op = "answerCancel"
                 PROVE  calls[c].user # order.by
                          \/ calls[c].seen # order.requestedAt
      OBVIOUS
    <2>1. order.status = "cancel_requested"
      <3> SUFFICES ASSUME order.status # "cancel_requested" PROVE FALSE
        OBVIOUS
      <3>1. calls[c] # calls'[c] /\ order' # order BY DEF Acts
      <3>2. PICK d \in Slots : OrderCall(d)
        BY <3>1 DEF Next, NextDay, ChangeDates, Restart
      <3>3. PICK op : Finish(d, op) /\ op # "answerCancel"
        BY <3>1, <3>2
        DEF OrderCall, Read, ReadRespond, ReadUpdateStatus, ReadRequestCancel,
            ReadRespondCancel, RereadRespondCancel, ReadMarkCompleted,
            ReadAdvanceStage, ReadEarly, ReadRequestRepeat, RequestRepeat,
            ReadRespondRepeat, RespondRepeat, ReadReview, CreateVerifiedReview,
            Respond, UpdateStatus, RequestCancel, RespondCancel, Update,
            MarkCompleted, AdvanceStage, EarlyComplete, EarlyShip
      <3>4. c = d
        BY <3>1, <3>3 DEF Finish, TypeOK
      <3> QED BY <3>3, <3>4 DEF Finish
    <2> QED BY <2>1 DEF CancelSound, CancelOps
  <1> QED BY <1>1, CancelInvariant, PTL DEF Spec, OwnAnswerOnlyAfterAnother

-----------------------------------------------------------------------------
(* Until it is accepted an order has neither a stage nor a history, also   *)
(* while its cancellation is asked for: what lets the accepting UPDATE set *)
(* the first stage without looking.                                        *)
Untouched ==
    \/ order.status = "pending"
    \/ order.status = "cancel_requested" /\ order.from = "pending"
    => history = <<>> /\ order.stage = NoStage

StageInv == StageLogged /\ Untouched

Legal(from, to) ==
    \/ from \in DOMAIN NextStage /\ to = NextStage[from]
    \/ from \in {NoStage, "awaiting_final_payment"} /\ to = "completed"

(* A legal move away from the current stage extends the chain.             *)
LEMMA LogExtends ==
  ASSUME TypeOK, StageLogged, NEW from, NEW to, from = order.stage,
         Legal(from, to), Log(from, to), order'.stage = to
  PROVE  StageLogged'
  <1> DEFINE H == [from : Stages \cup {NoStage}, to : Stages]
             n == Len(history)
  <1>1. history \in Seq(H) /\ n \in Nat
    BY DEF TypeOK
  <1>2. /\ Len(history') = n + 1
        /\ history'[n + 1] = [from |-> from, to |-> to]
        /\ \A i \in 1..n : history'[i] = history[i]
        /\ history' # <<>>
    BY <1>1 DEF Log
  <1>3. n # 0 => from = history[n].to
    BY <1>1 DEF StageLogged, Ends
  <1>4. order'.stage = Ends(history')
    BY <1>2 DEF Ends
  <1>5. ASSUME NEW i \in 1..(n + 1)
        PROVE  /\ i > 1 => history'[i].from = history'[i - 1].to
               /\ Legal(history'[i].from, history'[i].to)
    <2>1. CASE i = n + 1
      <3>1. history'[i].from = from /\ history'[i].to = to
        BY <1>2, <2>1
      <3>2. ASSUME i > 1 PROVE history'[i].from = history'[i - 1].to
        <4>1. n # 0 /\ i - 1 = n /\ n \in 1..n
          BY <1>1, <2>1, <3>2
        <4> QED BY <1>2, <1>3, <3>1, <4>1
      <3> QED BY <3>1, <3>2
    <2>2. CASE i # n + 1
      <3>1. i \in 1..n /\ history'[i] = history[i]
        BY <1>1, <1>2, <2>2
      <3>2. i > 1 => i - 1 \in 1..n /\ history'[i - 1] = history[i - 1]
        BY <1>1, <1>2, <3>1
      <3>3. Legal(history[i].from, history[i].to)
        BY <3>1 DEF StageLogged, Legal
      <3> QED BY <3>1, <3>2, <3>3 DEF StageLogged
    <2> QED BY <2>1, <2>2
  <1> QED BY <1>2, <1>4, <1>5 DEF StageLogged, Legal

LEMMA StageStep ==
  ASSUME ~SameSecond, TypeOK, CancelSound, StageInv, [Next]_orderVars
  PROVE  StageInv'
  <1>0. order \in Order BY DEF TypeOK
  <1> USE DEF StageInv
  <1>1. ASSUME history' = history, order'.stage = order.stage
        PROVE  StageLogged'
    BY <1>1 DEF StageLogged, Ends
  <1>2. CASE order' = order /\ history' = history
    BY <1>1, <1>2 DEF Untouched
  <1>3. ASSUME NEW c \in Slots, OrderCall(c) PROVE StageInv'
    <2>1. WellFormed(calls[c]) BY DEF TypeOK
    <2>2. CASE Respond(c)
      <3>1. CASE order.status = "pending"
        <4>1. history' = <<>> /\ order'.stage \in {NoStage, "awaiting_deposit"}
                /\ order'.status \in {"accepted", "rejected"}
          BY <1>0, <2>2, <3>1 DEF Respond, Update, Untouched, Order
        <4> QED BY <4>1 DEF StageLogged, Untouched
      <3>2. CASE order.status # "pending"
        BY <1>2, <2>2, <3>2 DEF Respond, Update
      <3> QED BY <3>1, <3>2
    <2>3. CASE UpdateStatus(c)
      <3>1. history' = history /\ order'.stage = order.stage
              /\ (order' = order \/ order'.status \notin
                                       {"pending", "cancel_requested"})
        BY <1>0, <2>1, <2>3
        DEF UpdateStatus, Update, Order, WellFormed, AllowedFrom, Finish
      <3> QED BY <1>1, <3>1 DEF Untouched
    <2>4. CASE RequestCancel(c)
      <3>1. \/ order' = order
            \/ /\ order.status = calls[c].status
               /\ order'.stage = order.stage /\ order'.from = calls[c].status
               /\ order'.status = "cancel_requested"
        BY <1>0, <2>4 DEF RequestCancel, Order
      <3>2. history' = history BY <2>4 DEF RequestCancel
      <3> QED BY <1>1, <3>1, <3>2 DEF Untouched
    <2>5. CASE RespondCancel(c)
      <3>1. CASE order' = order
        BY <1>2, <2>5, <3>1 DEF RespondCancel
      <3>2. CASE order' # order
        <4>1. order.status = "cancel_requested"
                /\ order.requestedAt = calls[c].ref
                /\ calls[c].op = "answerCancel"
          BY <2>5, <3>2 DEF RespondCancel, Update, Finish
        <4>2. calls[c].status = order.from
          BY <4>1 DEF CancelSound
        <4>3. history' = history /\ order'.stage = order.stage
                /\ order'.status \in {"cancelled", order.from}
                /\ order.from # "cancel_requested"
          BY <1>0, <2>5, <4>1, <4>2 DEF RespondCancel, Update, Order, Active
        <4> QED BY <1>1, <4>1, <4>3 DEF Untouched
      <3> QED BY <3>1, <3>2
    <2>6. CASE MarkCompleted(c)
      <3>1. CASE order.status \in Active
                   /\ order.stage \in {NoStage, "awaiting_final_payment"}
        <4>1. order'.stage = "completed" /\ order'.status = "completed"
                /\ Log(order.stage, "completed")
          BY <1>0, <2>6, <3>1 DEF MarkCompleted, Update, Order
        <4> QED BY <3>1, <4>1, LogExtends DEF Legal, Untouched
      <3>2. CASE ~(order.status \in Active
                     /\ order.stage \in {NoStage, "awaiting_final_payment"})
        BY <1>2, <2>6, <3>2 DEF MarkCompleted, Update
      <3> QED BY <3>1, <3>2
    <2>7. CASE AdvanceStage(c)
      <3>1. CASE order.status = "accepted" /\ order.stage = calls[c].stage
        <4>1. order.stage \in DOMAIN NextStage
          BY <2>1, <2>7, <3>1 DEF WellFormed, AdvanceStage, Finish
        <4>2. order'.stage = NextStage[order.stage]
                /\ order'.status = "accepted"
                /\ Log(order.stage, NextStage[order.stage])
          BY <1>0, <2>7, <3>1 DEF AdvanceStage, Update, Order
        <4> QED BY <4>1, <4>2, LogExtends DEF Legal, Untouched
      <3>2. CASE ~(order.status = "accepted" /\ order.stage = calls[c].stage)
        BY <1>2, <2>7, <3>2 DEF AdvanceStage, Update
      <3> QED BY <3>1, <3>2
    <2>8. CASE EarlyComplete(c) \/ EarlyShip(c)
      <3>1. history' = history /\ order'.stage = order.stage
              /\ order'.status = order.status /\ order'.from = order.from
        BY <1>0, <2>8 DEF EarlyComplete, EarlyShip, Update, Order
      <3> QED BY <1>1, <3>1 DEF Untouched
    <2> QED
      BY <1>2, <1>3, <2>2, <2>3, <2>4, <2>5, <2>6, <2>7, <2>8
      DEF OrderCall, Read, ReadRespond, ReadUpdateStatus, ReadRequestCancel,
          ReadRespondCancel, RereadRespondCancel, ReadMarkCompleted,
          ReadAdvanceStage, ReadEarly, ReadRequestRepeat, RequestRepeat,
          ReadRespondRepeat, RespondRepeat, ReadReview, CreateVerifiedReview
  <1> QED BY <1>2, <1>3 DEF Next, NextDay, ChangeDates, Restart, orderVars

LEMMA StageInit == Init => StageInv
  BY DEF Init, NewOrder, StageInv, StageLogged, Untouched

(* The history is a chain of legal stages that ends with the current one.  *)
THEOREM HistoryMatchesStage ==
  ASSUME ~SameSecond
  PROVE  Spec => []StageLogged
  <1>1. Init => StageInv BY StageInit
  <1>2. TypeOK /\ CancelSound /\ StageInv /\ [Next]_orderVars => StageInv'
    BY StageStep
  <1>3. StageInv => StageLogged BY DEF StageInv
  <1> QED BY <1>1, <1>2, <1>3, CancelInvariant, PTL DEF Spec
-----------------------------------------------------------------------------
(* What is derived from an order is as it must be, and a request for more  *)
(* of it is in flight only if the order was, and so is, completed.         *)
MoreOps == {"requestRepeat", "createVerifiedReview"}

DerivedSound ==
    /\ DerivedOnce
    /\ \A c \in Slots : calls[c].op \in MoreOps => order.status = "completed"

AcceptedIn(s) == {i \in DOMAIN s : s[i] = "accepted"}

(* A step that changes none of it.                                         *)
LEMMA NoneDerived ==
  ASSUME TypeOK, DerivedSound, [Next]_orderVars, UNCHANGED derived,
         \A d \in Slots : calls'[d].op \in MoreOps
              => calls'[d] = calls[d] \/ order'.status = "completed"
  PROVE  DerivedSound'
  <1>1. order.status = "completed" => order'.status = "completed"
    BY ClosedStep DEF Closed
  <1>2. DerivedOnce'
    BY <1>1 DEF DerivedSound, DerivedOnce, derived, PendingIn
  <1> QED BY <1>1, <1>2 DEF DerivedSound

LEMMA ReadKeepsDerived ==
  ASSUME TypeOK, DerivedSound, [Next]_orderVars, NEW c \in Slots, NEW request,
         Read(c, request),
         request.op \in MoreOps => order.status = "completed"
  PROVE  DerivedSound'
  <1>1. \A d \in Slots : calls'[d] = IF d = c THEN request ELSE calls[d]
    BY DEF Read, TypeOK
  <1> QED BY <1>1, NoneDerived DEF Read

LEMMA FinishKeepsDerived ==
  ASSUME TypeOK, DerivedSound, [Next]_orderVars, NEW c \in Slots, NEW op,
         Finish(c, op), UNCHANGED derived
  PROVE  DerivedSound'
  <1>1. \A d \in Slots : calls'[d] = IF d = c THEN Free ELSE calls[d]
    BY FinishType
  <1>2. Free.op \notin MoreOps BY FreeIsCall DEF MoreOps
  <1> QED BY <1>1, <1>2, NoneDerived

(* The end of a call that changes what is derived.                         *)
LEMMA DerivedEnd ==
  ASSUME DerivedSound, TypeOK, NEW c \in Slots, NEW op, Finish(c, op), order' = order,
         DerivedOnce'
  PROVE  DerivedSound'
  <1>1. \A d \in Slots : calls'[d] = IF d = c THEN Free ELSE calls[d]
    BY FinishType
  <1>2. Free.op \notin MoreOps BY FreeIsCall DEF MoreOps
  <1> QED BY <1>1, <1>2 DEF DerivedSound

LEMMA RepeatsFinite ==
  ASSUME TypeOK
  PROVE  /\ IsFiniteSet(PendingIn(repeats)) /\ IsFiniteSet(AcceptedIn(repeats))
         /\ DOMAIN repeats = 1..Len(repeats) /\ Len(repeats) \in Nat
  <1>1. DOMAIN repeats = 1..Len(repeats) /\ Len(repeats) \in Nat
    BY DEF TypeOK
  <1>2. IsFiniteSet(1..Len(repeats))
    BY <1>1, FS_Interval
  <1>3. PendingIn(repeats) \subseteq 1..Len(repeats) /\ AcceptedIn(repeats) \subseteq 1..Len(repeats)
    BY <1>1 DEF PendingIn, AcceptedIn
  <1> QED BY <1>1, <1>2, <1>3, FS_Subset

LEMMA RequestRepeatDerived ==
  ASSUME TypeOK, DerivedSound, NEW c \in Slots, RequestRepeat(c)
  PROVE  DerivedSound'
  <1>1. order.status = "completed"
    BY DEF RequestRepeat, Finish, DerivedSound, MoreOps
  <1>2. CASE repeats' = repeats
    BY <1>1, <1>2, DerivedEnd
    DEF RequestRepeat, DerivedSound, DerivedOnce, PendingIn
  <1>3. CASE repeats' = Append(repeats, "pending") /\ PendingIn(repeats) = {}
    <2> DEFINE n == Len(repeats)
    <2>1. n \in Nat /\ DOMAIN repeats = 1..n /\ repeats \in Seq({"pending", "accepted", "rejected"})
      BY RepeatsFinite DEF TypeOK
    <2>2. /\ DOMAIN repeats' = 1..(n + 1) /\ repeats'[n + 1] = "pending"
          /\ \A i \in 1..n : repeats'[i] = repeats[i]
          /\ \A i \in 1..(n + 1) : i = n + 1 \/ i \in 1..n
          /\ n + 1 \in 1..(n + 1) /\ 1..n \subseteq 1..(n + 1)
      BY <1>3, <2>1
    <2>3. \A i \in 1..n : repeats[i] # "pending"
      BY <1>3, <2>1 DEF PendingIn
    <2> HIDE DEF n
    <2>4. PendingIn(repeats') = {n + 1}
      BY <2>2, <2>3 DEF PendingIn
    <2>5. AcceptedIn(repeats') = AcceptedIn(repeats)
      BY <2>1, <2>2 DEF AcceptedIn
    <2>6. Cardinality(PendingIn(repeats')) <= 1
      <3>1. Cardinality({n + 1}) = 1
        BY FS_Singleton
      <3> QED BY <2>4, <3>1
    <2>7. copies' = Cardinality(AcceptedIn(repeats'))
      BY <2>5 DEF RequestRepeat, DerivedSound, DerivedOnce, AcceptedIn
    <2>8. DerivedOnce'
      BY <1>1, <2>6, <2>7
      DEF RequestRepeat, DerivedSound, DerivedOnce, PendingIn, AcceptedIn
    <2> QED BY <2>8, DerivedEnd DEF RequestRepeat
  <1> QED BY <1>2, <1>3 DEF RequestRepeat

LEMMA RespondRepeatDerived ==
  ASSUME TypeOK, DerivedSound, NEW c \in Slots, RespondRepeat(c)
  PROVE  DerivedSound'
  <1> DEFINE i == calls[c].ref
             to == calls[c].to
  <1>1. CASE repeats' = repeats /\ copies' = copies
    BY <1>1, DerivedEnd DEF RespondRepeat, DerivedSound, DerivedOnce, PendingIn
  <1>2. CASE /\ i \in PendingIn(repeats) /\ repeats' = [repeats EXCEPT ![i] = to]
             /\ copies' = copies + IF to = "accepted" THEN 1 ELSE 0
    <2>1. to \in {"accepted", "rejected"}
      BY FinishType DEF RespondRepeat, WellFormed
    <2>2. i \in DOMAIN repeats /\ repeats[i] = "pending"
      BY <1>2 DEF PendingIn
    <2>3. /\ DOMAIN repeats' = DOMAIN repeats /\ repeats'[i] = to
          /\ \A k \in DOMAIN repeats : k # i => repeats'[k] = repeats[k]
      BY <1>2, <2>2
    <2>4. IsFiniteSet(PendingIn(repeats)) /\ IsFiniteSet(AcceptedIn(repeats))
      BY RepeatsFinite
    <2> HIDE DEF i, to
    <2>5. PendingIn(repeats') \subseteq PendingIn(repeats)
      BY <2>1, <2>2, <2>3 DEF PendingIn
    <2>6. Cardinality(PendingIn(repeats')) <= 1
      <3>1. /\ Cardinality(PendingIn(repeats')) <= Cardinality(PendingIn(repeats))
            /\ IsFiniteSet(PendingIn(repeats'))
        BY <2>4, <2>5, FS_Subset
      <3>2. Cardinality(PendingIn(repeats')) \in Nat /\ Cardinality(PendingIn(repeats)) \in Nat
        BY <2>4, <3>1, FS_CardinalityType
      <3> QED BY <3>1, <3>2 DEF DerivedSound, DerivedOnce
    <2>7. copies' = Cardinality(AcceptedIn(repeats'))
      <3>1. copies = Cardinality(AcceptedIn(repeats)) /\ copies \in Nat
        BY DEF DerivedSound, DerivedOnce, AcceptedIn, TypeOK
      <3>2. i \notin AcceptedIn(repeats)
        BY <2>2 DEF AcceptedIn
      <3>3. CASE to = "accepted"
        <4>1. AcceptedIn(repeats') = AcceptedIn(repeats) \cup {i}
          BY <2>2, <2>3, <3>3 DEF AcceptedIn
        <4>2. Cardinality(AcceptedIn(repeats) \cup {i}) = Cardinality(AcceptedIn(repeats)) + 1
          BY <2>4, <3>2, FS_AddElement
        <4> QED BY <1>2, <3>1, <3>3, <4>1, <4>2
      <3>4. CASE to = "rejected"
        <4>1. AcceptedIn(repeats') = AcceptedIn(repeats)
          BY <2>2, <2>3, <3>4 DEF AcceptedIn
        <4> QED BY <1>2, <3>1, <3>4, <4>1
      <3> QED BY <2>1, <3>3, <3>4
    <2>8. repeats # <<>>
      BY <2>2
    <2>9. DerivedOnce'
      BY <2>6, <2>7, <2>8
      DEF RespondRepeat, DerivedSound, DerivedOnce, PendingIn, AcceptedIn
    <2> QED BY <2>9, DerivedEnd DEF RespondRepeat
  <1> QED BY <1>1, <1>2 DEF RespondRepeat

LEMMA ReviewDerived ==
  ASSUME TypeOK, DerivedSound, NEW c \in Slots, CreateVerifiedReview(c)
  PROVE  DerivedSound'
  <1>1. order.status = "completed"
    BY DEF CreateVerifiedReview, Finish, DerivedSound, MoreOps
  <1>2. DerivedOnce'
    BY <1>1 DEF CreateVerifiedReview, DerivedSound, DerivedOnce, PendingIn
  <1> QED BY <1>2, DerivedEnd DEF CreateVerifiedReview

LEMMA DerivedInit == Init => DerivedSound
  <1> SUFFICES ASSUME Init PROVE DerivedSound OBVIOUS
  <1>1. repeats = <<>> /\ copies = 0 /\ reviews = 0
    BY DEF Init
  <1>2. PendingIn(repeats) = {} /\ AcceptedIn(repeats) = {}
    BY <1>1 DEF PendingIn, AcceptedIn
  <1>3. Cardinality({}) = 0
    BY FS_EmptySet
  <1>4. DerivedOnce
    <2>1. Cardinality(PendingIn(repeats)) = 0 /\ Cardinality(AcceptedIn(repeats)) = 0
      BY <1>2, <1>3
    <2> QED BY <1>1, <2>1 DEF DerivedOnce, AcceptedIn
  <1>5. \A c \in Slots : calls[c].op = "none"
    BY FreeIsCall DEF Init
  <1> QED BY <1>4, <1>5 DEF DerivedSound, MoreOps

LEMMA DerivedStep == TypeOK /\ DerivedSound /\ [Next]_orderVars => DerivedSound'
  <1> SUFFICES ASSUME TypeOK, DerivedSound, [Next]_orderVars PROVE DerivedSound'
    OBVIOUS
  <1>1. CASE NextDay \/ ChangeDates \/ UNCHANGED orderVars
    BY <1>1, NoneDerived DEF NextDay, ChangeDates, orderVars, derived
  <1>2. CASE Restart
    <2>1. \A d \in Slots : calls'[d].op \notin MoreOps
      BY <1>2, FreeIsCall DEF Restart, MoreOps
    <2> QED BY <1>2, <2>1, NoneDerived DEF Restart
  <1>3. ASSUME NEW c \in Slots, OrderCall(c) PROVE DerivedSound'
    <2>0. Buyer \in Users /\ Staff \subseteq Users BY DEF Users
    <2>1. CASE OtherRead(c)
      <3>1. CASE ReadRequestRepeat(c) \/ ReadReview(c)
        <4>1. order.status = "completed" /\ \E request : Read(c, request)
          BY <3>1 DEF ReadRequestRepeat, ReadReview
        <4> QED BY <4>1, ReadKeepsDerived
      <3>2. \A u \in Users, op \in {"respond", "updateStatus", "requestCancel",
                   "markCompleted", "advanceStage", "earlyComplete",
                   "earlyShip", "respondRepeat"},
               to \in {"none", "accepted", "acceptedAsFactory", "rejected",
                       "in_progress", "shipped", "completed"} :
               LET r == Request(op, u, to)
               IN  /\ r.op \notin MoreOps
                   /\ \A x : /\ [r EXCEPT !.status = x].op \notin MoreOps
                             /\ [r EXCEPT !.stage = x].op \notin MoreOps
                             /\ [r EXCEPT !.ref = x].op \notin MoreOps
        BY DEF Request, Free, MoreOps
      <3>3. CASE ReadRespond(c) \/ ReadEarly(c)
        <4>1. \E request : Read(c, request) /\ request.op \notin MoreOps
          BY <2>0, <3>2, <3>3 DEF ReadRespond, ReadEarly
        <4> QED BY <4>1, ReadKeepsDerived
      <3>5. CASE ReadMarkCompleted(c)
        <4>1. PICK u \in Staff : Read(c, Completion(u))
          BY <3>5 DEF ReadMarkCompleted, Completion
        <4>2. Completion(u).op \notin MoreOps
          BY <2>0, CompletionType DEF MoreOps
        <4> QED BY <4>1, <4>2, ReadKeepsDerived
      <3>4. CASE \/ ReadUpdateStatus(c) \/ ReadRequestCancel(c)
                 \/ ReadAdvanceStage(c) \/ ReadRespondRepeat(c)
        <4>1. \E request : Read(c, request) /\ request.op \notin MoreOps
          BY <2>0, <3>2, <3>4
          DEF ReadUpdateStatus, ReadRequestCancel, ReadAdvanceStage,
              ReadRespondRepeat, AllowedFrom
        <4> QED BY <4>1, ReadKeepsDerived
      <3> QED BY <2>1, <3>1, <3>3, <3>4, <3>5 DEF OtherRead
    <2>2. CASE ReadRespondCancel(c)
      <3>1. \A x : \A u \in Users, to \in {"accept", "reject"} :
               [Request("respondCancel", u, to) EXCEPT !.seen = x].op \notin MoreOps
        BY DEF Request, Free, MoreOps
      <3>2. \E request : Read(c, request) /\ request.op \notin MoreOps
        BY <2>2, <3>1 DEF ReadRespondCancel
      <3> QED BY <3>2, ReadKeepsDerived
    <2>3. CASE RereadRespondCancel(c)
      <3>1. \A d \in Slots : calls'[d] = calls[d] \/ calls'[d].op = "answerCancel"
        BY <2>3 DEF RereadRespondCancel, TypeOK, Call
      <3> QED BY <2>3, <3>1, NoneDerived DEF RereadRespondCancel, MoreOps
    <2>4. CASE \/ Respond(c) \/ UpdateStatus(c) \/ RequestCancel(c)
               \/ RespondCancel(c) \/ MarkCompleted(c) \/ AdvanceStage(c)
               \/ EarlyComplete(c) \/ EarlyShip(c)
      BY <2>4, FinishKeepsDerived
      DEF Respond, UpdateStatus, RequestCancel, RespondCancel, MarkCompleted,
          AdvanceStage, EarlyComplete, EarlyShip, Update
    <2>5. CASE RequestRepeat(c) \/ RespondRepeat(c) \/ CreateVerifiedReview(c)
      BY <2>5, RequestRepeatDerived, RespondRepeatDerived, ReviewDerived
    <2> QED BY <1>3, <2>1, <2>2, <2>3, <2>4, <2>5 DEF OrderCall, OtherRead
  <1> QED BY <1>1, <1>2, <1>3 DEF Next

(* However many requests are in flight: only a completed order has repeat  *)
(* requests and a review, one of each at most is open, and every repeat    *)
(* request that was accepted made exactly one order.                       *)
THEOREM DerivedCorrect == Spec => []DerivedOnce
  <1>1. DerivedSound => DerivedOnce BY DEF DerivedSound
  <1> QED BY <1>1, TypeInit, TypeStep, DerivedInit, DerivedStep, PTL DEF Spec
-----------------------------------------------------------------------------
(* What a completion in flight saw due stays so: days pass, an early       *)
(* shipment is not taken back, and the date it read travels with it while  *)
(* the order's own may move.                                               *)
DueAsRead(call) == order.earlyShipped \/ call.ref \in 1..today

DueSound == \A c \in Slots : calls[c].op = "markCompleted" => DueAsRead(calls[c])

LEMMA DueStays ==
  ASSUME TypeOK, [Next]_orderVars, NEW call \in Call, DueAsRead(call)
  PROVE  DueAsRead(call)'
  <1>0. order \in Order BY DEF TypeOK
  <1>1. order.earlyShipped => order'.earlyShipped
    <2> SUFFICES ASSUME order.earlyShipped PROVE order'.earlyShipped OBVIOUS
    <2>1. CASE order' = order BY <2>1
    <2>2. ASSUME NEW c \in Slots, OrderCall(c), order' # order PROVE order'.earlyShipped
      <3>1. \/ Respond(c) \/ UpdateStatus(c) \/ RequestCancel(c)
            \/ RespondCancel(c) \/ MarkCompleted(c) \/ AdvanceStage(c)
            \/ EarlyComplete(c) \/ EarlyShip(c)
        BY <2>2
        DEF OrderCall, Read, ReadRespond, ReadUpdateStatus, ReadRequestCancel,
            ReadRespondCancel, RereadRespondCancel, ReadMarkCompleted,
            ReadAdvanceStage, ReadEarly, ReadRequestRepeat, RequestRepeat,
            ReadRespondRepeat, RespondRepeat, ReadReview, CreateVerifiedReview
      <3>2. CASE Respond(c) \/ UpdateStatus(c) \/ RequestCancel(c) \/ RespondCancel(c)
        BY <1>0, <3>2 DEF Respond, UpdateStatus, RequestCancel, RespondCancel, Update, Order
      <3>3. CASE MarkCompleted(c) \/ AdvanceStage(c) \/ EarlyComplete(c) \/ EarlyShip(c)
        BY <1>0, <3>3 DEF MarkCompleted, AdvanceStage, EarlyComplete, EarlyShip, Update, Order
      <3> QED BY <3>1, <3>2, <3>3
    <2> QED BY <2>1, <2>2 DEF Next, NextDay, ChangeDates, Restart, orderVars
  <1>2. today' = today \/ today' = today + 1
    BY DEF Next, OrderCall, NextDay, ChangeDates, Restart, orderVars, Finish, Read,
           ReadRespond, ReadUpdateStatus, ReadRequestCancel, ReadRespondCancel,
           RereadRespondCancel, ReadMarkCompleted, ReadAdvanceStage, ReadEarly,
           ReadRequestRepeat, ReadRespondRepeat, ReadReview, Respond,
           UpdateStatus, RequestCancel, RespondCancel, MarkCompleted,
           AdvanceStage, EarlyComplete, EarlyShip, RequestRepeat, RespondRepeat,
           CreateVerifiedReview
  <1>3. call.ref \in 1..today => call.ref \in 1..today'
    BY <1>2 DEF TypeOK
  <1> QED BY <1>1, <1>3 DEF DueAsRead

LEMMA DueStep == TypeOK /\ DueSound /\ [Next]_orderVars => DueSound'
  <1> SUFFICES ASSUME TypeOK, DueSound, [Next]_orderVars,
                      NEW d \in Slots, calls'[d].op = "markCompleted",
                      ~DueAsRead(calls[d])' 
               PROVE  FALSE
    BY DEF DueSound
  <1>1. calls'[d] # calls[d] /\ calls'[d] # Free
    <2>1. calls[d] \in Call
      BY DEF TypeOK
    <2>2. ASSUME calls'[d] = calls[d] PROVE FALSE
      <3>1. DueAsRead(calls[d])
        BY <2>2 DEF DueSound
      <3>2. PICK call \in Call : call = calls[d]
        BY <2>1
      <3>3. DueAsRead(call)'
        BY <3>1, <3>2, DueStays
      <3> QED BY <2>2, <3>2, <3>3 DEF DueAsRead
    <2> QED BY <2>2, FreeIsCall
  <1>2. PICK c \in Slots : OrderCall(c)
    BY <1>1 DEF Next, NextDay, ChangeDates, Restart, orderVars
  <1>3. ASSUME NEW op, Finish(c, op) PROVE FALSE
    BY <1>1, <1>3, FinishType
  <1>4. ASSUME NEW request, Read(c, request), request.op # "markCompleted" PROVE FALSE
    <2>1. calls'[d] = IF d = c THEN request ELSE calls[d]
      BY <1>4 DEF Read, TypeOK
    <2> QED BY <1>1, <1>4, <2>1
  <1>5. CASE RereadRespondCancel(c)
    <2>1. calls'[d] = calls[d] \/ calls'[d].op = "answerCancel"
      BY <1>5 DEF RereadRespondCancel, TypeOK, Call
    <2> QED BY <1>1, <2>1
  <1>6. CASE ReadRespondCancel(c)
    <2>1. \A x : \A u \in Users, to \in {"accept", "reject"} :
             [Request("respondCancel", u, to) EXCEPT !.seen = x].op = "respondCancel"
      BY DEF Request, Free
    <2>2. \E request : Read(c, request) /\ request.op # "markCompleted"
      BY <1>6, <2>1 DEF ReadRespondCancel
    <2> QED BY <1>4, <2>2
  <1>7. CASE ReadMarkCompleted(c)
    <2>1. PICK u \in Staff : Read(c, Completion(u))
      BY <1>7 DEF ReadMarkCompleted, Completion
    <2>2. calls'[d] = Completion(u) /\ order' = order /\ today' = today
      BY <1>1, <2>1 DEF Read, TypeOK
    <2>3. calls'[d].ref = dates[Final] /\ dates[Final] \in Nat
      BY <2>2, CompletionType, OrderAssumption
      DEF OrderAssumption, TypeOK, Dates, Fields, Final, Users
    <2>4. order.earlyShipped \/ dates[Final] \in 1..today
      BY <1>7, <2>3 DEF ReadMarkCompleted, PaymentDue, TypeOK
    <2> QED BY <2>2, <2>3, <2>4 DEF DueAsRead
  <1>8. ASSUME NEW u, NEW to, NEW op \in {"respond", "updateStatus", "requestCancel",
                   "advanceStage", "earlyComplete", "earlyShip",
                   "requestRepeat", "respondRepeat", "createVerifiedReview"}
        PROVE  LET r == Request(op, u, to)
               IN  /\ r.op # "markCompleted"
                   /\ \A x : /\ [r EXCEPT !.status = x].op # "markCompleted"
                             /\ [r EXCEPT !.stage = x].op # "markCompleted"
                             /\ [r EXCEPT !.ref = x].op # "markCompleted"
    BY DEF Request, Free
  <1>9. CASE ReadRespond(c) \/ ReadEarly(c) \/ ReadRequestRepeat(c) \/ ReadReview(c)
    <2>1. \E request : Read(c, request) /\ request.op # "markCompleted"
      BY <1>8, <1>9 DEF ReadRespond, ReadEarly, ReadRequestRepeat, ReadReview
    <2> QED BY <1>4, <2>1
  <1>10. CASE \/ ReadUpdateStatus(c) \/ ReadRequestCancel(c)
              \/ ReadAdvanceStage(c) \/ ReadRespondRepeat(c)
    <2>1. CASE ReadUpdateStatus(c)
      <3>1. PICK u \in Staff, to \in DOMAIN AllowedFrom : Read(c, [Request("updateStatus", u, to) EXCEPT !.status = order.status])
        BY <2>1 DEF ReadUpdateStatus
      <3>2. [Request("updateStatus", u, to) EXCEPT !.status = order.status].op # "markCompleted"
        BY <1>8
      <3> QED BY <1>4, <3>1, <3>2
    <2>2. CASE ReadRequestCancel(c)
      <3>1. PICK u \in Users : Read(c, [Request("requestCancel", u, "none") EXCEPT !.status = order.status])
        BY <2>2 DEF ReadRequestCancel
      <3>2. [Request("requestCancel", u, "none") EXCEPT !.status = order.status].op # "markCompleted"
        BY <1>8
      <3> QED BY <1>4, <3>1, <3>2
    <2>3. CASE ReadAdvanceStage(c)
      <3>1. PICK u \in Staff : Read(c, [Request("advanceStage", u, "none") EXCEPT !.stage = order.stage])
        BY <2>3 DEF ReadAdvanceStage
      <3>2. [Request("advanceStage", u, "none") EXCEPT !.stage = order.stage].op # "markCompleted"
        BY <1>8
      <3> QED BY <1>4, <3>1, <3>2
    <2>4. CASE ReadRespondRepeat(c)
      <3>1. PICK u \in Staff, i \in PendingIn(repeats), to \in {"accepted", "rejected"} : Read(c, [Request("respondRepeat", u, to) EXCEPT !.ref = i])
        BY <2>4 DEF ReadRespondRepeat
      <3>2. [Request("respondRepeat", u, to) EXCEPT !.ref = i].op # "markCompleted"
        BY <1>8
      <3> QED BY <1>4, <3>1, <3>2
    <2> QED BY <1>10, <2>1, <2>2, <2>3, <2>4
  <1> QED
    BY <1>2, <1>3, <1>5, <1>6, <1>7, <1>9, <1>10
    DEF OrderCall, Respond, UpdateStatus, RequestCancel, RespondCancel,
        MarkCompleted, AdvanceStage, EarlyComplete, EarlyShip, RequestRepeat,
        RespondRepeat, CreateVerifiedReview

(* However long a completion was in flight and whatever date changes were  *)
(* accepted meanwhile: the date it records was due, and it completes an    *)
(* order on a day that the order's own date forbids only if that moved.    *)
THEOREM CompletedDue == Spec => UndueOnlyIfMoved
  <1>1. Init => DueSound
    BY FreeIsCall DEF Init, DueSound
  <1>2. TypeOK /\ DueSound /\ [Next]_orderVars =>
           [\A c \in Slots : Acts(c) /\ calls[c].op = "markCompleted"
               => \/ order.earlyShipped \/ PaymentDue
                  \/ calls[c].ref \in (1..today) \ {dates[Final]}]_orderVars
    BY DEF DueSound, DueAsRead, PaymentDue
  <1> QED
    BY <1>1, <1>2, TypeInit, TypeStep, DueStep, PTL DEF Spec, UndueOnlyIfMoved

---------------------------------------------------------------------------
(* The dates.                                                              *)
USE OrderAssumption DEF OrderAssumption, Null

Change == [status : {"pending", "accepted", "rejected"}, old : Dates, new : Dates]
DateCall == [op : {"none", "request", "respond"}, to : {"none", "accepted", "rejected"},
             ref : Nat, old : Dates, new : Dates]

(* The inductive invariant: merged dates were checked when they were read; *)
(* a request that waits is the last one, since none is made beside it; and *)
(* so an accepted one is later than those accepted before.                 *)
DatesTyped ==
    /\ dates \in Dates
    /\ changes \in Seq(Change)
    /\ dateCalls \in [DateSlots -> DateCall]
    /\ \A d \in DateSlots : dateCalls[d].op = "respond" => dateCalls[d].to # "none"
PendingIsLast == \A i \in Pending : \A j \in DOMAIN changes : j <= i
InForce == Accepted # {} => \E i \in Accepted : /\ \A j \in Accepted : j <= i
                                                /\ dates = changes[i].new
IInv == DatesTyped /\ PendingIsLast /\ InForce

LEMMA NoDatesInOrder == NoDates \in Dates /\ FreeDate \in DateCall /\ FreeDate.op = "none"
<1>1. NoDates \in Dates
  BY DEF NoDates, Dates, InOrder
<1> QED
  BY <1>1 DEF FreeDate, DateCall

LEMMA InitIInv == InitDates => IInv
<1> SUFFICES ASSUME InitDates PROVE IInv
  OBVIOUS
<1>1. changes = <<>> /\ dates \in Dates /\ dateCalls = [d \in DateSlots |-> FreeDate]
  BY DEF InitDates, Init
<1>2. DOMAIN changes = {} /\ changes \in Seq(Change)
  BY <1>1
<1>3. Pending = {} /\ Accepted = {}
  BY <1>2 DEF Pending, Accepted
<1>4. DatesTyped
  BY <1>1, <1>2, NoDatesInOrder DEF DatesTyped
<1> QED
  BY <1>3, <1>4 DEF IInv, PendingIsLast, InForce

(* No request of the order's own touches a date.                           *)
LEMMA OrderKeepsDates ==
    ASSUME NEW c \in Slots, OrderCall(c)
    PROVE  dates' = dates
<1>1. ReadRespond(c) \/ ReadUpdateStatus(c) \/ ReadRequestCancel(c) \/ ReadRespondCancel(c)
        \/ RereadRespondCancel(c) => dates' = dates
  BY DEF ReadRespond, ReadUpdateStatus, ReadRequestCancel, ReadRespondCancel,
         RereadRespondCancel, Read
<1>2. ReadMarkCompleted(c) \/ ReadAdvanceStage(c) \/ ReadEarly(c) \/ ReadRequestRepeat(c)
        \/ ReadRespondRepeat(c) \/ ReadReview(c) => dates' = dates
  BY DEF ReadMarkCompleted, ReadAdvanceStage, ReadEarly, ReadRequestRepeat,
         ReadRespondRepeat, ReadReview, Read
<1>3. Respond(c) \/ UpdateStatus(c) \/ RequestCancel(c) \/ RespondCancel(c) \/ MarkCompleted(c)
        \/ AdvanceStage(c) => dates' = dates
  BY DEF Respond, UpdateStatus, RequestCancel, RespondCancel, MarkCompleted, AdvanceStage, Finish
<1>4. EarlyComplete(c) \/ EarlyShip(c) \/ RequestRepeat(c) \/ RespondRepeat(c)
        \/ CreateVerifiedReview(c) => dates' = dates
  BY DEF EarlyComplete, EarlyShip, RequestRepeat, RespondRepeat, CreateVerifiedReview, Finish
<1> QED
  BY <1>1, <1>2, <1>3, <1>4 DEF OrderCall

(* What leaves the requests and the dates alone keeps the invariant.       *)
LEMMA SameInv ==
    ASSUME IInv, dates' = dates, changes' = changes,
           dateCalls' = dateCalls \/ dateCalls' = [d \in DateSlots |-> FreeDate]
    PROVE  IInv'
<1>1. DatesTyped'
  BY NoDatesInOrder DEF IInv, DatesTyped
<1>2. PendingIsLast' /\ InForce'
  BY DEF IInv, PendingIsLast, InForce, Pending, Accepted
<1> QED
  BY <1>1, <1>2 DEF IInv

(* A request that was read and checked.                                    *)
LEMMA ReadInv ==
    ASSUME IInv, NEW d \in DateSlots, ReadRequestChange(d) \/ ReadRespondChange(d)
    PROVE  IInv'
<1>1. dates' = dates /\ changes' = changes
  BY DEF ReadRequestChange, ReadRespondChange, orderVars
<1>2. \E call \in DateCall : /\ dateCalls' = [dateCalls EXCEPT ![d] = call]
                             /\ call.op = "respond" => call.to # "none"
  <2>1. CASE ReadRequestChange(d)
    <3>1. PICK new \in Dates :
             dateCalls' = [dateCalls EXCEPT ![d] =
                             [FreeDate EXCEPT !.op = "request", !.old = dates, !.new = new]]
      BY <2>1 DEF ReadRequestChange
    <3> DEFINE call == [FreeDate EXCEPT !.op = "request", !.old = dates, !.new = new]
    <3>2. call \in DateCall /\ call.op = "request"
      BY NoDatesInOrder DEF FreeDate, DateCall, IInv, DatesTyped
    <3> QED
      BY <3>1, <3>2
  <2>2. CASE ReadRespondChange(d)
    <3>1. PICK i \in Pending, to \in {"accepted", "rejected"} :
             dateCalls' = [dateCalls EXCEPT ![d] =
                             [FreeDate EXCEPT !.op = "respond", !.to = to, !.ref = i]]
      BY <2>2 DEF ReadRespondChange
    <3> DEFINE call == [FreeDate EXCEPT !.op = "respond", !.to = to, !.ref = i]
    <3>2. i \in Nat
      BY DEF Pending, IInv, DatesTyped
    <3>3. call \in DateCall /\ call.to # "none"
      BY <3>2, NoDatesInOrder DEF FreeDate, DateCall
    <3> QED
      BY <3>1, <3>3
  <2> QED
    BY <2>1, <2>2
<1>3. DatesTyped'
  BY <1>1, <1>2 DEF IInv, DatesTyped
<1>4. PendingIsLast' /\ InForce'
  BY <1>1 DEF IInv, PendingIsLast, InForce, Pending, Accepted
<1> QED
  BY <1>3, <1>4 DEF IInv

(* What the end of a date request leaves.                                  *)
LEMMA FinishDateFacts ==
    ASSUME DatesTyped, NEW d \in DateSlots, NEW op, FinishDate(d, op)
    PROVE  /\ dateCalls[d] \in DateCall /\ dateCalls[d].op = op
           /\ dateCalls' \in [DateSlots -> DateCall]
           /\ \A e \in DateSlots : dateCalls'[e].op = "respond" => dateCalls'[e].to # "none"
BY NoDatesInOrder DEF FinishDate, DatesTyped

LEMMA RequestChangeInv ==
    ASSUME IInv, NEW d \in DateSlots, RequestChange(d)
    PROVE  IInv'
<1> DEFINE asked == [status |-> "pending", old |-> dateCalls[d].old, new |-> dateCalls[d].new]
           n == Len(changes)
<1>1. /\ DatesTyped /\ FinishDate(d, "request") /\ dates' = dates
      /\ \/ changes' = changes
         \/ Pending = {} /\ changes' = Append(changes, asked)
  <2>1. changes' = IF Pending = {} /\ Len(changes) < MaxChanges
                   THEN Append(changes, asked) ELSE changes
    BY DEF RequestChange
  <2>2. CASE Pending = {} /\ Len(changes) < MaxChanges
    BY <2>1, <2>2 DEF RequestChange, IInv
  <2>3. CASE ~(Pending = {} /\ Len(changes) < MaxChanges)
    BY <2>1, <2>3 DEF RequestChange, IInv
  <2> QED
    BY <2>2, <2>3
<1>2. dateCalls[d] \in DateCall /\ dateCalls' \in [DateSlots -> DateCall]
        /\ \A e \in DateSlots : dateCalls'[e].op = "respond" => dateCalls'[e].to # "none"
  BY <1>1, FinishDateFacts
<1>3. CASE changes' = changes
  <2>1. DatesTyped'
    BY <1>1, <1>2, <1>3 DEF DatesTyped
  <2>2. PendingIsLast' /\ InForce'
    BY <1>1, <1>3 DEF IInv, PendingIsLast, InForce, Pending, Accepted
  <2> QED
    BY <2>1, <2>2 DEF IInv
<1>4. CASE Pending = {} /\ changes' = Append(changes, asked)
  <2>1. asked \in Change
    BY <1>2 DEF DateCall, Change
  <2>2. /\ changes' \in Seq(Change) /\ n \in Nat /\ DOMAIN changes = 1..n /\ DOMAIN changes' = 1..(n + 1)
        /\ \A i \in 1..n : changes'[i] = changes[i]
        /\ changes'[n + 1] = asked
    BY <1>1, <1>4, <2>1 DEF DatesTyped
  <2>3. DatesTyped'
    BY <1>1, <1>2, <2>2 DEF DatesTyped
  <2>4. Pending' \subseteq {n + 1} /\ Accepted' = Accepted
    BY <1>4, <2>2 DEF Pending, Accepted
  <2>5. PendingIsLast'
    BY <2>2, <2>4 DEF PendingIsLast
  <2>6. InForce'
    BY <1>1, <2>2, <2>4 DEF IInv, InForce, Accepted
  <2> QED
    BY <2>3, <2>5, <2>6 DEF IInv
<1> QED
  BY <1>1, <1>3, <1>4

LEMMA RespondChangeInv ==
    ASSUME IInv, NEW d \in DateSlots, RespondChange(d)
    PROVE  IInv'
<1> DEFINE i == dateCalls[d].ref
           to == dateCalls[d].to
<1>1. DatesTyped /\ FinishDate(d, "respond")
  BY DEF RespondChange, IInv
<1>2. dateCalls[d] \in DateCall /\ to \in {"accepted", "rejected"} /\ dateCalls' \in [DateSlots -> DateCall]
        /\ \A e \in DateSlots : dateCalls'[e].op = "respond" => dateCalls'[e].to # "none"
  BY <1>1, FinishDateFacts DEF DatesTyped, DateCall
<1>3. CASE i \notin Pending
  <2>1. changes' = changes /\ dates' = dates
    BY <1>3 DEF RespondChange
  <2>2. DatesTyped'
    BY <1>1, <1>2, <2>1 DEF DatesTyped
  <2>3. PendingIsLast' /\ InForce'
    BY <2>1 DEF IInv, PendingIsLast, InForce, Pending, Accepted
  <2> QED
    BY <2>2, <2>3 DEF IInv
<1>4. CASE i \in Pending
  <2>1. /\ changes' = [changes EXCEPT ![i].status = to]
        /\ dates' = IF to = "accepted" THEN changes[i].new ELSE dates
    BY <1>4 DEF RespondChange
  <2>2. /\ i \in DOMAIN changes /\ changes[i].status = "pending"
        /\ \A j \in DOMAIN changes : changes[j] \in Change /\ j \in Nat
    BY <1>1, <1>4 DEF Pending, DatesTyped
  <2>3. /\ DOMAIN changes' = DOMAIN changes
        /\ \A j \in DOMAIN changes : j # i => changes'[j] = changes[j]
        /\ changes'[i] = [changes[i] EXCEPT !.status = to]
    BY <2>1, <2>2
  <2>4. changes'[i] \in Change /\ changes'[i].status = to /\ changes'[i].new = changes[i].new
    BY <1>2, <2>2, <2>3 DEF Change
  <2>5. changes' \in Seq(Change)
    BY <1>1, <2>1, <2>2, <2>4 DEF DatesTyped
  <2>6. dates' \in Dates
    BY <1>1, <2>1, <2>2 DEF DatesTyped, Change
  <2>7. DatesTyped'
    BY <1>2, <2>5, <2>6 DEF DatesTyped
  <2>8. Pending' \subseteq Pending
    BY <1>2, <2>3, <2>4 DEF Pending
  <2>9. PendingIsLast'
    BY <2>3, <2>8 DEF IInv, PendingIsLast
  <2>10. InForce'
    <3>1. CASE to = "accepted"
      <4>1. Accepted' = Accepted \cup {i}
        BY <2>2, <2>3, <2>4, <3>1 DEF Accepted
      <4>2. \A j \in Accepted \cup {i} : j <= i
        BY <1>4, <2>2 DEF IInv, PendingIsLast, Accepted
      <4> QED
        BY <2>1, <2>4, <3>1, <4>1, <4>2 DEF InForce
    <3>2. CASE to = "rejected"
      <4>1. i \notin Accepted /\ changes'[i].status = "rejected"
        BY <2>2, <2>4, <3>2 DEF Accepted
      <4>2. \A j \in DOMAIN changes :
               (changes'[j].status = "accepted") <=> (changes[j].status = "accepted")
        BY <2>2, <2>3, <4>1
      <4>3. Accepted' = Accepted
        BY <2>3, <4>2 DEF Accepted
      <4>4. dates' = dates /\ \A j \in Accepted : changes'[j] = changes[j]
        BY <2>1, <2>3, <3>2, <4>1 DEF Accepted
      <4> QED
        BY <4>3, <4>4 DEF IInv, InForce
    <3> QED
      BY <1>2, <3>1, <3>2
  <2> QED
    BY <2>7, <2>9, <2>10 DEF IInv
<1> QED
  BY <1>3, <1>4

LEMMA NextIInv == IInv /\ [NextDates]_vars => IInv'
<1> SUFFICES ASSUME IInv, NextDates \/ UNCHANGED vars PROVE IInv'
  OBVIOUS
<1>1. CASE OrderMoves
  <2>1. dates' = dates
    BY <1>1, OrderKeepsDates DEF OrderMoves, NextDay
  <2> QED
    BY <1>1, <2>1, SameInv DEF OrderMoves, dateVars
<1>2. CASE DateMoves
  BY <1>2, ReadInv, RequestChangeInv, RespondChangeInv DEF DateMoves
<1>3. CASE CheckMoves
  BY <1>3, SameInv DEF CheckMoves, Scan, LeaveOutNotified, NextNode, Send, Record, NodeDone,
                       orderVars, dateVars
<1>4. CASE RestartAll
  BY <1>4, SameInv DEF RestartAll, Restart
<1>5. CASE UNCHANGED vars
  BY <1>5, SameInv DEF vars, orderVars, dateVars
<1> QED
  BY <1>1, <1>2, <1>3, <1>4, <1>5 DEF NextDates

LEMMA Invariance == SpecDates => []IInv
BY InitIInv, NextIInv, PTL DEF SpecDates

(* The dates are in the order of the process at every moment               *)
(* (validateOrderDateChain), although merged dates are applied long after  *)
(* they were checked.                                                      *)
THEOREM DatesStayInOrder == SpecDates => []DatesInOrder
<1>1. IInv => DatesInOrder
  BY DEF IInv, DatesTyped, Dates, DatesInOrder
<1> QED
  BY <1>1, Invariance, PTL

(* One request waits at most, and the last accepted one is in force        *)
(* (createCollaborationOrderChangeRequest,                                 *)
(* respondCollaborationOrderChangeRequest).                                *)
THEOREM LastAcceptedHolds == SpecDates => []LastAcceptedInForce
<1>1. ASSUME IInv PROVE Cardinality(Pending) <= 1
  <2>1. \A i, j \in Pending : i = j
    BY <1>1 DEF IInv, PendingIsLast, DatesTyped, Pending
  <2>2. CASE Pending = {}
    BY <2>2, FS_EmptySet
  <2>3. CASE Pending # {}
    <3>1. PICK i \in Pending : Pending = {i}
      BY <2>1, <2>3
    <3>2. Cardinality(Pending) = 1
      BY <3>1, FS_Singleton
    <3> QED
      BY <3>2
  <2> QED
    BY <2>2, <2>3
<1>2. IInv => LastAcceptedInForce
  BY <1>1 DEF IInv, InForce, LastAcceptedInForce
<1> QED
  BY <1>2, Invariance, PTL
-----------------------------------------------------------------------------
(* An order that was answered. Its answer is not asked for again, since a  *)
(* cancellation that is turned down gives back the status it was made in:  *)
(* who its overdue mails go to is settled.                                 *)
Decided == order.status # "pending" /\ ~(order.status = "cancel_requested" /\ order.from = "pending")

LEMMA DecidedStays ==
    ASSUME TypeOK, CancelSound, [Next]_orderVars, Decided
    PROVE  Decided' /\ order'.as = order.as
<1>0. order \in Order
  BY DEF TypeOK
<1>1. CASE order' = order
  BY <1>1 DEF Decided
<1>2. ASSUME NEW c \in Slots, OrderCall(c), order' # order PROVE Decided' /\ order'.as = order.as
  <2>0. WellFormed(calls[c])
    BY DEF TypeOK
  <2>1. \/ Respond(c) \/ UpdateStatus(c) \/ RequestCancel(c) \/ RespondCancel(c)
        \/ MarkCompleted(c) \/ AdvanceStage(c) \/ EarlyComplete(c) \/ EarlyShip(c)
    BY <1>2
    DEF OrderCall, Read, ReadRespond, ReadUpdateStatus, ReadRequestCancel, ReadRespondCancel,
        RereadRespondCancel, ReadMarkCompleted, ReadAdvanceStage, ReadEarly, ReadRequestRepeat,
        RequestRepeat, ReadRespondRepeat, RespondRepeat, ReadReview, CreateVerifiedReview
  <2>2. CASE Respond(c)
    BY <1>2, <2>2 DEF Respond, Update, Decided
  <2>3. CASE UpdateStatus(c)
    <3>1. calls[c].to \in {"in_progress", "shipped", "completed"}
      BY <2>0, <2>3 DEF UpdateStatus, Finish, WellFormed, AllowedFrom
    <3> QED
      BY <1>0, <1>2, <2>3, <3>1 DEF UpdateStatus, Update, Decided, Order
  <2>4. CASE RequestCancel(c)
    <3>1. order' = [order EXCEPT !.status = "cancel_requested", !.by = calls[c].user,
                                 !.requestedAt = clock', !.from = calls[c].status]
            /\ order.status = calls[c].status
      BY <1>2, <2>4 DEF RequestCancel
    <3> QED
      BY <1>0, <3>1 DEF Decided, Order
  <2>5. CASE RespondCancel(c)
    <3>1. /\ order.status = "cancel_requested" /\ order.requestedAt = calls[c].ref
          /\ calls[c].op = "answerCancel"
      BY <1>2, <2>5 DEF RespondCancel, Update, Finish
    <3>2. calls[c].status = order.from /\ order.from \in Active \cup {"pending"}
      BY <3>1 DEF CancelSound
    <3> QED
      BY <1>0, <2>5, <3>1, <3>2 DEF RespondCancel, Update, Decided, Order, Active
  <2>6. CASE MarkCompleted(c) \/ AdvanceStage(c)
    BY <1>0, <1>2, <2>6 DEF MarkCompleted, AdvanceStage, Update, Decided, Order
  <2>7. CASE EarlyComplete(c) \/ EarlyShip(c)
    BY <1>0, <1>2, <2>7 DEF EarlyComplete, EarlyShip, Update, Decided, Order
  <2> QED
    BY <2>1, <2>2, <2>3, <2>4, <2>5, <2>6, <2>7
<1> QED
  BY <1>1, <1>2 DEF Next, NextDay, ChangeDates, Restart, orderVars

(* Every step is one of the order's: what an accepted change does to it,   *)
(* merged and applied late as it is, is to put other dates in order.       *)
LEMMA OrderStep ==
    ASSUME IInv, NextDates \/ UNCHANGED vars
    PROVE  [Next]_orderVars
<1>1. OrderMoves \/ RestartAll \/ UNCHANGED vars => [Next]_orderVars
  BY DEF OrderMoves, RestartAll, Next, vars
<1>2. DateMoves => [Next]_orderVars
  <2> SUFFICES ASSUME NEW d \in DateSlots,
                      \/ ReadRequestChange(d) \/ RequestChange(d)
                      \/ ReadRespondChange(d) \/ RespondChange(d)
               PROVE  [Next]_orderVars
    BY DEF DateMoves
  <2>1. CASE RequestChange(d) \/ RespondChange(d)
    <3>1. UNCHANGED <<order, history, derived, today, clock, calls>>
      BY <2>1 DEF RequestChange, RespondChange, FinishDate
    <3>2. dates' \in Dates
      BY NextIInv DEF IInv, DatesTyped
    <3> QED
      BY <3>1, <3>2 DEF Next, ChangeDates
  <2>2. CASE ReadRequestChange(d) \/ ReadRespondChange(d)
    BY <2>2 DEF ReadRequestChange, ReadRespondChange
  <2> QED
    BY <2>1, <2>2
<1>3. CheckMoves => UNCHANGED orderVars
  BY DEF CheckMoves, Scan, LeaveOutNotified, NextNode, Send, Record, NodeDone
<1> QED
  BY <1>1, <1>2, <1>3 DEF NextDates

(* The order whose dates the factory's requests move, under overdue checks,*)
(* is the order of CollaborationOrder: what is proved of Spec holds of it. *)
THEOREM MovingDatesAreTheOrders == SpecDates => Spec
<1>1. InitDates => Init
  BY DEF InitDates
<1>2. IInv /\ [NextDates]_vars => [Next]_orderVars
  BY OrderStep
<1> QED
  BY <1>1, <1>2, Invariance, PTL DEF SpecDates, Spec

OrderSound == TypeOK /\ CancelSound

LEMMA OrderStaysSound ==
    ASSUME ~SameSecond, IInv, OrderSound, NextDates \/ UNCHANGED vars
    PROVE  OrderSound' /\ (Decided => Decided' /\ order'.as = order.as)
  BY OrderStep, TypeStep, CancelStep, DecidedStays DEF OrderSound
-----------------------------------------------------------------------------
Run == [pc : {"off", "scanned", "next", "sending"}, todo : [Fields -> Nat],
        left : SUBSET (Users \cup Colleagues), failed : BOOLEAN]

(* A check has listed, is sending and has recorded only what belongs to an *)
(* answered order; and as long as no mail of the node in hand failed, who  *)
(* is not left got it.                                                     *)
MailOf(k, u) == [user |-> u, field |-> Node(k), due |-> check[k].todo[Node(k)]]

InHand(k) ==
    check[k].pc = "sending" =>
        /\ Decided
        /\ check[k].failed \/ \A u \in Recipients : u \in check[k].left \/ MailOf(k, u) \in mailed

ListedDecided(k) == \A f \in Fields : check[k].todo[f] # Null => Decided

MailSound ==
    /\ notified \in [Fields -> Nat] /\ check \in [Checks -> Run]
    /\ \A f \in Fields : notified[f] # Null => Decided
    /\ \A k \in Checks : ListedDecided(k) /\ InHand(k)
    /\ RecordedMeansMailed

LEMMA NoDatesAreNat == NoDates \in [Fields -> Nat] /\ (\A f \in Fields : NoDates[f] = Null) /\ Off \in Run
BY DEF NoDates, Off, Run

LEMMA MailInit == InitDates => MailSound
<1> SUFFICES ASSUME InitDates PROVE MailSound
  OBVIOUS
<1>1. notified = NoDates /\ check = [k \in Checks |-> Off]
  BY DEF InitDates
<1>2. \A k \in Checks : check[k].pc = "off" /\ check[k].todo = NoDates
  BY <1>1 DEF Off
<1> QED
  BY <1>1, <1>2, NoDatesAreNat DEF MailSound, ListedDecided, InHand, RecordedMeansMailed

LEMMA SameNode ==
    ASSUME NEW k \in Checks, check'[k] = check[k], order'.as = order.as
    PROVE  /\ \A u : MailOf(k, u)' = MailOf(k, u)
           /\ Recipients' = Recipients
<1>1. Listed(k)' = Listed(k)
  BY DEF Listed
<1>2. Node(k)' = Node(k)
  BY <1>1 DEF Node
<1>3. Recipients' = Recipients
  BY DEF Recipients
<1> QED
  BY <1>2, <1>3 DEF MailOf

(* What is outside of the checks, and the end of all of them.              *)
LEMMA OutsideMail ==
    ASSUME MailSound, Decided => Decided' /\ order'.as = order.as,
           UNCHANGED <<notified, mailed>>, check' = check \/ check' = [k \in Checks |-> Off]
    PROVE  MailSound'
<1>1. RecordedMeansMailed'
  <2>1. (\E f \in Fields : notified[f] # Null) => Recipients' = Recipients
    BY DEF MailSound, Recipients
  <2> QED
    BY <2>1 DEF MailSound, RecordedMeansMailed
<1>2. CASE check' = check
  <2>1. ASSUME NEW k \in Checks PROVE ListedDecided(k)' /\ InHand(k)'
    <3>1. ListedDecided(k) /\ InHand(k)
      BY DEF MailSound
    <3>2. ListedDecided(k)'
      BY <1>2, <3>1 DEF ListedDecided
    <3>3. InHand(k)'
      BY <1>2, <3>1, SameNode DEF InHand
    <3> QED
      BY <3>2, <3>3
  <2> QED
    BY <1>1, <1>2, <2>1 DEF MailSound
<1>3. CASE check' = [k \in Checks |-> Off]
  <2>1. check' \in [Checks -> Run] /\ \A k \in Checks : check'[k] = Off
    BY <1>3, NoDatesAreNat
  <2>2. \A k \in Checks : ListedDecided(k)' /\ InHand(k)'
    BY <2>1, NoDatesAreNat DEF ListedDecided, InHand, Off
  <2> QED
    BY <1>1, <2>1, <2>2 DEF MailSound
<1> QED
  BY <1>2, <1>3

(* A step of check k: it is enough to look at k and at what is recorded.   *)
LEMMA CheckMail ==
    ASSUME MailSound, NEW k \in Checks, NEW run \in Run, check' = [check EXCEPT ![k] = run],
           UNCHANGED order, mailed \subseteq mailed',
           notified' \in [Fields -> Nat], RecordedMeansMailed',
           \A f \in Fields : notified'[f] # Null => Decided,
           \A f \in Fields : run.todo[f] # Null => Decided,
           InHand(k)'
    PROVE  MailSound'
<1>1. check' \in [Checks -> Run] /\ check'[k] = run /\ \A j \in Checks : j # k => check'[j] = check[j]
  BY DEF MailSound
<1>2. Decided' <=> Decided
  BY DEF Decided
<1>3. ASSUME NEW j \in Checks PROVE ListedDecided(j)' /\ InHand(j)'
  <2>1. CASE j = k
    BY <1>1, <1>2, <2>1 DEF ListedDecided
  <2>2. CASE j # k
    <3>1. ListedDecided(j) /\ InHand(j) /\ check'[j] = check[j]
      BY <1>1, <2>2 DEF MailSound
    <3>2. ListedDecided(j)'
      BY <1>2, <3>1 DEF ListedDecided
    <3>3. InHand(j)'
      BY <1>2, <3>1, SameNode DEF InHand
    <3> QED
      BY <3>2, <3>3
  <2> QED
    BY <2>1, <2>2
<1> QED
  BY <1>1, <1>2, <1>3 DEF MailSound
LEMMA ScanMail ==
    ASSUME IInv, MailSound, NEW k \in Checks, Scan(k) \/ LeaveOutNotified(k)
    PROVE  MailSound'
<1>1. order' = order /\ mailed' = mailed /\ notified' = notified
  BY DEF Scan, LeaveOutNotified, orderVars
<1>2. check[k] \in Run /\ ListedDecided(k) /\ notified \in [Fields -> Nat] /\ check \in [Checks -> Run]
  BY DEF MailSound
<1>3. RecordedMeansMailed'
  BY <1>1 DEF MailSound, RecordedMeansMailed, Recipients
<1>4. PICK pc \in {"scanned", "next"}, todo \in [Fields -> Nat] :
        /\ check' = [check EXCEPT ![k] = [check[k] EXCEPT !.pc = pc, !.todo = todo]]
        /\ \A f \in Fields : todo[f] # Null => Decided
  <2>1. CASE Scan(k)
    <3> DEFINE todo == [f \in Fields |-> IF f \in Overdue THEN dates[f] ELSE Null]
    <3>1. todo \in [Fields -> Nat]
      BY DEF IInv, DatesTyped, Dates
    <3>2. \A f \in Fields : todo[f] # Null => Decided
      BY DEF Overdue, Decided, Active
    <3>3. check' = [check EXCEPT ![k] = [check[k] EXCEPT !.pc = "scanned", !.todo = todo]]
      BY <1>2, <2>1 DEF Scan, Run
    <3> QED
      BY <3>1, <3>2, <3>3
  <2>2. CASE LeaveOutNotified(k)
    <3> DEFINE todo == [f \in Fields |-> IF notified[f] = Null THEN check[k].todo[f] ELSE Null]
    <3>1. todo \in [Fields -> Nat]
      BY <1>2 DEF Run
    <3>2. \A f \in Fields : todo[f] # Null => Decided
      BY <1>2 DEF ListedDecided
    <3>3. check' = [check EXCEPT ![k] = [check[k] EXCEPT !.pc = "next", !.todo = todo]]
      BY <1>2, <2>2 DEF LeaveOutNotified, Run
    <3> QED
      BY <3>1, <3>2, <3>3
  <2> QED
    BY <2>1, <2>2
<1> DEFINE run == [check[k] EXCEPT !.pc = pc, !.todo = todo]
<1>5. run \in Run /\ run.todo = todo /\ run.pc = pc
  BY <1>2 DEF Run
<1>6. InHand(k)'
  <2>1. check'[k].pc # "sending"
    BY <1>2, <1>4, <1>5
  <2> QED
    BY <2>1 DEF InHand
<1> HIDE DEF run
<1> QED
  BY <1>1, <1>2, <1>3, <1>4, <1>5, <1>6, CheckMail DEF run, MailSound

LEMMA NextNodeMail ==
    ASSUME MailSound, NEW k \in Checks, NextNode(k)
    PROVE  MailSound'
<1>1. order' = order /\ mailed' = mailed /\ notified' = notified
  BY DEF NextNode, orderVars
<1>2. check[k] \in Run /\ ListedDecided(k) /\ notified \in [Fields -> Nat] /\ check \in [Checks -> Run]
  BY DEF MailSound
<1>3. RecordedMeansMailed'
  BY <1>1 DEF MailSound, RecordedMeansMailed, Recipients
<1>4. ASSUME NEW run \in Run, check' = [check EXCEPT ![k] = run],
             \A f \in Fields : run.todo[f] # Null => Decided, InHand(k)'
      PROVE  MailSound'
  BY <1>1, <1>2, <1>3, <1>4, CheckMail DEF MailSound
<1>5. ASSUME NEW run \in Run, check' = [check EXCEPT ![k] = run], run.pc # "sending"
      PROVE  InHand(k)'
  BY <1>2, <1>5 DEF InHand
<1>6. CASE check' = [check EXCEPT ![k] = Off]
  BY <1>4, <1>5, <1>6, NoDatesAreNat DEF Off
<1>7. CASE check' = [check EXCEPT ![k].todo[Node(k)] = Null] /\ check[k].pc = "next"
  <2> DEFINE run == [check[k] EXCEPT !.todo = [check[k].todo EXCEPT ![Node(k)] = Null]]
  <2>1. check' = [check EXCEPT ![k] = run]
    BY <1>2, <1>7 DEF Run
  <2>2. run \in Run /\ run.pc = "next"
    BY <1>2, <1>7 DEF Run
  <2>3. \A f \in Fields : run.todo[f] # Null => check[k].todo[f] # Null
    BY <1>2 DEF Run
  <2> HIDE DEF run
  <2> QED
    BY <1>2, <1>4, <1>5, <2>1, <2>2, <2>3 DEF ListedDecided
<1>8. CASE /\ Listed(k) # {}
           /\ check' = [check EXCEPT ![k].pc = "sending", ![k].failed = FALSE, ![k].left = Recipients]
  <2> DEFINE run == [check[k] EXCEPT !.pc = "sending", !.failed = FALSE, !.left = Recipients]
  <2>1. check' = [check EXCEPT ![k] = run]
    BY <1>2, <1>8 DEF Run
  <2>2. Recipients \subseteq Users \cup Colleagues /\ Recipients' = Recipients
    BY <1>1 DEF Recipients, Users
  <2>3. run \in Run /\ run.todo = check[k].todo /\ run.left = Recipients
    BY <1>2, <2>2 DEF Run
  <2>4. Decided
    BY <1>2, <1>8 DEF Listed, ListedDecided
  <2> HIDE DEF run
  <2>5. check'[k] = run
    BY <1>2, <2>1
  <2>6. InHand(k)'
    BY <1>1, <2>2, <2>3, <2>4, <2>5 DEF InHand, Decided
  <2> QED
    BY <1>4, <2>1, <2>3, <2>4, <2>6
<1> QED
  BY <1>6, <1>7, <1>8 DEF NextNode

LEMMA SendMail ==
    ASSUME MailSound, NEW k \in Checks, Send(k)
    PROVE  MailSound'
<1>1. order' = order /\ notified' = notified /\ check[k].pc = "sending"
  BY DEF Send, orderVars
<1>2. /\ check[k] \in Run /\ ListedDecided(k) /\ InHand(k) /\ notified \in [Fields -> Nat]
      /\ check \in [Checks -> Run]
  BY DEF MailSound
<1>3. PICK u \in check[k].left, failed \in BOOLEAN :
        /\ check' = [check EXCEPT ![k] = [check[k] EXCEPT !.left = check[k].left \ {u}, !.failed = failed]]
        /\ mailed \subseteq mailed'
        /\ failed \/ (~check[k].failed /\ MailOf(k, u) \in mailed')
        /\ failed \/ failed = check[k].failed
  <2>1. PICK u \in check[k].left :
          \/ /\ mailed' = mailed \cup {MailOf(k, u)}
             /\ check' = [check EXCEPT ![k].left = @ \ {u}]
          \/ /\ check' = [check EXCEPT ![k].left = @ \ {u}, ![k].failed = TRUE]
             /\ UNCHANGED mailed
    BY DEF Send, MailOf
  <2>2. CASE mailed' = mailed \cup {MailOf(k, u)} /\ check' = [check EXCEPT ![k].left = @ \ {u}]
    <3>1. check' = [check EXCEPT ![k] = [check[k] EXCEPT !.left = check[k].left \ {u}, !.failed = check[k].failed]]
      BY <1>2, <2>2 DEF Run
    <3>2. check[k].failed \in BOOLEAN
      BY <1>2 DEF Run
    <3> QED
      BY <2>2, <3>1, <3>2
  <2>3. CASE check' = [check EXCEPT ![k].left = @ \ {u}, ![k].failed = TRUE] /\ UNCHANGED mailed
    <3>1. check' = [check EXCEPT ![k] = [check[k] EXCEPT !.left = check[k].left \ {u}, !.failed = TRUE]]
      BY <1>2, <2>3 DEF Run
    <3> QED
      BY <2>3, <3>1
  <2> QED
    BY <2>1, <2>2, <2>3
<1> DEFINE run == [check[k] EXCEPT !.left = check[k].left \ {u}, !.failed = failed]
<1>4. run \in Run /\ run.todo = check[k].todo /\ run.left = check[k].left \ {u} /\ run.failed = failed
  BY <1>2 DEF Run
<1>5. check' = [check EXCEPT ![k] = run]
  BY <1>3
<1> HIDE DEF run
<1>6. check'[k] = run
  BY <1>2, <1>5
<1>7. Recipients' = Recipients /\ \A v : MailOf(k, v)' = MailOf(k, v)
  <2>1. Listed(k)' = Listed(k)
    BY <1>4, <1>6 DEF Listed
  <2>2. Node(k)' = Node(k)
    BY <2>1 DEF Node
  <2> QED
    BY <1>1, <1>4, <1>6, <2>2 DEF MailOf, Recipients
<1>8. InHand(k)'
  <2>1. Decided'
    BY <1>1, <1>2 DEF InHand, Decided
  <2>2. ASSUME ~failed, NEW v \in Recipients PROVE v \in run.left \/ MailOf(k, v) \in mailed'
    BY <1>1, <1>2, <1>3, <1>4, <2>2 DEF InHand
  <2> QED
    BY <1>4, <1>6, <1>7, <2>1, <2>2 DEF InHand
<1>9. RecordedMeansMailed'
  BY <1>1, <1>3, <1>7 DEF MailSound, RecordedMeansMailed
<1>10. /\ \A f \in Fields : run.todo[f] # Null => Decided
       /\ \A f \in Fields : notified'[f] # Null => Decided
  BY <1>1, <1>2, <1>4 DEF MailSound, ListedDecided
<1> QED
  BY <1>1, <1>2, <1>3, <1>4, <1>5, <1>8, <1>9, <1>10, CheckMail

LEMMA RecordMail ==
    ASSUME MailSound, NEW k \in Checks, Record(k)
    PROVE  MailSound'
<1>1. order' = order /\ mailed' = mailed /\ check[k].pc = "sending" /\ check[k].left = {}
  BY DEF Record, NodeDone, orderVars
<1>2. /\ check[k] \in Run /\ ListedDecided(k) /\ InHand(k) /\ notified \in [Fields -> Nat]
      /\ check \in [Checks -> Run] /\ Decided
  BY <1>1 DEF MailSound, InHand
<1> DEFINE run == [check[k] EXCEPT !.pc = "next", !.todo = [check[k].todo EXCEPT ![Node(k)] = Null]]
           due == check[k].todo[Node(k)]
<1>3. check' = [check EXCEPT ![k] = run]
  BY <1>2 DEF Record, NodeDone, Run
<1>4. run \in Run /\ run.pc = "next"
  BY <1>2 DEF Run
<1> HIDE DEF run
<1>5. InHand(k)'
  BY <1>2, <1>3, <1>4 DEF InHand
<1>6. \A f \in Fields : \/ notified'[f] = notified[f]
                        \/ f = Node(k) /\ notified'[f] = due /\ ~check[k].failed
  BY <1>2 DEF Record
<1>7. notified' \in [Fields -> Nat]
  <2>1. CASE Node(k) \in Fields
    <3>1. due \in Nat
      BY <1>2, <2>1 DEF Run
    <3> QED
      BY <1>2, <3>1 DEF Record
  <2>2. CASE Node(k) \notin Fields
    BY <1>2, <2>2 DEF Record
  <2> QED
    BY <2>1, <2>2
<1>8. RecordedMeansMailed'
  <2>1. Recipients' = Recipients
    BY <1>1 DEF Recipients
  <2>2. ASSUME NEW f \in Fields, notified'[f] # Null, NEW u \in Recipients
        PROVE  [user |-> u, field |-> f, due |-> notified'[f]] \in mailed
    <3>1. CASE notified'[f] = notified[f]
      BY <2>2, <3>1 DEF MailSound, RecordedMeansMailed
    <3>2. CASE f = Node(k) /\ notified'[f] = due /\ ~check[k].failed
      BY <1>1, <1>2, <2>2, <3>2 DEF InHand, MailOf
    <3> QED
      BY <1>6, <3>1, <3>2
  <2> QED
    BY <1>1, <2>1, <2>2 DEF RecordedMeansMailed
<1> QED
  BY <1>1, <1>2, <1>3, <1>4, <1>5, <1>7, <1>8, CheckMail

LEMMA MailStep ==
    ASSUME ~SameSecond, IInv, OrderSound, MailSound, NextDates \/ UNCHANGED vars
    PROVE  MailSound'
<1>1. Decided => Decided' /\ order'.as = order.as
  BY OrderStaysSound
<1>2. CASE OrderMoves \/ DateMoves \/ RestartAll \/ UNCHANGED vars
  <2>1. DateMoves => UNCHANGED overdueVars
    BY DEF DateMoves, ReadRequestChange, RequestChange, ReadRespondChange, RespondChange, FinishDate
  <2>2. UNCHANGED <<notified, mailed>> /\ (check' = check \/ check' = [k \in Checks |-> Off])
    BY <1>2, <2>1 DEF OrderMoves, RestartAll, vars, overdueVars
  <2> QED
    BY <1>1, <2>2, OutsideMail
<1>3. CASE CheckMoves
  BY <1>3, ScanMail, NextNodeMail, SendMail, RecordMail DEF CheckMoves
<1> QED
  BY <1>2, <1>3 DEF NextDates

(* A recorded node was mailed for its due date to everybody who has an     *)
(* address and was to get it (orderOverdueCheck.ts), although the order    *)
(* moves while the mails go out. Of cancellations no two share a second.   *)
THEOREM RecordsTrue ==
    ASSUME ~SameSecond
    PROVE  SpecDates => []RecordedMeansMailed
<1>1. InitDates => IInv /\ OrderSound /\ MailSound
  BY InitIInv, TypeInit, CancelInit, MailInit DEF InitDates, OrderSound
<1>2. IInv /\ OrderSound /\ MailSound /\ [NextDates]_vars => (IInv /\ OrderSound /\ MailSound)'
  BY NextIInv, OrderStaysSound, MailStep
<1>3. MailSound => RecordedMeansMailed
  BY DEF MailSound
<1> QED
  BY <1>1, <1>2, <1>3, PTL DEF SpecDates
==============================================================================
