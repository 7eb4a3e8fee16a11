------------------------- MODULE CollaborationOrder -------------------------
(***************************************************************************)
(* One collaboration order (合作確認單) and the requests that change it:    *)
(* the collaborationOrder router of server/routers.ts over the functions   *)
(* of server/db.ts.                                                        *)
(*                                                                         *)
(* A handler reads the order, checks what it read, and later writes with   *)
(* one conditional UPDATE (or one transaction), which misses when the      *)
(* condition no longer holds: two steps, with other requests in between.   *)
(* calls[c] is the request that slot c carries and what it read.           *)
(***************************************************************************)
EXTENDS Integers, FiniteSets, Sequences

CONSTANTS
    Buyer,           \* the requester's user (buyerUserId)
    NoUser,          \* null
    Staff,           \* owner and active co-managers of the supplying factory
    Slots,           \* requests in flight at once
    NumFields,       \* date nodes of an order, the last is the final payment
    SameSecond,      \* whether two cancel requests may share a timestamp
    MaxSeconds, MaxDay, MaxRepeats      \* bounds

ASSUME OrderAssumption ==
    /\ NumFields \in Nat \ {0}
    /\ SameSecond \in BOOLEAN
    /\ {MaxSeconds, MaxDay, MaxRepeats} \subseteq Nat \ {0}

VARIABLES
    order,           \* the row of collaborationOrders
    dates,           \* its date nodes, 0 for null
    history,         \* collaborationOrderStageHistory
    repeats,         \* status of each repeat-order request
    copies,          \* orders made from a repeat request
    reviews,         \* verified reviews of the order
    today, clock,    \* the day; the last second a cancel was requested
    calls

derived == <<repeats, copies, reviews>>
orderVars == <<order, dates, history, repeats, copies, reviews, today, clock,
               calls>>
-----------------------------------------------------------------------------
Users == Staff \cup {Buyer}
Fields == 1..NumFields
Final == NumFields
Null == 0
NoStage == "none"

Statuses == {"pending", "accepted", "rejected", "in_progress", "shipped",
             "completed", "cancelled", "cancel_requested"}
Active == {"accepted", "in_progress", "shipped"}
Closed == {"rejected", "completed", "cancelled"}

Stages == {"awaiting_deposit", "in_production", "awaiting_shipment",
           "awaiting_final_payment", "completed"}

NextStage == [s \in {"awaiting_deposit", "in_production", "awaiting_shipment"}
                |-> CASE s = "awaiting_deposit"  -> "in_production"
                      [] s = "in_production"     -> "awaiting_shipment"
                      [] s = "awaiting_shipment" -> "awaiting_final_payment"]

AllowedFrom == [s \in {"in_progress", "shipped", "completed"}
                  |-> CASE s = "in_progress" -> "accepted"
                        [] s = "shipped"     -> "in_progress"
                        [] s = "completed"   -> "shipped"]

(* validateOrderDateChain: dates that are set come in order.               *)
InOrder(d) == \A f, g \in Fields :
                  f < g /\ d[f] # Null /\ d[g] # Null => d[f] <= d[g]

Dates == {d \in [Fields -> 0..MaxDay] : InOrder(d)}

Free == [op |-> "none", user |-> NoUser, to |-> "none", status |-> "none",
         stage |-> NoStage, ref |-> Null, seen |-> Null]

NewOrder(status, stage, as) ==
    [status |-> status, stage |-> stage, as |-> as, by |-> NoUser,
     requestedAt |-> Null, from |-> "none", earlyCompleted |-> FALSE,
     earlyShipped |-> FALSE]

(* An order the factory created, one made from a repeat request (of a user *)
(* or of a factory), or one accepted before stages were recorded.          *)
Init ==
    /\ order \in {NewOrder("pending", NoStage, "user"),
                  NewOrder("accepted", "awaiting_deposit", "user"),
                  NewOrder("accepted", "awaiting_deposit", "factory"),
                  NewOrder("accepted", NoStage, "user")}
    /\ dates \in Dates
    /\ history = <<>> /\ repeats = <<>> /\ copies = 0 /\ reviews = 0
    /\ today = 1 /\ clock = 0
    /\ calls = [c \in Slots |-> Free]

NextDay ==
    /\ today < MaxDay
    /\ today' = today + 1
    /\ UNCHANGED <<order, dates, history, derived, clock, calls>>

(* A date change is accepted (respondCollaborationOrderChangeRequest): any *)
(* dates in order come into force, at any moment and whatever the status.  *)
(* OrderDates has the requests that lead to it.                            *)
ChangeDates ==
    /\ dates' \in Dates
    /\ UNCHANGED <<order, history, derived, today, clock, calls>>

(* The server restarts and the requests in flight vanish.                  *)
Restart ==
    /\ calls' = [c \in Slots |-> Free]
    /\ UNCHANGED <<order, dates, history, derived, today, clock>>
-----------------------------------------------------------------------------
(* The first half of a handler: a request passed its checks and keeps what *)
(* its write needs.                                                        *)
Request(op, u, to) == [Free EXCEPT !.op = op, !.user = u, !.to = to]

Read(c, request) ==
    /\ calls[c] = Free
    /\ calls' = [calls EXCEPT ![c] = request]
    /\ UNCHANGED <<order, dates, history, derived, today, clock>>

(* The second half: the UPDATE applies, or misses and answers CONFLICT.    *)
Finish(c, op) ==
    /\ calls[c].op = op
    /\ calls' = [calls EXCEPT ![c] = Free]
    /\ UNCHANGED <<dates, today>>

Update(c, applies, new) ==
    /\ order' = IF applies THEN new ELSE order
    /\ UNCHANGED <<derived, clock>>

ReadRespond(c) ==
    /\ order.status = "pending"
    /\ \E to \in {"accepted", "acceptedAsFactory", "rejected"} :
          Read(c, Request("respond", Buyer, to))

RespondUnconditional(c) ==   \* faulty form
    /\ Finish(c, "respond")
    /\ Update(c, TRUE,
              IF calls[c].to = "rejected"
              THEN [order EXCEPT !.status = "rejected"]
              ELSE [order EXCEPT !.status = "accepted",
                                 !.stage = "awaiting_deposit"])
    /\ UNCHANGED history

Respond(c) ==
    /\ Finish(c, "respond")
    /\ Update(c, order.status = "pending",
              IF calls[c].to = "rejected"
              THEN [order EXCEPT !.status = "rejected"]
              ELSE [order EXCEPT !.status = "accepted",
                                 !.stage = "awaiting_deposit",
                                 !.as = IF calls[c].to = "accepted"
                                        THEN "user" ELSE "factory"])
    /\ UNCHANGED history

ReadUpdateStatus(c) ==
    \E u \in Staff, to \in DOMAIN AllowedFrom :
        /\ order.status = AllowedFrom[to]
        /\ Read(c, [Request("updateStatus", u, to)
                        EXCEPT !.status = order.status])

UpdateStatus(c) ==
    /\ Finish(c, "updateStatus")
    /\ Update(c, order.status = calls[c].status,
              [order EXCEPT !.status = calls[c].to])
    /\ UNCHANGED history

ReadRequestCancel(c) ==
    /\ order.status \in Active \cup {"pending"}
    /\ clock < MaxSeconds \/ SameSecond
    /\ \E u \in Users :
          Read(c, [Request("requestCancel", u, "none")
                      EXCEPT !.status = order.status])

(* cancelRequestedAt is a timestamp of whole seconds.                      *)
RequestCancel(c) ==
    /\ Finish(c, "requestCancel")
    /\ IF order.status = calls[c].status
       THEN /\ clock' \in {clock + 1} \cup {t \in {clock} : SameSecond /\ t > 0}
            /\ clock' <= MaxSeconds
            /\ order' = [order EXCEPT !.status = "cancel_requested",
                                      !.by = calls[c].user,
                                      !.requestedAt = clock',
                                      !.from = calls[c].status]
       ELSE UNCHANGED <<order, clock>>
    /\ UNCHANGED <<history, derived>>

ReadRespondCancelUnchecked(c) ==   \* faulty form
    /\ order.status = "cancel_requested"
    /\ \E u \in Users, to \in {"accept", "reject"} :
          Read(c, [Request("respondCancel", u, to)
                      EXCEPT !.seen = order.requestedAt])

ReadRespondCancel(c) ==
    /\ order.status = "cancel_requested"
    /\ \E u \in Users \ {order.by}, to \in {"accept", "reject"} :
          Read(c, [Request("respondCancel", u, to)
                      EXCEPT !.seen = order.requestedAt])

(* respondCancelCollaborationOrder reads the order again: the request it   *)
(* answers is the one of this read, whose cancelRequestedFromStatus and    *)
(* cancelRequestedAt are now in status and ref.                            *)
RereadRespondCancel(c) ==
    /\ calls[c].op = "respondCancel"
    /\ calls' = [calls EXCEPT
                    ![c].op = "answerCancel",
                    ![c].status = IF order.from = "none" THEN "accepted"
                                  ELSE order.from,
                    ![c].ref = order.requestedAt]
    /\ UNCHANGED <<order, dates, history, derived, today, clock>>

RespondCancelAnyRequest(c) ==      \* faulty form
    /\ Finish(c, "answerCancel")
    /\ Update(c, order.status = "cancel_requested",
              IF calls[c].to = "accept"
              THEN [order EXCEPT !.status = "cancelled"]
              ELSE [order EXCEPT !.status = calls[c].status, !.by = NoUser,
                                 !.requestedAt = Null, !.from = "none"])
    /\ UNCHANGED history

RespondCancel(c) ==
    /\ Finish(c, "answerCancel")
    /\ Update(c, /\ order.status = "cancel_requested"
                 /\ order.requestedAt = calls[c].ref,
              IF calls[c].to = "accept"
              THEN [order EXCEPT !.status = "cancelled"]
              ELSE [order EXCEPT !.status = calls[c].status, !.by = NoUser,
                                 !.requestedAt = Null, !.from = "none"])
    /\ UNCHANGED history
-----------------------------------------------------------------------------
PaymentDue == dates[Final] # Null /\ dates[Final] <= today

ReadMarkCompletedUndated(c) ==     \* faulty form
    /\ order.status \in Active
    /\ order.stage \in {NoStage, "awaiting_final_payment"}
    /\ order.earlyShipped \/ dates[Final] = Null \/ PaymentDue
    /\ \E u \in Staff :
          Read(c, [Request("markCompleted", u, "none")
                      EXCEPT !.ref = dates[Final]])

(* The final payment's date that was read goes along, for the history      *)
(* (expectedDateAtTransition); the write does not look at the dates again. *)
ReadMarkCompleted(c) ==
    /\ order.status \in Active
    /\ order.stage \in {NoStage, "awaiting_final_payment"}
    /\ order.earlyShipped \/ PaymentDue
    /\ \E u \in Staff :
          Read(c, [Request("markCompleted", u, "none")
                      EXCEPT !.ref = dates[Final]])

Log(from, to) == history' = Append(history, [from |-> from, to |-> to])

MarkCompleted(c) ==
    /\ Finish(c, "markCompleted")
    /\ LET applies == /\ order.status \in Active
                      /\ order.stage \in {NoStage, "awaiting_final_payment"}
       IN  /\ Update(c, applies, [order EXCEPT !.status = "completed",
                                               !.stage = "completed"])
           /\ IF applies THEN Log(order.stage, "completed")
                         ELSE UNCHANGED history

ReadAdvanceStage(c) ==
    /\ order.status = "accepted"
    /\ order.stage \in DOMAIN NextStage
    /\ \E u \in Staff :
          Read(c, [Request("advanceStage", u, "none")
                      EXCEPT !.stage = order.stage])

AdvanceStageUnguarded(c) ==        \* faulty form
    /\ Finish(c, "advanceStage")
    /\ LET applies == order.status = "accepted"
       IN  /\ Update(c, applies,
                     [order EXCEPT !.stage = NextStage[calls[c].stage]])
           /\ IF applies THEN Log(calls[c].stage, NextStage[calls[c].stage])
                         ELSE UNCHANGED history

AdvanceStage(c) ==
    /\ Finish(c, "advanceStage")
    /\ LET applies == order.status = "accepted" /\ order.stage = calls[c].stage
       IN  /\ Update(c, applies,
                     [order EXCEPT !.stage = NextStage[calls[c].stage]])
           /\ IF applies THEN Log(calls[c].stage, NextStage[calls[c].stage])
                         ELSE UNCHANGED history

(* earlyComplete and earlyShip                                             *)
Markable(mark) == order.status \in {"accepted", "in_progress"} /\ ~mark

ReadEarly(c) ==
    \E u \in Staff, op \in {"earlyComplete", "earlyShip"} :
        /\ Markable(IF op = "earlyShip" THEN order.earlyShipped
                                        ELSE order.earlyCompleted)
        /\ Read(c, Request(op, u, "none"))

EarlyComplete(c) ==
    /\ Finish(c, "earlyComplete")
    /\ Update(c, Markable(order.earlyCompleted),
              [order EXCEPT !.earlyCompleted = TRUE])
    /\ UNCHANGED history

EarlyShip(c) ==
    /\ Finish(c, "earlyShip")
    /\ Update(c, Markable(order.earlyShipped),
              [order EXCEPT !.earlyShipped = TRUE])
    /\ UNCHANGED history
-----------------------------------------------------------------------------
PendingIn(s) == {i \in DOMAIN s : s[i] = "pending"}

ReadRequestRepeat(c) ==
    /\ order.status = "completed"
    /\ Len(repeats) < MaxRepeats
    /\ Read(c, Request("requestRepeat", Buyer, "none"))

(* The transactions lock the order's row before they look.                 *)
RequestRepeat(c) ==
    /\ Finish(c, "requestRepeat")
    /\ repeats' = IF PendingIn(repeats) = {} /\ Len(repeats) < MaxRepeats
                  THEN Append(repeats, "pending") ELSE repeats
    /\ UNCHANGED <<order, history, copies, reviews, clock>>

ReadRespondRepeat(c) ==
    \E u \in Staff, i \in PendingIn(repeats), to \in {"accepted", "rejected"} :
        Read(c, [Request("respondRepeat", u, to) EXCEPT !.ref = i])

RespondRepeatUnclaimed(c) ==       \* faulty form
    /\ Finish(c, "respondRepeat")
    /\ repeats' = [repeats EXCEPT ![calls[c].ref] = calls[c].to]
    /\ copies' = copies + IF calls[c].to = "accepted" THEN 1 ELSE 0
    /\ UNCHANGED <<order, history, reviews, clock>>

RespondRepeat(c) ==
    /\ Finish(c, "respondRepeat")
    /\ IF calls[c].ref \in PendingIn(repeats)
       THEN /\ repeats' = [repeats EXCEPT ![calls[c].ref] = calls[c].to]
            /\ copies' = copies + IF calls[c].to = "accepted" THEN 1 ELSE 0
       ELSE UNCHANGED <<repeats, copies>>
    /\ UNCHANGED <<order, history, reviews, clock>>

ReadReview(c) ==
    /\ order.status = "completed"
    /\ Read(c, Request("createVerifiedReview", Buyer, "none"))

CreateVerifiedReview(c) ==
    /\ Finish(c, "createVerifiedReview")
    /\ reviews' = IF reviews = 0 THEN 1 ELSE reviews
    /\ UNCHANGED <<order, history, repeats, copies, clock>>

OrderCall(c) ==
    \/ ReadRespond(c) \/ Respond(c)
    \/ ReadUpdateStatus(c) \/ UpdateStatus(c)
    \/ ReadRequestCancel(c) \/ RequestCancel(c)
    \/ ReadRespondCancel(c) \/ RereadRespondCancel(c) \/ RespondCancel(c)
    \/ ReadMarkCompleted(c) \/ MarkCompleted(c)
    \/ ReadAdvanceStage(c) \/ AdvanceStage(c)
    \/ ReadEarly(c) \/ EarlyComplete(c) \/ EarlyShip(c)
    \/ ReadRequestRepeat(c) \/ RequestRepeat(c)
    \/ ReadRespondRepeat(c) \/ RespondRepeat(c)
    \/ ReadReview(c) \/ CreateVerifiedReview(c)

Next == NextDay \/ ChangeDates \/ Restart \/ \E c \in Slots : OrderCall(c)

Spec == Init /\ [][Next]_orderVars
-----------------------------------------------------------------------------
Call == [op : {"none", "respond", "updateStatus", "requestCancel",
               "respondCancel", "answerCancel", "markCompleted",
               "advanceStage", "earlyComplete", "earlyShip", "requestRepeat",
               "respondRepeat", "createVerifiedReview"},
         user : Users \cup {NoUser},
         to : {"none", "accepted", "acceptedAsFactory", "rejected", "accept",
               "reject", "in_progress", "shipped", "completed"},
         status : Statuses \cup {"none"}, stage : Stages \cup {NoStage},
         ref : Nat, seen : Nat]

Order == [status : Statuses, stage : Stages \cup {NoStage},
          as : {"user", "factory"}, by : Users \cup {NoUser},
          requestedAt : Nat, from : (Active \cup {"pending", "none"}),
          earlyCompleted : BOOLEAN, earlyShipped : BOOLEAN]

(* What the checks of a handler leave its write to work with.              *)
WellFormed(call) ==
    /\ call.op = "updateStatus" => /\ call.to \in DOMAIN AllowedFrom
                                   /\ call.status = AllowedFrom[call.to]
    /\ call.op = "advanceStage" => call.stage \in DOMAIN NextStage
    /\ call.op \in {"requestCancel", "answerCancel"} =>
          call.status \in Active \cup {"pending"}
    /\ call.op = "respondRepeat" => call.to \in {"accepted", "rejected"}

(* Every row and every request in flight stays well formed, whatever a     *)
(* handler read before it wrote.                                           *)
TypeOK ==
    /\ order \in Order
    /\ dates \in Dates
    /\ history \in Seq([from : Stages \cup {NoStage}, to : Stages])
    /\ repeats \in Seq({"pending", "accepted", "rejected"})
    /\ copies \in Nat /\ reviews \in Nat
    /\ today \in Nat /\ clock \in Nat
    /\ calls \in [Slots -> Call]
    /\ \A c \in Slots : WellFormed(calls[c])

(* A rejected, completed or cancelled order stays so: a request that read  *)
(* it while it was open misses.                                            *)
ClosedStays ==
    [][order.status \in Closed => order'.status = order.status]_orderVars

(* An order that is not cancelled goes back to the status it had when the  *)
(* cancellation was asked for (db.ts: 同一次申請).                           *)
RestoredStatus ==
    [][order.status = "cancel_requested"
          => order'.status \in {"cancel_requested", "cancelled", order.from}
      ]_orderVars

Ends(h) == IF h = <<>> THEN NoStage ELSE h[Len(h)].to

(* The history and the stage never part (db.ts: 不會出現階段已推進但沒有歷史):   *)
(* it is a chain of legal stages that ends with the current one.           *)
StageLogged ==
    /\ history # <<>> => order.stage = Ends(history)
    /\ history = <<>> => order.stage \in {NoStage, "awaiting_deposit"}
    /\ \A i \in 1..Len(history) :
          /\ i > 1 => history[i].from = history[i - 1].to
          /\ \/ /\ history[i].from \in DOMAIN NextStage
                /\ history[i].to = NextStage[history[i].from]
             \/ /\ history[i].from \in {NoStage, "awaiting_final_payment"}
                /\ history[i].to = "completed"

(* Who changed the order in a step.                                        *)
Acts(c) == calls[c] # calls'[c] /\ order' # order

(* What the check of the first read gives: an own request is answered only *)
(* by a call that first saw another one, closed in the meantime.           *)
OwnAnswerOnlyAfterAnother ==
    [][\A c \in Slots : Acts(c) /\ calls[c].op = "answerCancel"
           => calls[c].user # order.by \/ calls[c].seen # order.requestedAt
      ]_orderVars

(* markCompleted waits for the final payment's date or an early shipment.  *)
(* An order completed on another day is one whose date moved between the   *)
(* router's check and the write, and the date that the completion records  *)
(* (expectedDateAtTransition) is the one that was due.                     *)
UndueOnlyIfMoved ==
    [][\A c \in Slots : Acts(c) /\ calls[c].op = "markCompleted"
           => \/ order.earlyShipped \/ PaymentDue
              \/ calls[c].ref \in (1..today) \ {dates[Final]}]_orderVars

(* Only a completed order has repeat requests and a review; one of each is *)
(* open at most, and a repeat accepted twice makes one order.              *)
DerivedOnce ==
    /\ repeats # <<>> \/ reviews # 0 => order.status = "completed"
    /\ reviews <= 1
    /\ Cardinality(PendingIn(repeats)) <= 1
    /\ copies = Cardinality({i \in DOMAIN repeats : repeats[i] = "accepted"})
==============================================================================
