----------------------------- MODULE OrderDates -----------------------------
(***************************************************************************)
(* The dates of a collaboration order: the factory's date-change requests  *)
(* (requestDateChange and respondDateChange in server/routers.ts, over     *)
(* server/db.ts) and the overdue check that mails both sides               *)
(* (server/orderOverdueCheck.ts), run by cron and by an administrator,     *)
(* composed with the requests that move the order itself.                  *)
(***************************************************************************)
EXTENDS CollaborationOrder

CONSTANTS
    Colleagues,      \* members of the factory the order was accepted for
    WithEmail,       \* users that have an address
    DateSlots,       \* date requests in flight at once
    Checks,          \* overdue checks that may run at once
    MaxChanges       \* bound

ASSUME DatesAssumption == MaxChanges \in Nat

VARIABLES
    changes,         \* collaborationOrderChangeRequests
    dateCalls,       \* what each date request in flight read
    notified,        \* the dueDate recorded for each field, 0 for no record
    check,           \* where each overdue check is
    mailed           \* the mails that went out

dateVars == <<changes, dateCalls>>
overdueVars == <<notified, check, mailed>>
vars == <<orderVars, dateVars, overdueVars>>
-----------------------------------------------------------------------------
NoDates == [f \in Fields |-> Null]
FreeDate == [op |-> "none", to |-> "none", ref |-> Null,
             old |-> NoDates, new |-> NoDates]

(* An overdue check: the due date of each node it listed, the recipients   *)
(* of the node in hand that are left, whether a mail of this node failed.  *)
Off == [pc |-> "off", todo |-> NoDates, left |-> {}, failed |-> FALSE]

Mail == [user : Users \cup Colleagues, field : Fields, due : 1..MaxDay]

InitDates ==
    /\ Init
    /\ changes = <<>>
    /\ dateCalls = [d \in DateSlots |-> FreeDate]
    /\ notified = NoDates
    /\ check = [k \in Checks |-> Off]
    /\ mailed = {}

Pending == {i \in DOMAIN changes : changes[i].status = "pending"}

(* requestDateChange: fields left empty keep the value that was read, and  *)
(* the merged dates are checked as a whole.                                *)
ReadRequestChange(d) ==
    /\ dateCalls[d] = FreeDate
    /\ order.status \in Active
    /\ Len(changes) < MaxChanges
    /\ \E new \in Dates \ {dates} :
          /\ \A f \in Fields : new[f] # dates[f] => new[f] # Null
          /\ dateCalls' = [dateCalls EXCEPT ![d] =
                             [FreeDate EXCEPT !.op = "request",
                                              !.old = dates, !.new = new]]
    /\ UNCHANGED <<orderVars, changes, overdueVars>>

FinishDate(d, op) ==
    /\ dateCalls[d].op = op
    /\ dateCalls' = [dateCalls EXCEPT ![d] = FreeDate]
    /\ UNCHANGED <<order, history, derived, today, clock, calls, overdueVars>>

RequestChangeUnlocked(d) ==        \* faulty form
    /\ FinishDate(d, "request")
    /\ Len(changes) < MaxChanges
    /\ changes' = Append(changes, [status |-> "pending",
                                   old |-> dateCalls[d].old,
                                   new |-> dateCalls[d].new])
    /\ UNCHANGED dates

(* createCollaborationOrderChangeRequest, under the order's row lock.      *)
RequestChange(d) ==
    /\ FinishDate(d, "request")
    /\ changes' = IF Pending = {} /\ Len(changes) < MaxChanges
                  THEN Append(changes, [status |-> "pending",
                                        old |-> dateCalls[d].old,
                                        new |-> dateCalls[d].new])
                  ELSE changes
    /\ UNCHANGED dates

(* respondDateChange: the side that accepted the order answers.            *)
ReadRespondChange(d) ==
    /\ dateCalls[d] = FreeDate
    /\ IF order.as = "factory" THEN Colleagues # {} ELSE TRUE
    /\ \E i \in Pending, to \in {"accepted", "rejected"} :
          dateCalls' = [dateCalls EXCEPT ![d] =
                          [FreeDate EXCEPT !.op = "respond", !.to = to,
                                           !.ref = i]]
    /\ UNCHANGED <<orderVars, changes, overdueVars>>

RespondChangeAskedOnly(d) ==       \* faulty form
    /\ FinishDate(d, "respond")
    /\ LET i == dateCalls[d].ref
       IN  IF i \in Pending
           THEN /\ changes' = [changes EXCEPT ![i].status = dateCalls[d].to]
                /\ dates' = IF dateCalls[d].to = "rejected" THEN dates
                            ELSE [f \in Fields |->
                                    IF changes[i].new[f] # changes[i].old[f]
                                    THEN changes[i].new[f] ELSE dates[f]]
           ELSE UNCHANGED <<changes, dates>>

(* respondCollaborationOrderChangeRequest, one transaction.                *)
RespondChange(d) ==
    /\ FinishDate(d, "respond")
    /\ LET i == dateCalls[d].ref
       IN  IF i \in Pending
           THEN /\ changes' = [changes EXCEPT ![i].status = dateCalls[d].to]
                /\ dates' = IF dateCalls[d].to = "accepted"
                            THEN changes[i].new ELSE dates
           ELSE UNCHANGED <<changes, dates>>
-----------------------------------------------------------------------------
Overdue == {f \in Fields : /\ order.status \in Active
                           /\ dates[f] # Null /\ dates[f] < today}

(* listOverdueCollaborationOrderDateNodes: it selects the active orders,   *)
(* then the records, and leaves out the nodes that have one; the rest is   *)
(* kept in memory for the whole run.                                       *)
Scan(k) ==
    /\ check[k].pc = "off"
    /\ check' = [check EXCEPT
                    ![k].pc = "scanned",
                    ![k].todo = [f \in Fields |-> IF f \in Overdue
                                                  THEN dates[f] ELSE Null]]
    /\ UNCHANGED <<orderVars, dateVars, notified, mailed>>

LeaveOutNotified(k) ==
    /\ check[k].pc = "scanned"
    /\ check' = [check EXCEPT
                    ![k].pc = "next",
                    ![k].todo = [f \in Fields |-> IF notified[f] = Null
                                                  THEN @[f] ELSE Null]]
    /\ UNCHANGED <<orderVars, dateVars, notified, mailed>>

Listed(k) == {f \in Fields : check[k].todo[f] # Null}
Node(k) == CHOOSE f \in Listed(k) : \A g \in Listed(k) : f <= g

Recipients == WithEmail \cap
    (Staff \cup IF order.as = "factory" THEN Colleagues ELSE {Buyer})

NextNode(k) ==
    /\ check[k].pc = "next"
    /\ check' = IF Listed(k) = {} THEN [check EXCEPT ![k] = Off]
                ELSE IF Recipients = {}
                THEN [check EXCEPT ![k].todo[Node(k)] = Null]
                ELSE [check EXCEPT ![k].pc = "sending", ![k].failed = FALSE,
                                   ![k].left = Recipients]
    /\ UNCHANGED <<orderVars, dateVars, notified, mailed>>

Send(k) ==
    /\ check[k].pc = "sending"
    /\ \E u \in check[k].left :
          LET mail == [user |-> u, field |-> Node(k),
                       due |-> check[k].todo[Node(k)]]
          IN  \/ /\ mailed' = mailed \cup {mail}
                 /\ check' = [check EXCEPT ![k].left = @ \ {u}]
              \/ /\ check' = [check EXCEPT ![k].left = @ \ {u},
                                           ![k].failed = TRUE]
                 /\ UNCHANGED mailed
    /\ UNCHANGED <<orderVars, dateVars, notified>>

NodeDone(k) ==
    /\ check[k].pc = "sending" /\ check[k].left = {}
    /\ check' = [check EXCEPT ![k].pc = "next", ![k].todo[Node(k)] = Null]
    /\ UNCHANGED <<orderVars, dateVars, mailed>>

RecordAnyway(k) ==                 \* faulty form
    /\ NodeDone(k)
    /\ notified' = [notified EXCEPT ![Node(k)] = check[k].todo[Node(k)]]

(* A record is written once per field; writing it may fail too.            *)
Record(k) ==
    /\ NodeDone(k)
    /\ \/ /\ ~check[k].failed
          /\ notified' = [notified EXCEPT ![Node(k)] =
                             IF @ = Null THEN check[k].todo[Node(k)] ELSE @]
       \/ UNCHANGED notified

(* The server restarts: nothing of what was in flight goes on.             *)
RestartAll ==
    /\ Restart
    /\ dateCalls' = [d \in DateSlots |-> FreeDate]
    /\ check' = [k \in Checks |-> Off]
    /\ UNCHANGED <<changes, notified, mailed>>

OrderMoves == (NextDay \/ \E c \in Slots : OrderCall(c))
                /\ UNCHANGED <<dateVars, overdueVars>>

DateMoves == \E d \in DateSlots :
    \/ ReadRequestChange(d) \/ RequestChange(d)
    \/ ReadRespondChange(d) \/ RespondChange(d)

CheckMoves == \E k \in Checks :
    Scan(k) \/ LeaveOutNotified(k) \/ NextNode(k) \/ Send(k) \/ Record(k)

NextDates == OrderMoves \/ DateMoves \/ CheckMoves \/ RestartAll

SpecDates == InitDates /\ [][NextDates]_vars
-----------------------------------------------------------------------------
(* The dates are in the order of the process at every moment, whichever    *)
(* requests were made from dates that have changed since.                  *)
DatesInOrder == InOrder(dates)

(* One request waits at most (createCollaborationOrderChangeRequest), and  *)
(* an accepted one is in force until the next is accepted                  *)
(* (respondCollaborationOrderChangeRequest: no 申請已接受但日期沒更新).        *)
Accepted == {i \in DOMAIN changes : changes[i].status = "accepted"}

LastAcceptedInForce ==
    /\ Cardinality(Pending) <= 1
    /\ Accepted # {} =>
          \E i \in Accepted : /\ \A j \in Accepted : j <= i
                              /\ dates = changes[i].new

(* orderOverdueCheck.ts: a record is written only after all recipients     *)
(* with an address got the mail for that due date.                         *)
RecordedMeansMailed ==
    \A f \in Fields : notified[f] # Null =>
        \A u \in Recipients :
            [user |-> u, field |-> f, due |-> notified[f]] \in mailed
==============================================================================
