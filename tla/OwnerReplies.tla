---------------------------- MODULE OwnerReplies ----------------------------
(***************************************************************************)
(* How the Agent answers its owner on Telegram: two loops of one process   *)
(* over one durable ledger.  The polling loop handles the owner's updates  *)
(* one after another and answers each; the observation loop sends again    *)
(* what is not confirmed as delivered and tells the owner what has become  *)
(* of the task.  A send is awaited: it may arrive and still fail.  What a  *)
(* loop read before an await may be old after it; the process may die at   *)
(* every await, and only the ledger is left.                               *)
(*                                                                         *)
(* An ask is a request to cancel the task, answered by a confirmation with *)
(* buttons; a press is one press of its button.  Where OwnerQueue models   *)
(* how updates reach the Agent, here they are a list read from the cursor, *)
(* in which the gateway may repeat one under a new place.                  *)
(***************************************************************************)
EXTENDS Naturals, Sequences

CONSTANTS
    Goals, Asks, Presses,    \* the owner's messages and presses
    Nobody,                  \* no confirmation
    MaxAttempts,             \* maxResponseAttempts
    MaxFaults,               \* bound on crashes, handler errors, failed notices
    MaxUpdates               \* bound on the owner's updates, repeated ones included

ASSUME RepliesAssumption ==
    /\ MaxAttempts \in Nat \ {0} /\ {MaxFaults, MaxUpdates} \subseteq Nat
    /\ Goals \cap Asks = {} /\ (Goals \cup Asks) \cap Presses = {}
    /\ {Nobody, "ended"} \cap Asks = {}

Items == Goals \cup Asks \cup Presses
Notices == Asks \cup {"ended"}     \* the confirmations, and the task's last notice

VARIABLES
    updates,      \* the owner's updates in order
    cursor,       \* ledger: how many of them are done
    resp,         \* ledger: item -> its response
    handled,      \* ledger: items whose outcome is remembered
    used,         \* ledger: confirmations that were used up
    notice,       \* ledger: notice -> "none", "intended" or "delivered"
    task,         \* "active", "accepted" or "cancelled"
    up,           \* whether the Agent runs
    poll,         \* where the polling loop is
    observe,      \* where the observation loop is
    confirms,     \* press -> the confirmation it belongs to
    shown,        \* notices that reached the owner
    copies,       \* ghost: item -> how often its reply arrived
    plain,        \* ghost: notice -> how often it arrived unmarked
    skipped,      \* ghost: items whose handler failed
    inline,       \* ghost: presses whose answer has to tell the task's end
    cut,          \* ghost: presses remembered when a crash cut off their answer
    crashes,      \* ghost: how often the process died
    faults

ledger == <<cursor, resp, handled, used, notice>>
world == <<updates, task, confirms>>
owner == <<shown, copies, plain>>
counts == <<skipped, inline, cut, crashes, faults>>
vars == <<ledger, world, owner, counts, up, poll, observe>>

Idle == [job |-> "idle"]
NoResponse == [intended |-> FALSE, delivered |-> FALSE, abandoned |-> FALSE, failures |-> 0]
Sent == {updates[n] : n \in DOMAIN updates}

Init ==
    /\ updates = <<>> /\ cursor = 0 /\ resp = [i \in Items |-> NoResponse]
    /\ handled = {} /\ used = {} /\ notice = [n \in Notices |-> "none"]
    /\ task = "active" /\ up = FALSE /\ poll = Idle /\ observe = Idle
    /\ confirms = [p \in Presses |-> Nobody] /\ shown = {}
    /\ copies = [i \in Items |-> 0] /\ plain = [n \in Notices |-> 0]
    /\ skipped = {} /\ inline = {} /\ cut = {} /\ crashes = 0 /\ faults = 0

Fault == faults < MaxFaults /\ faults' = faults + 1
-----------------------------------------------------------------------------
(* A call of Telegram that is under way; "again" marks a possible duplicate. *)
Sending(job, i, again) == [job |-> job, item |-> i, again |-> again, arrived |-> FALSE]

Done == cursor' = cursor + 1 /\ poll' = Idle

(* respond with a text: the intent is recorded, then the send is awaited.  *)
Reply(i) ==
    /\ resp' = [resp EXCEPT ![i].intended = TRUE]
    /\ poll' = Sending("send", i, FALSE)
    /\ UNCHANGED cursor

(* respond without one: the update is marked as answered.                  *)
Silent(i) ==
    /\ resp' = [resp EXCEPT ![i] = [@ EXCEPT !.intended = TRUE, !.delivered = TRUE]]
    /\ Done

Awaits(job, i) == poll' = [job |-> job, item |-> i] /\ UNCHANGED <<cursor, resp>>

Remember(i) == handled' = handled \cup {i}

(* submitGoal: taken, or the planner or the gateway is not available and   *)
(* nothing is remembered.                                                  *)
Goal(g) == (Remember(g) \/ UNCHANGED handled) /\ Reply(g) /\ UNCHANGED notice

(* Mutant: the intent is recorded after the confirmation was sent.         *)
AskUnrecorded(a) ==
    /\ task = "active" /\ notice[a] # "delivered"
    /\ poll' = Sending("confirm", a, notice[a] = "intended")
    /\ UNCHANGED <<cursor, resp, handled, notice>>

(* Mutant: the cursor moves past an update whose confirmation is under way. *)
AskEarly(a) ==
    \/ task # "active" /\ Remember(a) /\ Reply(a) /\ UNCHANGED notice
    \/ /\ task = "active" /\ notice[a] # "delivered"
       /\ notice' = [notice EXCEPT ![a] = "intended"]
       /\ poll' = Sending("confirm", a, notice[a] = "intended")
       /\ cursor' = cursor + 1 /\ UNCHANGED <<resp, handled>>

(* requestCancel: a task that has ended, a status that cannot be read; or  *)
(* the confirmation's intent is recorded and it is sent, marked if the     *)
(* intent was there already.  One that was delivered is not sent again,    *)
(* and the owner is told that it failed.                                   *)
Ask(a) ==
    \/ task # "active" /\ Remember(a) /\ Reply(a) /\ UNCHANGED notice
    \/ Reply(a) /\ UNCHANGED <<handled, notice>>
    \/ /\ task = "active" /\ notice[a] # "delivered"
       /\ notice' = [notice EXCEPT ![a] = "intended"]
       /\ poll' = Sending("confirm", a, notice[a] = "intended")
       /\ UNCHANGED <<cursor, resp, handled>>

(* handleAction until it awaits the status: the confirmation was used, has *)
(* expired (the owner may take any time), or is good.  Whatever comes out, *)
(* answerCallbackQuery and removeButtons are awaited before the response.  *)
Press(p) ==
    /\ \/ confirms[p] \in used /\ Awaits("silence", p) /\ UNCHANGED handled
       \/ confirms[p] \notin used /\ Remember(p) /\ Awaits("buttons", p)
       \/ confirms[p] \notin used /\ Awaits("status", p) /\ UNCHANGED handled
    /\ UNCHANGED notice

(* handle, and pollOnce behind it: an update that has a response is not    *)
(* handled again, at most its response is sent again.  An await behind     *)
(* which nothing read before it is used has no step of its own.            *)
Take ==
    /\ up /\ poll = Idle /\ cursor < Len(updates)
    /\ LET i == updates[cursor + 1] IN
       \/ /\ resp[i].intended /\ (resp[i].delivered \/ resp[i].abandoned)
          /\ Done /\ UNCHANGED <<resp, handled, notice>>
       \/ /\ resp[i].intended /\ ~resp[i].delivered /\ ~resp[i].abandoned
          /\ poll' = Sending("send", i, FALSE) /\ UNCHANGED <<cursor, resp, handled, notice>>
       \/ /\ ~resp[i].intended /\ i \in handled
          /\ IF i \in Presses THEN Awaits("silence", i) ELSE Reply(i)
          /\ UNCHANGED <<handled, notice>>
       \/ /\ ~resp[i].intended /\ i \notin handled
          /\ \/ i \in Goals /\ Goal(i)
             \/ i \in Asks /\ Ask(i)
             \/ i \in Presses /\ Press(i)
    /\ UNCHANGED <<used, world, owner, counts, up, observe>>

At(job) == up /\ poll.job = job

ConfirmSent ==
    /\ At("confirm")
    /\ LET a == poll.item IN
       \/ /\ poll.arrived /\ notice' = [notice EXCEPT ![a] = "delivered"]
          /\ Remember(a) /\ Silent(a)
       \/ Reply(a) /\ UNCHANGED <<handled, notice>>
    /\ UNCHANGED <<used, world, owner, counts, up, observe>>

(* handleAction, after it read the status.                                 *)
StatusRead ==
    /\ At("status")
    /\ LET p == poll.item IN
       \/ task # "active" /\ Remember(p) /\ Awaits("buttons", p)
       \/ Awaits("buttons", p) /\ UNCHANGED handled
       \/ task = "active" /\ Awaits("cancel", p) /\ UNCHANGED handled
    /\ UNCHANGED <<used, notice, world, owner, counts, up, observe>>

(* gateway.cancelTask: a task that ended since is left alone, and the call *)
(* returns as for the others.                                              *)
Cancels ==
    /\ At("cancel")
    /\ \/ /\ task' = IF task = "active" THEN "cancelled" ELSE task
          /\ Awaits("cancelled", poll.item)
       \/ Awaits("buttons", poll.item) /\ UNCHANGED task
    /\ UNCHANGED <<handled, used, notice, updates, confirms, owner, counts, up, observe>>

(* The confirmation is used up; the end counts as told (markInline) before *)
(* the answer that tells it, unless a notice of it is on its way.          *)
CancelDone ==
    /\ At("cancelled")
    /\ used' = used \cup {confirms[poll.item]} /\ Remember(poll.item)
    /\ \/ /\ notice["ended"] = "none" /\ notice' = [notice EXCEPT !["ended"] = "delivered"]
          /\ inline' = inline \cup {poll.item}
       \/ notice["ended"] # "none" /\ UNCHANGED <<notice, inline>>
    /\ Awaits("buttons", poll.item)
    /\ UNCHANGED <<world, owner, skipped, cut, crashes, faults, up, observe>>

(* The two calls are over, whose failures are ignored: the result is the   *)
(* response, but for a duplicate, which has no text.                       *)
ButtonsGone ==
    /\ \/ At("buttons") /\ Reply(poll.item)
       \/ At("silence") /\ Silent(poll.item)
    /\ UNCHANGED <<handled, used, notice, world, owner, counts, up, observe>>

(* An error in a handler, such as an append of the ledger that fails: the  *)
(* update is skipped.                                                      *)
HandlerThrows ==
    /\ \/ /\ up /\ poll = Idle /\ cursor < Len(updates)
          /\ skipped' = skipped \cup {updates[cursor + 1]}
       \/ /\ up /\ poll.job \in {"status", "cancel", "cancelled", "buttons", "silence"}
          /\ skipped' = skipped \cup {poll.item}
    /\ Fault /\ Done
    /\ UNCHANGED <<resp, handled, used, notice, world, owner, inline, cut, crashes, up, observe>>

(* recordResponseFailed and recordResponseAbandoned                        *)
Failed(r) ==
    IF r.delivered THEN r
    ELSE [r EXCEPT !.failures = @ + 1, !.abandoned = @ \/ r.failures + 1 >= MaxAttempts]

(* sendRecorded, by either loop.                                           *)
SendEnds(send) ==
    /\ \/ send.arrived /\ resp' = [resp EXCEPT ![send.item].delivered = TRUE]
       \/ resp' = [resp EXCEPT ![send.item] = Failed(@)]
    /\ UNCHANGED <<handled, used, notice>>

(* What is sent reaches the owner.                                         *)
Arrives(send) ==
    /\ up /\ send.job \in {"send", "confirm", "tell"} /\ ~send.arrived
    /\ IF send.job = "send"
       THEN copies' = [copies EXCEPT ![send.item] = @ + 1] /\ UNCHANGED <<shown, plain>>
       ELSE /\ plain' = IF send.again THEN plain ELSE [plain EXCEPT ![send.item] = @ + 1]
            /\ shown' = shown \cup {send.item} /\ UNCHANGED copies
    /\ UNCHANGED <<ledger, world, counts, up>>

PollSent ==
    /\ At("send") /\ SendEnds(poll) /\ Done
    /\ UNCHANGED <<world, owner, counts, up, observe>>

PollArrives == Arrives(poll) /\ poll' = [poll EXCEPT !.arrived = TRUE] /\ UNCHANGED observe
-----------------------------------------------------------------------------
(* Mutant: delivered responses stay pending.                               *)
PendingUntilGivenUp == {i \in Items : resp[i].intended /\ ~resp[i].abandoned}

Pending == {i \in Items : resp[i].intended /\ ~resp[i].delivered /\ ~resp[i].abandoned}

(* A round of the observation loop: the pending responses are listed once  *)
(* and sent one after another; then the task is looked at.  A round with   *)
(* nothing to do is left out.                                              *)
RoundStarts ==
    /\ up /\ observe = Idle
    /\ Pending # {} \/ (task # "active" /\ notice["ended"] # "delivered")
    /\ observe' = [job |-> "retry", left |-> Pending]
    /\ UNCHANGED <<ledger, world, owner, counts, up, poll>>

Resends ==
    /\ up /\ observe.job = "retry"
    /\ \E i \in observe.left : observe' = [job |-> "send", item |-> i, arrived |-> FALSE, left |-> observe.left \ {i}]
    /\ UNCHANGED <<ledger, world, owner, counts, up, poll>>

Resent ==
    /\ up /\ observe.job = "send" /\ SendEnds(observe)
    /\ observe' = [job |-> "retry", left |-> observe.left]
    /\ UNCHANGED <<cursor, world, owner, counts, up, poll>>

ObserveArrives == Arrives(observe) /\ observe' = [observe EXCEPT !.arrived = TRUE] /\ UNCHANGED poll

(* Mutant: an end that was tried once counts as told.                      *)
LooksOnce ==
    /\ up /\ observe.job = "retry" /\ observe.left = {}
    /\ \/ (task = "active" \/ notice["ended"] # "none") /\ observe' = Idle /\ UNCHANGED notice
       \/ /\ task # "active" /\ notice["ended"] = "none"
          /\ notice' = [notice EXCEPT !["ended"] = "intended"]
          /\ observe' = Sending("tell", "ended", FALSE)
    /\ UNCHANGED <<cursor, resp, handled, used, world, owner, counts, up, poll>>

(* observeMilestones: the task's end is told until that is confirmed.      *)
Looks ==
    /\ up /\ observe.job = "retry" /\ observe.left = {}
    /\ \/ (task = "active" \/ notice["ended"] = "delivered") /\ observe' = Idle /\ UNCHANGED notice
       \/ /\ task # "active" /\ notice["ended"] # "delivered"
          /\ notice' = [notice EXCEPT !["ended"] = "intended"]
          /\ observe' = Sending("tell", "ended", notice["ended"] = "intended")
    /\ UNCHANGED <<cursor, resp, handled, used, world, owner, counts, up, poll>>

Tells ==
    /\ up /\ observe.job = "tell" /\ observe' = Idle
    /\ \/ observe.arrived /\ notice' = [notice EXCEPT !["ended"] = "delivered"] /\ UNCHANGED faults
       \/ Fault /\ UNCHANGED notice
    /\ UNCHANGED <<cursor, resp, handled, used, world, owner, skipped, inline, cut, crashes, up, poll>>

PollStep ==
    \/ Take \/ ConfirmSent \/ StatusRead \/ Cancels \/ CancelDone
    \/ ButtonsGone \/ PollSent \/ PollArrives

ObserveStep == RoundStarts \/ Resends \/ Resent \/ ObserveArrives \/ Looks \/ Tells
-----------------------------------------------------------------------------
(* The owner writes, or presses the button of a confirmation they have.    *)
Writes(i) ==
    /\ i \in Goals \cup Asks /\ i \notin Sent /\ Len(updates) < MaxUpdates /\ updates' = Append(updates, i)
    /\ UNCHANGED <<ledger, task, confirms, owner, counts, up, poll, observe>>

PressesButton(p, a) ==
    /\ p \notin Sent /\ a \in shown /\ Len(updates) < MaxUpdates
    /\ updates' = Append(updates, p) /\ confirms' = [confirms EXCEPT ![p] = a]
    /\ UNCHANGED <<ledger, task, owner, counts, up, poll, observe>>

(* The gateway delivers an update again under a new place.                 *)
Redelivered(i) ==
    /\ i \in Sent /\ Len(updates) < MaxUpdates /\ updates' = Append(updates, i)
    /\ UNCHANGED <<ledger, task, confirms, owner, counts, up, poll, observe>>

TaskEnds ==
    /\ task = "active" /\ task' = "accepted"
    /\ UNCHANGED <<ledger, updates, confirms, owner, counts, up, poll, observe>>

(* The process dies, whatever it was waiting for.                          *)
Crash ==
    /\ up /\ Fault /\ crashes' = crashes + 1
    /\ cut' = cut \cup {p \in handled : poll = [job |-> "buttons", item |-> p]}
    /\ up' = FALSE /\ poll' = Idle /\ observe' = Idle
    /\ UNCHANGED <<ledger, world, owner, skipped, inline>>

Restart ==
    /\ ~up /\ up' = TRUE
    /\ UNCHANGED <<ledger, world, owner, counts, poll, observe>>

Next ==
    \/ PollStep \/ ObserveStep \/ HandlerThrows \/ Crash \/ Restart \/ TaskEnds
    \/ \E i \in Items : Writes(i) \/ Redelivered(i)
    \/ \E p \in Presses, a \in Asks : PressesButton(p, a)

Spec == Init /\ [][Next]_vars

(* Both loops run until the process dies, and it is started again; a call  *)
(* of Telegram, the planner or the gateway returns or times out.           *)
FairSpec == Spec /\ WF_vars(PollStep) /\ WF_vars(ObserveStep) /\ WF_vars(Restart)
-----------------------------------------------------------------------------
Response == [intended : BOOLEAN, delivered : BOOLEAN, abandoned : BOOLEAN, failures : Nat]
Jobs(names, items) == {[job |-> j, item |-> i] : j \in names, i \in items}
Sends(job, items) == [job : {job}, item : items, again : BOOLEAN, arrived : BOOLEAN]

TypeOK ==
    /\ cursor \in 0..Len(updates) /\ updates \in Seq(Items)
    /\ resp \in [Items -> Response] /\ handled \subseteq Items /\ used \subseteq Asks
    /\ notice \in [Notices -> {"none", "intended", "delivered"}]
    /\ task \in {"active", "accepted", "cancelled"} /\ up \in BOOLEAN
    /\ confirms \in [Presses -> Asks \cup {Nobody}] /\ shown \subseteq Notices
    /\ copies \in [Items -> Nat] /\ plain \in [Notices -> Nat]
    /\ skipped \subseteq Items /\ inline \cup cut \subseteq Presses
    /\ poll \in {Idle} \cup Jobs({"status", "cancel", "cancelled", "buttons", "silence"}, Presses)
                \cup Sends("confirm", Asks) \cup Sends("send", Items)
    /\ observe \in {Idle} \cup [job : {"retry"}, left : SUBSET Items] \cup Sends("tell", {"ended"})
                \cup [job : {"send"}, item : Items, arrived : BOOLEAN, left : SUBSET Items]
    /\ crashes \in 0..faults /\ faults \in 0..MaxFaults

(* No update below the cursor is forgotten: its response was at least      *)
(* intended, or marked as given where it has no text, unless its handler   *)
(* failed (controlPlane.ts:208-213).  A crash anywhere in handling it, and *)
(* updates that come again, do not change that.                            *)
AnsweredBelowCursor ==
    \A n \in 1..cursor : resp[updates[n]].intended \/ updates[n] \in skipped

(* A response is given up after maxAttempts failed sends and not before,   *)
(* and is not tried without end: the two loops, and what one of them       *)
(* listed before, add one failure at most (controlPlane.ts:123-131).       *)
AttemptsBounded ==
    \A i \in Items :
        /\ resp[i].failures <= MaxAttempts + 1
        /\ resp[i].abandoned => resp[i].failures >= MaxAttempts

(* The owner gets a reply again only for a reason: every further copy goes *)
(* back to a send that failed or was cut off by a crash, but for one which *)
(* the other loop may have had under way or listed at the same time.       *)
CopiesBounded == \A i \in Items : copies[i] <= 2 + resp[i].failures + 2 * crashes

(* Types, and: however the two loops and the crashes fall together, a      *)
(* response is sent and tried within these bounds.                         *)
RetriesBounded == TypeOK /\ AttemptsBounded /\ CopiesBounded

(* Of the copies of a notice one at most is not marked as a possible       *)
(* duplicate, over failed sends that arrived, crashes and repeated         *)
(* requests (ledger.ts:105-110, service.ts:361-366).                       *)
UnmarkedOnce == \A n \in Notices : plain[n] <= 1

(* What is said of an item that is handled no more: its reply arrived or   *)
(* was given up, a confirmation arrived for an ask; or nothing is, because *)
(* its handler failed, a crash cut its answer off after the press had been *)
(* remembered, or it pressed a button that had done its work.              *)
Heard(i) == copies[i] > 0 \/ resp[i].abandoned \/ i \in skipped \cup cut
Answered(i) ==
    \/ Heard(i)
    \/ i \in Asks /\ i \in shown
    \/ i \in Presses \ handled /\ confirms[i] \in used /\ resp[i].delivered

(* Everything the owner sends is answered in the end, counted by what has  *)
(* arrived and not by what the ledger says; a crash keeps an answer from   *)
(* the owner between remembering a press and recording its response only   *)
(* (controlPlane.ts:186-194).                                              *)
EveryItemAnswered == []<>(\A i \in Sent : Answered(i))

(* The owner hears of the task's end: its last notice arrives, again and   *)
(* again tried, or the answer to the press that cancelled it does.  That   *)
(* answer alone has no second chance, since the end counts as told before  *)
(* it is on its way (service.ts:1114): it may be given up or cut off.      *)
EndTold == []<>(task # "active" => "ended" \in shown \/ \E p \in inline : Heard(p))

(* Nothing that the owner waits for stays open: every update is answered   *)
(* and the end of the task told, under fair loops and restarts, but where  *)
(* the comments above say that the code lets it go.                        *)
OwnerTold == EveryItemAnswered /\ EndTold
=============================================================================
