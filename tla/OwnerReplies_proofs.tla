------------------------ MODULE OwnerReplies_proofs ------------------------
(***************************************************************************)
(* Theorems about the answers to the owner, for any number of messages,    *)
(* presses, attempts, crashes and repeated updates.                        *)
(***************************************************************************)
EXTENDS OwnerReplies, TLAPS

USE RepliesAssumption DEF RepliesAssumption

Busy == {"status", "cancel", "cancelled", "buttons", "silence"}
-----------------------------------------------------------------------------
(* What the types say of the two loops.                                    *)
LEMMA Forms ==
    ASSUME TypeOK
    PROVE  /\ poll.job \in {"idle", "confirm", "send"} \cup Busy
           /\ poll.job = "idle" <=> poll = Idle
           /\ poll.job = "send" => poll \in Sends("send", Items)
           /\ poll.job = "confirm" => poll \in Sends("confirm", Asks)
           /\ poll.job \in Busy => poll.item \in Presses
           /\ poll.job # "idle" => poll.item \in Items
<1>1. CASE poll = Idle
  BY <1>1 DEF Idle, Busy
<1>2. CASE poll \in Jobs(Busy, Presses)
  <2>1. PICK j \in Busy, p \in Presses : poll = [job |-> j, item |-> p]
    BY <1>2 DEF Jobs
  <2> QED
    BY <2>1 DEF Busy, Idle, Items
<1>3. CASE poll \in Sends("confirm", Asks)
  BY <1>3 DEF Sends, Busy, Idle, Items
<1>4. CASE poll \in Sends("send", Items)
  BY <1>4 DEF Sends, Busy, Idle
<1> QED
  BY <1>1, <1>2, <1>3, <1>4 DEF TypeOK, Busy

LEMMA ObserveForms ==
    ASSUME TypeOK
    PROVE  /\ observe.job \in {"idle", "retry", "send", "tell"}
           /\ observe.job = "idle" <=> observe = Idle
           /\ observe.job = "retry" => observe \in [job : {"retry"}, left : SUBSET Items]
           /\ observe.job = "send" => observe \in [job : {"send"}, item : Items, arrived : BOOLEAN, left : SUBSET Items]
           /\ observe.job = "tell" => observe \in Sends("tell", {"ended"})
<1>1. CASE observe = Idle
  BY <1>1 DEF Idle
<1>2. CASE observe \in [job : {"retry"}, left : SUBSET Items]
  BY <1>2 DEF Idle
<1>3. CASE observe \in Sends("tell", {"ended"})
  BY <1>3 DEF Sends, Idle
<1>4. CASE observe \in [job : {"send"}, item : Items, arrived : BOOLEAN, left : SUBSET Items]
  BY <1>4 DEF Idle
<1> QED
  BY <1>1, <1>2, <1>3, <1>4 DEF TypeOK
-----------------------------------------------------------------------------
(* The polling loop is busy with the update behind the cursor.             *)
AtNext == poll # Idle => cursor < Len(updates) /\ poll.item = updates[cursor + 1]
(* A press that was made belongs to a confirmation.                        *)
PressesKnown == \A n \in DOMAIN updates : updates[n] \in Presses => confirms[updates[n]] \in Asks
Base == TypeOK /\ AtNext /\ PressesKnown

PollStates == {Idle} \cup Jobs(Busy, Presses) \cup Sends("confirm", Asks) \cup Sends("send", Items)
ObserveStates == {Idle} \cup [job : {"retry"}, left : SUBSET Items] \cup Sends("tell", {"ended"})
    \cup [job : {"send"}, item : Items, arrived : BOOLEAN, left : SUBSET Items]

LEMMA PollMoves ==
    /\ Idle \in PollStates
    /\ \A i \in Items, b \in BOOLEAN : Sending("send", i, b) \in PollStates
    /\ \A a \in Asks, b \in BOOLEAN : Sending("confirm", a, b) \in PollStates
    /\ \A p \in Presses, j \in Busy : [job |-> j, item |-> p] \in PollStates
    /\ \A i, b : Sending("send", i, b) # Idle /\ Sending("confirm", i, b) # Idle
    /\ \A i, b : Sending("send", i, b).item = i /\ Sending("confirm", i, b).item = i
    /\ \A p, j \in Busy : [job |-> j, item |-> p] # Idle
<1>1. \A p \in Presses, j \in Busy : [job |-> j, item |-> p] \in PollStates
  BY DEF PollStates, Jobs
<1> QED
  BY <1>1 DEF PollStates, Sending, Sends, Idle, Busy

LEMMA Responses ==
    /\ NoResponse \in Response
    /\ \A r \in Response : /\ [r EXCEPT !.intended = TRUE] \in Response
                          /\ [r EXCEPT !.delivered = TRUE] \in Response
                          /\ [r EXCEPT !.intended = TRUE, !.delivered = TRUE] \in Response
                          /\ Failed(r) \in Response
<1>1. NoResponse \in Response
  BY DEF NoResponse, Response
<1> SUFFICES ASSUME NEW r \in Response
             PROVE  /\ [r EXCEPT !.intended = TRUE] \in Response
                    /\ [r EXCEPT !.delivered = TRUE] \in Response
                    /\ [r EXCEPT !.intended = TRUE, !.delivered = TRUE] \in Response
                    /\ Failed(r) \in Response
  BY <1>1
<1>2. /\ [r EXCEPT !.intended = TRUE] \in Response
      /\ [r EXCEPT !.delivered = TRUE] \in Response
      /\ [r EXCEPT !.intended = TRUE, !.delivered = TRUE] \in Response
  BY DEF Response
<1>3. Failed(r) \in Response
  <2> DEFINE ab == r.abandoned \/ r.failures + 1 >= MaxAttempts
  <2>1. ab \in BOOLEAN /\ r.failures + 1 \in Nat
    BY DEF Response
  <2>2. [r EXCEPT !.failures = r.failures + 1, !.abandoned = ab] \in Response
    <3> HIDE DEF ab
    <3> QED
      BY <2>1 DEF Response
  <2> QED
    BY <2>2 DEF Failed
<1> QED
  BY <1>2, <1>3

LEMMA ReplyBase ==
    ASSUME Base, NEW i \in Items, Reply(i), cursor < Len(updates), i = updates[cursor + 1],
           UNCHANGED updates
    PROVE  /\ resp' \in [Items -> Response] /\ poll' \in PollStates /\ cursor' \in 0..Len(updates')
           /\ AtNext'
<1>1. resp' \in [Items -> Response]
  <2>1. resp \in [Items -> Response] /\ resp' = [resp EXCEPT ![i] = [@ EXCEPT !.intended = TRUE]]
    BY DEF Reply, Base, TypeOK
  <2> QED
    BY <2>1, Responses
<1>2. poll' \in PollStates /\ poll'.item = i
  BY PollMoves DEF Reply
<1>3. cursor' = cursor /\ updates' = updates /\ cursor \in 0..Len(updates)
  BY DEF Reply, Base, TypeOK
<1> QED
  BY <1>1, <1>2, <1>3 DEF AtNext

LEMMA DoneBase ==
    ASSUME Base, Done, cursor < Len(updates), UNCHANGED updates
    PROVE  /\ poll' \in PollStates /\ cursor' \in 0..Len(updates') /\ AtNext'
<1>1. updates \in Seq(Items) /\ cursor \in 0..Len(updates)
  BY DEF Base, TypeOK
<1>2. Len(updates) \in Nat
  BY <1>1
<1>3. cursor' = cursor + 1 /\ updates' = updates /\ poll' = Idle /\ poll' \in PollStates
  BY PollMoves DEF Done
<1> QED
  BY <1>1, <1>2, <1>3 DEF AtNext

LEMMA SilentBase ==
    ASSUME Base, NEW i \in Items, Silent(i), cursor < Len(updates), UNCHANGED updates
    PROVE  /\ resp' \in [Items -> Response] /\ poll' \in PollStates /\ cursor' \in 0..Len(updates')
           /\ AtNext'
<1>1. resp' \in [Items -> Response]
  <2>1. /\ resp \in [Items -> Response]
        /\ resp' = [resp EXCEPT ![i] = [@ EXCEPT !.intended = TRUE, !.delivered = TRUE]]
    BY DEF Silent, Base, TypeOK
  <2> QED
    BY <2>1, Responses
<1> QED
  BY <1>1, DoneBase DEF Silent

LEMMA AwaitsBase ==
    ASSUME Base, NEW p \in Presses, NEW j \in Busy, Awaits(j, p), cursor < Len(updates),
           p = updates[cursor + 1], UNCHANGED updates
    PROVE  /\ resp' \in [Items -> Response] /\ poll' \in PollStates /\ cursor' \in 0..Len(updates')
           /\ AtNext'
<1>1. poll' \in PollStates /\ poll'.item = p
  BY PollMoves DEF Awaits
<1>2. UNCHANGED <<cursor, resp, updates>> /\ cursor \in 0..Len(updates) /\ resp \in [Items -> Response]
  BY DEF Awaits, Base, TypeOK
<1> QED
  BY <1>1, <1>2 DEF AtNext

LEMMA SendEndsTyped ==
    ASSUME TypeOK, NEW s, s.item \in Items, SendEnds(s)
    PROVE  resp' \in [Items -> Response]
<1>1. resp \in [Items -> Response]
  BY DEF TypeOK
<1>2. CASE resp' = [resp EXCEPT ![s.item].delivered = TRUE]
  <2>1. resp' = [resp EXCEPT ![s.item] = [resp[s.item] EXCEPT !.delivered = TRUE]]
    BY <1>2
  <2> QED
    BY <1>1, <2>1, Responses
<1>3. CASE resp' = [resp EXCEPT ![s.item] = Failed(@)]
  BY <1>1, <1>3, Responses
<1> QED
  BY <1>2, <1>3 DEF SendEnds

LEMMA ArrivesTyped ==
    ASSUME TypeOK, NEW s, s.item \in Items \cup Notices, s.job = "send" => s.item \in Items,
           s.job # "send" => s.item \in Notices, Arrives(s)
    PROVE  /\ copies' \in [Items -> Nat] /\ plain' \in [Notices -> Nat] /\ shown' \subseteq Notices
           /\ UNCHANGED <<ledger, world, counts, up>>
<1>1. CASE s.job = "send"
  <2>1. /\ s.item \in Items /\ shown \subseteq Notices
        /\ plain \in [Notices -> Nat] /\ copies \in [Items -> Nat]
    BY <1>1 DEF TypeOK
  <2>2. /\ copies' = [copies EXCEPT ![s.item] = @ + 1] /\ plain' = plain /\ shown' = shown
        /\ UNCHANGED <<ledger, world, counts, up>>
    BY <1>1 DEF Arrives
  <2> QED
    BY <2>1, <2>2
<1>2. CASE s.job # "send"
  <2>1. s.item \in Notices /\ shown \subseteq Notices /\ plain \in [Notices -> Nat] /\ copies \in [Items -> Nat]
    BY <1>2 DEF TypeOK
  <2>2. /\ shown' = shown \cup {s.item} /\ copies' = copies
        /\ plain' = plain \/ plain' = [plain EXCEPT ![s.item] = @ + 1]
    BY <1>2 DEF Arrives
  <2>3. plain' \in [Notices -> Nat]
    BY <2>1, <2>2
  <2>4. shown' \subseteq Notices /\ copies' \in [Items -> Nat]
    BY <2>1, <2>2
  <2> QED
    BY <2>3, <2>4 DEF Arrives
<1> QED
  BY <1>1, <1>2
-----------------------------------------------------------------------------
(* The update that the polling loop takes, and what it knows while busy.   *)
LEMMA Taken ==
    ASSUME Base, cursor < Len(updates)
    PROVE  updates[cursor + 1] \in Items /\ cursor \in Nat /\ Len(updates) \in Nat
<1>1. updates \in Seq(Items) /\ cursor \in 0..Len(updates)
  BY DEF Base, TypeOK
<1> QED
  BY <1>1

LEMMA AtWork ==
    ASSUME Base, NEW j \in {"confirm", "send"} \cup Busy, At(j)
    PROVE  /\ poll # Idle /\ cursor < Len(updates) /\ poll.item = updates[cursor + 1]
           /\ poll.item \in Items
<1>1. poll # Idle
  BY Forms DEF At, Base, Busy
<1> QED
  BY <1>1, Taken DEF Base, AtNext

(* A handler leaves the shared state of the Agent well-formed.             *)
LEMMA HandlersTyped ==
    ASSUME Base, NEW i \in Items, cursor < Len(updates), i = updates[cursor + 1],
           UNCHANGED updates,
           \/ i \in Goals /\ Goal(i)
           \/ i \in Asks /\ Ask(i)
           \/ i \in Presses /\ Press(i)
    PROVE  /\ resp' \in [Items -> Response] /\ poll' \in PollStates /\ cursor' \in 0..Len(updates')
           /\ AtNext' /\ handled' \subseteq Items
           /\ notice' \in [Notices -> {"none", "intended", "delivered"}]
<1> USE DEF Base, Remember
<1>1. handled \subseteq Items /\ notice \in [Notices -> {"none", "intended", "delivered"}]
      /\ resp \in [Items -> Response] /\ cursor \in 0..Len(updates)
  BY DEF TypeOK
<1>2. CASE i \in Goals /\ Goal(i)
  BY <1>1, <1>2, ReplyBase DEF Goal
<1>3. CASE i \in Asks /\ Ask(i)
  <2>1. CASE Reply(i) /\ UNCHANGED notice /\ handled' \subseteq Items
    BY <1>1, <2>1, ReplyBase
  <2>2. CASE /\ notice' = [notice EXCEPT ![i] = "intended"]
             /\ poll' = Sending("confirm", i, notice[i] = "intended")
             /\ UNCHANGED <<cursor, resp, handled>>
    <3>1. poll' \in PollStates /\ poll'.item = i
      BY <1>3, <2>2, PollMoves
    <3> QED
      BY <1>1, <2>2, <3>1 DEF AtNext
  <2> QED
    BY <1>1, <1>3, <2>1, <2>2 DEF Ask
<1>4. CASE i \in Presses /\ Press(i)
  <2>1. PICK j \in Busy : Awaits(j, i) /\ UNCHANGED notice
    BY <1>4 DEF Press, Busy
  <2>2. handled' \subseteq Items
    BY <1>1, <1>4 DEF Press
  <2> QED
    BY <1>1, <1>4, <2>1, <2>2, AwaitsBase
<1> QED
  BY <1>2, <1>3, <1>4

LEMMA Keeps ==
    ASSUME Base, UNCHANGED <<updates, confirms, shown, copies, plain, skipped, crashes, faults, up, observe>>,
           used' \subseteq Asks, task' \in {"active", "accepted", "cancelled"},
           inline' \subseteq Presses, cut' = cut,
           handled' \subseteq Items, resp' \in [Items -> Response],
           notice' \in [Notices -> {"none", "intended", "delivered"}],
           poll' \in PollStates, cursor' \in 0..Len(updates'), AtNext'
    PROVE  Base'
<1>1. TypeOK'
  BY DEF Base, TypeOK, PollStates, Busy
<1>2. PressesKnown'
  BY DEF Base, PressesKnown
<1> QED
  BY <1>1, <1>2 DEF Base

LEMMA TakeBase == Base /\ Take => Base'
<1> SUFFICES ASSUME Base, Take PROVE Base'
  OBVIOUS
<1> DEFINE i == updates[cursor + 1]
<1>1. /\ UNCHANGED <<used, world, owner, counts, up, observe>> /\ cursor < Len(updates)
      /\ i \in Items /\ cursor \in Nat /\ Len(updates) \in Nat
  BY Taken DEF Take
<1>2. UNCHANGED <<updates, task, confirms, shown, copies, plain, skipped, crashes, faults, used, up, observe>>
  BY <1>1 DEF world, owner, counts
<1>3. handled \subseteq Items /\ notice \in [Notices -> {"none", "intended", "delivered"}]
      /\ resp \in [Items -> Response] /\ cursor \in 0..Len(updates)
  BY DEF Base, TypeOK
<1>4. /\ resp' \in [Items -> Response] /\ poll' \in PollStates /\ cursor' \in 0..Len(updates')
      /\ AtNext' /\ handled' \subseteq Items
      /\ notice' \in [Notices -> {"none", "intended", "delivered"}]
  <2>1. CASE Done /\ UNCHANGED <<resp, handled, notice>>
    BY <1>1, <1>2, <1>3, <2>1, DoneBase
  <2>2. CASE poll' = Sending("send", i, FALSE) /\ UNCHANGED <<cursor, resp, handled, notice>>
    <3>1. poll' \in PollStates /\ poll'.item = i
      BY <1>1, <2>2, PollMoves
    <3> QED
      BY <1>1, <1>2, <1>3, <2>2, <3>1 DEF AtNext
  <2>3. CASE Reply(i) /\ UNCHANGED <<handled, notice>>
    BY <1>1, <1>2, <1>3, <2>3, ReplyBase
  <2>5. CASE i \in Presses /\ Awaits("silence", i) /\ UNCHANGED <<handled, notice>>
    BY <1>1, <1>2, <1>3, <2>5, AwaitsBase DEF Busy
  <2>4. CASE \/ i \in Goals /\ Goal(i)
             \/ i \in Asks /\ Ask(i)
             \/ i \in Presses /\ Press(i)
    BY <1>1, <1>2, <2>4, HandlersTyped
  <2> QED
    BY <2>1, <2>2, <2>3, <2>4, <2>5 DEF Take
<1>5. used' \subseteq Asks /\ task' \in {"active", "accepted", "cancelled"}
  BY <1>2 DEF Base, TypeOK
<1>6. inline' \subseteq Presses /\ cut' = cut
  BY <1>1 DEF counts, Base, TypeOK
<1> QED
  BY <1>2, <1>4, <1>5, <1>6, Keeps

LEMMA ConfirmSentBase == Base /\ ConfirmSent => Base'
<1> SUFFICES ASSUME Base, ConfirmSent PROVE Base'
  OBVIOUS
<1> DEFINE a == poll.item
<1>1. UNCHANGED <<updates, task, confirms, shown, copies, plain, skipped, crashes, faults, used, up, observe>>
  BY DEF ConfirmSent, world, owner, counts
<1>2. a \in Items /\ a \in Asks /\ cursor < Len(updates) /\ a = updates[cursor + 1]
  <2>1. poll \in Sends("confirm", Asks)
    BY Forms DEF ConfirmSent, At, Base
  <2> QED
    BY <2>1, AtWork DEF ConfirmSent, Sends
<1>3. handled \subseteq Items /\ notice \in [Notices -> {"none", "intended", "delivered"}]
  BY DEF Base, TypeOK
<1>4. /\ resp' \in [Items -> Response] /\ poll' \in PollStates /\ cursor' \in 0..Len(updates')
      /\ AtNext'
  BY <1>1, <1>2, SilentBase, ReplyBase DEF ConfirmSent
<1>5. handled' \subseteq Items /\ notice' \in [Notices -> {"none", "intended", "delivered"}]
  BY <1>2, <1>3 DEF ConfirmSent, Remember, Notices
<1>6. used' \subseteq Asks /\ task' \in {"active", "accepted", "cancelled"}
  BY <1>1 DEF Base, TypeOK
<1>7. inline' \subseteq Presses /\ cut' = cut
  BY DEF ConfirmSent, counts, Base, TypeOK
<1> QED
  BY <1>1, <1>4, <1>5, <1>6, <1>7, Keeps

(* The steps of a press.                                                   *)
LEMMA PressBase == Base /\ (StatusRead \/ Cancels \/ CancelDone \/ ButtonsGone) => Base'
<1> SUFFICES ASSUME Base, StatusRead \/ Cancels \/ CancelDone \/ ButtonsGone PROVE Base'
  OBVIOUS
<1> DEFINE p == poll.item
<1>1. UNCHANGED <<updates, confirms, shown, copies, plain, skipped, crashes, faults, up, observe>>
  BY DEF StatusRead, Cancels, CancelDone, ButtonsGone, world, owner, counts
<1>2. p \in Items /\ p \in Presses /\ cursor < Len(updates) /\ p = updates[cursor + 1]
  <2>1. PICK j \in Busy : At(j)
    BY DEF StatusRead, Cancels, CancelDone, ButtonsGone, Busy
  <2>2. p \in Presses
    BY <2>1, Forms DEF At, Base
  <2> QED
    BY <2>1, <2>2, AtWork
<1>3. /\ handled \subseteq Items /\ notice \in [Notices -> {"none", "intended", "delivered"}]
      /\ used \subseteq Asks /\ task \in {"active", "accepted", "cancelled"}
      /\ confirms \in [Presses -> Asks \cup {Nobody}]
  BY DEF Base, TypeOK
<1>4. /\ resp' \in [Items -> Response] /\ poll' \in PollStates /\ cursor' \in 0..Len(updates')
      /\ AtNext'
  <2>1. \/ Reply(p) \/ Silent(p)
        \/ Awaits("cancel", p) \/ Awaits("cancelled", p) \/ Awaits("buttons", p)
    BY DEF StatusRead, Cancels, CancelDone, ButtonsGone
  <2>2. {"cancel", "cancelled", "buttons"} \subseteq Busy
    BY DEF Busy
  <2> QED
    BY <1>1, <1>2, <2>1, <2>2, ReplyBase, SilentBase, AwaitsBase
<1>5. handled' \subseteq Items /\ task' \in {"active", "accepted", "cancelled"}
  BY <1>2, <1>3 DEF StatusRead, Cancels, CancelDone, ButtonsGone, Remember, world
<1>6. notice' \in [Notices -> {"none", "intended", "delivered"}]
  BY <1>3 DEF StatusRead, Cancels, CancelDone, ButtonsGone
<1>7. used' \subseteq Asks
  <2>1. updates[cursor + 1] \in Presses => confirms[p] \in Asks
    <3>1. updates \in Seq(Items) /\ cursor \in 0..Len(updates)
      BY DEF Base, TypeOK
    <3>2. cursor + 1 \in DOMAIN updates
      BY <1>2, <3>1
    <3> QED
      BY <1>2, <3>2 DEF Base, PressesKnown
  <2> QED
    BY <1>2, <1>3, <2>1 DEF StatusRead, Cancels, CancelDone, ButtonsGone
<1>8. inline' \subseteq Presses /\ cut' = cut
  <2>1. inline \subseteq Presses
    BY DEF Base, TypeOK
  <2> QED
    BY <1>2, <2>1 DEF StatusRead, Cancels, CancelDone, ButtonsGone, counts
<1> QED
  BY <1>1, <1>4, <1>5, <1>6, <1>7, <1>8, Keeps

LEMMA PollSentBase == Base /\ PollSent => Base'
<1> SUFFICES ASSUME Base, PollSent PROVE Base'
  OBVIOUS
<1>1. /\ UNCHANGED <<updates, confirms, shown, copies, plain, skipped, crashes, faults, up, observe>>
      /\ UNCHANGED <<task, handled, used, notice>>
  BY DEF PollSent, SendEnds, world, owner, counts
<1>2. poll.item \in Items /\ cursor < Len(updates)
  BY AtWork DEF PollSent
<1>3. resp' \in [Items -> Response]
  BY <1>2, SendEndsTyped DEF PollSent, Base
<1>4. poll' \in PollStates /\ cursor' \in 0..Len(updates') /\ AtNext'
  BY <1>1, <1>2, DoneBase DEF PollSent
<1>5. /\ used' \subseteq Asks /\ task' \in {"active", "accepted", "cancelled"} /\ handled' \subseteq Items
      /\ notice' \in [Notices -> {"none", "intended", "delivered"}]
  BY <1>1 DEF Base, TypeOK
<1>6. inline' \subseteq Presses /\ cut' = cut
  BY DEF PollSent, counts, Base, TypeOK
<1> QED
  BY <1>1, <1>3, <1>4, <1>5, <1>6, Keeps

LEMMA HandlerThrowsBase == Base /\ HandlerThrows => Base'
<1> SUFFICES ASSUME Base, HandlerThrows PROVE Base'
  OBVIOUS
<1>1. /\ UNCHANGED <<updates, task, confirms, shown, copies, plain, crashes, up, observe>>
      /\ UNCHANGED <<resp, handled, used, notice, inline, cut>>
  BY DEF HandlerThrows, world, owner
<1>2. cursor < Len(updates) /\ skipped' \in SUBSET Items
  <2>1. CASE /\ up /\ poll = Idle /\ cursor < Len(updates)
             /\ skipped' = skipped \cup {updates[cursor + 1]}
    BY <2>1, Taken DEF Base, TypeOK
  <2>2. CASE up /\ poll.job \in Busy /\ skipped' = skipped \cup {poll.item}
    <3>1. cursor < Len(updates) /\ poll.item \in Items
      BY <2>2, AtWork DEF At
    <3> QED
      BY <2>2, <3>1 DEF Base, TypeOK
  <2> QED
    BY <2>1, <2>2 DEF HandlerThrows, Busy
<1>3. poll' \in PollStates /\ cursor' \in 0..Len(updates') /\ AtNext'
  BY <1>1, <1>2, DoneBase DEF HandlerThrows
<1>4. crashes' \in 0..faults' /\ faults' \in 0..MaxFaults
  <2>1. crashes \in 0..faults /\ faults \in 0..MaxFaults /\ MaxFaults \in Nat
    BY DEF Base, TypeOK
  <2> QED
    BY <1>1, <2>1 DEF HandlerThrows, Fault
<1>5. TypeOK'
  BY <1>1, <1>2, <1>3, <1>4 DEF Base, TypeOK, PollStates, Busy
<1> QED
  BY <1>1, <1>3, <1>5 DEF Base, PressesKnown

(* What arrives.                                                           *)
LEMMA ArrivesBase == Base /\ (PollArrives \/ ObserveArrives) => Base'
<1> SUFFICES ASSUME Base, PollArrives \/ ObserveArrives PROVE Base'
  OBVIOUS
<1>1. CASE PollArrives
  <2>1. up /\ poll.job \in {"send", "confirm"}
    BY <1>1, Forms DEF PollArrives, Arrives, Base, Busy
  <2>2. /\ poll \in Sends("send", Items) \cup Sends("confirm", Asks)
        /\ poll.job = "send" => poll.item \in Items
        /\ poll.job # "send" => poll.item \in Notices
    BY <2>1, Forms DEF Base, Sends, Notices
  <2>3. /\ copies' \in [Items -> Nat] /\ plain' \in [Notices -> Nat] /\ shown' \subseteq Notices
        /\ UNCHANGED <<ledger, world, counts, up>>
    <3>1. poll.item \in Items \cup Notices
      BY <2>2
    <3> QED
      BY <1>1, <2>2, <3>1, ArrivesTyped DEF PollArrives, Base
  <2>4. /\ poll' \in Sends("send", Items) \cup Sends("confirm", Asks) /\ poll'.item = poll.item
        /\ UNCHANGED observe
    BY <1>1, <2>2 DEF PollArrives, Sends
  <2>5. TypeOK'
    BY <2>3, <2>4 DEF Base, TypeOK, ledger, world, counts
  <2>6. poll # Idle
    BY <2>1, Forms DEF Base, Idle
  <2> QED
    BY <2>3, <2>4, <2>5, <2>6 DEF Base, AtNext, PressesKnown, ledger, world
<1>2. CASE ObserveArrives
  <2>1. /\ observe.job = "send" => observe \in [job : {"send"}, item : Items, arrived : BOOLEAN, left : SUBSET Items]
        /\ observe.job = "tell" => observe \in Sends("tell", {"ended"})
        /\ observe.job \in {"send", "tell"}
    BY <1>2, ObserveForms DEF ObserveArrives, Arrives, Base
  <2>2. /\ observe.job = "send" => observe.item \in Items
        /\ observe.job # "send" => observe.item \in Notices
    BY <2>1 DEF Sends, Notices
  <2>3. /\ copies' \in [Items -> Nat] /\ plain' \in [Notices -> Nat] /\ shown' \subseteq Notices
        /\ UNCHANGED <<ledger, world, counts, up>>
    <3>1. observe.item \in Items \cup Notices
      BY <2>2
    <3> QED
      BY <1>2, <2>2, <3>1, ArrivesTyped DEF ObserveArrives, Base
  <2>4. observe' = [observe EXCEPT !.arrived = TRUE] /\ UNCHANGED poll
    BY <1>2 DEF ObserveArrives
  <2>5. observe' \in ObserveStates
    BY <2>1, <2>4 DEF ObserveStates, Sends
  <2>6. TypeOK'
    BY <2>3, <2>4, <2>5 DEF Base, TypeOK, ObserveStates, ledger, world, counts
  <2> QED
    BY <2>3, <2>4, <2>6 DEF Base, AtNext, PressesKnown, ledger, world
<1> QED
  BY <1>1, <1>2

LEMMA ObserveBase == Base /\ (RoundStarts \/ Resends \/ Resent \/ Looks \/ Tells) => Base'
<1> SUFFICES ASSUME Base, RoundStarts \/ Resends \/ Resent \/ Looks \/ Tells PROVE Base'
  OBVIOUS
<1>1. /\ UNCHANGED <<updates, task, confirms, cursor, handled, used, shown, copies, plain, skipped>>
      /\ UNCHANGED <<inline, cut, crashes, up, poll>>
  BY DEF RoundStarts, Resends, Resent, Looks, Tells, SendEnds, ledger, world, owner, counts
<1>2. observe' \in ObserveStates
  <2>1. CASE RoundStarts
    BY <2>1 DEF RoundStarts, Pending, ObserveStates
  <2>2. CASE Resends
    <3>1. observe.left \subseteq Items
      BY <2>2, ObserveForms DEF Resends, Base
    <3>2. PICK i \in observe.left : observe' = [job |-> "send", item |-> i, arrived |-> FALSE, left |-> observe.left \ {i}]
      BY <2>2 DEF Resends
    <3> QED
      BY <3>1, <3>2 DEF ObserveStates
  <2>3. CASE Resent
    <3>1. observe.left \subseteq Items
      BY <2>3, ObserveForms DEF Resent, Base
    <3> QED
      BY <2>3, <3>1 DEF Resent, ObserveStates
  <2>4. CASE Looks
    <3>1. \A b \in BOOLEAN : Sending("tell", "ended", b) \in ObserveStates
      BY DEF Sending, Sends, ObserveStates
    <3>2. (notice["ended"] = "intended") \in BOOLEAN
      OBVIOUS
    <3>3. Idle \in ObserveStates
      BY DEF ObserveStates
    <3> QED
      BY <2>4, <3>1, <3>2, <3>3 DEF Looks
  <2>5. CASE Tells
    BY <2>5 DEF Tells, ObserveStates
  <2> QED
    BY <2>1, <2>2, <2>3, <2>4, <2>5
<1>3. resp' \in [Items -> Response]
  <2>1. CASE Resent
    <3>1. observe.item \in Items
      BY <2>1, ObserveForms DEF Resent, Base
    <3> QED
      BY <2>1, <3>1, SendEndsTyped DEF Resent, Base
  <2> QED
    BY <2>1 DEF RoundStarts, Resends, Looks, Tells, ledger, Base, TypeOK
<1>4. notice' \in [Notices -> {"none", "intended", "delivered"}]
  <2>1. notice \in [Notices -> {"none", "intended", "delivered"}] /\ "ended" \in Notices
    BY DEF Base, TypeOK, Notices
  <2> QED
    BY <2>1 DEF RoundStarts, Resends, Resent, Looks, Tells, SendEnds, ledger
<1>5. crashes' \in 0..faults' /\ faults' \in 0..MaxFaults
  <2>1. crashes \in 0..faults /\ faults \in 0..MaxFaults /\ MaxFaults \in Nat
    BY DEF Base, TypeOK
  <2> QED
    BY <1>1, <2>1 DEF RoundStarts, Resends, Resent, Looks, Tells, Fault, counts
<1>6. TypeOK'
  BY <1>1, <1>2, <1>3, <1>4, <1>5 DEF Base, TypeOK, ObserveStates
<1> QED
  BY <1>1, <1>6 DEF Base, AtNext, PressesKnown

(* The owner and the world.                                                *)
LEMMA LongerBase ==
    ASSUME Base, NEW i \in Items, updates' = Append(updates, i), i \in Presses => confirms'[i] \in Asks,
           confirms' \in [Presses -> Asks \cup {Nobody}],
           \A n \in DOMAIN updates : updates[n] \in Presses => confirms'[updates[n]] = confirms[updates[n]],
           UNCHANGED <<ledger, task, owner, counts, up, poll, observe>>
    PROVE  Base'
<1>1. updates \in Seq(Items) /\ cursor \in 0..Len(updates)
  BY DEF Base, TypeOK
<1>2. /\ updates' \in Seq(Items) /\ Len(updates') = Len(updates) + 1 /\ Len(updates) \in Nat
      /\ DOMAIN updates' = 1..Len(updates) + 1 /\ DOMAIN updates = 1..Len(updates)
      /\ updates'[Len(updates) + 1] = i
      /\ \A n \in 1..Len(updates) : updates'[n] = updates[n]
  BY <1>1
<1>3. cursor' \in 0..Len(updates')
  BY <1>1, <1>2 DEF ledger
<1>4. TypeOK'
  BY <1>2, <1>3 DEF Base, TypeOK, ledger, owner, counts
<1>5. AtNext'
  BY <1>1, <1>2 DEF Base, AtNext, ledger
<1>6. PressesKnown'
  BY <1>2 DEF Base, PressesKnown
<1> QED
  BY <1>4, <1>5, <1>6 DEF Base

LEMMA OwnerBase ==
    ASSUME Base, \/ \E i \in Items : Writes(i) \/ Redelivered(i)
                 \/ \E p \in Presses, a \in Asks : PressesButton(p, a)
    PROVE  Base'
<1>0. confirms \in [Presses -> Asks \cup {Nobody}] /\ updates \in Seq(Items)
  BY DEF Base, TypeOK
<1>1. ASSUME NEW i \in Items, Writes(i) PROVE Base'
  <2>1. i \notin Presses
    BY <1>1 DEF Writes
  <2> QED
    BY <1>0, <1>1, <2>1, LongerBase DEF Writes
<1>2. ASSUME NEW i \in Items, Redelivered(i) PROVE Base'
  <2>1. i \in Presses => confirms[i] \in Asks
    BY <1>2 DEF Redelivered, Sent, Base, PressesKnown
  <2> QED
    BY <1>0, <1>2, <2>1, LongerBase DEF Redelivered
<1>3. ASSUME NEW p \in Presses, NEW a \in Asks, PressesButton(p, a) PROVE Base'
  <2>1. \A n \in DOMAIN updates : updates[n] # p
    BY <1>3 DEF PressesButton, Sent
  <2>2. /\ confirms' \in [Presses -> Asks \cup {Nobody}] /\ confirms'[p] = a
        /\ \A q \in Presses : q # p => confirms'[q] = confirms[q]
    BY <1>0, <1>3 DEF PressesButton
  <2>3. p \in Items
    BY DEF Items
  <2> QED
    BY <1>3, <2>1, <2>2, <2>3, LongerBase DEF PressesButton
<1> QED
  BY <1>1, <1>2, <1>3

LEMMA LifeBase == Base /\ (Crash \/ Restart \/ TaskEnds \/ UNCHANGED vars) => Base'
<1> SUFFICES ASSUME Base, Crash \/ Restart \/ TaskEnds \/ UNCHANGED vars PROVE Base'
  OBVIOUS
<1>1. CASE Crash
  <2>1. crashes' \in 0..faults' /\ faults' \in 0..MaxFaults
    <3>1. crashes \in 0..faults /\ faults \in 0..MaxFaults /\ MaxFaults \in Nat
      BY DEF Base, TypeOK
    <3> QED
      BY <1>1, <3>1 DEF Crash, Fault
  <2>3. cut' \subseteq Presses
    <3>1. ASSUME NEW p \in handled, poll = [job |-> "buttons", item |-> p] PROVE p \in Presses
      BY <3>1, Forms DEF Base, Busy
    <3> QED
      BY <1>1, <3>1 DEF Crash, Base, TypeOK
  <2>2. TypeOK'
    BY <1>1, <2>1, <2>3 DEF Crash, Base, TypeOK, ledger, world, owner
  <2> QED
    BY <1>1, <2>2 DEF Crash, Base, AtNext, PressesKnown, ledger, world
<1>2. CASE Restart \/ TaskEnds \/ UNCHANGED vars
  <2>1. TypeOK'
    BY <1>2 DEF Restart, TaskEnds, Base, TypeOK, ledger, world, owner, counts, vars
  <2> QED
    BY <1>2, <2>1 DEF Restart, TaskEnds, Base, AtNext, PressesKnown, ledger, world, vars
<1> QED
  BY <1>1, <1>2

LEMMA InitBase == Init => Base
<1> SUFFICES ASSUME Init PROVE Base
  OBVIOUS
<1>1. TypeOK
  <2>1. resp \in [Items -> Response]
    BY Responses DEF Init
  <2>2. cursor \in 0..Len(updates) /\ updates \in Seq(Items) /\ crashes \in 0..faults
    BY DEF Init
  <2>3. copies \in [Items -> Nat] /\ plain \in [Notices -> Nat] /\ faults \in 0..MaxFaults
    BY DEF Init
  <2> QED
    BY <2>1, <2>2, <2>3 DEF Init, TypeOK
<1> QED
  BY <1>1 DEF Init, Base, AtNext, PressesKnown

LEMMA NextBase == Base /\ [Next]_vars => Base'
<1> SUFFICES ASSUME Base, [Next]_vars PROVE Base'
  OBVIOUS
<1>1. CASE PollStep
  BY <1>1, TakeBase, ConfirmSentBase, PressBase, PollSentBase, ArrivesBase DEF PollStep
<1>2. CASE ObserveStep
  BY <1>2, ObserveBase, ArrivesBase DEF ObserveStep
<1> QED
  BY <1>1, <1>2, HandlerThrowsBase, OwnerBase, LifeBase DEF Next
-----------------------------------------------------------------------------
(* What has no recorded intent was not sent, and no loop sends it.         *)
Listed == IF observe.job \in {"retry", "send"} THEN observe.left ELSE {}

Flow ==
    /\ \A i \in Items : ~resp[i].intended => resp[i] = NoResponse /\ copies[i] = 0
    /\ poll.job = "send" => resp[poll.item].intended
    /\ poll.job \in Busy \cup {"confirm"} => ~resp[poll.item].intended
    /\ \A i \in Listed : resp[i].intended
    /\ observe.job = "send" => resp[observe.item].intended /\ observe.item \notin observe.left

(* The ways in which a step of the polling loop treats the response to i.  *)
Only(i) == \A j \in Items : j # i => resp'[j] = resp[j]
Stays == UNCHANGED <<updates, observe, crashes>>

Begins(i) ==
    /\ ~resp[i].delivered /\ ~resp[i].abandoned /\ poll.job # "send"
    /\ resp'[i] = [resp[i] EXCEPT !.intended = TRUE] /\ Only(i)
    /\ poll' = Sending("send", i, FALSE) /\ UNCHANGED <<cursor, copies>> /\ Stays
    /\ skipped \subseteq skipped'

Leaves(i) ==
    /\ cursor' = cursor + 1 /\ poll' = Idle /\ UNCHANGED copies /\ Stays /\ poll.job # "send"
    /\ Only(i) /\ skipped \subseteq skipped'
    /\ \/ resp'[i] = resp[i] /\ (resp[i].intended \/ i \in skipped')
       \/ ~resp[i].intended /\ resp'[i] = [resp[i] EXCEPT !.intended = TRUE, !.delivered = TRUE]

Waits(i) ==
    /\ ~resp[i].intended /\ poll'.job \in Busy \cup {"confirm"} /\ poll'.item = i
    /\ poll.job # "send" /\ UNCHANGED <<cursor, copies, resp>> /\ Stays /\ skipped \subseteq skipped'

Here == updates[cursor + 1]

LEMMA ReplyBegins ==
    ASSUME Base, Flow, NEW i \in Items, ~resp[i].intended, Reply(i), poll.job # "send",
           UNCHANGED copies, Stays, skipped \subseteq skipped'
    PROVE  Begins(i)
<1>1. ~resp[i].delivered /\ ~resp[i].abandoned
  BY DEF Flow, NoResponse
<1>2. resp \in [Items -> Response]
  BY DEF Base, TypeOK
<1>3. resp'[i] = [resp[i] EXCEPT !.intended = TRUE] /\ Only(i)
  BY <1>2 DEF Reply, Only
<1> QED
  BY <1>1, <1>3 DEF Begins, Reply

LEMMA SilentLeaves ==
    ASSUME Base, Flow, NEW i \in Items, ~resp[i].intended, Silent(i), poll.job # "send",
           UNCHANGED copies, Stays, skipped \subseteq skipped'
    PROVE  Leaves(i)
<1>1. resp \in [Items -> Response]
  BY DEF Base, TypeOK
<1>2. resp'[i] = [resp[i] EXCEPT !.intended = TRUE, !.delivered = TRUE] /\ Only(i)
  BY <1>1 DEF Silent, Only
<1> QED
  BY <1>2 DEF Leaves, Silent, Done

LEMMA TakeShape ==
    ASSUME Base, Flow, Take
    PROVE  Begins(Here) \/ Leaves(Here) \/ Waits(Here)
<1> DEFINE i == updates[cursor + 1]
<1>1. i \in Items /\ cursor < Len(updates)
  BY Taken DEF Take
<1>2. Stays /\ UNCHANGED <<copies, skipped>> /\ poll.job = "idle" /\ poll.job # "send"
  BY DEF Take, Stays, world, owner, counts, Idle
<1>3. resp \in [Items -> Response]
  BY DEF Base, TypeOK
<1>4. CASE /\ resp[i].intended /\ (resp[i].delivered \/ resp[i].abandoned)
           /\ Done /\ UNCHANGED <<resp, handled, notice>>
  BY <1>2, <1>4 DEF Leaves, Only, Done, Here
<1>5. CASE /\ resp[i].intended /\ ~resp[i].delivered /\ ~resp[i].abandoned
           /\ poll' = Sending("send", i, FALSE) /\ UNCHANGED <<cursor, resp, handled, notice>>
  <2>1. resp[i] = [resp[i] EXCEPT !.intended = TRUE]
    BY <1>1, <1>3, <1>5 DEF Response
  <2> QED
    BY <1>2, <1>5, <2>1 DEF Begins, Only, Here
<1>6. CASE ~resp[i].intended /\ Reply(i)
  BY <1>1, <1>2, <1>6, ReplyBegins DEF Here
<1>8. ASSUME ~resp[i].intended, NEW k \in Busy, Awaits(k, i)
      PROVE  Waits(Here)
  BY <1>2, <1>8 DEF Awaits, Waits, Here
<1>7. CASE /\ ~resp[i].intended
           /\ \/ i \in Goals /\ Goal(i)
              \/ i \in Asks /\ Ask(i)
              \/ i \in Presses /\ Press(i)
  <2>1. \/ Reply(i) \/ \E k \in Busy : Awaits(k, i)
        \/ UNCHANGED <<cursor, resp>> /\ poll' = Sending("confirm", i, notice[i] = "intended")
    BY <1>7 DEF Goal, Ask, Press, Busy
  <2>2. CASE Reply(i)
    BY <1>7, <1>6, <2>2
  <2>4. CASE \E k \in Busy : Awaits(k, i)
    BY <1>7, <1>8, <2>4
  <2>3. CASE UNCHANGED <<cursor, resp>> /\ poll' = Sending("confirm", i, notice[i] = "intended")
    <3>1. poll'.job \in Busy \cup {"confirm"} /\ poll'.item = i
      BY <2>3 DEF Sending
    <3> QED
      BY <1>2, <1>7, <2>3, <3>1 DEF Waits, Here
  <2> QED
    BY <2>1, <2>2, <2>3, <2>4
<1>9. CASE ~resp[i].intended /\ Awaits("silence", i)
  BY <1>8, <1>9 DEF Busy
<1> QED
  BY <1>4, <1>5, <1>6, <1>7, <1>9 DEF Take

(* The steps behind the first await of a handler.                          *)
LEMMA HandlerShape ==
    ASSUME Base, Flow, ConfirmSent \/ StatusRead \/ Cancels \/ CancelDone \/ ButtonsGone
    PROVE  Begins(Here) \/ Leaves(Here) \/ Waits(Here)
<1>1. PICK j \in Busy \cup {"confirm"} : At(j)
  BY DEF ConfirmSent, StatusRead, Cancels, CancelDone, ButtonsGone, Busy
<1>2. poll.item = Here /\ poll.item \in Items
  BY <1>1, AtWork DEF Here
<1>3. ~resp[poll.item].intended /\ poll.job # "send"
  BY <1>1 DEF At, Flow, Busy
<1>4. Stays /\ UNCHANGED <<copies, skipped>>
  BY DEF ConfirmSent, StatusRead, Cancels, CancelDone, ButtonsGone, Stays, world, owner, counts
<1>5. \/ Silent(poll.item) \/ Reply(poll.item)
      \/ \E k \in {"cancel", "cancelled", "buttons"} : Awaits(k, poll.item)
  BY DEF ConfirmSent, StatusRead, Cancels, CancelDone, ButtonsGone
<1>6. CASE \E k \in {"cancel", "cancelled", "buttons"} : Awaits(k, poll.item)
  <2>1. poll'.job \in Busy \cup {"confirm"} /\ poll'.item = poll.item /\ UNCHANGED <<cursor, resp>>
    BY <1>6 DEF Awaits, Busy
  <2> QED
    BY <1>2, <1>3, <1>4, <2>1 DEF Waits
<1>7. CASE Silent(poll.item) \/ Reply(poll.item)
  BY <1>2, <1>3, <1>4, <1>7, ReplyBegins, SilentLeaves
<1> QED
  BY <1>5, <1>6, <1>7

LEMMA ThrowsShape ==
    ASSUME Base, Flow, HandlerThrows
    PROVE  Leaves(Here)
<1>1. Stays /\ UNCHANGED <<copies, resp>> /\ Done
  BY DEF HandlerThrows, Stays, world, owner
<1>2. poll.job # "send" /\ skipped \subseteq skipped' /\ Here \in skipped'
  <2>1. CASE poll = Idle /\ skipped' = skipped \cup {updates[cursor + 1]}
    BY <2>1 DEF Here, Idle
  <2>2. CASE up /\ poll.job \in Busy /\ skipped' = skipped \cup {poll.item}
    BY <2>2, AtWork DEF At, Here, Busy
  <2> QED
    BY <2>1, <2>2 DEF HandlerThrows, Busy
<1> QED
  BY <1>1, <1>2 DEF Leaves, Done, Only
-----------------------------------------------------------------------------
(* Sends of a response that are under way or listed, and those of them     *)
(* that have arrived, are counted together with its failures and copies.   *)
One(b) == IF b THEN 1 ELSE 0
PollHas(i) == One(poll.job = "send" /\ poll.item = i)
PollIn(i) == One(poll.job = "send" /\ poll.item = i /\ poll.arrived)
ObserveHas(i) == One(i \in Listed \/ (observe.job = "send" /\ observe.item = i))
ObserveIn(i) == One(observe.job = "send" /\ observe.item = i /\ observe.arrived)

Tried(i) ==
    /\ resp[i].failures + PollHas(i) + ObserveHas(i) <= MaxAttempts + 1
    /\ resp[i].abandoned <=> resp[i].failures >= MaxAttempts

Copied(i) ==
    IF resp[i].delivered
    THEN copies[i] + (PollHas(i) - PollIn(i)) + (ObserveHas(i) - ObserveIn(i))
            <= 2 + resp[i].failures + 2 * crashes
    ELSE copies[i] <= resp[i].failures + 2 * crashes + PollIn(i) + ObserveIn(i)

Counted == \A i \in Items : Tried(i) /\ Copied(i)

LEMMA Bits ==
    \A i : /\ PollHas(i) \in {0, 1} /\ PollIn(i) \in {0, 1} /\ PollIn(i) <= PollHas(i)
           /\ ObserveHas(i) \in {0, 1} /\ ObserveIn(i) \in {0, 1} /\ ObserveIn(i) <= ObserveHas(i)
  BY DEF PollHas, PollIn, ObserveHas, ObserveIn, One

LEMMA Numbers ==
    ASSUME Base, NEW i \in Items
    PROVE  /\ resp[i] \in Response /\ resp[i].failures \in Nat /\ resp[i].abandoned \in BOOLEAN
           /\ resp[i].delivered \in BOOLEAN /\ resp[i].intended \in BOOLEAN
           /\ copies[i] \in Nat /\ crashes \in Nat /\ MaxAttempts \in Nat \ {0}
  BY DEF Base, TypeOK, Response

LEMMA BeginsCounts ==
    ASSUME Base, Flow, Counted, NEW h \in Items, Begins(h)
    PROVE  Counted'
<1> SUFFICES ASSUME NEW i \in Items PROVE (Tried(i) /\ Copied(i))'
  BY DEF Counted
<1>1. Tried(i) /\ Copied(i)
  BY DEF Counted
<1>2. /\ PollHas(i) = 0 /\ PollIn(i) = 0 /\ PollIn(i)' = 0 /\ PollHas(i)' = One(h = i)
      /\ ObserveHas(i)' = ObserveHas(i) /\ ObserveIn(i)' = ObserveIn(i)
  BY DEF Begins, Stays, PollHas, PollIn, ObserveHas, ObserveIn, Listed, One, Sending
<1>3. copies'[i] = copies[i] /\ crashes' = crashes
  BY DEF Begins, Stays
<1>4. CASE i = h
  <2>1. /\ resp'[i].failures = resp[i].failures /\ resp'[i].abandoned = resp[i].abandoned
        /\ resp'[i].delivered = resp[i].delivered
    BY <1>4, Numbers DEF Begins, Response
  <2>2. ~resp[i].delivered /\ ~resp[i].abandoned
    BY <1>4 DEF Begins
  <2> QED
    BY <1>1, <1>2, <1>3, <1>4, <2>1, <2>2, Numbers, Bits DEF Tried, Copied, One
<1>5. CASE i # h
  <2>1. resp'[i] = resp[i]
    BY <1>5 DEF Begins, Only
  <2> QED
    BY <1>1, <1>2, <1>3, <1>5, <2>1, Numbers, Bits DEF Tried, Copied, One
<1> QED
  BY <1>4, <1>5

LEMMA LeavesCounts ==
    ASSUME Base, Flow, Counted, NEW h \in Items, Leaves(h)
    PROVE  Counted'
<1> SUFFICES ASSUME NEW i \in Items PROVE (Tried(i) /\ Copied(i))'
  BY DEF Counted
<1>1. Tried(i) /\ Copied(i)
  BY DEF Counted
<1>2. /\ PollHas(i) = 0 /\ PollIn(i) = 0 /\ PollIn(i)' = 0 /\ PollHas(i)' = 0
      /\ ObserveHas(i)' = ObserveHas(i) /\ ObserveIn(i)' = ObserveIn(i)
  BY DEF Leaves, Stays, PollHas, PollIn, ObserveHas, ObserveIn, Listed, One, Idle
<1>3. copies'[i] = copies[i] /\ crashes' = crashes
  BY DEF Leaves, Stays
<1>4. CASE i = h /\ ~resp[i].intended /\ resp'[i] = [resp[i] EXCEPT !.intended = TRUE, !.delivered = TRUE]
  <2>1. copies[i] = 0 /\ resp[i].failures = 0 /\ ~resp[i].abandoned
    BY <1>4 DEF Flow, NoResponse
  <2>2. ObserveHas(i) = 0 /\ ObserveIn(i) = 0
    BY <1>4 DEF Flow, ObserveHas, ObserveIn, One
  <2>3. resp'[i].failures = 0 /\ ~resp'[i].abandoned /\ resp'[i].delivered
    BY <1>4, <2>1, Numbers DEF Response
  <2> QED
    BY <1>2, <1>3, <2>1, <2>2, <2>3, Numbers DEF Tried, Copied
<1>5. CASE resp'[i] = resp[i]
  BY <1>1, <1>2, <1>3, <1>5 DEF Tried, Copied
<1> QED
  BY <1>4, <1>5 DEF Leaves, Only

LEMMA WaitsCounts ==
    ASSUME Base, Flow, Counted, NEW h \in Items, Waits(h)
    PROVE  Counted'
<1>1. \A i : /\ PollHas(i) = 0 /\ PollIn(i) = 0 /\ PollIn(i)' = 0 /\ PollHas(i)' = 0
             /\ ObserveHas(i)' = ObserveHas(i) /\ ObserveIn(i)' = ObserveIn(i)
  BY DEF Waits, Stays, PollHas, PollIn, ObserveHas, ObserveIn, Listed, One, Busy
<1> QED
  BY <1>1 DEF Waits, Stays, Counted, Tried, Copied

(* The end of a send that is under way.                                    *)
LEMMA EndsCounts ==
    ASSUME Base, Flow, Counted, NEW s, s.item \in Items, SendEnds(s), s.arrived \in BOOLEAN,
           UNCHANGED <<copies, crashes>>, NEW i \in Items,
           \/ /\ PollHas(i) = One(s.item = i) /\ PollIn(i) = One(s.item = i /\ s.arrived)
              /\ PollHas(i)' = 0 /\ PollIn(i)' = 0
              /\ ObserveHas(i)' = ObserveHas(i) /\ ObserveIn(i)' = ObserveIn(i)
           \/ /\ s.item = i => ObserveHas(i) = 1
              /\ ObserveIn(i) = One(s.item = i /\ s.arrived)
              /\ ObserveHas(i)' = IF s.item = i THEN 0 ELSE ObserveHas(i)
              /\ ObserveIn(i)' = 0
              /\ PollHas(i)' = PollHas(i) /\ PollIn(i)' = PollIn(i)
    PROVE  (Tried(i) /\ Copied(i))'
<1>1. Tried(i) /\ Copied(i)
  BY DEF Counted
<1>2. resp \in [Items -> Response] /\ copies'[i] = copies[i] /\ crashes' = crashes
  BY DEF Base, TypeOK
<1>3. CASE s.item # i
  <2>1. resp'[i] = resp[i]
    BY <1>2, <1>3 DEF SendEnds
  <2>2. PollHas(i)' = PollHas(i) /\ PollIn(i)' = PollIn(i)
    BY <1>3 DEF One
  <2>3. ObserveHas(i)' = ObserveHas(i) /\ ObserveIn(i)' = ObserveIn(i)
    BY <1>3 DEF One
  <2> QED
    BY <1>1, <1>2, <2>1, <2>2, <2>3 DEF Tried, Copied
<1>4. CASE s.item = i /\ s.arrived /\ resp' = [resp EXCEPT ![s.item].delivered = TRUE]
  <2>1. /\ resp'[i].delivered /\ resp'[i].failures = resp[i].failures
        /\ resp'[i].abandoned = resp[i].abandoned
    BY <1>2, <1>4 DEF Response
  <2> QED
    BY <1>1, <1>2, <1>4, <2>1, Numbers, Bits DEF Tried, Copied, One
<1>5. CASE s.item = i /\ resp' = [resp EXCEPT ![s.item] = Failed(@)]
  <2>1. resp'[i] = Failed(resp[i])
    BY <1>2, <1>5
  <2>2. CASE resp[i].delivered
    <3>1. resp'[i] = resp[i]
      BY <2>1, <2>2 DEF Failed
    <3> QED
      BY <1>1, <1>2, <1>5, <2>2, <3>1, Numbers, Bits DEF Tried, Copied, One
  <2>3. CASE ~resp[i].delivered
    <3>1. /\ resp'[i].failures = resp[i].failures + 1 /\ resp'[i].delivered = resp[i].delivered
          /\ resp'[i].abandoned = (resp[i].abandoned \/ resp[i].failures + 1 >= MaxAttempts)
      BY <2>1, <2>3, Numbers DEF Failed, Response
    <3>2. resp'[i].abandoned <=> resp'[i].failures >= MaxAttempts
      <4>1. resp[i].abandoned => resp[i].failures + 1 >= MaxAttempts
        BY <1>1, Numbers DEF Tried
      <4>2. resp'[i].failures >= MaxAttempts <=> resp[i].failures + 1 >= MaxAttempts
        BY <3>1
      <4>3. resp'[i].abandoned <=> (resp[i].abandoned \/ resp[i].failures + 1 >= MaxAttempts)
        BY <3>1
      <4> HIDE <3>1
      <4> QED
        BY <4>1, <4>2, <4>3
    <3>3. resp'[i].failures + PollHas(i)' + ObserveHas(i)' <= MaxAttempts + 1
      BY <1>1, <1>5, <3>1, Numbers, Bits DEF Tried, One
    <3>4. copies[i] <= resp'[i].failures + 2 * crashes + PollIn(i)' + ObserveIn(i)'
      BY <1>1, <1>5, <2>3, <3>1, Numbers, Bits DEF Copied, One
    <3> QED
      BY <1>2, <2>3, <3>1, <3>2, <3>3, <3>4 DEF Tried, Copied
  <2> QED
    BY <2>2, <2>3
<1> QED
  BY <1>3, <1>4, <1>5 DEF SendEnds

LEMMA PollSentCounts ==
    ASSUME Base, Flow, Counted, PollSent
    PROVE  Counted'
<1> SUFFICES ASSUME NEW i \in Items PROVE (Tried(i) /\ Copied(i))'
  BY DEF Counted
<1>1. poll \in Sends("send", Items) /\ poll.job = "send"
  BY Forms DEF PollSent, At, Base
<1>2. poll.item \in Items /\ poll.arrived \in BOOLEAN
  BY <1>1 DEF Sends
<1>3. PollHas(i) = One(poll.item = i) /\ PollIn(i) = One(poll.item = i /\ poll.arrived)
  BY <1>1 DEF PollHas, PollIn, One
<1>4. /\ PollHas(i)' = 0 /\ PollIn(i)' = 0
      /\ ObserveHas(i)' = ObserveHas(i) /\ ObserveIn(i)' = ObserveIn(i)
  BY DEF PollSent, Done, PollHas, PollIn, ObserveHas, ObserveIn, Listed, One, Idle
<1>5. SendEnds(poll) /\ UNCHANGED <<copies, crashes>>
  BY DEF PollSent, owner, counts
<1> QED
  BY <1>2, <1>3, <1>4, <1>5, EndsCounts

LEMMA ResentCounts ==
    ASSUME Base, Flow, Counted, Resent
    PROVE  Counted'
<1> SUFFICES ASSUME NEW i \in Items PROVE (Tried(i) /\ Copied(i))'
  BY DEF Counted
<1>1. /\ observe \in [job : {"send"}, item : Items, arrived : BOOLEAN, left : SUBSET Items]
      /\ observe.job = "send"
  BY ObserveForms DEF Resent, Base
<1>2. observe.item \in Items /\ observe.arrived \in BOOLEAN
  BY <1>1
<1>3. /\ observe.item = i => ObserveHas(i) = 1
      /\ ObserveIn(i) = One(observe.item = i /\ observe.arrived)
  BY <1>1 DEF ObserveHas, ObserveIn, One
<1>4. ObserveIn(i)' = 0 /\ PollHas(i)' = PollHas(i) /\ PollIn(i)' = PollIn(i)
  BY DEF Resent, PollHas, PollIn, ObserveIn, One
<1>5. ObserveHas(i)' = IF observe.item = i THEN 0 ELSE ObserveHas(i)
  <2>1. observe.item \notin observe.left
    BY <1>1 DEF Flow
  <2>2. observe' = [job |-> "retry", left |-> observe.left]
    BY DEF Resent
  <2>3. Listed' = observe.left /\ Listed = observe.left
    BY <1>1, <2>2 DEF Listed
  <2>4. ObserveHas(i)' = One(i \in observe.left) /\ ObserveHas(i) = One(i \in observe.left \/ observe.item = i)
    BY <1>1, <2>2, <2>3 DEF ObserveHas
  <2> QED
    BY <2>1, <2>4 DEF One
<1>6. SendEnds(observe) /\ UNCHANGED <<copies, crashes>>
  BY DEF Resent, owner, counts
<1> QED
  BY <1>2, <1>3, <1>4, <1>5, <1>6, EndsCounts

LEMMA PollArrivesCounts ==
    ASSUME Base, Flow, Counted, PollArrives
    PROVE  Counted'
<1> SUFFICES ASSUME NEW i \in Items PROVE (Tried(i) /\ Copied(i))'
  BY DEF Counted
<1>1. Tried(i) /\ Copied(i)
  BY DEF Counted
<1>2. /\ UNCHANGED <<resp, crashes, observe>> /\ ~poll.arrived
      /\ ObserveHas(i)' = ObserveHas(i) /\ ObserveIn(i)' = ObserveIn(i)
  BY DEF PollArrives, Arrives, ledger, counts, ObserveHas, ObserveIn, Listed, One
<1>3. poll.job \in {"send", "confirm"}
  BY Forms DEF PollArrives, Arrives, Base, Busy
<1>4. poll \in Sends("send", Items) \cup Sends("confirm", Asks)
  BY <1>3, Forms DEF Base
<1>5. poll'.job = poll.job /\ poll'.item = poll.item /\ poll'.arrived
  BY <1>4 DEF PollArrives, Sends
<1>6. CASE poll.job = "send" /\ poll.item = i
  <2>1. copies'[i] = copies[i] + 1
    BY <1>6, Numbers DEF PollArrives, Arrives, Base, TypeOK
  <2>2. PollHas(i) = 1 /\ PollIn(i) = 0 /\ PollHas(i)' = 1 /\ PollIn(i)' = 1
    BY <1>2, <1>5, <1>6 DEF PollHas, PollIn, One
  <2> QED
    BY <1>1, <1>2, <2>1, <2>2, Numbers, Bits DEF Tried, Copied
<1>7. CASE ~(poll.job = "send" /\ poll.item = i)
  <2>1. copies'[i] = copies[i]
    BY <1>7 DEF PollArrives, Arrives, Base, TypeOK
  <2>2. PollHas(i) = 0 /\ PollIn(i) = 0 /\ PollHas(i)' = 0 /\ PollIn(i)' = 0
    BY <1>5, <1>7 DEF PollHas, PollIn, One
  <2> QED
    BY <1>1, <1>2, <2>1, <2>2 DEF Tried, Copied
<1> QED
  BY <1>6, <1>7

LEMMA ObserveArrivesCounts ==
    ASSUME Base, Flow, Counted, ObserveArrives
    PROVE  Counted'
<1> SUFFICES ASSUME NEW i \in Items PROVE (Tried(i) /\ Copied(i))'
  BY DEF Counted
<1>1. Tried(i) /\ Copied(i)
  BY DEF Counted
<1>2. /\ UNCHANGED <<resp, crashes, poll>> /\ ~observe.arrived
      /\ PollHas(i)' = PollHas(i) /\ PollIn(i)' = PollIn(i)
  BY DEF ObserveArrives, Arrives, ledger, counts, PollHas, PollIn, One
<1>3. /\ observe.job = "send" => observe \in [job : {"send"}, item : Items, arrived : BOOLEAN, left : SUBSET Items]
      /\ observe.job = "tell" => observe \in Sends("tell", {"ended"})
      /\ observe.job \in {"send", "tell"} /\ observe' = [observe EXCEPT !.arrived = TRUE]
  BY ObserveForms DEF ObserveArrives, Arrives, Base
<1>4. observe'.job = observe.job /\ observe'.item = observe.item /\ observe'.arrived /\ Listed' = Listed
  BY <1>3 DEF Sends, Listed
<1>5. CASE observe.job = "send" /\ observe.item = i
  <2>1. copies'[i] = copies[i] + 1
    BY <1>5, Numbers DEF ObserveArrives, Arrives, Base, TypeOK
  <2>2. ObserveHas(i) = 1 /\ ObserveIn(i) = 0 /\ ObserveHas(i)' = 1 /\ ObserveIn(i)' = 1
    BY <1>2, <1>4, <1>5 DEF ObserveHas, ObserveIn, One
  <2> QED
    BY <1>1, <1>2, <2>1, <2>2, Numbers, Bits DEF Tried, Copied
<1>6. CASE ~(observe.job = "send" /\ observe.item = i)
  <2>1. copies'[i] = copies[i]
    BY <1>6 DEF ObserveArrives, Arrives, Base, TypeOK
  <2>2. ObserveHas(i)' = ObserveHas(i) /\ ObserveIn(i) = 0 /\ ObserveIn(i)' = 0
    BY <1>4, <1>6 DEF ObserveHas, ObserveIn, One
  <2> QED
    BY <1>1, <1>2, <2>1, <2>2 DEF Tried, Copied
<1> QED
  BY <1>5, <1>6

(* A list is made of pending responses, which have attempts left.          *)
LEMMA RoundCounts ==
    ASSUME Base, Flow, Counted, RoundStarts \/ Resends \/ Looks \/ Tells
    PROVE  Counted'
<1> SUFFICES ASSUME NEW i \in Items PROVE (Tried(i) /\ Copied(i))'
  BY DEF Counted
<1>1. Tried(i) /\ Copied(i)
  BY DEF Counted
<1>2. /\ UNCHANGED <<resp, crashes, copies, poll>>
      /\ PollHas(i)' = PollHas(i) /\ PollIn(i)' = PollIn(i)
  BY DEF RoundStarts, Resends, Looks, Tells, ledger, owner, counts, PollHas, PollIn, One
<1>3. CASE RoundStarts
  <2>1. /\ observe.job = "idle" /\ observe' = [job |-> "retry", left |-> Pending]
    BY <1>3 DEF RoundStarts, Idle
  <2>2. /\ ObserveHas(i) = 0 /\ ObserveIn(i) = 0 /\ ObserveIn(i)' = 0
        /\ ObserveHas(i)' = One(i \in Pending)
    BY <2>1 DEF ObserveHas, ObserveIn, Listed, One
  <2> QED
    BY <1>1, <1>2, <2>2, Numbers, Bits DEF Tried, Copied, One, Pending
<1>4. CASE Resends
  <2>1. PICK k \in observe.left : observe' = [job |-> "send", item |-> k, arrived |-> FALSE, left |-> observe.left \ {k}]
    BY <1>4 DEF Resends
  <2>2. observe.job = "retry"
    BY <1>4 DEF Resends
  <2>3. ObserveHas(i)' = ObserveHas(i) /\ ObserveIn(i) = 0 /\ ObserveIn(i)' = 0
    BY <2>1, <2>2 DEF ObserveHas, ObserveIn, Listed, One
  <2> QED
    BY <1>1, <1>2, <2>3 DEF Tried, Copied
<1>5. CASE Looks \/ Tells
  <2>1. /\ (observe.job = "retry" /\ observe.left = {}) \/ observe.job = "tell"
        /\ observe' = Idle \/ observe' = Sending("tell", "ended", notice["ended"] = "intended")
    BY <1>5 DEF Looks, Tells
  <2>2. ObserveHas(i)' = 0 /\ ObserveHas(i) = 0 /\ ObserveIn(i) = 0 /\ ObserveIn(i)' = 0
    BY <2>1 DEF ObserveHas, ObserveIn, Listed, One, Idle, Sending
  <2> QED
    BY <1>1, <1>2, <2>2 DEF Tried, Copied
<1> QED
  BY <1>3, <1>4, <1>5

LEMMA CrashCounts ==
    ASSUME Base, Flow, Counted, Crash
    PROVE  Counted'
<1> SUFFICES ASSUME NEW i \in Items PROVE (Tried(i) /\ Copied(i))'
  BY DEF Counted
<1>1. Tried(i) /\ Copied(i)
  BY DEF Counted
<1>2. UNCHANGED <<resp, copies>> /\ crashes' = crashes + 1
  BY DEF Crash, ledger, owner
<1>3. PollHas(i)' = 0 /\ PollIn(i)' = 0 /\ ObserveHas(i)' = 0 /\ ObserveIn(i)' = 0
  BY DEF Crash, PollHas, PollIn, ObserveHas, ObserveIn, Listed, One, Idle
<1> QED
  BY <1>1, <1>2, <1>3, Numbers, Bits DEF Tried, Copied

(* The steps of the world leave responses and loops alone.                 *)
Apart == UNCHANGED <<resp, copies, crashes, cursor, poll, observe, skipped>>

LEMMA WorldApart ==
    ASSUME \/ \E i \in Items : Writes(i) \/ Redelivered(i)
           \/ \E p \in Presses, a \in Asks : PressesButton(p, a)
           \/ Restart \/ TaskEnds \/ UNCHANGED vars
    PROVE  Apart
  BY DEF Writes, Redelivered, PressesButton, Restart, TaskEnds, vars, ledger, owner, counts, Apart

LEMMA ApartCounts == Counted /\ Apart => Counted'
  BY DEF Apart, Counted, Tried, Copied, PollHas, PollIn, ObserveHas, ObserveIn, Listed

LEMMA HereItem ==
    ASSUME Base, cursor < Len(updates)
    PROVE  Here \in Items
  BY Taken DEF Here

LEMMA StepShapes ==
    ASSUME Base, Flow, [Next]_vars
    PROVE  \/ Here \in Items /\ (Begins(Here) \/ Leaves(Here) \/ Waits(Here))
           \/ PollSent \/ PollArrives \/ ObserveStep \/ Crash \/ Apart
<1>1. CASE Take
  BY <1>1, TakeShape, HereItem DEF Take
<1>2. CASE ConfirmSent \/ StatusRead \/ Cancels \/ CancelDone \/ ButtonsGone
  <2>1. PICK j \in Busy \cup {"confirm"} : At(j)
    BY <1>2 DEF ConfirmSent, StatusRead, Cancels, CancelDone, ButtonsGone, Busy
  <2> QED
    BY <1>2, <2>1, HandlerShape, AtWork, HereItem
<1>3. CASE HandlerThrows
  <2>1. cursor < Len(updates)
    BY <1>3, AtWork DEF HandlerThrows, At, Busy
  <2> QED
    BY <1>3, <2>1, ThrowsShape, HereItem
<1> QED
  BY <1>1, <1>2, <1>3, WorldApart DEF Next, PollStep

LEMMA NextCounts ==
    ASSUME Base, Flow, Counted, [Next]_vars
    PROVE  Counted'
  BY StepShapes, BeginsCounts, LeavesCounts, WaitsCounts, PollSentCounts, PollArrivesCounts,
     ResentCounts, ObserveArrivesCounts, RoundCounts, CrashCounts, ApartCounts DEF ObserveStep
-----------------------------------------------------------------------------
LEMMA EndsKeep ==
    ASSUME Base, NEW s, SendEnds(s)
    PROVE  \A i \in Items : resp'[i].intended = resp[i].intended
<1>1. \A r \in Response : Failed(r).intended = r.intended
  BY DEF Failed, Response
<1>2. resp \in [Items -> Response]
  BY DEF Base, TypeOK
<1>3. CASE resp' = [resp EXCEPT ![s.item].delivered = TRUE]
  BY <1>2, <1>3 DEF Response
<1>4. CASE resp' = [resp EXCEPT ![s.item] = Failed(@)]
  BY <1>1, <1>2, <1>4
<1> QED
  BY <1>3, <1>4 DEF SendEnds

LEMMA ShapesFlow ==
    ASSUME Base, Flow, NEW h \in Items, Begins(h) \/ Leaves(h) \/ Waits(h)
    PROVE  Flow'
<1>1. resp \in [Items -> Response] /\ resp[h] \in Response
  BY Numbers DEF Base, TypeOK
<1>2. \A i \in Items : resp[i].intended => resp'[i].intended
  BY <1>1 DEF Begins, Leaves, Waits, Only, Response
<1>3. \A i \in Items : ~resp'[i].intended => resp'[i] = resp[i]
  BY <1>1 DEF Begins, Leaves, Waits, Only, Response
<1>4. \A i \in Items : ~resp'[i].intended => resp'[i] = NoResponse /\ copies'[i] = 0
  BY <1>2, <1>3 DEF Flow, Begins, Leaves, Waits
<1>5. /\ poll'.job = "send" => resp'[poll'.item].intended
      /\ poll'.job \in Busy \cup {"confirm"} => ~resp'[poll'.item].intended
  <2>1. CASE Begins(h)
    BY <1>1, <2>1 DEF Begins, Sending, Busy, Response
  <2>2. CASE Leaves(h)
    BY <2>2 DEF Leaves, Idle, Busy
  <2>3. CASE Waits(h)
    BY <2>3 DEF Waits, Busy
  <2> QED
    BY <2>1, <2>2, <2>3
<1>6. observe' = observe /\ Listed' = Listed /\ Listed \subseteq Items
  BY ObserveForms DEF Begins, Leaves, Waits, Stays, Listed, Base
<1>7. observe.job = "send" => observe.item \in Items
  BY ObserveForms DEF Base
<1> QED
  BY <1>2, <1>4, <1>5, <1>6, <1>7 DEF Flow

LEMMA SendsFlow ==
    ASSUME Base, Flow, PollSent \/ ObserveStep \/ Crash
    PROVE  Flow'
<1>1. \A i \in Items : resp'[i].intended = resp[i].intended
  BY EndsKeep DEF PollSent, ObserveStep, RoundStarts, Resends, Resent, ObserveArrives, Arrives,
     Looks, Tells, Crash, ledger
<1>2. \A i \in Items : ~resp[i].intended => resp'[i] = resp[i]
  <2>1. CASE PollSent
    <3>1. poll.item \in Items /\ resp[poll.item].intended
      BY <2>1, AtWork DEF PollSent, At, Flow
    <3> QED
      BY <2>1, <3>1 DEF PollSent, SendEnds, Base, TypeOK
  <2>2. CASE Resent
    <3>1. observe.item \in Items /\ resp[observe.item].intended
      BY <2>2, ObserveForms DEF Resent, Flow, Base
    <3> QED
      BY <2>2, <3>1 DEF Resent, SendEnds, Base, TypeOK
  <2> QED
    BY <2>1, <2>2 DEF ObserveStep, RoundStarts, Resends, ObserveArrives, Arrives, Looks, Tells,
       Crash, ledger
<1>3. \A i \in Items : ~resp[i].intended => copies'[i] = copies[i]
  <2>1. CASE ObserveArrives
    <3>1. observe.job = "send" => observe.item \in Items /\ resp[observe.item].intended
      BY ObserveForms DEF Base, Flow
    <3> QED
      BY <2>1, <3>1 DEF ObserveArrives, Arrives, Base, TypeOK
  <2> QED
    BY <2>1 DEF PollSent, ObserveStep, RoundStarts, Resends, Resent, Looks, Tells, Crash, owner
<1>4. \A i \in Items : ~resp'[i].intended => resp'[i] = NoResponse /\ copies'[i] = 0
  BY <1>1, <1>2, <1>3 DEF Flow
<1>5. /\ poll'.job = "send" => resp'[poll'.item].intended
      /\ poll'.job \in Busy \cup {"confirm"} => ~resp'[poll'.item].intended
  <2>1. CASE PollSent \/ Crash
    BY <2>1 DEF PollSent, Done, Crash, Idle, Busy
  <2>2. CASE ObserveStep
    <3>1. poll' = poll
      BY <2>2 DEF ObserveStep, RoundStarts, Resends, Resent, ObserveArrives, Looks, Tells
    <3>2. poll.job \in {"send", "confirm"} \cup Busy => poll.item \in Items
      BY Forms DEF Base, Busy
    <3> QED
      BY <1>1, <3>1, <3>2 DEF Flow
  <2> QED
    BY <2>1, <2>2
<1>6. /\ \A i \in Listed' : resp'[i].intended
      /\ observe'.job = "send" => resp'[observe'.item].intended /\ observe'.item \notin observe'.left
  <2>0. Listed \subseteq Items /\ Pending \subseteq Items /\ (observe.job = "send" => observe.item \in Items)
    BY ObserveForms DEF Base, Listed, Pending
  <2>1. CASE PollSent
    <3>1. observe' = observe /\ Listed' = Listed
      BY <2>1 DEF PollSent, Listed
    <3> QED
      BY <1>1, <2>0, <3>1 DEF Flow
  <2>2. CASE RoundStarts
    <3>1. observe' = [job |-> "retry", left |-> Pending] /\ Listed' = Pending
      BY <2>2 DEF RoundStarts, Listed
    <3> QED
      BY <1>1, <2>0, <3>1 DEF Pending
  <2>3. CASE Resends
    <3>1. PICK k \in observe.left : observe' = [job |-> "send", item |-> k, arrived |-> FALSE, left |-> observe.left \ {k}]
      BY <2>3 DEF Resends
    <3>2. Listed = observe.left /\ Listed' = observe.left \ {k}
      BY <2>3, <3>1 DEF Resends, Listed
    <3> QED
      BY <1>1, <2>0, <3>1, <3>2 DEF Flow
  <2>4. CASE Resent
    <3>1. observe' = [job |-> "retry", left |-> observe.left] /\ observe.job = "send"
      BY <2>4 DEF Resent
    <3>2. Listed = observe.left /\ Listed' = observe.left
      BY <3>1 DEF Listed
    <3> QED
      BY <1>1, <2>0, <3>1, <3>2 DEF Flow
  <2>5. CASE ObserveArrives
    <3>1. /\ observe.job = "send" => observe \in [job : {"send"}, item : Items, arrived : BOOLEAN, left : SUBSET Items]
          /\ observe.job = "tell" => observe \in Sends("tell", {"ended"})
          /\ observe.job \in {"send", "tell"} /\ observe' = [observe EXCEPT !.arrived = TRUE]
      BY <2>5, ObserveForms DEF ObserveArrives, Arrives, Base
    <3>2. /\ observe'.job = observe.job /\ observe'.item = observe.item /\ Listed' = Listed
          /\ observe.job = "send" => observe'.left = observe.left
      BY <3>1 DEF Sends, Listed
    <3> QED
      BY <1>1, <2>0, <3>2 DEF Flow
  <2>6. CASE Looks \/ Tells \/ Crash
    <3>1. observe' = Idle \/ observe' = Sending("tell", "ended", notice["ended"] = "intended")
      BY <2>6 DEF Looks, Tells, Crash
    <3> QED
      BY <3>1 DEF Idle, Sending, Listed
  <2> QED
    BY <2>1, <2>2, <2>3, <2>4, <2>5, <2>6 DEF ObserveStep
<1> QED
  BY <1>4, <1>5, <1>6 DEF Flow

LEMMA PollArrivesFlow ==
    ASSUME Base, Flow, PollArrives
    PROVE  Flow'
<1>1. /\ UNCHANGED <<resp, observe>> /\ Listed' = Listed
  BY DEF PollArrives, Arrives, ledger, Listed
<1>2. poll.job \in {"send", "confirm"}
  BY Forms DEF PollArrives, Arrives, Base, Busy
<1>3. poll \in Sends("send", Items) \cup Sends("confirm", Asks)
  BY <1>2, Forms DEF Base
<1>4. poll'.job = poll.job /\ poll'.item = poll.item
  BY <1>3 DEF PollArrives, Sends
<1>5. \A i \in Items : ~resp[i].intended => copies'[i] = copies[i]
  <2>1. poll.job = "send" => poll.item \in Items /\ resp[poll.item].intended
    BY <1>3 DEF Sends, Flow
  <2> QED
    BY <2>1 DEF PollArrives, Arrives, Base, TypeOK
<1> QED
  BY <1>1, <1>4, <1>5 DEF Flow

LEMMA NextFlow ==
    ASSUME Base, Flow, [Next]_vars
    PROVE  Flow'
<1>1. CASE Apart
  BY <1>1 DEF Apart, Flow, Listed
<1> QED
  BY <1>1, StepShapes, ShapesFlow, SendsFlow, PollArrivesFlow

(* No update is left behind without an answer.                             *)
LEMMA NextAnswered ==
    ASSUME Base, Flow, AnsweredBelowCursor, [Next]_vars
    PROVE  AnsweredBelowCursor'
<1>0. updates \in Seq(Items) /\ cursor \in 0..Len(updates) /\ Len(updates) \in Nat
  BY DEF Base, TypeOK
<1>1. \A n \in 1..Len(updates) : updates'[n] = updates[n] /\ updates[n] \in Items
  <2>1. updates' = updates \/ \E i \in Items : updates' = Append(updates, i)
    <3>1. Presses \subseteq Items
      BY DEF Items
    <3>2. CASE \E p \in Presses, a \in Asks : PressesButton(p, a)
      BY <3>1, <3>2 DEF PressesButton
    <3>3. CASE \E i \in Items : Writes(i) \/ Redelivered(i)
      BY <3>3 DEF Writes, Redelivered
    <3>4. CASE PollStep \/ ObserveStep \/ HandlerThrows \/ Crash \/ Restart \/ TaskEnds \/ UNCHANGED vars
      BY <3>4 DEF PollStep, ObserveStep, Take, ConfirmSent, StatusRead, Cancels, CancelDone, ButtonsGone,
         PollSent, PollArrives, Arrives, RoundStarts, Resends, Resent, ObserveArrives, Looks, Tells,
         HandlerThrows, Crash, Restart, TaskEnds, world, vars
    <3> QED
      BY <3>2, <3>3, <3>4 DEF Next
  <2>2. ASSUME NEW i \in Items, updates' = Append(updates, i)
        PROVE  \A n \in 1..Len(updates) : updates'[n] = updates[n] /\ updates[n] \in Items
    BY <1>0, <2>2
  <2>3. \A n \in 1..Len(updates) : updates[n] \in Items
    BY <1>0
  <2> QED
    BY <2>1, <2>2, <2>3
<1>2. skipped \subseteq skipped'
  BY DEF Next, PollStep, ObserveStep, Take, ConfirmSent, StatusRead, Cancels, CancelDone, ButtonsGone,
     PollSent, PollArrives, Arrives, RoundStarts, Resends, Resent, ObserveArrives, Looks, Tells, HandlerThrows,
     Crash, Restart, TaskEnds, Writes, PressesButton, Redelivered, counts, vars
<1>3. CASE cursor' = cursor /\ \A i \in Items : resp[i].intended => resp'[i].intended
  BY <1>0, <1>1, <1>2, <1>3 DEF AnsweredBelowCursor
<1>4. CASE /\ cursor' = cursor + 1 /\ cursor < Len(updates)
           /\ \A i \in Items : resp[i].intended => resp'[i].intended
           /\ resp'[Here].intended \/ Here \in skipped'
  <2> SUFFICES ASSUME NEW n \in 1..cursor' PROVE resp'[updates'[n]].intended \/ updates'[n] \in skipped'
    BY DEF AnsweredBelowCursor
  <2>1. n \in 1..Len(updates) /\ (n \in 1..cursor \/ n = cursor + 1)
    BY <1>0, <1>4
  <2>2. updates'[n] = updates[n] /\ updates[n] \in Items
    BY <1>1, <2>1
  <2> QED
    BY <1>2, <1>4, <2>1, <2>2 DEF AnsweredBelowCursor, Here
<1>5. CASE Here \in Items /\ (Begins(Here) \/ Leaves(Here) \/ Waits(Here))
  <2>1. resp \in [Items -> Response] /\ resp[Here] \in Response
    BY <1>5, Numbers DEF Base, TypeOK
  <2>2. \A i \in Items : resp[i].intended => resp'[i].intended
    BY <1>5, <2>1 DEF Begins, Leaves, Waits, Only, Response
  <2>3. CASE Leaves(Here)
    <3>1. resp'[Here].intended \/ Here \in skipped'
      BY <2>1, <2>3 DEF Leaves, Response
    <3>2. updates' = updates
      BY <2>3 DEF Leaves, Stays
    <3>3. cursor' = cursor + 1 /\ cursor' \in 0..Len(updates')
      BY <2>3, NextBase DEF Leaves, Base, TypeOK
    <3>4. cursor < Len(updates)
      BY <1>0, <3>2, <3>3
    <3> QED
      BY <1>4, <2>2, <3>1, <3>3, <3>4
  <2> QED
    BY <1>3, <1>5, <2>2, <2>3 DEF Begins, Waits
<1>6. CASE PollSent
  <2>1. cursor' = cursor + 1 /\ cursor < Len(updates) /\ poll.item = Here /\ poll.item \in Items
    BY <1>6, AtWork DEF PollSent, Done, Here
  <2>2. resp[Here].intended
    BY <1>6, <2>1 DEF PollSent, At, Flow
  <2> QED
    BY <1>4, <1>6, <2>1, <2>2, EndsKeep DEF PollSent
<1>7. CASE ObserveStep \/ PollArrives \/ Crash \/ Apart
  <2>1. cursor' = cursor
    BY <1>7 DEF ObserveStep, RoundStarts, Resends, Resent, ObserveArrives, Arrives, Looks, Tells,
       PollArrives, Crash, Apart, ledger
  <2>2. \A i \in Items : resp[i].intended => resp'[i].intended
    BY <1>7, EndsKeep DEF ObserveStep, RoundStarts, Resends, Resent, ObserveArrives, Arrives, Looks, Tells,
       PollArrives, Crash, Apart, ledger
  <2> QED
    BY <1>3, <2>1, <2>2
<1> QED
  BY <1>5, <1>6, <1>7, StepShapes
-----------------------------------------------------------------------------
(* A notice that was not recorded was not sent, and an unmarked one that   *)
(* is under way is the first.                                              *)
Fresh(s) ==
    s.job \in {"confirm", "tell"} =>
        notice[s.item] # "none" /\ (~s.again /\ ~s.arrived => plain[s.item] = 0)

FirstOnly ==
    /\ \A n \in Notices : plain[n] <= 1 /\ (notice[n] = "none" => plain[n] = 0)
    /\ Fresh(poll) /\ Fresh(observe)

LEMMA NoticeForms ==
    ASSUME Base
    PROVE  /\ plain \in [Notices -> Nat] /\ notice \in [Notices -> {"none", "intended", "delivered"}]
           /\ poll.job = "confirm" => poll.item \in Asks /\ poll \in Sends("confirm", Asks)
           /\ poll.job # "tell"
           /\ observe.job = "tell" => observe.item = "ended" /\ observe \in Sends("tell", {"ended"})
           /\ observe.job # "confirm"
           /\ Asks \subseteq Notices /\ "ended" \in Notices /\ "ended" \notin Asks
  BY Forms, ObserveForms DEF Base, TypeOK, Sends, Notices, Busy

(* Steps that leave the notices and what is under way of them alone.       *)
LEMMA StillFirst ==
    ASSUME Base, FirstOnly, UNCHANGED <<notice, plain>>,
           poll' = poll \/ poll'.job \notin {"confirm", "tell"},
           observe' = observe \/ observe'.job \notin {"confirm", "tell"}
    PROVE  FirstOnly'
  BY DEF FirstOnly, Fresh

LEMMA AskFirst ==
    ASSUME Base, FirstOnly, NEW a \in Asks, Ask(a), UNCHANGED <<plain, observe>>
    PROVE  FirstOnly'
<1>1. CASE Reply(a) /\ UNCHANGED notice
  <2>1. poll'.job = "send"
    BY <1>1 DEF Reply, Sending
  <2> QED
    BY <1>1, <2>1, StillFirst
<1>2. CASE /\ notice' = [notice EXCEPT ![a] = "intended"]
           /\ poll' = Sending("confirm", a, notice[a] = "intended") /\ notice[a] # "delivered"
  <2>1. /\ a \in Notices /\ notice'[a] = "intended"
        /\ \A n \in Notices : n # a => notice'[n] = notice[n]
    BY <1>2, NoticeForms
  <2>2. /\ poll'.item = a /\ poll'.job = "confirm"
        /\ poll'.again <=> notice[a] = "intended"
    BY <1>2 DEF Sending
  <2>3. ~poll'.again => plain[a] = 0
    <3>1. notice[a] \in {"none", "intended", "delivered"}
      BY <2>1, NoticeForms
    <3> QED
      BY <1>2, <2>1, <2>2, <3>1 DEF FirstOnly
  <2>4. Fresh(poll)'
    BY <2>1, <2>2, <2>3 DEF Fresh
  <2>5. Fresh(observe)'
    BY <2>1, NoticeForms DEF FirstOnly, Fresh
  <2> QED
    BY <2>1, <2>4, <2>5 DEF FirstOnly
<1> QED
  BY <1>1, <1>2 DEF Ask

LEMMA TakeFirst ==
    ASSUME Base, FirstOnly, Take
    PROVE  FirstOnly'
<1> DEFINE i == updates[cursor + 1]
<1>1. UNCHANGED <<plain, observe>>
  BY DEF Take, owner
<1>2. CASE i \in Asks /\ Ask(i)
  BY <1>1, <1>2, AskFirst
<1>3. CASE UNCHANGED notice /\ poll'.job \in {"idle", "send", "status", "buttons", "silence"}
  BY <1>1, <1>3, StillFirst
<1>4. \/ i \in Asks /\ Ask(i)
      \/ UNCHANGED notice /\ poll'.job \in {"idle", "send", "status", "buttons", "silence"}
  BY DEF Take, Goal, Press, Done, Silent, Reply, Awaits, Sending, Idle
<1> QED
  BY <1>2, <1>3, <1>4

LEMMA HandlerFirst ==
    ASSUME Base, FirstOnly, ConfirmSent \/ StatusRead \/ Cancels \/ CancelDone \/ ButtonsGone
    PROVE  FirstOnly'
<1>1. UNCHANGED <<plain, observe>> /\ poll'.job \notin {"confirm", "tell"}
  BY DEF ConfirmSent, StatusRead, Cancels, CancelDone, ButtonsGone, owner, Done, Silent, Reply, Awaits,
     Sending, Idle
<1>2. \A n \in Notices : \/ notice'[n] = notice[n]
                         \/ notice'[n] # "none" /\ (notice[n] # "none" \/ (n = "ended" /\ notice[n] = "none"))
  <2>1. CASE ConfirmSent
    <3>1. poll.item \in Asks /\ notice[poll.item] # "none"
      BY <2>1, NoticeForms DEF ConfirmSent, At, FirstOnly, Fresh
    <3> QED
      BY <2>1, <3>1, NoticeForms DEF ConfirmSent
  <2>2. CASE ~ConfirmSent
    BY <2>2, NoticeForms DEF StatusRead, Cancels, CancelDone, ButtonsGone
  <2> QED
    BY <2>1, <2>2
<1>3. \A n \in Notices : plain'[n] <= 1 /\ (notice'[n] = "none" => plain'[n] = 0)
  BY <1>1, <1>2 DEF FirstOnly
<1>4. Fresh(poll)'
  BY <1>1 DEF Fresh
<1>5. Fresh(observe)'
  BY <1>1, <1>2, NoticeForms DEF FirstOnly, Fresh
<1> QED
  BY <1>3, <1>4, <1>5 DEF FirstOnly

LEMMA ArrivesFirst ==
    ASSUME Base, FirstOnly, PollArrives \/ ObserveArrives
    PROVE  FirstOnly'
<1>1. CASE PollArrives
  <2>1. UNCHANGED <<notice, observe>> /\ ~poll.arrived /\ poll.job \in {"send", "confirm"}
    BY <1>1, NoticeForms DEF PollArrives, Arrives, ledger
  <2>2. CASE poll.job = "send"
    <3>1. UNCHANGED plain /\ poll'.job = "send"
      BY <1>1, <2>2, Forms DEF PollArrives, Arrives, Base, Sends
    <3> QED
      BY <2>1, <3>1, StillFirst
  <2>3. CASE poll.job = "confirm"
    <3>1. poll.item \in Asks /\ poll \in Sends("confirm", Asks)
      BY <2>3, NoticeForms
    <3>2. poll'.item = poll.item /\ poll'.job = "confirm" /\ poll'.arrived
      BY <1>1, <2>3, <3>1 DEF PollArrives, Sends
    <3>3. /\ \A n \in Notices : n # poll.item => plain'[n] = plain[n]
          /\ plain'[poll.item] = IF poll.again THEN plain[poll.item] ELSE plain[poll.item] + 1
      BY <1>1, <2>3, <3>1, NoticeForms DEF PollArrives, Arrives
    <3>4. plain'[poll.item] <= 1 /\ notice[poll.item] # "none"
      <4>1. plain[poll.item] <= 1 /\ (~poll.again => plain[poll.item] = 0) /\ notice[poll.item] # "none"
        BY <2>1, <2>3, <3>1, NoticeForms DEF FirstOnly, Fresh
      <4> QED
        BY <3>3, <4>1
    <3>5. Fresh(poll)'
      BY <2>1, <3>2, <3>4 DEF Fresh
    <3>6. Fresh(observe)'
      BY <2>1, <3>1, <3>3, NoticeForms DEF FirstOnly, Fresh
    <3> QED
      BY <2>1, <3>3, <3>4, <3>5, <3>6 DEF FirstOnly
  <2> QED
    BY <2>1, <2>2, <2>3
<1>2. CASE ObserveArrives
  <2>1. UNCHANGED <<notice, poll>> /\ ~observe.arrived /\ observe.job \in {"send", "tell"}
    BY <1>2, NoticeForms DEF ObserveArrives, Arrives, ledger
  <2>2. CASE observe.job = "send"
    <3>1. UNCHANGED plain /\ observe'.job = "send"
      BY <1>2, <2>2, ObserveForms DEF ObserveArrives, Arrives, Base
    <3> QED
      BY <2>1, <3>1, StillFirst
  <2>3. CASE observe.job = "tell"
    <3>1. observe.item = "ended" /\ observe \in Sends("tell", {"ended"})
      BY <2>3, NoticeForms
    <3>2. observe'.item = observe.item /\ observe'.job = "tell" /\ observe'.arrived
      BY <1>2, <2>3, <3>1 DEF ObserveArrives, Sends
    <3>3. /\ \A n \in Notices : n # "ended" => plain'[n] = plain[n]
          /\ plain'["ended"] = IF observe.again THEN plain["ended"] ELSE plain["ended"] + 1
      BY <1>2, <2>3, <3>1, NoticeForms DEF ObserveArrives, Arrives
    <3>4. plain'["ended"] <= 1 /\ notice["ended"] # "none"
      <4>1. plain["ended"] <= 1 /\ (~observe.again => plain["ended"] = 0) /\ notice["ended"] # "none"
        BY <2>1, <2>3, <3>1, NoticeForms DEF FirstOnly, Fresh
      <4> QED
        BY <3>3, <4>1
    <3>5. Fresh(observe)'
      BY <2>1, <3>1, <3>2, <3>4 DEF Fresh
    <3>6. Fresh(poll)'
      BY <2>1, <3>3, NoticeForms DEF FirstOnly, Fresh
    <3> QED
      BY <2>1, <3>3, <3>4, <3>5, <3>6 DEF FirstOnly
  <2> QED
    BY <2>1, <2>2, <2>3
<1> QED
  BY <1>1, <1>2

LEMMA ObserveFirst ==
    ASSUME Base, FirstOnly, RoundStarts \/ Resends \/ Resent \/ Looks \/ Tells
    PROVE  FirstOnly'
<1>1. UNCHANGED <<plain, poll>>
  BY DEF RoundStarts, Resends, Resent, Looks, Tells, owner
<1>2. CASE UNCHANGED notice /\ observe'.job \in {"idle", "retry", "send"}
  BY <1>1, <1>2, StillFirst
<1>3. CASE /\ notice' = [notice EXCEPT !["ended"] = "intended"] /\ notice["ended"] # "delivered"
           /\ observe' = Sending("tell", "ended", notice["ended"] = "intended")
  <2>1. /\ notice'["ended"] = "intended" /\ \A n \in Notices : n # "ended" => notice'[n] = notice[n]
        /\ notice["ended"] \in {"none", "intended", "delivered"}
    BY <1>3, NoticeForms
  <2>2. /\ observe'.item = "ended" /\ observe'.job = "tell"
        /\ observe'.again <=> notice["ended"] = "intended"
    BY <1>3 DEF Sending
  <2>3. Fresh(observe)'
    BY <1>1, <1>3, <2>1, <2>2, NoticeForms DEF Fresh, FirstOnly
  <2>4. Fresh(poll)'
    BY <1>1, <2>1, NoticeForms DEF Fresh, FirstOnly
  <2> QED
    BY <1>1, <2>1, <2>3, <2>4 DEF FirstOnly
<1>4. CASE notice' = [notice EXCEPT !["ended"] = "delivered"] /\ observe.job = "tell" /\ observe' = Idle
  <2>1. /\ notice'["ended"] = "delivered" /\ \A n \in Notices : n # "ended" => notice'[n] = notice[n]
    BY <1>4, NoticeForms
  <2>2. Fresh(observe)' /\ Fresh(poll)'
    BY <1>1, <1>4, <2>1, NoticeForms DEF Fresh, FirstOnly, Idle
  <2> QED
    BY <1>1, <2>1, <2>2 DEF FirstOnly
<1> QED
  BY <1>2, <1>3, <1>4 DEF RoundStarts, Resends, Resent, SendEnds, Looks, Tells, ledger, Idle

LEMMA NextFirst ==
    ASSUME Base, FirstOnly, [Next]_vars
    PROVE  FirstOnly'
<1>1. CASE PollSent \/ HandlerThrows \/ Crash
  <2>1. UNCHANGED <<notice, plain>> /\ poll' = Idle /\ (observe' = observe \/ observe' = Idle)
    BY <1>1 DEF PollSent, SendEnds, Done, HandlerThrows, Crash, ledger, owner
  <2> QED
    BY <2>1, StillFirst DEF Idle
<1>2. CASE \/ Restart \/ TaskEnds \/ UNCHANGED vars
           \/ \E i \in Items : Writes(i) \/ Redelivered(i)
           \/ \E p \in Presses, a \in Asks : PressesButton(p, a)
  <2>1. UNCHANGED <<notice, plain, poll, observe>>
    BY <1>2 DEF Restart, TaskEnds, vars, Writes, Redelivered, PressesButton, ledger, owner
  <2> QED
    BY <2>1, StillFirst
<1> QED
  BY <1>1, <1>2, TakeFirst, HandlerFirst, ArrivesFirst, ObserveFirst DEF Next, PollStep, ObserveStep
-----------------------------------------------------------------------------
IInv == Base /\ Flow /\ Counted /\ AnsweredBelowCursor /\ FirstOnly

LEMMA InitIInv == Init => IInv
<1> SUFFICES ASSUME Init PROVE IInv
  OBVIOUS
<1>1. Base
  BY InitBase
<1>2. Flow
  BY DEF Init, Flow, Listed, Idle, Busy
<1>3. Counted
  <2>1. \A i : PollHas(i) = 0 /\ PollIn(i) = 0 /\ ObserveHas(i) = 0 /\ ObserveIn(i) = 0
    BY DEF Init, PollHas, PollIn, ObserveHas, ObserveIn, Listed, One, Idle
  <2>2. \A i \in Items : resp[i] = NoResponse /\ copies[i] = 0 /\ crashes = 0
    BY DEF Init
  <2> QED
    BY <2>1, <2>2 DEF Counted, Tried, Copied, NoResponse
<1>4. AnsweredBelowCursor
  BY DEF Init, AnsweredBelowCursor
<1>5. FirstOnly
  BY DEF Init, FirstOnly, Fresh, Idle
<1> QED
  BY <1>1, <1>2, <1>3, <1>4, <1>5 DEF IInv

LEMMA NextIInv == IInv /\ [Next]_vars => IInv'
  BY NextBase, NextFlow, NextCounts, NextAnswered, NextFirst DEF IInv

LEMMA Invariance == Spec => []IInv
  BY InitIInv, NextIInv, PTL DEF Spec

(* However the two loops, failed sends and crashes fall together, no       *)
(* response is tried more often than maxAttempts + 1 times, none is given  *)
(* up early, and every further copy goes back to a failure or a crash.     *)
THEOREM RepliesBounded == Spec => []RetriesBounded
<1>1. IInv => RetriesBounded
  <2> SUFFICES ASSUME IInv PROVE RetriesBounded
    OBVIOUS
  <2>1. TypeOK
    BY DEF IInv, Base
  <2>2. ASSUME NEW i \in Items
        PROVE  /\ resp[i].failures <= MaxAttempts + 1
               /\ resp[i].abandoned => resp[i].failures >= MaxAttempts
               /\ copies[i] <= 2 + resp[i].failures + 2 * crashes
    <3>1. Tried(i) /\ Copied(i) /\ Base
      BY DEF IInv, Counted
    <3> QED
      BY <3>1, Numbers, Bits DEF Tried, Copied
  <2> QED
    BY <2>1, <2>2 DEF RetriesBounded, AttemptsBounded, CopiesBounded
<1> QED
  BY <1>1, Invariance, PTL

(* An update below the cursor has a recorded response or its handler       *)
(* failed, whatever crashed and however often it came.                     *)
THEOREM NoneLeftBehind == Spec => []AnsweredBelowCursor
<1>1. IInv => AnsweredBelowCursor
  BY DEF IInv
<1> QED
  BY <1>1, Invariance, PTL

(* Of all copies of a notice one at most looks like the first.             *)
THEOREM DuplicatesMarked == Spec => []UnmarkedOnce
<1>1. IInv => UnmarkedOnce
  BY DEF IInv, FirstOnly, UnmarkedOnce
<1> QED
  BY <1>1, Invariance, PTL
=============================================================================
