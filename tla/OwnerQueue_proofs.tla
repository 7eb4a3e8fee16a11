-------------------------- MODULE OwnerQueue_proofs --------------------------
(***************************************************************************)
(* Theorems about OwnerQueue, for every set of updates, every numbering    *)
(* Telegram may give them, every capacity, page size, first cursor and     *)
(* number of faults.                                                       *)
(***************************************************************************)
EXTENDS OwnerQueue, FiniteSetTheorems, TLAPS

USE MsgsAssumption, PolicyAssumption

(* expire(now) only removes rows.                                          *)
LEMMA KeptFacts ==
    ASSUME TypeOK
    PROVE  /\ Kept \subseteq updates /\ Kept \subseteq Row
           /\ IsFiniteSet(Kept)
           /\ Cardinality(Kept) \in Nat /\ Cardinality(Kept) <= QueueCap
           /\ Seqs(Overdue) \subseteq Seqs(log)
<1>1. Kept \subseteq updates /\ Overdue \subseteq log
  BY DEF TypeOK, Kept, Overdue
<1>2. IsFiniteSet(Kept) /\ Cardinality(Kept) <= Cardinality(updates)
  BY <1>1, FS_Subset DEF TypeOK
<1>3. Cardinality(Kept) \in Nat /\ Cardinality(updates) \in Nat
  BY <1>2, FS_CardinalityType DEF TypeOK
<1> QED
  BY <1>1, <1>2, <1>3 DEF TypeOK, Seqs

LEMMA NextSeqFacts ==
    ASSUME TypeOK, NEW m \in Msgs
    PROVE  NextSeq(m) \in Nat /\ NextSeq(m) > lastSeq /\ NextSeq(m) >= TgId[m]
BY DEF TypeOK, NextSeq, Larger

(* An offset confirms nothing beyond itself and what is confirmed already. *)
LEMMA ConfirmedFacts ==
    ASSUME TypeOK, NEW offset \in Nat
    PROVE  /\ Confirmed(offset) \in Nat
           /\ \A n \in Nat : acked <= n /\ offset <= n => Confirmed(offset) <= n
BY DEF TypeOK, Confirmed, Larger, Smaller

(* A page of rows holds every row below one of its rows.                   *)
LEMMA SelectedIsPrefix ==
    ASSUME NEW R, R \subseteq Row, IsFiniteSet(R),
           NEW q \in Selected(R), NEW r \in R, r.seq < q.seq
    PROVE  r \in Selected(R)
<1> DEFINE Below(x) == {y \in R : y.seq < x.seq}
<1>1. Below(r) \in SUBSET Below(q) /\ Below(q) \in SUBSET R
  BY DEF Selected, Row
<1>2. IsFiniteSet(Below(q))
  BY <1>1, FS_Subset
<1>3. IsFiniteSet(Below(r)) /\ Cardinality(Below(r)) <= Cardinality(Below(q))
  BY <1>1, <1>2, FS_Subset
<1>4. Cardinality(Below(r)) \in Nat /\ Cardinality(Below(q)) \in Nat
  BY <1>2, <1>3, FS_CardinalityType
<1>5. Cardinality(Below(q)) < PullLimit
  BY DEF Selected
<1> QED
  BY <1>3, <1>4, <1>5 DEF Selected

(* What a pull leaves and answers.                                         *)
LEMMA LeftFacts ==
    ASSUME TypeOK, NEW offset
    PROVE  /\ Left(offset) \subseteq updates /\ Left(offset) \subseteq Row
           /\ IsFiniteSet(Left(offset)) /\ Cardinality(Left(offset)) <= QueueCap
           /\ Answer(offset) \subseteq Seqs(Left(offset))
           /\ Answer(offset) \subseteq Seqs(log)
           /\ Answer(offset) \subseteq Nat
<1>1. Left(offset) \in SUBSET Kept
  BY DEF Left
<1>2. IsFiniteSet(Left(offset))
      /\ Cardinality(Left(offset)) <= Cardinality(Kept)
  BY <1>1, KeptFacts, FS_Subset
<1>3. Cardinality(Left(offset)) \in Nat
  BY <1>2, FS_CardinalityType
<1>4. Left(offset) \subseteq updates /\ Left(offset) \subseteq Row
  BY <1>1, KeptFacts
<1>5. Answer(offset) \subseteq Seqs(Left(offset))
  BY DEF Answer, Selected, Seqs
<1>6. Cardinality(Left(offset)) <= QueueCap
  BY <1>2, <1>3, KeptFacts
<1>7. Seqs(Left(offset)) \subseteq Seqs(log) /\ Seqs(Left(offset)) \subseteq Nat
  BY <1>4 DEF Seqs, TypeOK, Row
<1> QED
  BY <1>2, <1>4, <1>5, <1>6, <1>7

(* The transaction of a pull keeps the types of everything it changes.     *)
LEMMA PullTypes ==
    ASSUME TypeOK, NEW offset \in Nat, Pull(offset)
    PROVE  /\ updates' \subseteq log' /\ log' = log
           /\ IsFiniteSet(updates') /\ Cardinality(updates') <= QueueCap
           /\ acked' \in Nat /\ maxDelivered' \in Nat
           /\ expired' \subseteq Seqs(log)
<1>1. maxDelivered' \in Nat
  BY LeftFacts DEF Pull, TypeOK
<1>2. acked' \in Nat
  BY ConfirmedFacts DEF Pull
<1> QED
  BY <1>1, <1>2, LeftFacts, KeptFacts DEF Pull, TypeOK, intakeVars

LEMMA TypeInvariance ==
    ASSUME TypeOK, [Next]_vars
    PROVE  TypeOK'
<1> USE DEF intakeVars, pullVars, agentVars
<1>1. ASSUME NEW m \in Msgs, NEW reply \in {"200", "lost"}, Enqueue(m, reply)
      PROVE  TypeOK'
  <2>1. Seqs(Overdue) \subseteq Seqs(log)
    BY KeptFacts
  <2>2. CASE EnqueueNew(m)
    <3> DEFINE row == [seq |-> NextSeq(m), msg |-> m]
    <3>1. row \in Row
      BY NextSeqFacts DEF Row
    <3>2. /\ updates' = Kept \cup {row} /\ log' = log \cup {row}
          /\ lastSeq' = NextSeq(m)
      BY <2>2 DEF EnqueueNew, Store
    <3>3. IsFiniteSet(updates') /\ Cardinality(updates') <= QueueCap
      <4>1. Cardinality(Kept) < QueueCap
        BY <2>2 DEF EnqueueNew
      <4>2. IsFiniteSet(Kept \cup {row})
            /\ Cardinality(Kept \cup {row}) =
                  IF row \in Kept THEN Cardinality(Kept)
                                  ELSE Cardinality(Kept) + 1
        <5> HIDE DEF row
        <5> QED  BY KeptFacts, FS_AddElement
      <4>3. Cardinality(Kept \cup {row}) \in Nat
        BY <4>2, FS_CardinalityType
      <4> QED
        BY <3>2, <4>1, <4>2, <4>3, KeptFacts
    <3>4. updates' \subseteq log' /\ log' \subseteq Row
      BY <3>1, <3>2, KeptFacts DEF TypeOK
    <3>5. Seqs(log) \subseteq Seqs(log')
      BY <3>2 DEF Seqs
    <3>6. lastSeq' \in Nat
      BY <3>2, NextSeqFacts
    <3> QED
      BY <1>1, <2>1, <2>2, <3>3, <3>4, <3>5, <3>6
      DEF TypeOK, Enqueue, EnqueueNew, Store
  <2>3. CASE EnqueueFull(m)
    BY <1>1, <2>1, <2>3, KeptFacts DEF TypeOK, Enqueue, EnqueueFull
  <2>4. CASE EnqueueDuplicate(m)
    BY <1>1, <2>1, <2>4, KeptFacts DEF TypeOK, Enqueue, EnqueueDuplicate
  <2> QED
    BY <1>1, <2>2, <2>3, <2>4 DEF Enqueue
<1>2. CASE Age
  BY <1>2, KeptFacts DEF Age, TypeOK, Seqs, Row
<1>3. CASE Tick
  BY <1>3, KeptFacts DEF Tick, TypeOK
<1>4. CASE Poll
  BY <1>4 DEF Poll, TypeOK, Request
<1>5. CASE PullLive
  <2>1. request.offset \in Nat /\ Pull(request.offset)
    BY <1>5 DEF PullLive, TypeOK, Request
  <2>2. batch' \subseteq Seqs(log) /\ batch' = Answer(request.offset)
    BY <1>5, LeftFacts DEF PullLive
  <2>3. request' \in Request
    BY <1>5 DEF PullLive, TypeOK, Request
  <2>4. agent' \in {"idle", "waiting", "handling", "advancing"}
        /\ ((batch' # {}) <=> (agent' \in {"handling", "advancing"}))
    BY <1>5 DEF PullLive, TypeOK
  <2> QED
    BY <1>5, <2>1, <2>2, <2>3, <2>4, PullTypes DEF PullLive, TypeOK, Pull
<1>6. ASSUME NEW o \in orphans, PullOrphan(o)
      PROVE  TypeOK'
  <2>1. o.offset \in Nat /\ Pull(o.offset)
    BY <1>6 DEF PullOrphan, TypeOK, Request
  <2>2. orphans' \subseteq Request
    BY <1>6 DEF PullOrphan, TypeOK, Request
  <2> QED
    BY <1>6, <2>1, <2>2, PullTypes DEF PullOrphan, TypeOK, Pull
<1>7. ASSUME NEW s \in batch, Handle(s) \/ Skip(s) \/ SetCursor(s)
      PROVE  TypeOK'
  <2>1. s \in Nat /\ s \in Seqs(log)
    BY <1>7 DEF TypeOK, Seqs, Row
  <2>2. CASE Handle(s)
    BY <2>1, <2>2 DEF Handle, TypeOK
  <2>3. CASE Skip(s)
    BY <2>1, <2>3 DEF Skip, AfterUpdate, TypeOK
  <2>4. CASE SetCursor(s)
    <3>1. cursor' \in Nat /\ batch' \subseteq Seqs(log)
      BY <2>1, <2>4 DEF SetCursor, TypeOK
    <3>2. agent' \in {"idle", "handling"}
          /\ ((batch' # {}) <=> (agent' = "handling"))
      BY <2>4 DEF SetCursor, AfterUpdate
    <3> QED
      BY <2>4, <3>1, <3>2 DEF SetCursor, TypeOK
  <2> QED
    BY <1>7, <2>2, <2>3, <2>4
<1>8. CASE Restart
  BY <1>8 DEF Restart, TypeOK
<1>9. CASE UNCHANGED vars
  BY <1>9 DEF vars, TypeOK
<1> QED
  BY <1>1, <1>2, <1>3, <1>4, <1>5, <1>6, <1>7, <1>8, <1>9 DEF Next

(* The variables keep their types: the queue never holds more than         *)
(* queueCap rows, and only rows that were accepted.                        *)
THEOREM TypeCorrect == Spec => []TypeOK
<1>1. Init => TypeOK
  BY FS_EmptySet DEF Init, TypeOK, Request, Seqs
<1> QED
  BY <1>1, TypeInvariance, PTL DEF Spec
---------------------------------------------------------------------------
(* Why nothing is lost.  Everything below the Agent's cursor is settled,   *)
(* no request in flight carries an offset beyond the cursor, and a row     *)
(* below a member of the batch that is not in the batch itself was settled *)
(* before.                                                                 *)
Logged ==
    /\ seen = {r.msg : r \in log}
    /\ \A r \in log : r.seq <= lastSeq

SettledBelowCursor ==
    \A r \in log : r.seq < cursor =>
        r.seq \in handled \cup expired \/ r.seq < FirstCursor

OffsetsBehind ==
    /\ acked <= cursor
    /\ request.offset <= cursor
    /\ \A o \in orphans : o.offset <= cursor

CursorBehind == cursor <= Larger(lastSeq + 1, FirstCursor)

BatchIsPrefix ==
    \A b \in batch : \A r \in log :
        r.seq < b /\ r.seq \notin batch => r.seq < cursor \/ r \notin updates

HandledFirst ==
    agent = "advancing" =>
        \A s : IsFirst(s, batch) => s \in handled /\ s >= cursor

HandledIsNext ==
    \A s \in handled : s >= cursor =>
        \A r \in updates : r.seq < s => r.seq < cursor

IInv ==
    /\ TypeOK /\ Logged /\ LossOnlyBelowFirstCursor /\ SettledBelowCursor
    /\ OffsetsBehind /\ CursorBehind /\ BatchIsPrefix /\ HandledFirst
    /\ HandledIsNext

(* What an accepted update adds to the log comes after everything else.    *)
LEMMA EnqueueKeepsIInv ==
    ASSUME IInv, TypeOK', NEW m \in Msgs, NEW reply \in {"200", "lost"},
           Enqueue(m, reply)
    PROVE  IInv'
<1>1. /\ expired' = expired \cup Seqs(Overdue)
      /\ UNCHANGED <<acked, maxDelivered, due, cursor, agent, request, batch,
                     orphans, faults, handled>>
  BY DEF Enqueue
<1>2. \A r \in updates : r \in Kept \/ r.seq \in Seqs(Overdue)
  BY DEF Kept, Overdue, Seqs, TypeOK, IInv, Row
<1>3. CASE EnqueueNew(m)
  <2> DEFINE row == [seq |-> NextSeq(m), msg |-> m]
  <2>1. /\ updates' = Kept \cup {row} /\ log' = log \cup {row}
        /\ lastSeq' = NextSeq(m) /\ seen' = seen \cup {m}
    BY <1>3 DEF EnqueueNew, Store
  <2>2. /\ row.seq = NextSeq(m) /\ row.msg = m /\ row.seq \in Nat
        /\ row.seq > lastSeq
    BY NextSeqFacts DEF IInv
  <2> HIDE DEF row
  <2>3. \A r \in log : r.seq \in Nat /\ r.seq <= lastSeq /\ r.seq < row.seq
    BY <2>2 DEF IInv, TypeOK, Row, Logged
  <2>4. handled \subseteq Seqs(log) /\ batch \subseteq Seqs(log)
    BY DEF IInv, TypeOK
  <2>5. lastSeq \in Nat /\ cursor \in Nat
    BY DEF IInv, TypeOK
  <2>6. Logged'
    BY <2>1, <2>2, <2>3, <2>5 DEF IInv, Logged
  <2>7. LossOnlyBelowFirstCursor'
    BY <1>1, <1>2, <2>1 DEF IInv, LossOnlyBelowFirstCursor
  <2>8. CursorBehind'
    BY <1>1, <2>1, <2>2, <2>5 DEF IInv, CursorBehind, Larger
  <2>9. SettledBelowCursor'
    <3>1. row.seq < cursor => row.seq < FirstCursor
      BY <2>2, <2>5 DEF IInv, CursorBehind, Larger
    <3> QED
      BY <1>1, <2>1, <3>1 DEF IInv, SettledBelowCursor
  <2>10. BatchIsPrefix'
    <3>1. \A b \in batch : b < row.seq /\ b \in Nat
      BY <2>3, <2>4 DEF Seqs
    <3> QED
      BY <1>1, <2>1, <2>2, <3>1, KeptFacts DEF IInv, BatchIsPrefix
  <2>11. HandledIsNext'
    <3>1. \A s \in handled : s < row.seq /\ s \in Nat
      BY <2>3, <2>4 DEF Seqs
    <3> QED
      BY <1>1, <2>1, <2>2, <3>1, KeptFacts DEF IInv, HandledIsNext
  <2> QED
    BY <1>1, <2>6, <2>7, <2>8, <2>9, <2>10, <2>11
    DEF IInv, OffsetsBehind, HandledFirst
<1>4. CASE EnqueueFull(m) \/ EnqueueDuplicate(m)
  <2>1. updates' = Kept /\ UNCHANGED <<log, seen, lastSeq>>
    BY <1>4 DEF EnqueueFull, EnqueueDuplicate
  <2> QED
    BY <1>1, <1>2, <2>1, KeptFacts
    DEF IInv, Logged, LossOnlyBelowFirstCursor, SettledBelowCursor,
        OffsetsBehind, CursorBehind, BatchIsPrefix, HandledFirst,
        HandledIsNext
<1> QED
  BY <1>3, <1>4 DEF Enqueue

(* A pull whose offset is not beyond the cursor drops only settled rows,   *)
(* and its answer is a prefix of what it leaves.                           *)
LEMMA PullFacts ==
    ASSUME IInv, NEW offset \in Nat, offset <= cursor, Pull(offset)
    PROVE  /\ updates' \subseteq updates /\ acked' <= cursor
           /\ UNCHANGED <<log, seen, lastSeq, handled>>
           /\ Logged' /\ LossOnlyBelowFirstCursor'
           /\ \A r \in log : r.seq < cursor =>
                 r.seq \in handled \cup expired' \/ r.seq < FirstCursor
           /\ \A b \in Answer(offset) : \A r \in log :
                 r.seq < b /\ r.seq \notin Answer(offset) => r \notin updates'
<1>1. /\ updates' = Left(offset) /\ expired' = expired \cup Seqs(Overdue)
      /\ UNCHANGED <<log, seen, lastSeq, handled>> /\ acked' = Confirmed(offset)
  BY DEF Pull, intakeVars
<1>2. Confirmed(offset) \in Nat /\ Confirmed(offset) <= cursor
  BY ConfirmedFacts DEF IInv, OffsetsBehind, TypeOK
<1>3. updates' \subseteq updates
  BY <1>1, LeftFacts DEF IInv
<1>4. \A r \in log : r.seq < cursor =>
         r.seq \in handled \cup expired' \/ r.seq < FirstCursor
  BY <1>1 DEF IInv, SettledBelowCursor
<1>5. LossOnlyBelowFirstCursor'
  <2> SUFFICES ASSUME NEW r \in log
               PROVE  r \in updates' \/ r.seq \in handled \cup expired'
                      \/ r.seq < FirstCursor
    BY <1>1 DEF LossOnlyBelowFirstCursor
  <2>1. r.seq \in Nat /\ cursor \in Nat /\ due \in Nat
    BY DEF IInv, TypeOK, Row
  <2>2. CASE r \notin updates
    BY <1>1, <2>2 DEF IInv, LossOnlyBelowFirstCursor
  <2>3. CASE r \in Overdue
    BY <1>1, <2>3 DEF Seqs
  <2>4. CASE r \in Kept /\ r.seq < Confirmed(offset)
    BY <1>2, <1>4, <2>1, <2>4
  <2>5. CASE r \in Kept /\ r.seq >= Confirmed(offset)
    BY <1>1, <2>5 DEF Left
  <2> QED
    BY <1>2, <2>1, <2>2, <2>3, <2>4, <2>5 DEF Kept, Overdue
<1>6. \A b \in Answer(offset) : \A r \in log :
         r.seq < b /\ r.seq \notin Answer(offset) => r \notin updates'
  <2> SUFFICES ASSUME NEW b \in Answer(offset), NEW r \in Left(offset),
                      r.seq < b
               PROVE  r.seq \in Answer(offset)
    BY <1>1
  <2>1. PICK q \in Selected(Left(offset)) : q.seq = b
    BY DEF Answer, Seqs
  <2>2. r \in Selected(Left(offset))
    BY <2>1, LeftFacts, SelectedIsPrefix DEF IInv
  <2> QED
    BY <2>2 DEF Answer, Seqs
<1> QED
  BY <1>1, <1>2, <1>3, <1>4, <1>5, <1>6 DEF IInv, Logged

LEMMA AgentKeepsIInv ==
    ASSUME IInv, TypeOK', NEW s \in batch,
           Handle(s) \/ Skip(s) \/ SetCursor(s)
    PROVE  IInv'
<1> USE DEF intakeVars, pullVars
<1>1. /\ s \in Nat /\ cursor \in Nat /\ lastSeq \in Nat /\ acked \in Nat
      /\ batch \subseteq Nat /\ handled \subseteq Nat
      /\ \A r \in log : r.seq \in Nat
      /\ \A r \in updates : r \in log
      /\ request.offset \in Nat /\ \A o \in orphans : o.offset \in Nat
  BY DEF IInv, TypeOK, Seqs, Row, Request
<1>2. UNCHANGED <<log, seen, lastSeq, updates, expired, acked, request, orphans>>
  BY DEF Handle, Skip, SetCursor
<1>3. CASE Handle(s)
  <2>1. /\ IsFirst(s, batch) /\ s >= cursor /\ handled' = handled \cup {s}
        /\ UNCHANGED <<cursor, batch>>
    BY <1>3 DEF Handle
  <2>2. \A x : IsFirst(x, batch) => x = s
    BY <1>1, <2>1 DEF IsFirst
  <2>3. HandledFirst'
    BY <2>1, <2>2 DEF HandledFirst
  <2>4. HandledIsNext'
    <3>1. \A r \in updates : r.seq < s => r.seq < cursor
      BY <1>1, <2>1 DEF IInv, BatchIsPrefix, IsFirst
    <3> QED
      BY <1>2, <2>1, <3>1 DEF IInv, HandledIsNext
  <2> QED
    BY <1>2, <2>1, <2>3, <2>4
    DEF IInv, Logged, LossOnlyBelowFirstCursor, SettledBelowCursor,
        OffsetsBehind, CursorBehind, BatchIsPrefix
<1>4. CASE Skip(s)
  <2>1. /\ IsFirst(s, batch) /\ s < cursor /\ batch' = batch \ {s}
        /\ UNCHANGED <<cursor, handled>> /\ agent' \in {"idle", "handling"}
    BY <1>4 DEF Skip, AfterUpdate
  <2>2. BatchIsPrefix'
    BY <1>1, <1>2, <2>1 DEF IInv, BatchIsPrefix
  <2> QED
    BY <1>2, <2>1, <2>2
    DEF IInv, Logged, LossOnlyBelowFirstCursor, SettledBelowCursor,
        OffsetsBehind, CursorBehind, HandledFirst, HandledIsNext
<1>5. CASE SetCursor(s)
  <2>1. /\ IsFirst(s, batch) /\ cursor' = s + 1 /\ batch' = batch \ {s}
        /\ agent = "advancing" /\ UNCHANGED handled
        /\ agent' \in {"idle", "handling"}
    BY <1>5 DEF SetCursor, AfterUpdate
  <2>2. s \in handled /\ s >= cursor
    BY <2>1 DEF IInv, HandledFirst
  <2>3. SettledBelowCursor'
    <3> SUFFICES ASSUME NEW r \in log, r.seq < s + 1
                 PROVE  r.seq \in handled \cup expired \/ r.seq < FirstCursor
      BY <1>2, <2>1 DEF SettledBelowCursor
    <3>1. CASE r.seq = s
      BY <2>2, <3>1
    <3>2. CASE r.seq < s
      <4>1. r.seq < cursor \/ r \notin updates
        BY <1>1, <2>1, <3>2 DEF IInv, BatchIsPrefix, IsFirst
      <4> QED
        BY <4>1 DEF IInv, SettledBelowCursor, LossOnlyBelowFirstCursor
    <3> QED
      BY <1>1, <3>1, <3>2
  <2>4. BatchIsPrefix'
    BY <1>1, <1>2, <2>1, <2>2 DEF IInv, BatchIsPrefix
  <2>5. CursorBehind'
    <3>1. s <= lastSeq
      BY DEF IInv, TypeOK, Seqs, Logged
    <3> QED
      BY <1>1, <1>2, <2>1, <3>1 DEF CursorBehind, Larger
  <2>6. OffsetsBehind'
    BY <1>1, <1>2, <2>1, <2>2 DEF IInv, OffsetsBehind
  <2>7. HandledIsNext'
    BY <1>1, <1>2, <2>1, <2>2 DEF IInv, HandledIsNext
  <2> QED
    BY <1>2, <2>1, <2>3, <2>4, <2>5, <2>6, <2>7
    DEF IInv, Logged, LossOnlyBelowFirstCursor, HandledFirst
<1> QED
  BY <1>3, <1>4, <1>5

LEMMA IInvInvariance ==
    ASSUME IInv, [Next]_vars
    PROVE  IInv'
<1>0. TypeOK'
  BY TypeInvariance DEF IInv
<1> USE DEF intakeVars, pullVars, agentVars
<1>1. ASSUME NEW m \in Msgs, NEW reply \in {"200", "lost"}, Enqueue(m, reply)
      PROVE  IInv'
  BY <1>0, <1>1, EnqueueKeepsIInv
<1>2. CASE Age
  BY <1>0, <1>2
  DEF Age, IInv, Logged, LossOnlyBelowFirstCursor, SettledBelowCursor,
      OffsetsBehind, CursorBehind, BatchIsPrefix, HandledFirst, HandledIsNext
<1>3. CASE Tick
  <2>1. \A r \in updates : r \in Kept \/ r.seq \in Seqs(Overdue)
    BY DEF Kept, Overdue, Seqs, TypeOK, IInv, Row
  <2> QED
    BY <1>0, <1>3, <2>1, KeptFacts
    DEF Tick, IInv, Logged, LossOnlyBelowFirstCursor, SettledBelowCursor,
        OffsetsBehind, CursorBehind, BatchIsPrefix, HandledFirst,
        HandledIsNext
<1>4. CASE Poll
  <2>1. request' = [offset |-> cursor, pulls |-> 2] /\ agent' = "waiting"
        /\ cursor \in Nat
    BY <1>4 DEF Poll, IInv, TypeOK
  <2> QED
    BY <1>0, <1>4, <2>1
    DEF Poll, IInv, Logged, LossOnlyBelowFirstCursor, SettledBelowCursor,
        OffsetsBehind, CursorBehind, BatchIsPrefix, HandledFirst,
        HandledIsNext
<1>5. CASE PullLive
  <2> DEFINE offset == request.offset
  <2>1. offset \in Nat /\ offset <= cursor /\ Pull(offset)
    BY <1>5 DEF PullLive, IInv, TypeOK, Request, OffsetsBehind
  <2>2. /\ batch' = Answer(offset) /\ agent' # "advancing"
        /\ request'.offset = offset /\ UNCHANGED <<cursor, orphans>>
    BY <1>5 DEF PullLive, IInv, TypeOK, Request
  <2> HIDE DEF offset
  <2>3. BatchIsPrefix'
    BY <2>1, <2>2, PullFacts DEF BatchIsPrefix
  <2>4. SettledBelowCursor'
    BY <2>1, <2>2, PullFacts DEF SettledBelowCursor
  <2>5. OffsetsBehind'
    BY <2>1, <2>2, PullFacts DEF IInv, OffsetsBehind
  <2> QED
    BY <1>0, <2>1, <2>2, <2>3, <2>4, <2>5, PullFacts
    DEF IInv, CursorBehind, HandledFirst, HandledIsNext
<1>6. ASSUME NEW o \in orphans, PullOrphan(o)
      PROVE  IInv'
  <2> DEFINE offset == o.offset
  <2>1. offset \in Nat /\ offset <= cursor /\ Pull(offset)
    BY <1>6 DEF PullOrphan, IInv, TypeOK, Request, OffsetsBehind
  <2>2. /\ UNCHANGED <<cursor, agent, request, batch>>
        /\ \A q \in orphans' : q \in orphans \/ q.offset = offset
    BY <1>6 DEF PullOrphan, IInv, TypeOK, Request
  <2> HIDE DEF offset
  <2>3. BatchIsPrefix'
    BY <2>1, <2>2, PullFacts DEF IInv, BatchIsPrefix
  <2>4. SettledBelowCursor'
    BY <2>1, <2>2, PullFacts DEF SettledBelowCursor
  <2>5. OffsetsBehind'
    BY <2>1, <2>2, PullFacts DEF IInv, OffsetsBehind
  <2> QED
    BY <1>0, <2>1, <2>2, <2>3, <2>4, <2>5, PullFacts
    DEF IInv, CursorBehind, HandledFirst, HandledIsNext
<1>7. ASSUME NEW s \in batch, Handle(s) \/ Skip(s) \/ SetCursor(s)
      PROVE  IInv'
  BY <1>0, <1>7, AgentKeepsIInv
<1>8. CASE Restart
  <2>1. /\ agent' = "idle" /\ batch' = {}
        /\ \A o \in orphans' : o \in orphans \/ o = request
    BY <1>8 DEF Restart
  <2> QED
    BY <1>0, <1>8, <2>1
    DEF Restart, IInv, Logged, LossOnlyBelowFirstCursor, SettledBelowCursor,
        OffsetsBehind, CursorBehind, BatchIsPrefix, HandledFirst,
        HandledIsNext
<1>9. CASE UNCHANGED vars
  BY <1>0, <1>9
  DEF vars, IInv, Logged, LossOnlyBelowFirstCursor, SettledBelowCursor,
      OffsetsBehind, CursorBehind, BatchIsPrefix, HandledFirst, HandledIsNext
<1> QED
  BY <1>1, <1>2, <1>3, <1>4, <1>5, <1>6, <1>7, <1>8, <1>9 DEF Next

LEMMA IInvHolds == Spec => []IInv
<1>1. Init => IInv
  <2> SUFFICES ASSUME Init PROVE IInv
    OBVIOUS
  <2>1. TypeOK
    BY FS_EmptySet DEF Init, TypeOK, Request, Seqs
  <2> QED
    BY <2>1
    DEF Init, IInv, Logged, LossOnlyBelowFirstCursor, SettledBelowCursor,
        OffsetsBehind, CursorBehind, BatchIsPrefix, HandledFirst,
        HandledIsNext, IsFirst, Larger
<1> QED
  BY <1>1, IInvInvariance, PTL DEF Spec

(* Whatever cursor the Agent starts from, an accepted place at or above it *)
(* is stored until the Agent handled it or its time was over.              *)
THEOREM LossBounded == Spec => []LossOnlyBelowFirstCursor
<1>1. IInv => LossOnlyBelowFirstCursor
  BY DEF IInv
<1> QED
  BY <1>1, IInvHolds, PTL

(* Of the stored rows at or above the cursor at most one was handled: a    *)
(* restart redoes one update, never a batch.                               *)
THEOREM RedoBounded == Spec => []AtMostOneRedone
<1>1. IInv => AtMostOneRedone
  BY DEF IInv, TypeOK, AtMostOneRedone, HandledIsNext, Seqs, Row
<1> QED
  BY <1>1, IInvHolds, PTL
---------------------------------------------------------------------------
(* A gateway no Agent brings a higher cursor to.                           *)
FreshGateway == \A m \in Msgs : TgId[m] >= FirstCursor

PlacesFresh == \A r \in log : r.seq >= FirstCursor

Answered == Msgs \subseteq outstanding \cup rejected \cup seen

LEMMA FreshInvariance ==
    ASSUME FreshGateway, IInv, PlacesFresh, Answered, [Next]_vars
    PROVE  PlacesFresh' /\ Answered'
<1> USE DEF intakeVars, pullVars, agentVars
<1>1. ASSUME NEW m \in Msgs, NEW reply \in {"200", "lost"}, Enqueue(m, reply)
      PROVE  PlacesFresh' /\ Answered'
  <2>1. outstanding' = outstanding \/ outstanding' = outstanding \ {m}
    BY <1>1 DEF Enqueue
  <2>2. CASE EnqueueNew(m)
    <3> DEFINE row == [seq |-> NextSeq(m), msg |-> m]
    <3>1. /\ log' = log \cup {row} /\ seen' = seen \cup {m}
          /\ rejected' = rejected \ {m}
      BY <2>2 DEF EnqueueNew, Store
    <3>2. row.seq >= FirstCursor
      BY NextSeqFacts DEF IInv, FreshGateway
    <3> HIDE DEF row
    <3> QED
      BY <2>1, <3>1, <3>2 DEF PlacesFresh, Answered
  <2>3. CASE EnqueueFull(m)
    BY <2>1, <2>3 DEF EnqueueFull, PlacesFresh, Answered
  <2>4. CASE EnqueueDuplicate(m)
    BY <2>1, <2>4 DEF EnqueueDuplicate, PlacesFresh, Answered
  <2> QED
    BY <1>1, <2>2, <2>3, <2>4 DEF Enqueue
<1>2. CASE UNCHANGED <<outstanding, seen, log, rejected>>
  BY <1>2 DEF PlacesFresh, Answered
<1>3. ASSUME NEW s \in batch, Handle(s) \/ Skip(s) \/ SetCursor(s)
      PROVE  UNCHANGED <<outstanding, seen, log, rejected>>
  BY <1>3 DEF Handle, Skip, SetCursor
<1>4. ASSUME NEW o \in orphans, PullOrphan(o)
      PROVE  UNCHANGED <<outstanding, seen, log, rejected>>
  BY <1>4 DEF PullOrphan, Pull
<1> QED
  BY <1>1, <1>2, <1>3, <1>4
  DEF Next, Age, Tick, Poll, PullLive, Pull, Restart, vars

(* On a fresh gateway nothing is ever lost: lost replies, stale requests,  *)
(* restarts, a full page and an overflowing queue included.                *)
THEOREM NothingLost ==
    ASSUME FreshGateway
    PROVE  Spec => []NoLoss
<1>1. Init => PlacesFresh /\ Answered
  BY DEF Init, PlacesFresh, Answered
<1>2. IInv /\ PlacesFresh /\ Answered => NoLoss
  <2> SUFFICES ASSUME IInv, PlacesFresh, Answered PROVE NoLoss
    OBVIOUS
  <2>1. ASSUME NEW r \in log
        PROVE  r \in updates \/ r.seq \in handled \cup expired
    BY DEF IInv, LossOnlyBelowFirstCursor, PlacesFresh, TypeOK, Row
  <2>2. ASSUME NEW m \in Msgs \ outstanding
        PROVE  m \in rejected \/ \E r \in log : r.msg = m
    BY DEF IInv, Logged, Answered
  <2> QED
    BY <2>1, <2>2 DEF NoLoss
<1>3. IInv /\ PlacesFresh /\ Answered /\ [Next]_vars
         => PlacesFresh' /\ Answered'
  BY FreshInvariance
<1> QED
  BY <1>1, <1>2, <1>3, IInvHolds, PTL DEF Spec
---------------------------------------------------------------------------
(* A step of the queue and the Agent is a step of the mailbox.             *)
LEMMA StepSimulation ==
    ASSUME IInv, PlacesFresh, [Next]_vars
    PROVE  [Mailbox!Next]_<<log, handled, expired>>
<1> USE DEF intakeVars, pullVars, agentVars, Mailbox!Places, Seqs
<1>0. Seqs(Overdue) \in SUBSET Mailbox!Places(log)
  BY KeptFacts DEF IInv
<1>1. ASSUME expired' = expired \cup Seqs(Overdue), UNCHANGED <<log, handled>>
      PROVE  Mailbox!Next
  <2>1. Mailbox!Expire(Seqs(Overdue))
    BY <1>0, <1>1 DEF Mailbox!Expire
  <2> QED
    BY <1>0, <2>1 DEF Mailbox!Next
<1>2. ASSUME NEW m \in Msgs, NEW reply \in {"200", "lost"}, Enqueue(m, reply)
      PROVE  Mailbox!Next
  <2>1. expired' = expired \cup Seqs(Overdue) /\ UNCHANGED handled
    BY <1>2 DEF Enqueue
  <2>2. CASE EnqueueNew(m)
    <3> DEFINE row == [seq |-> NextSeq(m), msg |-> m]
    <3>1. log' = log \cup {row} /\ m \notin seen
      BY <2>2 DEF EnqueueNew, Store
    <3>2. row \in [seq : Nat, msg : Msgs] /\ row.seq > lastSeq /\ row.msg = m
      BY NextSeqFacts DEF IInv
    <3> HIDE DEF row
    <3>3. \A x \in log : x.seq < row.seq /\ x.msg # row.msg
      BY <3>1, <3>2 DEF IInv, Logged, TypeOK, Row
    <3>4. row \in log' \ log
      BY <3>1, <3>2, <3>3 DEF IInv, TypeOK, Row
    <3>5. Mailbox!Accept(Seqs(Overdue))
      BY <1>0, <2>1, <3>1, <3>2, <3>3, <3>4 DEF Mailbox!Accept
    <3> QED
      BY <1>0, <3>5 DEF Mailbox!Next
  <2>3. CASE EnqueueFull(m) \/ EnqueueDuplicate(m)
    BY <1>1, <2>1, <2>3 DEF EnqueueFull, EnqueueDuplicate
  <2> QED
    BY <1>2, <2>2, <2>3 DEF Enqueue
<1>3. CASE Tick
  BY <1>1, <1>3 DEF Tick
<1>4. CASE PullLive
  BY <1>1, <1>4 DEF PullLive, Pull
<1>5. ASSUME NEW o \in orphans, PullOrphan(o)
      PROVE  Mailbox!Next
  BY <1>1, <1>5 DEF PullOrphan, Pull
<1>6. ASSUME NEW s \in batch, Handle(s)
      PROVE  Mailbox!Next
  <2>1. /\ IsFirst(s, batch) /\ handled' = handled \cup {s}
        /\ UNCHANGED <<log, expired>> /\ s \in Mailbox!Places(log)
    BY <1>6 DEF Handle, IInv, TypeOK
  <2>2. \A x \in log : x.seq < s => x.seq \in Mailbox!Settled
    <3> SUFFICES ASSUME NEW x \in log, x.seq < s
                 PROVE  x.seq \in handled \cup expired
      BY DEF Mailbox!Settled
    <3>1. /\ x.seq \in Nat /\ s \in Nat /\ cursor \in Nat
          /\ batch \subseteq Nat
      BY DEF IInv, TypeOK, Row
    <3>2. x.seq < cursor \/ x \notin updates
      BY <2>1, <3>1 DEF IInv, BatchIsPrefix, IsFirst
    <3>3. ~(x.seq < FirstCursor)
      BY <3>1 DEF PlacesFresh
    <3> QED
      BY <3>2, <3>3
      DEF IInv, SettledBelowCursor, LossOnlyBelowFirstCursor
  <2>3. Mailbox!Handle(s)
    BY <2>1, <2>2 DEF Mailbox!Handle
  <2> QED
    BY <2>1, <2>3 DEF Mailbox!Next
<1>7. ASSUME NEW s \in batch, Skip(s) \/ SetCursor(s)
      PROVE  UNCHANGED <<log, handled, expired>>
  BY <1>7 DEF Skip, SetCursor
<1>8. CASE Age \/ Poll \/ Restart \/ UNCHANGED vars
  BY <1>8 DEF Age, Poll, Restart, vars
<1> QED
  BY <1>2, <1>3, <1>4, <1>5, <1>6, <1>7, <1>8 DEF Next

(* The gateway and the Agent together implement the mailbox: one order,    *)
(* no update twice in it, nothing handled while an earlier one waits.      *)
THEOREM MailboxRefined ==
    ASSUME FreshGateway
    PROVE  Spec => ImplementsMailbox
<1>1. Init => Mailbox!Init
  BY DEF Init, Mailbox!Init
<1>2. Init => PlacesFresh /\ Answered
  BY DEF Init, PlacesFresh, Answered
<1>3. IInv /\ PlacesFresh /\ Answered /\ [Next]_vars
         => PlacesFresh' /\ Answered'
  BY FreshInvariance
<1>4. IInv /\ PlacesFresh /\ [Next]_vars
         => [Mailbox!Next]_<<log, handled, expired>>
  BY StepSimulation
<1> QED
  BY <1>1, <1>2, <1>3, <1>4, IInvHolds, PTL
  DEF Spec, ImplementsMailbox, Mailbox!Spec
=============================================================================
