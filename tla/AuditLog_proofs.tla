--------------------------- MODULE AuditLog_proofs ---------------------------
(***************************************************************************)
(* Theorems about AuditLog, for every set of records, every choice of what *)
(* supersedes what, and any number of crashes and failed writes.           *)
(***************************************************************************)
EXTENDS AuditLog, WellFoundedInduction, TLAPS

USE BoundAssumption DEF BoundAssumption

(* A set of naturals with an upper bound has a greatest member.            *)
LEMMA Greatest ==
    ASSUME NEW n \in Nat, NEW T, T \subseteq Nat, T # {}, \A i \in T : i < n
    PROVE  \E m \in T : \A i \in T : i <= m
<1> DEFINE D == {n - i : i \in T}
<1>1. D \subseteq Nat /\ D # {}
  <2>1. \A i \in T : n - i \in Nat
    OBVIOUS
  <2>2. PICK i \in T : TRUE
    OBVIOUS
  <2>3. n - i \in D
    BY <2>2
  <2> QED
    BY <2>1, <2>3
<1>2. PICK x \in D : \A y \in D : ~(<<y, x>> \in OpToRel(<, Nat))
  BY <1>1, NatLessThanWellFounded, WFMin
<1>3. \A y \in D : ~(y < x)
  BY <1>1, <1>2 DEF OpToRel
<1>4. PICK m \in T : x = n - m
  OBVIOUS
<1>5. \A i \in T : i <= m
  <2> TAKE i \in T
  <2>1. n - i \in D /\ n - i \in Nat /\ x \in Nat
    BY <1>1
  <2> QED
    BY <1>3, <1>4, <2>1
<1> QED
  BY <1>5

(* What supersedes an entry is there as long as the set only grows.        *)
LEMMA SupersededGrows ==
    ASSUME NEW S, NEW T, S \subseteq T, NEW e, Superseded(e, S)
    PROVE  Superseded(e, T)
BY DEF Superseded

LEMMA KeepsGrows ==
    ASSUME NEW S, NEW T, S \subseteq T, NEW A, Keeps(S, A)
    PROVE  Keeps(T, A)
BY SupersededGrows DEF Keeps

Below(S) == \A e \in S : e.id < next

(* Compaction keeps of every key the latest entry: who was kept for by the *)
(* whole file is kept for by the compacted one.                            *)
LEMMA KeptKeeps ==
    ASSUME NEW S, S \subseteq Entry, Below(S), next \in Nat, NEW A, A \subseteq Entry, Keeps(S, A)
    PROVE  Keeps(Kept(S), A)
<1> SUFFICES ASSUME NEW e \in A, e \notin Kept(S) PROVE Superseded(e, Kept(S))
  BY DEF Keeps
<1>1. Superseded(e, S)
  BY DEF Keeps, Kept
<1> DEFINE F == {f \in S : f.id > e.id /\ Key(f.rec) = Key(e.rec)}
           T == {f.id : f \in F}
<1>2. T \subseteq Nat /\ T # {} /\ \A i \in T : i < next
  <2>1. F # {}
    BY <1>1 DEF Superseded
  <2>2. \A f \in F : f.id \in Nat /\ f.id < next
    BY DEF Below, Entry
  <2> QED
    BY <2>1, <2>2
<1>3. PICK m \in T : \A i \in T : i <= m
  BY <1>2, Greatest
<1>4. PICK f \in F : f.id = m
  OBVIOUS
<1>5. ~Superseded(f, S)
  <2> SUFFICES ASSUME NEW g \in S, g.id > f.id, Key(g.rec) = Key(f.rec) PROVE FALSE
    BY DEF Superseded
  <2>1. g.id \in Nat /\ f.id \in Nat /\ e.id \in Nat
    BY DEF Entry
  <2>2. g \in F
    BY <2>1
  <2>3. g.id <= f.id
    BY <1>3, <1>4, <2>2
  <2> QED
    BY <2>1, <2>3
<1>6. f \in Kept(S) /\ Key(e.rec) # NoKey
  BY <1>1, <1>5 DEF Kept, Superseded
<1> QED
  BY <1>6 DEF Superseded

(* The inductive invariant: ids are handed out once and upwards; a file    *)
(* that can be loaded, the copy while it is on its way, and the memory     *)
(* while the log is open each keep what was acknowledged.                  *)
Backs(S) == Keeps(S, acked) /\ S \subseteq acked \cup tried

IInv ==
    /\ LogTypeOK
    /\ Below(file) /\ Below(copy) /\ Below(acked) /\ Below(tried)
    /\ phase # "moved" /\ ~malformed => Backs(file)
    /\ phase = "moved" => file = {}
    /\ phase \in {"copied", "moved"} => Backs(copy)
    /\ IF phase = "open" THEN Backs(events) ELSE events = {}

LEMMA InitIInv == LogInit => IInv
<1> SUFFICES ASSUME LogInit PROVE IInv
  OBVIOUS
<1>1. LogTypeOK
  <2>1. next \in Nat /\ faults \in 0..MaxFaults
    BY DEF LogInit
  <2>2. present \in BOOLEAN /\ malformed \in BOOLEAN /\ ended \in BOOLEAN /\ lost \in BOOLEAN
    BY Zenon DEF LogInit
  <2> QED
    BY <2>1, <2>2 DEF LogInit, LogTypeOK
<1> QED
  BY <1>1 DEF LogInit, IInv, Below, Backs, Keeps

LEMMA FaultFacts ==
    ASSUME LogTypeOK, Fault \/ UNCHANGED faults
    PROVE  faults' \in 0..MaxFaults
BY DEF LogTypeOK, Fault

LEMMA EntryFacts ==
    ASSUME LogTypeOK, NEW r \in Record
    PROVE  EntryOf(r) \in Entry /\ EntryOf(r).id = next /\ next + 1 \in Nat
BY DEF LogTypeOK, Entry, EntryOf

(* Sets that get the next entry stay below the next id.                    *)
LEMMA BelowGrows ==
    ASSUME LogTypeOK, NEW S, S \subseteq Entry, Below(S), next' = next + 1, NEW r \in Record,
           NEW T, T \subseteq S \cup {EntryOf(r)}
    PROVE  \A e \in T : e.id < next'
<1>1. \A e \in S : e.id \in Nat
  BY DEF Entry
<1> QED
  BY <1>1, EntryFacts DEF Below, LogTypeOK

(* What the write of an append leaves in the file.                         *)
LEMMA WriteFacts ==
    ASSUME IInv, NEW r \in Record, Written(r) \/ UNCHANGED disk
    PROVE  /\ file' \subseteq file \cup {EntryOf(r)} /\ file \subseteq file'
           /\ present' \in BOOLEAN /\ malformed' \in BOOLEAN /\ ended' \in BOOLEAN /\ copy' = copy
           /\ ~malformed' => ~malformed
BY DEF Written, Write, disk, IInv, LogTypeOK

LEMMA AppendInv ==
    ASSUME IInv, NEW r \in Record, Appended(r)
    PROVE  IInv'
<1>1. Written(r)
  BY DEF Appended, Written
<1>2. /\ LogTypeOK /\ phase = "open" /\ phase' = "open"
      /\ next' = next + 1 /\ tried' = tried /\ lost' = lost
      /\ events' = events \cup {EntryOf(r)} /\ acked' = acked \cup {EntryOf(r)}
  BY DEF IInv, Appended
<1>3. EntryOf(r) \in Entry /\ next + 1 \in Nat
  BY <1>2, EntryFacts
<1>4. EntryOf(r) \in file'
  BY DEF Appended, Write
<1>5. faults' \in 0..MaxFaults
  BY <1>2, FaultFacts DEF Appended
<1>6. LogTypeOK'
  BY <1>1, <1>2, <1>3, <1>5, WriteFacts DEF LogTypeOK
<1>7. Below(file)' /\ Below(copy)' /\ Below(acked)' /\ Below(tried)'
  <2>1. file \subseteq Entry /\ copy \subseteq Entry /\ acked \subseteq Entry /\ tried \subseteq Entry
    BY <1>2 DEF LogTypeOK
  <2>2. Below(file) /\ Below(copy) /\ Below(acked) /\ Below(tried)
    BY DEF IInv
  <2>3. \A e \in file' : e.id < next'
    BY <1>1, <1>2, <2>1, <2>2, WriteFacts, BelowGrows
  <2>4. \A e \in copy' : e.id < next'
    <3>1. copy' \subseteq copy \cup {EntryOf(r)}
      BY <1>1, WriteFacts
    <3> QED
      BY <1>2, <2>1, <2>2, <3>1, BelowGrows
  <2>5. \A e \in acked' : e.id < next'
    BY <1>2, <2>1, <2>2, BelowGrows
  <2>6. \A e \in tried' : e.id < next'
    <3>1. tried' \subseteq tried \cup {EntryOf(r)}
      BY <1>2
    <3> QED
      BY <1>2, <2>1, <2>2, <3>1, BelowGrows
  <2> QED
    BY <2>3, <2>4, <2>5, <2>6 DEF Below
<1>8. ASSUME NEW S, Keeps(S, acked), NEW T, S \subseteq T, EntryOf(r) \in T
      PROVE  Keeps(T, acked')
  <2>1. Keeps(T, acked)
    BY <1>8, KeepsGrows
  <2> QED
    BY <1>2, <1>8, <2>1 DEF Keeps
<1>9. Backs(file)' \/ malformed'
  <2> SUFFICES ASSUME ~malformed' PROVE Backs(file)'
    OBVIOUS
  <2>1. Keeps(file, acked) /\ file \subseteq acked \cup tried
    BY <1>1, <1>2, WriteFacts DEF IInv, Backs
  <2>2. file \subseteq file' /\ file' \subseteq file \cup {EntryOf(r)}
    BY <1>1, WriteFacts
  <2>3. Keeps(file', acked')
    BY <1>4, <1>8, <2>1, <2>2
  <2> QED
    BY <1>2, <2>1, <2>2, <2>3 DEF Backs, Keeps, Superseded
<1>10. Backs(events)'
  <2>1. Keeps(events, acked) /\ events \subseteq acked \cup tried
    BY <1>2 DEF IInv, Backs
  <2>2. Keeps(events', acked')
    BY <1>2, <1>8, <2>1
  <2> QED
    BY <1>2, <2>1, <2>2 DEF Backs, Keeps, Superseded
<1> QED
  BY <1>2, <1>6, <1>7, <1>9, <1>10 DEF IInv

LEMMA FailInv ==
    ASSUME IInv, NEW r \in Record, AppendFails(r) \/ DiesAppending(r)
    PROVE  IInv'
<1>1. Written(r) \/ UNCHANGED disk
  BY DEF AppendFails, DiesAppending
<1>2. /\ LogTypeOK /\ phase = "open" /\ phase' \in {"open", "down"}
      /\ next' = next + 1 /\ acked' = acked /\ lost' = lost
      /\ tried' = tried \cup {EntryOf(r)}
      /\ IF phase' = "open" THEN events' = events ELSE events' = {}
  BY DEF IInv, AppendFails, DiesAppending
<1>3. EntryOf(r) \in Entry /\ next + 1 \in Nat
  BY <1>2, EntryFacts
<1>4. faults' \in 0..MaxFaults
  BY <1>2, FaultFacts DEF AppendFails, DiesAppending
<1>5. LogTypeOK'
  BY <1>1, <1>2, <1>3, <1>4, WriteFacts DEF LogTypeOK
<1>6. Below(file)' /\ Below(copy)' /\ Below(acked)' /\ Below(tried)'
  <2>1. file \subseteq Entry /\ copy \subseteq Entry /\ acked \subseteq Entry /\ tried \subseteq Entry
    BY <1>2 DEF LogTypeOK
  <2>2. Below(file) /\ Below(copy) /\ Below(acked) /\ Below(tried)
    BY DEF IInv
  <2>3. /\ file' \subseteq file \cup {EntryOf(r)} /\ copy' \subseteq copy \cup {EntryOf(r)}
        /\ acked' \subseteq acked \cup {EntryOf(r)} /\ tried' \subseteq tried \cup {EntryOf(r)}
    BY <1>1, <1>2, WriteFacts
  <2>4. (\A e \in file' : e.id < next') /\ (\A e \in copy' : e.id < next')
    BY <1>2, <2>1, <2>2, <2>3, BelowGrows
  <2>5. (\A e \in acked' : e.id < next') /\ (\A e \in tried' : e.id < next')
    BY <1>2, <2>1, <2>2, <2>3, BelowGrows
  <2> QED
    BY <2>4, <2>5 DEF Below
<1>7. Backs(file)' \/ malformed'
  <2> SUFFICES ASSUME ~malformed' PROVE Backs(file)'
    OBVIOUS
  <2>1. Keeps(file, acked) /\ file \subseteq acked \cup tried
    BY <1>1, <1>2, WriteFacts DEF IInv, Backs
  <2>2. file \subseteq file' /\ file' \subseteq file \cup {EntryOf(r)}
    BY <1>1, WriteFacts
  <2>3. Keeps(file', acked)
    BY <2>1, <2>2, KeepsGrows
  <2> QED
    BY <1>2, <2>1, <2>2, <2>3 DEF Backs, Keeps, Superseded
<1>8. ASSUME phase' = "open" PROVE Backs(events)'
  <2>1. Keeps(events, acked) /\ events \subseteq acked \cup tried
    BY <1>2 DEF IInv, Backs
  <2> QED
    BY <1>2, <1>8, <2>1 DEF Backs, Keeps, Superseded
<1> QED
  BY <1>2, <1>5, <1>6, <1>7, <1>8 DEF IInv

LEMMA DiesInv ==
    ASSUME IInv, Dies
    PROVE  IInv'
<1>1. /\ LogTypeOK /\ phase' = "down" /\ events' = {} /\ UNCHANGED <<disk, next>>
  BY DEF IInv, Dies
<1>2. \/ phase = "moved" /\ acked' = {} /\ tried' = {}
      \/ phase # "moved" /\ acked' = acked /\ tried' = tried
  BY DEF Dies
<1>3. faults' \in 0..MaxFaults
  BY <1>1, FaultFacts DEF Dies
<1>4. lost' \in BOOLEAN
  BY Zenon DEF Dies
<1>5. LogTypeOK'
  BY <1>1, <1>2, <1>3, <1>4 DEF LogTypeOK, disk
<1>6. Below(file)' /\ Below(copy)' /\ Below(acked)' /\ Below(tried)'
  BY <1>1, <1>2 DEF IInv, Below, disk
<1>7. Backs(file)' \/ malformed'
  <2>1. CASE phase = "moved"
    <3>1. file' = {} \/ malformed'
      BY <1>1, <2>1 DEF IInv, disk
    <3> QED
      BY <1>2, <2>1, <3>1 DEF Backs, Keeps
  <2>2. CASE phase # "moved"
    BY <1>1, <1>2, <2>2 DEF IInv, Backs, Keeps, Superseded, disk
  <2> QED
    BY <2>1, <2>2
<1> QED
  BY <1>1, <1>5, <1>6, <1>7 DEF IInv

LEMMA KeptFacts ==
    ASSUME NEW S, NEW n, \A e \in S : e.id < n
    PROVE  Kept(S) \subseteq S /\ \A e \in Kept(S) : e.id < n
BY DEF Kept

LEMMA CompactInv ==
    ASSUME IInv, Compact
    PROVE  IInv'
<1>1. /\ LogTypeOK /\ phase = "down" /\ phase' = "copied" /\ ~malformed /\ copy' = Kept(file)
      /\ UNCHANGED <<present, file, malformed, ended, events, next, acked, tried, lost, faults>>
  BY DEF IInv, Compact, ghosts
<1>2. Kept(file) \subseteq file /\ \A e \in Kept(file) : e.id < next
  BY KeptFacts DEF IInv, Below
<1>3. Keeps(file, acked) /\ file \subseteq acked \cup tried
  BY <1>1 DEF IInv, Backs
<1>4. Keeps(Kept(file), acked)
  BY <1>1, <1>3, KeptKeeps DEF IInv, LogTypeOK
<1>5. LogTypeOK'
  BY <1>1, <1>2 DEF LogTypeOK
<1>6. Backs(copy)'
  BY <1>1, <1>2, <1>3, <1>4 DEF Backs, Keeps, Superseded
<1>7. Below(file)' /\ Below(copy)' /\ Below(acked)' /\ Below(tried)'
  BY <1>1, <1>2 DEF IInv, Below
<1>8. Backs(file)' /\ events' = {}
  BY <1>1, <1>3 DEF IInv, Backs, Keeps, Superseded
<1> QED
  BY <1>1, <1>5, <1>6, <1>7, <1>8 DEF IInv

LEMMA MoveAwayInv ==
    ASSUME IInv, MoveAway
    PROVE  IInv'
<1>1. /\ LogTypeOK /\ phase = "copied" /\ phase' = "moved" /\ file' = {}
      /\ present' = FALSE /\ malformed' = FALSE /\ ended' = TRUE
      /\ UNCHANGED <<copy, events, next, acked, tried, lost, faults>>
  BY DEF IInv, MoveAway, ghosts
<1>2. LogTypeOK'
  BY <1>1 DEF LogTypeOK
<1>3. Below(file)' /\ Below(copy)' /\ Below(acked)' /\ Below(tried)'
  BY <1>1 DEF IInv, Below
<1>4. Backs(copy)' /\ events' = {}
  BY <1>1 DEF IInv, Backs, Keeps, Superseded
<1> QED
  BY <1>1, <1>2, <1>3, <1>4 DEF IInv

LEMMA MoveInInv ==
    ASSUME IInv, MoveIn
    PROVE  IInv'
<1>1. /\ LogTypeOK /\ phase = "moved" /\ phase' = "down" /\ present' = TRUE
      /\ file' = copy /\ copy' = {}
      /\ UNCHANGED <<malformed, ended, events, next, acked, tried, lost, faults>>
  BY DEF IInv, MoveIn, ghosts
<1>2. LogTypeOK'
  BY <1>1 DEF LogTypeOK
<1>3. Below(file)' /\ Below(copy)' /\ Below(acked)' /\ Below(tried)'
  BY <1>1 DEF IInv, Below
<1>4. Backs(file)' /\ events' = {}
  BY <1>1 DEF IInv, Backs, Keeps, Superseded
<1> QED
  BY <1>1, <1>2, <1>3, <1>4 DEF IInv

LEMMA OpenInv ==
    ASSUME IInv, Open
    PROVE  IInv'
<1>1. /\ LogTypeOK /\ phase = "down" /\ ~malformed /\ phase' = "open" /\ present' = TRUE
      /\ events' = file
      /\ UNCHANGED <<file, malformed, ended, copy, next, acked, tried, lost, faults>>
  BY DEF IInv, Open, ghosts
<1>2. LogTypeOK'
  BY <1>1 DEF LogTypeOK
<1>3. Below(file)' /\ Below(copy)' /\ Below(acked)' /\ Below(tried)'
  BY <1>1 DEF IInv, Below
<1>4. Backs(file)' /\ Backs(events)'
  BY <1>1 DEF IInv, Backs, Keeps, Superseded
<1> QED
  BY <1>1, <1>2, <1>3, <1>4 DEF IInv

LEMMA StutterInv ==
    ASSUME IInv, UNCHANGED logVars
    PROVE  IInv'
BY DEF IInv, LogTypeOK, Below, Backs, Keeps, Superseded, logVars, disk, ghosts

LEMMA NextIInv == IInv /\ [LogNext]_logVars => IInv'
<1> SUFFICES ASSUME IInv, LogNext \/ UNCHANGED logVars PROVE IInv'
  OBVIOUS
<1>1. ASSUME NEW r \in Record, Appended(r) PROVE IInv'
  BY <1>1, AppendInv
<1>2. ASSUME NEW r \in Record, AppendFails(r) \/ DiesAppending(r) PROVE IInv'
  BY <1>2, FailInv
<1>3. CASE Dies
  BY <1>3, DiesInv
<1>4. CASE Compact
  BY <1>4, CompactInv
<1>5. CASE MoveAway
  BY <1>5, MoveAwayInv
<1>6. CASE MoveIn
  BY <1>6, MoveInInv
<1>7. CASE Open
  BY <1>7, OpenInv
<1>8. CASE UNCHANGED logVars
  BY <1>8, StutterInv
<1> QED
  BY <1>1, <1>2, <1>3, <1>4, <1>5, <1>6, <1>7, <1>8 DEF LogNext

LEMMA Invariance == LogSpec => []IInv
BY InitIInv, NextIInv, PTL DEF LogSpec

(* Every variable of the log keeps its type through every fault.           *)
THEOREM TypeCorrect == LogSpec => []LogTypeOK
<1>1. IInv => LogTypeOK
  BY DEF IInv
<1> QED
  BY <1>1, Invariance, PTL

(* While the log is open, a reader sees every record whose append returned *)
(* or a later one of its key, and nothing that was never appended          *)
(* (fileAudit.ts:10-16, compact.ts:31-66).                                 *)
THEOREM NothingIsDropped == LogSpec => []NothingDropped
<1>1. IInv => NothingDropped
  BY DEF IInv, NothingDropped, Backs
<1> QED
  BY <1>1, Invariance, PTL

(* What a step of the log is to its readers.                               *)
LEMMA FreshEntry ==
    ASSUME IInv, NEW r \in Record
    PROVE  Stable!Fresh(EntryOf(r)) /\ EntryOf(r) \notin acked \cup tried
<1>1. EntryOf(r) \in Stable!Entry /\ EntryOf(r).id = next /\ next \in Nat
  BY EntryFacts DEF IInv, LogTypeOK, Entry, Stable!Entry
<1>2. \A f \in acked \cup tried : f.id < next
  BY DEF IInv, Below
<1> QED
  BY <1>1, <1>2 DEF Stable!Fresh

LEMMA KeepsSame ==
    ASSUME NEW S, NEW A, Keeps(S, A)
    PROVE  Stable!Keeps(S, A)
BY DEF Keeps, Superseded, Stable!Keeps, Stable!Supersedes

LEMMA StepRefines ==
    ASSUME IInv, [LogNext]_logVars
    PROVE  [Stable!Next]_<<acked, tried, events, phase = "open">>
<1> DEFINE Same == UNCHANGED <<acked, tried, events>> /\ (phase' = "open") = (phase = "open")
<1>1. ASSUME NEW r \in Record, Appended(r) \/ AppendFails(r) \/ DiesAppending(r)
      PROVE  Stable!Next
  <2>1. Stable!Fresh(EntryOf(r)) /\ EntryOf(r) \notin acked \cup tried
    BY FreshEntry
  <2>2. Appended(r) => Stable!Recorded(EntryOf(r))
    BY <2>1 DEF Appended, Stable!Recorded
  <2>3. AppendFails(r) => Stable!Failed(EntryOf(r))
    BY <2>1 DEF AppendFails, Stable!Failed
  <2>4. DiesAppending(r) => Stable!FailedAndStopped(EntryOf(r))
    BY <2>1 DEF DiesAppending, Stable!FailedAndStopped
  <2>5. EntryOf(r) \in (acked' \cup tried') \ (acked \cup tried)
    BY <1>1, <2>1 DEF Appended, AppendFails, DiesAppending
  <2> QED
    BY <1>1, <2>2, <2>3, <2>4, <2>5 DEF Stable!Next
<1>2. CASE Dies
  <2>1. CASE phase = "moved"
    BY <1>2, <2>1 DEF Dies, Stable!Next, Stable!Lose
  <2>2. CASE phase # "moved"
    BY <1>2, <2>2 DEF Dies, Stable!Next, Stable!Stop
  <2> QED
    BY <2>1, <2>2
<1>3. CASE Compact \/ MoveAway \/ MoveIn \/ UNCHANGED logVars
  BY <1>3 DEF Compact, MoveAway, MoveIn, logVars, ghosts
<1>4. CASE Open
  <2>1. Keeps(file, acked) /\ file \subseteq acked \cup tried
    BY <1>4 DEF Open, IInv, Backs
  <2>2. Stable!Keeps(file, acked)
    BY <2>1, KeepsSame
  <2>3. Stable!Start
    BY <1>4, <2>1, <2>2 DEF Open, ghosts, Stable!Start, Stable!Keeps, Stable!Supersedes
  <2> QED
    BY <2>3 DEF Stable!Next
<1> QED
  BY <1>1, <1>2, <1>3, <1>4 DEF LogNext

(* The file, the compacted copy and the two renames never show to a reader *)
(* but as a refused start and as the one loss (fileAudit.ts, compact.ts).  *)
THEOREM Implementation == LogSpec => ImplementsStableLog
<1>1. LogInit => Stable!Init
  BY DEF LogInit, Stable!Init
<1>2. IInv /\ [LogNext]_logVars => [Stable!Next]_<<acked, tried, events, phase = "open">>
  BY StepRefines
<1> QED
  BY <1>1, <1>2, Invariance, PTL DEF LogSpec, ImplementsStableLog, Stable!Spec
=============================================================================
