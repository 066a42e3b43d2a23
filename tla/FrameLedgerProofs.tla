--------------------------- MODULE FrameLedgerProofs ---------------------------
(***************************************************************************)
(* What FrameLedger guarantees for every set of responses, writers and     *)
(* readers and for every fault budget: the type invariant, that a verified *)
(* index is exact, and that acknowledged rows are never lost.              *)
(***************************************************************************)
EXTENDS FrameLedger, FiniteSetTheorems, WellFoundedInduction, TLAPS

(* A non-empty set of naturals up to n has a greatest element: among the    *)
(* intervals k .. n with k in the set, the smallest one starts at it.       *)
LEMMA GreatestIsMaximum ==
    ASSUME NEW n \in Nat, NEW S \in SUBSET (0 .. n), S # {}
    PROVE  Greatest(S) \in S /\ \A j \in S : j <= Greatest(S)
<1> DEFINE T == {k .. n : k \in S}
<1>1. IsWellFoundedOn(StrictSubsetOrdering(0 .. n), SUBSET (0 .. n))
  <2>1. 0 \in Int /\ n \in Int
    OBVIOUS
  <2>2. IsFiniteSet(0 .. n)
    BY <2>1, FS_Interval
  <2>3. FiniteSubsetsOf(0 .. n) = SUBSET (0 .. n)
    BY <2>2, FS_FiniteSubsetsOfFinite, Zenon
  <2> QED
    BY <2>3, FS_StrictSubsetOrderingWellFounded
<1>2. T \subseteq SUBSET (0 .. n) /\ T # {}
  <2>1. \A k \in S : k .. n \subseteq 0 .. n
    OBVIOUS
  <2>2. \A k \in S : k .. n \in SUBSET (0 .. n)
    BY <2>1, Zenon
  <2> QED
    BY <2>2, Zenon
<1>3. \E t \in T : \A y \in T : <<y, t>> \notin StrictSubsetOrdering(0 .. n)
  <2> HIDE DEF T
  <2> QED
    BY <1>1, <1>2, WFMin
<1>4. PICK g \in S : \A j \in S : <<j .. n, g .. n>> \notin StrictSubsetOrdering(0 .. n)
  BY <1>3
<1>5. ASSUME NEW j \in S PROVE j <= g
  <2>1. j .. n \in SUBSET (0 .. n) /\ g .. n \in SUBSET (0 .. n)
    BY <1>2
  <2>2. ~(j .. n \subseteq g .. n /\ j .. n # g .. n)
    BY <1>4, <2>1 DEF StrictSubsetOrdering
  <2>3. g \in g .. n /\ j \in Nat /\ g \in Nat
    OBVIOUS
  <2>4. CASE j > g
    <3>1. g \notin j .. n /\ j .. n \subseteq g .. n
      BY <2>3, <2>4
    <3> QED
      BY <3>1, <2>2, <2>3
  <2> QED
    BY <2>3, <2>4
<1> QED
  BY <1>5 DEF Greatest

-----------------------------------------------------------------------------
(* The inductive invariant.                                                 *)

Holding == {"prepared", "writing", "written", "synced"}

\* A writer holds the lock exactly from Prepare to Publish, the row it has
\* written is the last one of the file, and after its fsync everything is on disk.
WritersOK ==
    \A w \in Writers :
        /\ pc[w] # "idle" => job[w] \in Job
        /\ pc[w] \in Holding <=> lock = w
        /\ pc[w] \in Holding => row[w] \in Line
        /\ pc[w] \in {"written", "synced"} =>
              ledger # <<>> /\ ledger[Len(ledger)] = row[w]
        /\ pc[w] = "synced" => synced = Len(ledger)

\* The index is published after the fsync, so it never counts a row that a
\* crash could take back.
IndexBehindDisk == index.ok => index.size <= synced

IInv == TypeOK /\ WritersOK /\ IndexBehindDisk /\ VerifiedIndexIsExact

-----------------------------------------------------------------------------
(* Types of the operators the actions are built from.                       *)

LEMMA ManifestTypes ==
    /\ NoManifest \in Manifest
    /\ \A a, b \in Manifest : Merge(a, b) \in Manifest /\ Delta(a, b) \in Manifest
    /\ \A a : Items(a) \in Manifest
BY DEF NoManifest, Manifest, Merge, Delta, Items

LEMMA NoIndexType == NoIndex \in Index
BY DEF NoIndex, Index

\* The lines of a response lie in the file, and the latest one is the greatest.
LEMMA LatestFacts ==
    ASSUME ledger \in Seq(Line), NEW r
    PROVE  /\ Lines(r) \subseteq 1 .. Len(ledger)
           /\ LatestLine(r) \in Nat
           /\ LatestSeq(r) \in Nat
           /\ Lines(r) # {} => /\ LatestLine(r) \in Lines(r)
                               /\ \A j \in Lines(r) : j <= LatestLine(r)
                               /\ LatestSeq(r) = ledger[LatestLine(r)].seq
<1>1. Lines(r) \subseteq 1 .. Len(ledger) /\ Len(ledger) \in Nat
  BY DEF Lines
<1>2. CASE Lines(r) = {}
  BY <1>1, <1>2 DEF LatestLine, LatestSeq
<1>3. CASE Lines(r) # {}
  <2>1. Lines(r) \in SUBSET (0 .. Len(ledger))
    BY <1>1
  <2>2. /\ LatestLine(r) \in Lines(r)
        /\ \A j \in Lines(r) : j <= LatestLine(r)
    BY <1>1, <1>3, <2>1, GreatestIsMaximum DEF LatestLine
  <2>3. LatestSeq(r) = ledger[LatestLine(r)].seq
    BY <1>3 DEF LatestSeq
  <2>4. ledger[LatestLine(r)] \in Line
    BY <1>1, <2>2
  <2> QED
    BY <1>1, <2>2, <2>3, <2>4 DEF Line
<1> QED
  BY <1>2, <1>3

\* An entry that is there is an entry.
LEMMA EntryOrNone ==
    ASSUME NEW ix \in Index, NEW r \in Responses
    PROVE  ix.entries[r] # None => ix.entries[r] \in Entry
BY DEF Index

LEMMA IndexedRowType ==
    ASSUME ledger \in Seq(Line), NEW ix \in Index, NEW r \in Responses
    PROVE  IndexedRow(r, ix) \in Nat
<1>1. DOMAIN ledger \subseteq Nat
  OBVIOUS
<1> QED
  BY <1>1 DEF IndexedRow

LEMMA PriorSeqType ==
    ASSUME ledger \in Seq(Line), NEW ix \in Index, NEW r \in Responses
    PROVE  PriorSeq(r, ix) \in Nat
BY EntryOrNone, LatestFacts DEF PriorSeq, Verified, Entry

LEMMA EnrichType ==
    ASSUME NEW j \in Job, NEW prior \in Nat
    PROVE  Enrich(j, prior) \in Job /\ Enrich(j, prior).rid = j.rid
<1>1. [j EXCEPT !.seq = prior + 1] \in Job
  BY DEF Job
<1>2. [j EXCEPT !.seq = prior + 1, !.parent = prior]
        = [[j EXCEPT !.seq = prior + 1] EXCEPT !.parent = prior]
  OBVIOUS
<1>3. /\ [j EXCEPT !.seq = prior + 1, !.parent = prior] \in Job
      /\ [j EXCEPT !.seq = prior + 1, !.parent = prior].rid = j.rid
  BY <1>1, <1>2 DEF Job
<1> QED
  BY <1>3 DEF Enrich

LEMMA ParentRowType ==
    ASSUME NEW ix \in Index, NEW r \in Responses
    PROVE  ParentRow(r, ix).man \in Manifest
<1>1. ix.entries[r] # None => ix.entries[r].man \in Manifest
  BY EntryOrNone DEF Entry
<1> QED
  BY <1>1, ManifestTypes DEF ParentRow

LEMMA NextIndexType ==
    ASSUME NEW ix \in Index, NEW line \in Line, NEW off \in Nat, NEW m \in Manifest
    PROVE  NextIndex(ix, line, off, m) \in Index
<1>1. [seq |-> line.seq, off |-> off, man |-> m] \in Entry
  BY DEF Entry, Line
<1>2. NoIndex.entries \in [Responses -> Entry \cup {None}]
  BY DEF NoIndex
<1>3. ix.entries \in [Responses -> Entry \cup {None}]
  BY DEF Index
<1> DEFINE epoch == off = 1 /\ ~line.glued
           kept  == IF epoch \/ ~ix.ok THEN NoIndex.entries ELSE ix.entries
           e     == [seq |-> line.seq, off |-> off, man |-> m]
<1>4. [kept EXCEPT ![line.rid] = e] \in [Responses -> Entry \cup {None}]
  BY <1>1, <1>2, <1>3
<1> QED
  BY <1>4 DEF NextIndex, Index

LEMMA LookType ==
    ASSUME ledger \in Seq(Line), NEW ix \in Index, NEW r \in Responses
    PROVE  Look(r, ix) \in Outcome
<1>1. IndexedRow(r, ix) \in Nat /\ LatestLine(r) \in Nat
  BY IndexedRowType, LatestFacts
<1> QED
  BY <1>1 DEF Look, Answer, Outcome

-----------------------------------------------------------------------------
(* The invariant holds initially, and each of its parts is preserved.       *)

\* The empty ledger satisfies every part of the invariant.
LEMMA InvariantInitially == Init => IInv
<1> SUFFICES ASSUME Init PROVE IInv
  OBVIOUS
<1> USE DEF Init
<1>1. TypeOK
  <2>1. index \in Index /\ copy \in [Readers -> Index]
    BY NoIndexType
  <2>2. man \in [Writers -> Manifest]
    BY ManifestTypes
  <2>3. ledger \in Seq(Line) /\ synced \in 0 .. Len(ledger) /\ acked \in SUBSET (1 .. synced)
    OBVIOUS
  <2> QED
    BY <2>1, <2>2, <2>3 DEF TypeOK
<1>2. WritersOK
  BY NoneAssumption DEF WritersOK, Holding
<1>3. IndexBehindDisk /\ VerifiedIndexIsExact
  BY DEF IndexBehindDisk, VerifiedIndexIsExact, NoIndex
<1> QED
  BY <1>1, <1>2, <1>3 DEF IInv

\* A writer that leaves keeps every type.
LEMMA LeaveTypes ==
    ASSUME TypeOK, NEW w \in Writers, Leave(w)
    PROVE  /\ lock' \in Writers \cup {None}
           /\ pc' \in [Writers -> {"idle", "plain", "ready", "prepared", "writing",
                                   "written", "synced"}]
           /\ job' \in [Writers -> Job \cup {None}]
           /\ row' \in [Writers -> Line \cup {None}]
           /\ man' \in [Writers -> Manifest]
BY ManifestTypes DEF TypeOK, Leave

\* Every action keeps the types.
LEMMA TypePreserved == IInv /\ [Next]_vars => TypeOK'
<1> SUFFICES ASSUME IInv, [Next]_vars PROVE TypeOK'
  OBVIOUS
<1> USE DEF IInv
<1>1. ASSUME NEW w \in Writers, BeginInitial(w) PROVE TypeOK'
  <2>1. PICK r \in Responses, refs \in Manifest :
          job' = [job EXCEPT ![w] =
            [rid |-> r, seq |-> 1, parent |-> 0, refs |-> refs, expect |-> 0]]
    BY <1>1 DEF BeginInitial
  <2>2. [rid |-> r, seq |-> 1, parent |-> 0, refs |-> refs, expect |-> 0] \in Job
    BY DEF Job
  <2>3. job' \in [Writers -> Job \cup {None}]
    BY <2>1, <2>2 DEF TypeOK
  <2> QED
    BY <1>1, <2>3 DEF BeginInitial, TypeOK, disk, reader, faults
<1>2. ASSUME NEW w \in Writers, BeginSuccessor(w) PROVE TypeOK'
  <2>1. PICK r \in Responses, refs \in Manifest, cas \in BOOLEAN :
          \E base \in (held[r] \cup {LatestSeq(r)}) \ {0} :
            /\ job' = [job EXCEPT ![w] =
                 [rid |-> r, seq |-> base + 1, parent |-> base, refs |-> refs,
                  expect |-> IF cas THEN base ELSE 0]]
            /\ pc' = [pc EXCEPT ![w] = IF cas THEN "ready" ELSE "plain"]
    BY <1>2 DEF BeginSuccessor
  <2>2. PICK base \in (held[r] \cup {LatestSeq(r)}) \ {0} :
            /\ job' = [job EXCEPT ![w] =
                 [rid |-> r, seq |-> base + 1, parent |-> base, refs |-> refs,
                  expect |-> IF cas THEN base ELSE 0]]
            /\ pc' = [pc EXCEPT ![w] = IF cas THEN "ready" ELSE "plain"]
    BY <2>1
  <2>3. base \in Nat
    BY LatestFacts DEF TypeOK
  <2>4. [rid |-> r, seq |-> base + 1, parent |-> base, refs |-> refs,
         expect |-> IF cas THEN base ELSE 0] \in Job
    BY <2>3 DEF Job
  <2>5. job' \in [Writers -> Job \cup {None}]
    BY <2>2, <2>4 DEF TypeOK
  <2>6. pc' \in [Writers -> {"idle", "plain", "ready", "prepared", "writing",
                             "written", "synced"}]
    BY <2>2 DEF TypeOK
  <2> QED
    BY <1>2, <2>5, <2>6 DEF BeginSuccessor, TypeOK, disk, reader, faults
<1>3. ASSUME NEW w \in Writers, EnrichUnlocked(w) PROVE TypeOK'
  <2>1. job[w] \in Job
    BY <1>3 DEF EnrichUnlocked, TypeOK, WritersOK
  <2>2. Enrich(job[w], PriorSeq(job[w].rid, index)) \in Job
    <3>1. job[w].rid \in Responses
      BY <2>1 DEF Job
    <3> QED
      BY <2>1, <3>1, PriorSeqType, EnrichType DEF TypeOK
  <2>3. job' \in [Writers -> Job \cup {None}]
    BY <1>3, <2>2 DEF EnrichUnlocked, TypeOK
  <2> QED
    BY <1>3, <2>3 DEF EnrichUnlocked, TypeOK, disk, reader, faults
<1>4. ASSUME NEW w \in Writers, Prepare(w) PROVE TypeOK'
  <2> DEFINE j == Enrich(job[w], PriorSeq(job[w].rid, index))
             parent == ParentRow(j.rid, index)
             line == [rid |-> j.rid, seq |-> j.seq, parent |-> j.parent,
                      refs |-> j.refs, delta |-> Delta(parent.man, j.refs),
                      expect |-> j.expect, glued |-> torn]
  <2>1. job[w] \in Job
    BY <1>4 DEF Prepare, TypeOK, WritersOK
  <2>2. j \in Job
    <3>1. job[w].rid \in Responses
      BY <2>1 DEF Job
    <3> QED
      BY <2>1, <3>1, PriorSeqType, EnrichType DEF TypeOK
  <2>3. parent.man \in Manifest /\ j.refs \in Manifest
    <3> HIDE DEF j
    <3>1. j.rid \in Responses /\ j.refs \in Manifest
      BY <2>2 DEF Job
    <3> QED
      BY <3>1, ParentRowType DEF TypeOK
  <2>4. line \in Line /\ Merge(parent.man, j.refs) \in Manifest
    <3> HIDE DEF j, parent
    <3>1. Delta(parent.man, j.refs) \in Manifest /\ Merge(parent.man, j.refs) \in Manifest
      BY <2>3, ManifestTypes
    <3> QED
      BY <2>2, <3>1 DEF Line, Job, TypeOK
  <2>5. row' = [row EXCEPT ![w] = line] /\ man' = [man EXCEPT ![w] = Merge(parent.man, j.refs)]
    BY <1>4 DEF Prepare
  <2>6. row' \in [Writers -> Line \cup {None}] /\ man' \in [Writers -> Manifest]
    <3> HIDE DEF j, parent, line
    <3> QED
      BY <2>4, <2>5 DEF TypeOK
  <2>7. /\ lock' = w /\ pc' = [pc EXCEPT ![w] = "prepared"]
        /\ UNCHANGED <<disk, job, held, acked, reader, faults>>
    BY <1>4 DEF Prepare
  <2> HIDE DEF j, parent, line
  <2> QED
    BY <2>6, <2>7 DEF TypeOK, disk, reader, faults
<1>5. ASSUME NEW w \in Writers, Refuse(w) PROVE TypeOK'
  BY <1>5, LeaveTypes DEF Refuse, TypeOK, disk, reader, faults
<1>6. ASSUME NEW w \in Writers, StartWrite(w) PROVE TypeOK'
  BY <1>6 DEF StartWrite, TypeOK, reader, faults
<1>7. ASSUME NEW w \in Writers, FinishWrite(w) PROVE TypeOK'
  <2>1. row[w] \in Line
    BY <1>7 DEF FinishWrite, TypeOK, WritersOK, Holding
  <2>2. ledger' \in Seq(Line) /\ synced' \in 0 .. Len(ledger')
    BY <1>7, <2>1 DEF FinishWrite, TypeOK
  <2> QED
    BY <1>7, <2>2 DEF FinishWrite, TypeOK, reader, faults
<1>8. ASSUME NEW w \in Writers, Fsync(w) PROVE TypeOK'
  <2>1. synced' \in 0 .. Len(ledger') /\ acked' \in SUBSET (1 .. synced')
    BY <1>8 DEF Fsync, TypeOK
  <2> QED
    BY <1>8, <2>1 DEF Fsync, TypeOK, reader, faults
<1>9. ASSUME NEW w \in Writers, Publish(w) PROVE TypeOK'
  <2>1. job[w] \in Job /\ row[w] \in Line /\ man[w] \in Manifest
    BY <1>9 DEF Publish, TypeOK, WritersOK, Holding
  <2>2. Len(ledger) \in 1 .. synced
    BY <1>9 DEF Publish, TypeOK, WritersOK
  <2>3. index' \in Index
    <3>1. index \in Index /\ Len(ledger) \in Nat
      BY DEF TypeOK
    <3>2. NextIndex(index, row[w], Len(ledger), man[w]) \in Index
      BY <2>1, <3>1, NextIndexType
    <3> QED
      BY <1>9, <3>2 DEF Publish
  <2>4. acked' \in SUBSET (1 .. synced')
    BY <1>9, <2>2 DEF Publish, TypeOK
  <2>5. Receipt(w) \in Nat
    BY <2>1 DEF Receipt, Job, Line
  <2>6. held' \in [Responses -> SUBSET Nat]
    BY <1>9, <2>5 DEF Publish, TypeOK
  <2> QED
    BY <1>9, <2>3, <2>4, <2>6, LeaveTypes DEF Publish, TypeOK, reader, faults
<1>10. ASSUME NEW w \in Writers, Fail(w) PROVE TypeOK'
  <2>1. job[w] \in Job
    BY <1>10 DEF Fail, TypeOK, WritersOK
  <2>2. held' \in [Responses -> SUBSET Nat]
    BY <1>10, <2>1 DEF Fail, TypeOK, Job
  <2> QED
    BY <1>10, <2>2, LeaveTypes DEF Fail, TypeOK, disk, reader
<1>11. ASSUME NEW d \in Readers, Ask(d) PROVE TypeOK'
  <2>1. PICK r \in Responses : want' = [want EXCEPT ![d] = r]
    BY <1>11 DEF Ask
  <2>2. want' \in [Readers -> Responses \cup {None}]
    BY <2>1 DEF TypeOK
  <2>3. /\ rpc' = [rpc EXCEPT ![d] = "stat"]
        /\ \A e \in Readers : rpc'[e] # "idle" => want'[e] # None
    BY <1>11, <2>1, NoneAssumption DEF Ask, TypeOK
  <2>4. seen' \in [Readers -> Nat \X BOOLEAN]
    BY <1>11 DEF Ask, TypeOK, FileState
  <2> QED
    BY <1>11, <2>2, <2>3, <2>4 DEF Ask, TypeOK, disk, writer, faults
<1>12. ASSUME NEW d \in Readers, LoadIndex(d) PROVE TypeOK'
  BY <1>12 DEF LoadIndex, TypeOK, disk, writer, faults
<1>13. ASSUME NEW d \in Readers, LookUp(d) PROVE TypeOK'
  <2>1. want[d] \in Responses /\ copy[d] \in Index
    BY <1>13 DEF LookUp, TypeOK
  <2>2. Look(want[d], copy[d]) \in Outcome
    BY <2>1, LookType DEF TypeOK
  <2>3. copy' \in [Readers -> Index]
    BY <1>13, NoIndexType DEF LookUp, TypeOK
  <2>4. res' \in [Readers -> Outcome \cup {None}]
    BY <1>13, <2>2 DEF LookUp, TypeOK
  <2> QED
    BY <1>13, <2>3, <2>4 DEF LookUp, TypeOK, disk, writer, faults
<1>14. ASSUME NEW d \in Readers, Confirm(d) PROVE TypeOK'
  <2>1. Answer("moved", 0) \in Outcome
    BY DEF Answer, Outcome
  <2>2. rpc' \in [Readers -> {"idle", "stat", "loaded", "found"}]
    BY <1>14 DEF Confirm, TypeOK
  <2>3. \A e \in Readers : rpc'[e] # "idle" => want'[e] # None
    BY <1>14 DEF Confirm, TypeOK
  <2>4. seen' \in [Readers -> Nat \X BOOLEAN]
    <3>1. FileState \in Nat \X BOOLEAN
      BY DEF TypeOK, FileState
    <3>2. seen' = seen \/ seen' = [seen EXCEPT ![d] = FileState]
      BY <1>14 DEF Confirm
    <3>3. seen \in [Readers -> Nat \X BOOLEAN]
      BY DEF TypeOK
    <3> HIDE DEF FileState
    <3> QED
      BY <3>1, <3>2, <3>3
  <2>5. again' \in [Readers -> BOOLEAN] /\ res' \in [Readers -> Outcome \cup {None}]
    BY <1>14, <2>1 DEF Confirm, TypeOK
  <2> QED
    BY <1>14, <2>2, <2>3, <2>4, <2>5 DEF Confirm, TypeOK, disk, writer, faults
<1>15. CASE Attest
  <2>1. Len(ledger) \in Nat
    BY DEF TypeOK
  <2>2. index' \in Index
    BY <1>15, <2>1 DEF Attest, TypeOK, Index
  <2> QED
    BY <1>15, <2>2 DEF Attest, TypeOK, writer, reader, faults
<1>16. CASE Crash
  <2>1. PICK n \in synced .. Len(ledger) :
          /\ ledger' = SubSeq(ledger, 1, n) /\ synced' = n
          /\ torn' \in {FALSE} \cup (IF TornWrites /\ (torn \/ n < Len(ledger))
                                     THEN {TRUE} ELSE {})
    BY <1>16 DEF Crash
  <2>2. n \in Nat /\ n <= Len(ledger) /\ synced <= n
    BY DEF TypeOK
  <2>3. ledger' \in Seq(Line) /\ Len(ledger') = n
    BY <2>1, <2>2 DEF TypeOK
  <2>4. acked' \in SUBSET (1 .. synced') /\ synced' \in 0 .. Len(ledger')
    BY <1>16, <2>1, <2>2, <2>3 DEF Crash, TypeOK
  <2>5. copy' \in [Readers -> Index] /\ man' \in [Writers -> Manifest]
    BY <1>16, NoIndexType, ManifestTypes DEF Crash
  <2>6. /\ torn' \in BOOLEAN
        /\ lock' \in Writers \cup {None}
        /\ held' \in [Responses -> SUBSET Nat]
    BY <1>16, <2>1 DEF Crash
  <2>7. /\ pc' \in [Writers -> {"idle", "plain", "ready", "prepared", "writing",
                                "written", "synced"}]
        /\ job' \in [Writers -> Job \cup {None}]
        /\ row' \in [Writers -> Line \cup {None}]
    BY <1>16 DEF Crash
  <2>8. /\ rpc' \in [Readers -> {"idle", "stat", "loaded", "found"}]
        /\ \A e \in Readers : rpc'[e] = "idle"
        /\ res' \in [Readers -> Outcome \cup {None}]
    BY <1>16 DEF Crash
  <2>9. /\ crashes' \in Nat
        /\ UNCHANGED <<index, want, seen, again, failures, losses>>
    BY <1>16 DEF Crash, TypeOK
  <2> QED
    BY <2>3, <2>4, <2>5, <2>6, <2>7, <2>8, <2>9 DEF TypeOK
<1>17. CASE LoseIndex
  BY <1>17, NoIndexType DEF LoseIndex, TypeOK, writer, reader
<1>18. CASE UNCHANGED vars
  BY <1>18 DEF vars, disk, writer, reader, faults, TypeOK
<1> QED
  BY <1>1, <1>2, <1>3, <1>4, <1>5, <1>6, <1>7, <1>8, <1>9, <1>10, <1>11, <1>12,
     <1>13, <1>14, <1>15, <1>16, <1>17, <1>18 DEF Next, WriterStep, ReaderStep


\* The lock discipline: two writers never hold the append lock, and nobody but
\* the holder touches the file between its write and its publication.
LEMMA WritersPreserved == IInv /\ [Next]_vars => WritersOK'
<1> SUFFICES ASSUME IInv, [Next]_vars PROVE WritersOK'
  OBVIOUS
<1> USE DEF IInv
<1>0. TypeOK'
  BY TypePreserved
<1>1. ASSUME NEW w \in Writers, BeginInitial(w) PROVE WritersOK'
  <2>1. /\ pc[w] = "idle" /\ pc' = [pc EXCEPT ![w] = "plain"]
        /\ UNCHANGED <<ledger, synced, lock, row>>
        /\ \A v \in Writers \ {w} : job'[v] = job[v]
    BY <1>1 DEF BeginInitial, disk, TypeOK
  <2>2. job'[w] \in Job
    <3>1. PICK r \in Responses, refs \in Manifest :
            job' = [job EXCEPT ![w] =
              [rid |-> r, seq |-> 1, parent |-> 0, refs |-> refs, expect |-> 0]]
      BY <1>1 DEF BeginInitial
    <3>2. [rid |-> r, seq |-> 1, parent |-> 0, refs |-> refs, expect |-> 0] \in Job
      BY DEF Job
    <3> QED
      BY <3>1, <3>2 DEF TypeOK
  <2> QED
    BY <2>1, <2>2 DEF WritersOK, Holding, TypeOK
<1>2. ASSUME NEW w \in Writers, BeginSuccessor(w) PROVE WritersOK'
  <2>1. /\ pc[w] = "idle" /\ pc'[w] \in {"plain", "ready"}
        /\ UNCHANGED <<ledger, synced, lock, row>>
        /\ \A v \in Writers \ {w} : job'[v] = job[v] /\ pc'[v] = pc[v]
    BY <1>2 DEF BeginSuccessor, disk, TypeOK
  <2>2. PICK r \in Responses, refs \in Manifest, cas \in BOOLEAN :
          \E base \in (held[r] \cup {LatestSeq(r)}) \ {0} :
            job' = [job EXCEPT ![w] =
                 [rid |-> r, seq |-> base + 1, parent |-> base, refs |-> refs,
                  expect |-> IF cas THEN base ELSE 0]]
    BY <1>2 DEF BeginSuccessor
  <2>3. PICK base \in (held[r] \cup {LatestSeq(r)}) \ {0} :
            job' = [job EXCEPT ![w] =
                 [rid |-> r, seq |-> base + 1, parent |-> base, refs |-> refs,
                  expect |-> IF cas THEN base ELSE 0]]
    BY <2>2
  <2>4. base \in Nat
    BY LatestFacts DEF TypeOK
  <2>5. [rid |-> r, seq |-> base + 1, parent |-> base, refs |-> refs,
         expect |-> IF cas THEN base ELSE 0] \in Job
    BY <2>4 DEF Job
  <2>6. job'[w] \in Job
    BY <2>3, <2>5 DEF TypeOK
  <2> QED
    BY <2>1, <2>6 DEF WritersOK, Holding, TypeOK
<1>3. ASSUME NEW w \in Writers, EnrichUnlocked(w) PROVE WritersOK'
  <2>1. job[w] \in Job
    BY <1>3 DEF EnrichUnlocked, WritersOK
  <2>2. Enrich(job[w], PriorSeq(job[w].rid, index)) \in Job
    <3>1. job[w].rid \in Responses
      BY <2>1 DEF Job
    <3> QED
      BY <2>1, <3>1, PriorSeqType, EnrichType DEF TypeOK
  <2>3. /\ pc[w] = "plain" /\ pc' = [pc EXCEPT ![w] = "ready"]
        /\ UNCHANGED <<ledger, synced, lock, row>>
        /\ \A v \in Writers \ {w} : job'[v] = job[v]
        /\ job'[w] = Enrich(job[w], PriorSeq(job[w].rid, index))
    BY <1>3 DEF EnrichUnlocked, disk, TypeOK
  <2> QED
    BY <2>2, <2>3 DEF WritersOK, Holding, TypeOK
<1>4. ASSUME NEW w \in Writers, Prepare(w) PROVE WritersOK'
  <2>1. job[w] \in Job
    BY <1>4 DEF Prepare, WritersOK
  <2>2. /\ pc[w] = "ready" /\ lock = None /\ lock' = w
        /\ pc' = [pc EXCEPT ![w] = "prepared"]
        /\ UNCHANGED <<ledger, synced, job>>
        /\ \A v \in Writers \ {w} : row'[v] = row[v]
    BY <1>4 DEF Prepare, disk, TypeOK
  <2>3. \A v \in Writers : pc[v] \notin Holding
    BY <2>2, NoneAssumption DEF WritersOK
  <2>4. row'[w] \in Line
    <3> DEFINE j == Enrich(job[w], PriorSeq(job[w].rid, index))
               parent == ParentRow(j.rid, index)
               line == [rid |-> j.rid, seq |-> j.seq, parent |-> j.parent,
                        refs |-> j.refs, delta |-> Delta(parent.man, j.refs),
                        expect |-> j.expect, glued |-> torn]
    <3>1. j \in Job
      <4>1. job[w].rid \in Responses
        BY <2>1 DEF Job
      <4> QED
        BY <2>1, <4>1, PriorSeqType, EnrichType DEF TypeOK
    <3>2. parent.man \in Manifest
      <4> HIDE DEF j
      <4>1. j.rid \in Responses
        BY <3>1 DEF Job
      <4> QED
        BY <4>1, ParentRowType DEF TypeOK
    <3>3. line \in Line
      <4> HIDE DEF j, parent
      <4>1. Delta(parent.man, j.refs) \in Manifest
        BY <3>1, <3>2, ManifestTypes DEF Job
      <4> QED
        BY <3>1, <4>1 DEF Line, Job, TypeOK
    <3>4. row'[w] = line
      BY <1>4 DEF Prepare, TypeOK
    <3> QED
      BY <3>3, <3>4
  <2> QED
    BY <2>1, <2>2, <2>3, <2>4 DEF WritersOK, Holding, TypeOK
<1>5. ASSUME NEW w \in Writers, Refuse(w) PROVE WritersOK'
  <2>1. /\ pc[w] = "ready" /\ lock = None /\ lock' = None
        /\ pc' = [pc EXCEPT ![w] = "idle"]
        /\ UNCHANGED <<ledger, synced>>
        /\ \A v \in Writers \ {w} : job'[v] = job[v] /\ row'[v] = row[v]
    BY <1>5 DEF Refuse, Leave, disk, TypeOK
  <2> QED
    BY <2>1, NoneAssumption DEF WritersOK, Holding, TypeOK
<1>6. ASSUME NEW w \in Writers, StartWrite(w) PROVE WritersOK'
  BY <1>6 DEF StartWrite, WritersOK, Holding, TypeOK
<1>7. ASSUME NEW w \in Writers, FinishWrite(w) PROVE WritersOK'
  <2>1. /\ pc[w] = "writing" /\ lock = w /\ row[w] \in Line
        /\ pc' = [pc EXCEPT ![w] = "written"]
        /\ UNCHANGED <<synced, lock, job, row>>
        /\ ledger' = Append(ledger, row[w])
    BY <1>7 DEF FinishWrite, WritersOK, Holding
  <2>2. ledger' # <<>> /\ ledger'[Len(ledger')] = row[w]
    <3>1. ledger \in Seq(Line) /\ row[w] \in Line
      BY <2>1 DEF TypeOK
    <3>2. /\ Len(Append(ledger, row[w])) = Len(ledger) + 1
          /\ Append(ledger, row[w])[Len(ledger) + 1] = row[w]
      BY <3>1
    <3> QED
      BY <2>1, <3>1, <3>2
  <2>3. \A v \in Writers \ {w} : pc[v] \notin Holding
    BY <2>1 DEF WritersOK
  <2> QED
    BY <2>1, <2>2, <2>3 DEF WritersOK, Holding, TypeOK
<1>8. ASSUME NEW w \in Writers, Fsync(w) PROVE WritersOK'
  BY <1>8 DEF Fsync, WritersOK, Holding, TypeOK
<1>9. ASSUME NEW w \in Writers, Publish(w) PROVE WritersOK'
  <2>1. /\ lock = w /\ lock' = None
        /\ pc' = [pc EXCEPT ![w] = "idle"]
        /\ UNCHANGED <<ledger, synced>>
        /\ \A v \in Writers \ {w} : job'[v] = job[v] /\ row'[v] = row[v]
    BY <1>9 DEF Publish, Leave, WritersOK, Holding, TypeOK
  <2> QED
    BY <2>1, NoneAssumption DEF WritersOK, Holding, TypeOK
<1>10. ASSUME NEW w \in Writers, Fail(w) PROVE WritersOK'
  <2>1. /\ lock = w /\ lock' = None
        /\ pc' = [pc EXCEPT ![w] = "idle"]
        /\ UNCHANGED <<ledger, synced>>
        /\ \A v \in Writers \ {w} : job'[v] = job[v] /\ row'[v] = row[v]
    BY <1>10 DEF Fail, Leave, WritersOK, Holding, TypeOK, disk
  <2> QED
    BY <2>1, NoneAssumption DEF WritersOK, Holding, TypeOK
<1>11. ASSUME NEW d \in Readers, Ask(d) \/ ReaderStep(d) PROVE WritersOK'
  <2>1. UNCHANGED <<disk, writer>>
    BY <1>11 DEF Ask, ReaderStep, LoadIndex, LookUp, Confirm
  <2> QED
    BY <2>1 DEF disk, writer, WritersOK
<1>12. CASE Attest
  BY <1>12 DEF Attest, writer, WritersOK
<1>13. CASE Crash
  <2>1. lock' = None /\ \A v \in Writers : pc'[v] = "idle"
    BY <1>13 DEF Crash
  <2> QED
    BY <2>1, NoneAssumption DEF WritersOK, Holding
<1>14. CASE LoseIndex
  BY <1>14 DEF LoseIndex, writer, WritersOK
<1>15. CASE UNCHANGED vars
  BY <1>15 DEF vars, disk, writer, WritersOK
<1> QED
  BY <1>1, <1>2, <1>3, <1>4, <1>5, <1>6, <1>7, <1>8, <1>9, <1>10, <1>11, <1>12,
     <1>13, <1>14, <1>15 DEF Next, WriterStep

\* What is on disk never changes: the file is only extended, and a crash takes
\* back nothing that was fsynced.
LEMMA DiskGrows ==
    ASSUME IInv, [Next]_vars
    PROVE  /\ Len(ledger') \in Nat /\ synced \in Nat
           /\ synced <= synced' /\ synced' <= Len(ledger')
           /\ \A k \in 1 .. synced : ledger'[k] = ledger[k]
<1> USE DEF IInv
<1>1. TypeOK'
  BY TypePreserved
<1>2. ledger \in Seq(Line) /\ synced \in 0 .. Len(ledger) /\ Len(ledger) \in Nat
  BY DEF TypeOK
<1>3. Len(ledger') \in Nat /\ synced' \in 0 .. Len(ledger')
  BY <1>1 DEF TypeOK
<1>4. ASSUME NEW w \in Writers, FinishWrite(w)
      PROVE  synced' = synced /\ \A k \in 1 .. synced : ledger'[k] = ledger[k]
  <2>1. row[w] \in Line /\ ledger' = Append(ledger, row[w])
    BY <1>4 DEF FinishWrite, WritersOK, Holding
  <2> QED
    BY <1>2, <1>4, <2>1 DEF FinishWrite
<1>5. ASSUME NEW w \in Writers, Fsync(w)
      PROVE  synced <= synced' /\ ledger' = ledger
  BY <1>2, <1>5 DEF Fsync
<1>6. ASSUME Crash
      PROVE  synced <= synced' /\ \A k \in 1 .. synced : ledger'[k] = ledger[k]
  <2>1. PICK n \in synced .. Len(ledger) : ledger' = SubSeq(ledger, 1, n) /\ synced' = n
    BY <1>6 DEF Crash
  <2> QED
    BY <1>2, <2>1
<1>7. ASSUME NEW w \in Writers,
             \/ BeginInitial(w) \/ BeginSuccessor(w) \/ EnrichUnlocked(w) \/ Prepare(w)
             \/ Refuse(w) \/ StartWrite(w) \/ Publish(w) \/ Fail(w)
      PROVE  UNCHANGED <<ledger, synced>>
  BY <1>7 DEF BeginInitial, BeginSuccessor, EnrichUnlocked, Prepare, Refuse, StartWrite,
              Publish, Fail, disk
<1>8. ASSUME NEW d \in Readers, Ask(d) \/ ReaderStep(d)
      PROVE  UNCHANGED <<ledger, synced>>
  BY <1>8 DEF Ask, ReaderStep, LoadIndex, LookUp, Confirm, disk
<1>9. ASSUME Attest \/ LoseIndex \/ UNCHANGED vars
      PROVE  UNCHANGED <<ledger, synced>>
  BY <1>9 DEF Attest, LoseIndex, vars, disk
<1>10. synced <= synced' /\ \A k \in 1 .. synced : ledger'[k] = ledger[k]
  BY <1>2, <1>4, <1>5, <1>6, <1>7, <1>8, <1>9 DEF Next, WriterStep
<1> QED
  BY <1>2, <1>3, <1>10

\* Only Publish, Attest and LoseIndex write the index.
LEMMA IndexWriters ==
    ASSUME [Next]_vars
    PROVE  \/ index' = index
           \/ \E w \in Writers : Publish(w)
           \/ Attest
           \/ index' = NoIndex
<1>1. ASSUME NEW w \in Writers,
             \/ BeginInitial(w) \/ BeginSuccessor(w) \/ EnrichUnlocked(w) \/ Prepare(w)
             \/ Refuse(w) \/ StartWrite(w) \/ FinishWrite(w) \/ Fsync(w) \/ Fail(w)
      PROVE  index' = index
  BY <1>1 DEF BeginInitial, BeginSuccessor, EnrichUnlocked, Prepare, Refuse, StartWrite,
              FinishWrite, Fsync, Fail, disk
<1>2. ASSUME NEW d \in Readers, Ask(d) \/ ReaderStep(d)
      PROVE  index' = index
  BY <1>2 DEF Ask, ReaderStep, LoadIndex, LookUp, Confirm, disk
<1>3. Crash \/ UNCHANGED vars => index' = index
  BY DEF Crash, vars, disk
<1>4. LoseIndex => index' = NoIndex
  BY DEF LoseIndex
<1> QED
  BY <1>1, <1>2, <1>3, <1>4 DEF Next, WriterStep

\* No step forgets an acknowledged row.
LEMMA AckedGrows ==
    ASSUME [Next]_vars
    PROVE  acked \subseteq acked'
<1>1. ASSUME NEW w \in Writers,
             \/ BeginInitial(w) \/ BeginSuccessor(w) \/ EnrichUnlocked(w) \/ Prepare(w)
             \/ Refuse(w) \/ StartWrite(w) \/ FinishWrite(w) \/ Fsync(w) \/ Publish(w)
             \/ Fail(w)
      PROVE  acked \subseteq acked'
  BY <1>1 DEF BeginInitial, BeginSuccessor, EnrichUnlocked, Prepare, Refuse, StartWrite,
              FinishWrite, Fsync, Publish, Fail
<1>2. ASSUME NEW d \in Readers, Ask(d) \/ ReaderStep(d)
      PROVE  acked' = acked
  BY <1>2 DEF Ask, ReaderStep, LoadIndex, LookUp, Confirm, writer
<1>3. Attest \/ Crash \/ LoseIndex \/ UNCHANGED vars => acked' = acked
  BY DEF Attest, Crash, LoseIndex, vars, writer
<1> QED
  BY <1>1, <1>2, <1>3 DEF Next, WriterStep

\* The published row is the last one, and it is on disk.
LEMMA PublishFacts ==
    ASSUME IInv, NEW w \in Writers, Publish(w)
    PROVE  /\ row[w] \in Line /\ ledger' = ledger /\ synced' = synced
           /\ Len(ledger) \in Nat \ {0} /\ synced = Len(ledger)
           /\ ledger[Len(ledger)] = row[w]
           /\ index' = NextIndex(index, row[w], Len(ledger), man[w])
  BY DEF IInv, TypeOK, WritersOK, Holding, Publish

\* The disk and the index are well typed, before a step and after it.
LEMMA DiskFacts ==
    ASSUME IInv, [Next]_vars
    PROVE  /\ index \in Index /\ index.verified \in Nat /\ index.size \in Nat
           /\ ledger \in Seq(Line) /\ Len(ledger) \in Nat
           /\ synced \in Nat /\ synced' \in Nat /\ synced <= synced'
<1>1. TypeOK
  BY DEF IInv
<1>2. index \in Index /\ ledger \in Seq(Line) /\ synced \in 0 .. Len(ledger)
  BY <1>1 DEF TypeOK
<1>3. index.verified \in Nat /\ index.size \in Nat
  <2> HIDE <1>1
  <2> QED
    BY <1>2 DEF Index
<1>4. Len(ledger) \in Nat /\ synced \in Nat
  BY <1>2
<1>5. Len(ledger') \in Nat /\ synced <= synced'
  BY DiskGrows
<1>6. synced' \in 0 .. Len(ledger')
  <2>1. TypeOK'
    BY TypePreserved
  <2> QED
    BY <2>1 DEF TypeOK
<1>7. synced' \in Nat
  BY <1>5, <1>6
<1> QED
  BY <1>2, <1>3, <1>4, <1>5, <1>7

\* The index never counts rows that are not on disk.
LEMMA BehindPreserved == IInv /\ [Next]_vars => IndexBehindDisk'
<1> SUFFICES ASSUME IInv, [Next]_vars PROVE IndexBehindDisk'
  OBVIOUS
<1>1. index.size \in Nat /\ synced \in Nat /\ synced' \in Nat /\ synced <= synced'
  BY DiskFacts
<1>2. CASE index' = index
  BY <1>1, <1>2 DEF IInv, IndexBehindDisk
<1>3. ASSUME NEW w \in Writers, Publish(w) PROVE IndexBehindDisk'
  <2>1. NextIndex(index, row[w], Len(ledger), man[w]).size = Len(ledger)
    BY DEF NextIndex
  <2>2. index'.size = synced' /\ synced' \in Nat
    BY <1>3, <2>1, PublishFacts
  <2> QED
    BY <2>2 DEF IndexBehindDisk
<1>4. CASE Attest
  <2>1. index'.ok = index.ok /\ index'.size = index.size
    BY <1>4 DEF Attest, IInv, TypeOK, Index
  <2>2. synced' = synced
    BY <1>4 DEF Attest
  <2> QED
    BY <1>1, <2>1, <2>2 DEF IInv, IndexBehindDisk
<1>5. CASE index' = NoIndex
  BY <1>5 DEF NoIndex, IndexBehindDisk
<1> QED
  BY <1>2, <1>3, <1>4, <1>5, IndexWriters

\* A verified index stays the truth about the prefix it covers.
LEMMA ExactPreserved == IInv /\ [Next]_vars => VerifiedIndexIsExact'
<1> SUFFICES ASSUME IInv, [Next]_vars, index'.verified # 0
             PROVE  VerifiedIndexIsExact'
  BY DEF VerifiedIndexIsExact
<1> DEFINE Prefix(ix, led, n) ==
             /\ ix.ok
             /\ n <= synced'
             /\ \A k \in 1 .. n : ~led[k].glued
             /\ \A r \in Responses :
                  \A k \in 1 .. n :
                    led[k].rid = r =>
                        /\ ix.entries[r] # None
                        /\ k <= ix.entries[r].off
                        /\ ix.entries[r].off <= n
                        /\ led[ix.entries[r].off].rid = r
                        /\ led[ix.entries[r].off].seq = ix.entries[r].seq
<1>0. SUFFICES Prefix(index', ledger', index'.verified)
  BY DEF VerifiedIndexIsExact
<1>1. /\ index \in Index /\ index.verified \in Nat /\ index.size \in Nat
      /\ ledger \in Seq(Line) /\ Len(ledger) \in Nat /\ synced \in Nat /\ synced' \in Nat
      /\ synced <= synced'
      /\ \A k \in 1 .. synced : ledger'[k] = ledger[k]
  BY DiskFacts, DiskGrows
<1>2. ASSUME NEW r \in Responses, index.entries[r] # None
      PROVE  index.entries[r].off \in Nat
  BY <1>1, <1>2, EntryOrNone DEF Entry
<1>3. CASE index' = index
  <2>1. /\ index.verified <= synced /\ index.ok
        /\ \A k \in 1 .. index.verified : ledger'[k] = ledger[k]
    BY <1>1, <1>3 DEF IInv, VerifiedIndexIsExact
  <2>2. ASSUME NEW r \in Responses, NEW k \in 1 .. index.verified, ledger'[k].rid = r
        PROVE  /\ index.entries[r] # None
               /\ k <= index.entries[r].off
               /\ index.entries[r].off <= index.verified
               /\ ledger'[index.entries[r].off].rid = r
               /\ ledger'[index.entries[r].off].seq = index.entries[r].seq
    <3>1. ledger[k].rid = r
      BY <2>1, <2>2
    <3>2. /\ index.entries[r] # None
          /\ k <= index.entries[r].off
          /\ index.entries[r].off <= index.verified
          /\ ledger[index.entries[r].off].rid = r
          /\ ledger[index.entries[r].off].seq = index.entries[r].seq
      BY <1>3, <3>1 DEF IInv, VerifiedIndexIsExact
    <3>3. index.entries[r].off \in 1 .. index.verified
      BY <1>1, <1>2, <3>2
    <3> QED
      BY <2>1, <3>2, <3>3
  <2>3. \A k \in 1 .. index.verified : ~ledger'[k].glued
    BY <1>3, <2>1 DEF IInv, VerifiedIndexIsExact
  <2>4. index.verified <= synced'
    BY <1>1, <2>1
  <2> QED
    BY <1>3, <2>1, <2>2, <2>3, <2>4
<1>4. ASSUME NEW w \in Writers, Publish(w) PROVE Prefix(index', ledger', index'.verified)
  <2> DEFINE n == Len(ledger)
             line == row[w]
             e == [seq |-> line.seq, off |-> n, man |-> man[w]]
  <2>1. /\ line \in Line /\ ledger' = ledger /\ synced' = n /\ n \in Nat \ {0}
        /\ ledger[n] = line
        /\ index' = NextIndex(index, line, n, man[w])
    BY <1>4, PublishFacts
  <2>2. e \in Entry /\ e # None
    <3>1. man[w] \in Manifest
      BY <1>4 DEF IInv, TypeOK
    <3>2. e \in Entry
      BY <2>1, <3>1 DEF Entry, Line
    <3> QED
      BY <3>2, NoEntryAssumption
  <2>3. line.rid \in Responses /\ line.glued \in BOOLEAN
    BY <2>1 DEF Line
  <2>4. index'.ok /\ index'.verified = n /\ ~line.glued
    BY <2>1 DEF NextIndex
  <2>5. CASE n = 1
    <3>1. ~line.glued /\ n = 1 =>
            NextIndex(index, line, n, man[w]).entries
              = [NoIndex.entries EXCEPT ![line.rid] = e]
      BY DEF NextIndex
    <3> HIDE DEF n, line, e
    <3>2. index'.entries = [NoIndex.entries EXCEPT ![line.rid] = e]
      BY <2>1, <2>4, <2>5, <3>1
    <3>3. NoIndex.entries \in [Responses -> {None}]
      BY DEF NoIndex
    <3>4. index'.entries[line.rid] = e
      BY <2>3, <3>2, <3>3
    <3>5. e.off = n /\ e.seq = line.seq
      BY DEF e
    <3>6. ASSUME NEW r \in Responses, NEW k \in 1 .. n, ledger'[k].rid = r
          PROVE  /\ index'.entries[r] # None
                 /\ k <= index'.entries[r].off
                 /\ index'.entries[r].off <= n
                 /\ ledger'[index'.entries[r].off].rid = r
                 /\ ledger'[index'.entries[r].off].seq = index'.entries[r].seq
      <4>1. k = n
        BY <2>5, <3>6
      <4>2. r = line.rid
        BY <2>1, <3>6, <4>1
      <4> QED
        BY <2>1, <2>2, <3>4, <3>5, <4>1, <4>2
    <3>7. \A k \in 1 .. n : ~ledger'[k].glued
      BY <2>1, <2>4, <2>5
    <3>8. n <= synced'
      BY <2>1
    <3> QED
      BY <2>4, <3>6, <3>7, <3>8
  <2>6. CASE n # 1
    <3>1. /\ index.ok /\ index.verified = n - 1 /\ index.verified # 0
          /\ index'.entries = [index.entries EXCEPT ![line.rid] = e]
      BY <2>1, <2>4, <2>6 DEF NextIndex
    <3>2. index.entries \in [Responses -> Entry \cup {None}]
      BY <1>1 DEF Index
    <3>3. ASSUME NEW r \in Responses, NEW k \in 1 .. n, ledger[k].rid = r
          PROVE  /\ index'.entries[r] # None
                 /\ k <= index'.entries[r].off
                 /\ index'.entries[r].off <= n
                 /\ ledger[index'.entries[r].off].rid = r
                 /\ ledger[index'.entries[r].off].seq = index'.entries[r].seq
      <4>1. CASE r = line.rid
        <5>1. index'.entries[r] = e
          BY <3>1, <3>2, <4>1
        <5> QED
          BY <2>1, <2>2, <4>1, <5>1
      <4>2. CASE r # line.rid
        <5>1. index'.entries[r] = index.entries[r]
          BY <3>1, <3>2, <4>2
        <5>2. k \in 1 .. index.verified
          BY <2>1, <3>1, <3>3, <4>2
        <5>3. /\ index.entries[r] # None
              /\ k <= index.entries[r].off
              /\ index.entries[r].off <= index.verified
              /\ ledger[index.entries[r].off].rid = r
              /\ ledger[index.entries[r].off].seq = index.entries[r].seq
          BY <3>1, <3>3, <5>2 DEF IInv, VerifiedIndexIsExact
        <5>4. index.entries[r].off <= n
          BY <1>2, <2>1, <3>1, <5>3
        <5> QED
          BY <5>1, <5>3, <5>4
      <4> QED
        BY <4>1, <4>2
    <3>4. \A k \in 1 .. n : ~ledger[k].glued
      <4>1. \A k \in 1 .. (n - 1) : ~ledger[k].glued
        BY <3>1 DEF IInv, VerifiedIndexIsExact
      <4> QED
        BY <2>1, <2>4, <4>1
    <3>5. n <= synced'
      BY <2>1
    <3> HIDE DEF n, line, e
    <3> QED
      BY <2>1, <2>4, <3>3, <3>4, <3>5
  <2> QED
    BY <2>5, <2>6
<1>5. CASE Attest
  <2>1. CASE ~Attestable(index)
    BY <1>3, <1>5, <2>1 DEF Attest
  <2>2. CASE Attestable(index)
    <3>1. /\ index' = [index EXCEPT !.verified = Len(ledger)]
          /\ ledger' = ledger /\ synced' = synced
      BY <1>5, <2>2 DEF Attest
    <3>2. index'.ok /\ index'.verified = Len(ledger) /\ index'.entries = index.entries
      BY <1>1, <2>2, <3>1 DEF Attestable, Index
    <3>3. Len(ledger) <= synced'
      BY <2>2, <3>1 DEF Attestable, IInv, IndexBehindDisk
    <3>4. \A k \in 1 .. Len(ledger) : ~ledger[k].glued
      BY <1>1, <2>2 DEF Attestable, Malformed
    <3>5. ASSUME NEW r \in Responses, NEW k \in 1 .. Len(ledger), ledger[k].rid = r
          PROVE  /\ index.entries[r] # None
                 /\ k <= index.entries[r].off
                 /\ index.entries[r].off <= Len(ledger)
                 /\ ledger[index.entries[r].off].rid = r
                 /\ ledger[index.entries[r].off].seq = index.entries[r].seq
      <4>1. k \in Lines(r)
        BY <1>1, <3>4, <3>5 DEF Lines
      <4>2. /\ index.entries[r] # None
            /\ index.entries[r].off = LatestLine(r)
            /\ index.entries[r].seq = LatestSeq(r)
        BY <2>2, <4>1 DEF Attestable, CoordinatesMatch
      <4>3. /\ LatestLine(r) \in Lines(r) /\ k <= LatestLine(r)
            /\ LatestSeq(r) = ledger[LatestLine(r)].seq
            /\ Lines(r) \subseteq 1 .. Len(ledger)
        BY <1>1, <4>1, LatestFacts
      <4>4. ledger[LatestLine(r)].rid = r /\ LatestLine(r) <= Len(ledger)
        BY <1>1, <4>3 DEF Lines
      <4> QED
        BY <4>2, <4>3, <4>4
    <3> QED
      BY <3>1, <3>2, <3>3, <3>4, <3>5
  <2> QED
    BY <2>1, <2>2
<1>6. CASE index' = NoIndex
  BY <1>6 DEF NoIndex
<1> QED
  BY <1>3, <1>4, <1>5, <1>6, IndexWriters

-----------------------------------------------------------------------------
(* What lookups answer, where an append leaves no part of itself behind:    *)
(* crashes take back whole rows, and appends fail before or after a row.    *)

\* No append is cut off between its first and its last byte: either such a stop
\* does not happen, or nothing that could stop an append there does.
NothingTears == TornWrites => MaxCrashes = 0 /\ MaxFailures = 0

\* Unfinished bytes are those of the writer, so no row is ever glued.
Whole ==
    /\ torn => \E w \in Writers : pc[w] = "writing"
    /\ \A k \in DOMAIN ledger : ~ledger[k].glued
    /\ \A w \in Writers : pc[w] \in Holding => ~row[w].glued

\* What a reader has loaded is exact about a prefix of the file, although the
\* file may have grown and the index moved on since.
ExactCopy(ix) ==
    ix.verified # 0 =>
        /\ ix.verified <= Len(ledger)
        /\ \A r \in Responses : \A k \in 1 .. ix.verified : ledger[k].rid = r =>
             /\ ix.entries[r] # None /\ k <= ix.entries[r].off
             /\ ix.entries[r].off \in 1 .. ix.verified
             /\ ledger[ix.entries[r].off].rid = r
             /\ ledger[ix.entries[r].off].seq = ix.entries[r].seq

Answered(d) == res[d] # None /\ res[d].kind \in {"found", "missing"}
NoneNewer(r, n, at) == \A k \in 1 .. n : ledger[k].rid = r => k <= at

LookupOK(d) ==
    /\ rpc[d] # "idle" \/ Answered(d) => seen[d][1] <= Len(ledger)
    /\ rpc[d] = "loaded" => ExactCopy(copy[d])
    /\ Answered(d) => NoneNewer(want[d], seen[d][1], res[d].at)
LookupsOK == \A d \in Readers : LookupOK(d)

LEMMA WholeInitially == Init => Whole /\ LookupsOK
BY DEF Init, Whole, LookupsOK, LookupOK, Answered, Holding

\* The parts of the state that the steps below are about.
LEMMA StateFacts ==
    ASSUME IInv
    PROVE  /\ ledger \in Seq(Line) /\ Len(ledger) \in Nat /\ DOMAIN ledger = 1 .. Len(ledger)
           /\ pc \in [Writers -> {"idle", "plain", "ready", "prepared", "writing",
                                 "written", "synced"}]
           /\ row \in [Writers -> Line \cup {None}]
           /\ rpc \in [Readers -> {"idle", "stat", "loaded", "found"}]
           /\ want \in [Readers -> Responses \cup {None}]
           /\ seen \in [Readers -> Nat \X BOOLEAN]
           /\ copy \in [Readers -> Index] /\ index \in Index
           /\ res \in [Readers -> Outcome \cup {None}]
           /\ \A d \in Readers : rpc[d] # "idle" => want[d] \in Responses
           /\ \A w \in Writers : (pc[w] \in Holding <=> lock = w)
                                 /\ (pc[w] \in Holding => row[w] \in Line)
BY DEF IInv, TypeOK, WritersOK

LEMMA WholePreserved ==
    ASSUME NothingTears, IInv, Whole, [Next]_vars
    PROVE  Whole'
<1>0. /\ ledger \in Seq(Line) /\ Len(ledger) \in Nat /\ DOMAIN ledger = 1 .. Len(ledger)
      /\ pc \in [Writers -> {"idle", "plain", "ready", "prepared", "writing",
                            "written", "synced"}]
      /\ row \in [Writers -> Line \cup {None}]
      /\ \A w \in Writers : (pc[w] \in Holding <=> lock = w)
                            /\ (pc[w] \in Holding => row[w] \in Line)
  BY StateFacts
<1>10. /\ Crash => ~TornWrites
      /\ \A w \in Writers : Fail(w) => ~TornWrites
  <2>1. crashes \in Nat /\ failures \in Nat
    BY DEF IInv, TypeOK
  <2>2. TornWrites => ~(crashes < MaxCrashes) /\ ~(failures < MaxFailures)
    BY <2>1 DEF NothingTears
  <2>3. Crash => crashes < MaxCrashes
    BY DEF Crash
  <2>4. \A w \in Writers : Fail(w) => failures < MaxFailures
    BY DEF Fail
  <2> QED
    BY <2>2, <2>3, <2>4
<1>1. ASSUME NEW w \in Writers, BeginInitial(w) \/ BeginSuccessor(w) \/ EnrichUnlocked(w)
      PROVE  Whole'
  <2>1. /\ pc[w] \in {"idle", "plain"} /\ pc'[w] \in {"plain", "ready"}
        /\ \A v \in Writers : v # w => pc'[v] = pc[v]
        /\ UNCHANGED <<ledger, torn, row>>
    BY <1>0, <1>1 DEF BeginInitial, BeginSuccessor, EnrichUnlocked, disk
  <2> QED
    BY <2>1 DEF Whole, Holding
<1>2. ASSUME NEW w \in Writers, Prepare(w) PROVE Whole'
  <2>1. /\ lock = None /\ pc[w] = "ready" /\ pc' = [pc EXCEPT ![w] = "prepared"]
        /\ UNCHANGED <<ledger, torn>>
    BY <1>2 DEF Prepare, disk
  <2>2. row'[w].glued = torn /\ \A v \in Writers : v # w => row'[v] = row[v]
    BY <1>0, <1>2 DEF Prepare
  <2>3. ~torn
    BY <1>0, <2>1, NoneAssumption DEF Whole, Holding
  <2>4. \A v \in Writers : pc'[v] \in Holding => v = w
    BY <1>0, <2>1, NoneAssumption
  <2> QED
    BY <1>0, <2>1, <2>2, <2>3, <2>4 DEF Whole
<1>3. ASSUME NEW w \in Writers, Refuse(w) \/ Publish(w) \/ Fail(w) PROVE Whole'
  <2>1. /\ pc[w] # "writing" /\ pc' = [pc EXCEPT ![w] = "idle"]
        /\ row' = [row EXCEPT ![w] = None] /\ UNCHANGED <<ledger, torn>>
    BY <1>10, <1>3 DEF Refuse, Publish, Fail, Leave, disk
  <2> QED
    BY <1>0, <2>1 DEF Whole, Holding
<1>4. ASSUME NEW w \in Writers, StartWrite(w) PROVE Whole'
  BY <1>0, <1>4 DEF StartWrite, Whole, Holding
<1>5. ASSUME NEW w \in Writers, FinishWrite(w) PROVE Whole'
  <2>1. /\ ledger' = Append(ledger, row[w]) /\ row[w] \in Line /\ ~row[w].glued
        /\ ~torn' /\ row' = row /\ pc[w] = "writing" /\ pc' = [pc EXCEPT ![w] = "written"]
    BY <1>0, <1>5 DEF FinishWrite, Whole, Holding
  <2>2. \A k \in DOMAIN ledger' : ~ledger'[k].glued
    BY <1>0, <2>1 DEF Whole
  <2> QED
    BY <1>0, <2>1, <2>2 DEF Whole, Holding
<1>6. ASSUME NEW w \in Writers, Fsync(w) PROVE Whole'
  BY <1>0, <1>6 DEF Fsync, Whole, Holding
<1>7. ASSUME NEW d \in Readers, Ask(d) \/ ReaderStep(d) PROVE Whole'
  BY <1>7 DEF Ask, ReaderStep, LoadIndex, LookUp, Confirm, disk, writer, Whole
<1>8. CASE Attest \/ LoseIndex \/ UNCHANGED vars
  BY <1>8 DEF Attest, LoseIndex, vars, disk, writer, Whole
<1>9. CASE Crash
  <2>1. PICK n \in synced .. Len(ledger) :
          ledger' = SubSeq(ledger, 1, n)
          /\ torn' \in {FALSE} \cup (IF TornWrites /\ (torn \/ n < Len(ledger))
                                     THEN {TRUE} ELSE {})
    BY <1>9 DEF Crash
  <2>2. \A w \in Writers : pc'[w] = "idle"
    BY <1>9 DEF Crash
  <2>3. synced \in Nat
    BY DEF IInv, TypeOK
  <2>4. \A k \in DOMAIN ledger' : ledger'[k] = ledger[k] /\ k \in DOMAIN ledger
    BY <1>0, <2>1, <2>3
  <2> QED
    BY <1>10, <1>9, <2>1, <2>2, <2>4 DEF Whole, Holding
<1> QED
  BY <1>1, <1>2, <1>3, <1>4, <1>5, <1>6, <1>7, <1>8, <1>9 DEF Next, WriterStep

\* Without a crash the file only grows.
LEMMA FileGrows ==
    ASSUME IInv, [Next]_vars, ~Crash
    PROVE  /\ Len(ledger) <= Len(ledger') /\ Len(ledger') \in Nat
           /\ \A k \in 1 .. Len(ledger) : ledger'[k] = ledger[k]
<1>0. ledger \in Seq(Line) /\ Len(ledger) \in Nat
  BY StateFacts
<1>1. CASE ledger' = ledger
  BY <1>0, <1>1
<1>2. ASSUME NEW w \in Writers, FinishWrite(w)
      PROVE  /\ Len(ledger) <= Len(ledger') /\ Len(ledger') \in Nat
             /\ \A k \in 1 .. Len(ledger) : ledger'[k] = ledger[k]
  <2>1. row[w] \in Line /\ ledger' = Append(ledger, row[w])
    BY <1>2, StateFacts DEF FinishWrite, Holding
  <2> QED
    BY <1>0, <2>1
<1>3. ASSUME NEW w \in Writers,
             \/ BeginInitial(w) \/ BeginSuccessor(w) \/ EnrichUnlocked(w) \/ Prepare(w)
             \/ Refuse(w) \/ StartWrite(w) \/ Fsync(w) \/ Publish(w) \/ Fail(w)
      PROVE  ledger' = ledger
  BY <1>3 DEF BeginInitial, BeginSuccessor, EnrichUnlocked, Prepare, Refuse, StartWrite,
              Fsync, Publish, Fail, disk
<1>4. ASSUME NEW d \in Readers, Ask(d) \/ ReaderStep(d) PROVE ledger' = ledger
  BY <1>4 DEF Ask, ReaderStep, LoadIndex, LookUp, Confirm, disk
<1>5. Attest \/ LoseIndex \/ UNCHANGED vars => ledger' = ledger
  BY DEF Attest, LoseIndex, vars, disk
<1> QED
  BY <1>1, <1>2, <1>3, <1>4, <1>5 DEF Next, WriterStep

\* What was exact about a prefix, and newer than nothing in it, stays so.
LEMMA GrowthKeeps ==
    ASSUME IInv, Len(ledger) <= Len(ledger'), Len(ledger') \in Nat,
           \A k \in 1 .. Len(ledger) : ledger'[k] = ledger[k]
    PROVE  /\ \A ix \in Index : ExactCopy(ix) /\ ix.verified # 0 =>
                   /\ ix.verified <= Len(ledger')
                   /\ \A r \in Responses : \A k \in 1 .. ix.verified : ledger'[k].rid = r =>
                        /\ ix.entries[r] # None /\ k <= ix.entries[r].off
                        /\ ix.entries[r].off \in 1 .. ix.verified
                        /\ ledger'[ix.entries[r].off].rid = r
                        /\ ledger'[ix.entries[r].off].seq = ix.entries[r].seq
           /\ \A r, at : \A n \in Nat : n <= Len(ledger) /\ NoneNewer(r, n, at) =>
                \A k \in 1 .. n : ledger'[k].rid = r => k <= at
<1>0. ledger \in Seq(Line) /\ Len(ledger) \in Nat
  BY StateFacts
<1>1. ASSUME NEW ix \in Index, ExactCopy(ix), ix.verified # 0
      PROVE  /\ ix.verified <= Len(ledger')
             /\ \A r \in Responses : \A k \in 1 .. ix.verified : ledger'[k].rid = r =>
                  /\ ix.entries[r] # None /\ k <= ix.entries[r].off
                  /\ ix.entries[r].off \in 1 .. ix.verified
                  /\ ledger'[ix.entries[r].off].rid = r
                  /\ ledger'[ix.entries[r].off].seq = ix.entries[r].seq
  <2>1. ix.verified \in Nat /\ ix.verified <= Len(ledger)
    BY <1>1 DEF Index, ExactCopy
  <2>2. \A k \in 1 .. ix.verified : ledger'[k] = ledger[k]
    BY <1>0, <2>1
  <2> QED
    BY <1>0, <1>1, <2>1, <2>2 DEF ExactCopy
<1>2. ASSUME NEW r, NEW at, NEW n \in Nat, n <= Len(ledger), NoneNewer(r, n, at)
      PROVE  \A k \in 1 .. n : ledger'[k].rid = r => k <= at
  BY <1>0, <1>2 DEF NoneNewer
<1> QED
  BY <1>1, <1>2

\* An index that is exact about the whole file answers as a scan would; an
\* older copy sends the lookup to the scan.
LEMMA LookIsCurrent ==
    ASSUME IInv, Whole, NEW r \in Responses, NEW ix \in Index, ExactCopy(ix),
           NEW n \in Nat, n <= Len(ledger), Look(r, ix).kind \in {"found", "missing"}
    PROVE  NoneNewer(r, n, Look(r, ix).at)
<1>0. ledger \in Seq(Line) /\ Len(ledger) \in Nat /\ DOMAIN ledger = 1 .. Len(ledger)
  BY StateFacts
<1>1. Lines(r) = {k \in 1 .. Len(ledger) : ledger[k].rid = r}
  BY <1>0 DEF Lines, Whole
<1>2. SUFFICES ASSUME NEW k \in 1 .. n, ledger[k].rid = r PROVE k <= Look(r, ix).at
  BY DEF NoneNewer
<1>3. k \in Lines(r) /\ k \in Nat
  BY <1>0, <1>1, <1>2
<1>4. LatestLine(r) \in Lines(r) /\ k <= LatestLine(r) /\ LatestLine(r) # 0
  BY <1>0, <1>1, <1>3, LatestFacts
<1> DEFINE i == IF Verified(ix) THEN IndexedRow(r, ix) ELSE 0
<1>5. CASE Verified(ix)
  <2>1. ix.verified = Len(ledger) /\ ix.verified # 0
    BY <1>5 DEF Verified
  <2>2. /\ ix.entries[r] # None /\ k <= ix.entries[r].off
        /\ ix.entries[r].off \in 1 .. Len(ledger)
        /\ ledger[ix.entries[r].off].rid = r
        /\ ledger[ix.entries[r].off].seq = ix.entries[r].seq
    BY <1>0, <1>2, <2>1 DEF ExactCopy
  <2>3. i = ix.entries[r].off /\ i # 0
    BY <1>0, <1>5, <2>2 DEF IndexedRow
  <2>4. Look(r, ix).at = i
    BY <2>3 DEF Look, Answer
  <2> QED
    BY <2>2, <2>3, <2>4
<1>6. CASE ~Verified(ix)
  <2>1. Look(r, ix).at = LatestLine(r)
    BY <1>4, <1>6 DEF Look, Answer
  <2> QED
    BY <1>4, <2>1
<1> QED
  BY <1>5, <1>6

\* A reader's step, and what all other steps and a crash leave of a lookup.
LEMMA LookupsPreserved ==
    ASSUME NothingTears, IInv, Whole, LookupsOK, [Next]_vars
    PROVE  LookupsOK'
<1> SUFFICES ASSUME NEW e \in Readers PROVE LookupOK(e)'
  BY DEF LookupsOK
<1>0. /\ rpc \in [Readers -> {"idle", "stat", "loaded", "found"}]
      /\ want \in [Readers -> Responses \cup {None}]
      /\ seen \in [Readers -> Nat \X BOOLEAN]
      /\ copy \in [Readers -> Index] /\ index \in Index
      /\ res \in [Readers -> Outcome \cup {None}]
      /\ rpc[e] # "idle" => want[e] \in Responses
      /\ ledger \in Seq(Line) /\ Len(ledger) \in Nat
  BY StateFacts
<1>1. LookupOK(e)
  BY DEF LookupsOK
<1>2. seen[e][1] \in Nat
  BY <1>0
<1>3. CASE Crash
  <2>1. rpc'[e] = "idle" /\ res'[e] = None
    BY <1>3 DEF Crash
  <2> QED
    BY <2>1 DEF LookupOK, Answered
<1>4. ASSUME ~Crash, UNCHANGED <<rpc[e], want[e], seen[e], copy[e], res[e]>>
      PROVE  LookupOK(e)'
  <2>1. /\ Len(ledger) <= Len(ledger') /\ Len(ledger') \in Nat
        /\ \A k \in 1 .. Len(ledger) : ledger'[k] = ledger[k]
    BY <1>4, FileGrows
  <2>2. rpc[e] = "loaded" => ExactCopy(copy[e])'
    BY <1>0, <1>1, <1>4, <2>1, GrowthKeeps DEF LookupOK, ExactCopy
  <2>3. Answered(e) => NoneNewer(want[e], seen[e][1], res[e].at)'
    BY <1>0, <1>1, <1>2, <1>4, <2>1, GrowthKeeps DEF LookupOK, NoneNewer
  <2>4. rpc[e] # "idle" \/ Answered(e) => seen[e][1] <= Len(ledger')
    BY <1>0, <1>1, <1>2, <2>1 DEF LookupOK
  <2> QED
    BY <1>4, <2>2, <2>3, <2>4 DEF LookupOK, Answered
<1>5. CASE Ask(e)
  <2>1. /\ res'[e] = None /\ rpc'[e] = "stat" /\ seen'[e] = FileState
        /\ ledger' = ledger
    BY <1>0, <1>5 DEF Ask, disk
  <2> QED
    BY <1>0, <2>1 DEF LookupOK, Answered, FileState
<1>6. CASE LoadIndex(e)
  <2>1. /\ rpc[e] = "stat" /\ rpc'[e] = "loaded" /\ copy'[e] = index
        /\ UNCHANGED <<ledger, want, seen, res>>
    BY <1>0, <1>6 DEF LoadIndex, disk
  <2>2. ExactCopy(index)
    <3>1. ASSUME index.verified # 0 PROVE index.verified <= Len(ledger)
      BY <1>0, <3>1 DEF IInv, VerifiedIndexIsExact, TypeOK, Index
    <3>2. ASSUME index.verified # 0, NEW r \in Responses, NEW k \in 1 .. index.verified,
                 ledger[k].rid = r
          PROVE  /\ index.entries[r] # None /\ k <= index.entries[r].off
                 /\ index.entries[r].off \in 1 .. index.verified
                 /\ ledger[index.entries[r].off].rid = r
                 /\ ledger[index.entries[r].off].seq = index.entries[r].seq
      <4>1. /\ index.entries[r] # None /\ k <= index.entries[r].off
            /\ index.entries[r].off <= index.verified
            /\ ledger[index.entries[r].off].rid = r
            /\ ledger[index.entries[r].off].seq = index.entries[r].seq
        BY <3>2 DEF IInv, VerifiedIndexIsExact
      <4>2. index.entries[r].off \in Nat
        BY <1>0, <4>1, EntryOrNone DEF Entry
      <4>3. index.verified \in Nat
        BY <1>0 DEF Index
      <4> QED
        BY <4>1, <4>2, <4>3
    <3> QED
      BY <3>1, <3>2 DEF ExactCopy
  <2>3. ExactCopy(copy[e])'
    BY <2>1, <2>2 DEF ExactCopy
  <2> QED
    BY <1>1, <2>1, <2>3 DEF LookupOK, Answered, NoneNewer
<1>7. CASE LookUp(e)
  <2> DEFINE a == Look(want[e], copy[e])
  <2>1. /\ rpc[e] = "loaded" /\ res'[e] = a /\ rpc'[e] \in {"found", "idle"}
        /\ UNCHANGED <<ledger, want, seen>>
    BY <1>0, <1>7 DEF LookUp, disk
  <2>2. seen[e][1] <= Len(ledger) /\ ExactCopy(copy[e]) /\ want[e] \in Responses
    BY <1>0, <1>1, <2>1 DEF LookupOK
  <2>3. a.kind \in {"found", "missing"} => NoneNewer(want[e], seen[e][1], a.at)
    BY <1>0, <1>2, <2>2, LookIsCurrent
  <2> HIDE DEF a
  <2> QED
    BY <2>1, <2>2, <2>3 DEF LookupOK, Answered, NoneNewer
<1>8. CASE Confirm(e)
  <2>1. /\ rpc[e] = "found" /\ ledger' = ledger /\ want' = want
        /\ \/ seen' = seen /\ res' = res /\ rpc'[e] = "idle"
           \/ seen'[e] = FileState /\ res'[e] = None /\ rpc'[e] = "stat"
           \/ res'[e].kind = "moved" /\ seen' = seen /\ rpc'[e] = "idle"
    BY <1>0, <1>8 DEF Confirm, disk, Answer
  <2> QED
    BY <1>0, <1>1, <2>1 DEF LookupOK, Answered, NoneNewer, FileState
<1>9. ASSUME NEW d \in Readers, d # e, Ask(d) \/ ReaderStep(d)
      PROVE  LookupOK(e)'
  <2>1. UNCHANGED <<rpc[e], want[e], seen[e], copy[e], res[e]>>
    BY <1>0, <1>9 DEF Ask, ReaderStep, LoadIndex, LookUp, Confirm
  <2> QED
    BY <1>3, <1>4, <2>1
<1>10. ASSUME NEW w \in Writers,
             \/ BeginInitial(w) \/ BeginSuccessor(w) \/ WriterStep(w) \/ Fail(w)
      PROVE  LookupOK(e)'
  <2>1. UNCHANGED <<rpc, want, seen, copy, res>>
    BY <1>10 DEF BeginInitial, BeginSuccessor, WriterStep, EnrichUnlocked, Prepare, Refuse,
                 StartWrite, FinishWrite, Fsync, Publish, Fail, reader
  <2> QED
    BY <1>3, <1>4, <2>1
<1>11. CASE Attest \/ LoseIndex \/ UNCHANGED vars
  <2>1. UNCHANGED <<rpc, want, seen, copy, res>>
    BY <1>11 DEF Attest, LoseIndex, vars, reader
  <2> QED
    BY <1>3, <1>4, <2>1
<1> QED
  BY <1>3, <1>5, <1>6, <1>7, <1>8, <1>9, <1>10, <1>11 DEF Next, ReaderStep

-----------------------------------------------------------------------------
(* The theorems.                                                            *)

LEMMA Invariance == Spec => []IInv
<1>1. IInv /\ [Next]_vars => IInv'
  BY TypePreserved, WritersPreserved, BehindPreserved, ExactPreserved DEF IInv
<1> QED
  BY InvariantInitially, <1>1, PTL DEF Spec

\* Every reachable state of the ledger, its index, its writers and its readers
\* is well typed, however many of each there are.
THEOREM TypeCorrect == Spec => []TypeOK
BY Invariance, PTL DEF IInv

\* The 404 of a verified index is never wrong and its entries are the latest
\* rows of the prefix it covers: whatever crashes, torn writes, failed appends,
\* lost indexes and attestations came before.
THEOREM VerifiedIndexExact == Spec => []VerifiedIndexIsExact
BY Invariance, PTL DEF IInv

\* A row whose append returned to the finalizer is still there, unchanged, in
\* every later state: persist_response_frame keeps its promise across crashes.
THEOREM AckedRowsDurable == Spec => DurableRowsNeverChange
<1> DEFINE Step == /\ acked \subseteq acked'
                   /\ \A k \in acked' : k <= Len(ledger')
                   /\ \A k \in acked : ledger'[k] = ledger[k]
<1>1. ASSUME IInv, [Next]_vars PROVE Step
  <2>1. acked \subseteq 1 .. synced /\ acked' \subseteq 1 .. synced'
    BY <1>1, TypePreserved DEF IInv, TypeOK
  <2>2. acked \subseteq acked'
    BY <1>1, AckedGrows
  <2>3. /\ \A k \in acked' : k <= Len(ledger')
        /\ \A k \in acked : ledger'[k] = ledger[k]
    BY <1>1, <2>1, DiskGrows, TypePreserved DEF IInv, TypeOK
  <2> QED
    BY <2>2, <2>3
<1>2. IInv /\ [Next]_vars => [Step]_vars
  BY <1>1
<1> HIDE DEF Step
<1>3. Spec => [][Step]_vars
  BY Invariance, <1>2, PTL DEF Spec
<1> QED
  BY <1>3 DEF DurableRowsNeverChange, Step

\* load_latest_response_state never answers with an older frame than one that
\* was complete when it looked at the file, and never with a 404 for such a
\* frame, as long as no append leaves a part of itself behind: whatever
\* crashes, failed appends, lost indexes and attestations come in between.
THEOREM AnswersAreCurrent == NothingTears => (Spec => []ReadsAreCurrent)
<1> SUFFICES ASSUME NothingTears PROVE Spec => []ReadsAreCurrent
  OBVIOUS
<1>1. Init => Whole /\ LookupsOK
  BY WholeInitially
<1>2. IInv /\ Whole /\ LookupsOK /\ [Next]_vars => (Whole /\ LookupsOK)'
  BY WholePreserved, LookupsPreserved
<1>3. LookupsOK => ReadsAreCurrent
  BY DEF LookupsOK, LookupOK, Answered, NoneNewer, ReadsAreCurrent
<1> QED
  BY <1>1, <1>2, <1>3, Invariance, PTL DEF Spec
=============================================================================
