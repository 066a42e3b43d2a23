--------------------------- MODULE FrameChainProofs ---------------------------
(***************************************************************************)
(* What concurrent appends guarantee, for any number of threads, responses *)
(* and rows: the frames of a response form one chain, a compare-and-swap   *)
(* only follows its expected parent, and the ledger implements             *)
(* FrameLineage.  All of this survives crashes, although a crash between   *)
(* the write of a row and the publication of its index leaves an index     *)
(* that knows an older frame of the response, or none at all.  As long as  *)
(* nothing crashes a compare-and-swap is refused only when it was late.    *)
(***************************************************************************)
EXTENDS FrameLedgerProofs

\* Crashes are all that happens: no append raises an exception or is cut off
\* between its bytes, and the index is not lost.
CrashesOnly == NothingTears /\ MaxFailures = 0 /\ MaxIndexLosses = 0

\* The process does not crash either.
NoFaults == MaxCrashes = 0 /\ MaxFailures = 0 /\ MaxIndexLosses = 0

(* An entry is there only for a row that is on disk, and agrees with it.   *)
IndexRows ==
    /\ ~index.ok => index = NoIndex
    /\ \A r \in Responses :
        LET e == index.entries[r]
        IN  e # None => /\ e.off \in 1 .. synced
                        /\ ledger[e.off].rid = r /\ ledger[e.off].seq = e.seq

(* The entry names the latest row of the response, or is about to.         *)
IsFresh(r) == index.entries[r] # None /\ index.entries[r].off = LatestLine(r)
Publishing(r) == \E w \in Writers : pc[w] \in {"written", "synced"} /\ row[w].rid = r

(* An append that gets no answer from the index is right as it is.         *)
Fits(j, r) ==
    /\ j.seq = LatestSeq(r) + 1 /\ j.parent = LatestSeq(r)
    /\ j.expect \in {0, LatestSeq(r)}

(* Where the index is stale, nobody carries an older frame of the response *)
(* that the index could fail to correct: the crash that made it stale has  *)
(* ended every thread and every live payload.                              *)
StaleFits ==
    \A r \in Responses :
        ~IsFresh(r) /\ ~Publishing(r) =>
            /\ held[r] = {}
            /\ \A w \in Writers :
                 pc[w] \in {"plain", "ready"} /\ job[w].rid = r => Fits(job[w], r)

(* The prepared row continues the chain, and its compare-and-swap is       *)
(* still decided rightly, because its writer holds the lock.               *)
RowsFit ==
    \A w \in Writers :
        /\ pc[w] \in Holding => row[w].rid = job[w].rid
        /\ pc[w] \in {"prepared", "writing"} =>
             \A r \in Responses : row[w].rid = r =>
                /\ row[w].seq = Cardinality(Lines(r)) + 1
                /\ row[w].parent = row[w].seq - 1
                /\ row[w].expect # 0 => Lines(r) # {} /\ LatestSeq(r) = row[w].expect

ChainInv ==
    /\ IndexRows /\ StaleFits /\ RowsFit
    /\ FramesFormOneChain /\ CasParentWasCurrent

-----------------------------------------------------------------------------
(* Rows. *)

LEMMA SomeRows ==
  ASSUME ledger \in Seq(Line), NEW r, NEW S, S \subseteq Lines(r)
  PROVE  IsFiniteSet(S) /\ Cardinality(S) \in Nat
<1>1. IsFiniteSet(1 .. Len(ledger)) /\ S \subseteq 1 .. Len(ledger)
  BY LatestFacts, FS_Interval
<1> QED
  BY <1>1, FS_Subset, FS_CardinalityType

\* In a chain the last frame counts the frames of its response.
LEMMA LatestCounts ==
  ASSUME ledger \in Seq(Line), FramesFormOneChain, NEW r \in Responses
  PROVE  LatestSeq(r) = Cardinality(Lines(r))
<1>1. CASE Lines(r) = {}
  BY <1>1, FS_EmptySet DEF LatestSeq
<1>2. CASE Lines(r) # {}
  <2>1. /\ LatestLine(r) \in Lines(r) /\ LatestSeq(r) = ledger[LatestLine(r)].seq
        /\ \A j \in Lines(r) : j <= LatestLine(r)
    BY <1>2, LatestFacts
  <2>2. {j \in Lines(r) : j <= LatestLine(r)} = Lines(r)
    BY <2>1
  <2> QED
    BY <2>1, <2>2 DEF FramesFormOneChain
<1> QED
  BY <1>1, <1>2

\* An entry names a row of its response, so there is a latest one.
LEMMA EntryRow ==
  ASSUME IInv, Whole, IndexRows, NEW r \in Responses, index.entries[r] # None
  PROVE  /\ index.ok /\ index.entries[r].off \in Lines(r)
         /\ index.entries[r].off \in DOMAIN ledger
         /\ ledger[index.entries[r].off].rid = r
         /\ ledger[index.entries[r].off].seq = index.entries[r].seq
         /\ LatestLine(r) \in Lines(r) /\ index.entries[r].off <= LatestLine(r)
         /\ LatestSeq(r) = ledger[LatestLine(r)].seq
<1>1. /\ ledger \in Seq(Line) /\ Len(ledger) \in Nat /\ DOMAIN ledger = 1 .. Len(ledger)
      /\ synced \in 0 .. Len(ledger)
  BY DEF IInv, TypeOK
<1>2. index.ok
  BY DEF IndexRows, NoIndex
<1>3. /\ index.entries[r].off \in 1 .. synced /\ ledger[index.entries[r].off].rid = r
      /\ ledger[index.entries[r].off].seq = index.entries[r].seq
  BY DEF IndexRows
<1>4. index.entries[r].off \in DOMAIN ledger
  BY <1>1, <1>3
<1>5. index.entries[r].off \in Lines(r)
  BY <1>3, <1>4 DEF Lines, Whole
<1>6. /\ LatestLine(r) \in Lines(r) /\ index.entries[r].off <= LatestLine(r)
      /\ LatestSeq(r) = ledger[LatestLine(r)].seq
  BY <1>1, <1>5, LatestFacts
<1> QED
  BY <1>2, <1>3, <1>4, <1>5, <1>6

\* A fresh entry tells an append what a scan would.
LEMMA FreshTells ==
  ASSUME IInv, Whole, IndexRows, NEW r \in Responses, IsFresh(r)
  PROVE  /\ Lines(r) # {} /\ PriorSeq(r, index) = LatestSeq(r)
         /\ ParentRow(r, index).at = LatestLine(r)
<1> DEFINE e == index.entries[r]
<1>1. /\ index.ok /\ e # None /\ e.off = LatestLine(r) /\ e.off \in DOMAIN ledger
      /\ ledger[e.off].rid = r /\ ledger[e.off].seq = e.seq
      /\ LatestLine(r) \in Lines(r) /\ LatestSeq(r) = ledger[LatestLine(r)].seq
  BY EntryRow DEF IsFresh
<1> HIDE DEF e
<1>2. IndexedRow(r, index) = e.off
  BY <1>1 DEF IndexedRow, e
<1>3. PriorSeq(r, index) = LatestSeq(r)
  BY <1>1 DEF PriorSeq, e
<1>4. ParentRow(r, index).at = LatestLine(r)
  BY <1>1, <1>2 DEF ParentRow
<1> QED
  BY <1>1, <1>3, <1>4

\* A stale entry is overruled by the scan, and a missing one leaves the frame alone.
LEMMA StalePrior ==
  ASSUME IInv, Whole, IndexRows, NEW r \in Responses, ~IsFresh(r)
  PROVE  PriorSeq(r, index) \in {0, LatestSeq(r)}
<1>1. ASSUME Verified(index), index.entries[r] # None PROVE FALSE
  <2>1. /\ index.entries[r].off <= LatestLine(r) /\ LatestLine(r) \in Lines(r)
        /\ index.entries[r].off \in Lines(r)
    BY <1>1, EntryRow
  <2>2. LatestLine(r) \in 1 .. Len(ledger) /\ index.entries[r].off \in 1 .. Len(ledger)
    BY <2>1, LatestFacts DEF IInv, TypeOK
  <2>3. index.verified # 0 /\ index.verified = Len(ledger)
    BY <1>1 DEF Verified
  <2>4. LatestLine(r) <= index.entries[r].off
    BY <2>1, <2>2, <2>3 DEF IInv, VerifiedIndexIsExact, Lines
  <2>5. index.entries[r].off = LatestLine(r)
    BY <2>1, <2>2, <2>4
  <2> QED
    BY <1>1, <2>5 DEF IsFresh
<1>2. ~index.ok => ~Verified(index)
  BY DEF Verified
<1> QED
  BY <1>1, <1>2 DEF PriorSeq

LEMMA AppendedLines ==
  ASSUME ledger \in Seq(Line), NEW line \in Line, ~line.glued, ledger' = Append(ledger, line)
  PROVE  /\ Len(ledger') = Len(ledger) + 1 /\ Len(ledger) \in Nat
         /\ DOMAIN ledger = 1 .. Len(ledger) /\ DOMAIN ledger' = 1 .. (Len(ledger) + 1)
         /\ \A k \in 1 .. Len(ledger) : ledger'[k] = ledger[k]
         /\ ledger'[Len(ledger) + 1] = line
         /\ \A r : /\ Lines(r) \subseteq 1 .. Len(ledger)
                   /\ Lines(r)' = IF r = line.rid THEN Lines(r) \cup {Len(ledger) + 1} ELSE Lines(r)
<1>1. /\ Len(ledger') = Len(ledger) + 1 /\ Len(ledger) \in Nat
      /\ DOMAIN ledger = 1 .. Len(ledger) /\ DOMAIN ledger' = 1 .. (Len(ledger) + 1)
      /\ \A k \in 1 .. Len(ledger) : ledger'[k] = ledger[k]
      /\ ledger'[Len(ledger) + 1] = line
  OBVIOUS
<1>2. ASSUME NEW r
      PROVE  Lines(r)' = IF r = line.rid THEN Lines(r) \cup {Len(ledger) + 1} ELSE Lines(r)
  BY <1>1 DEF Lines
<1> QED
  BY <1>1, <1>2 DEF Lines

\* A row that continues the chain of its response keeps all chains.
LEMMA AppendChains ==
  ASSUME ledger \in Seq(Line), FramesFormOneChain,
         NEW line \in Line, ~line.glued, ledger' = Append(ledger, line),
         line.seq = Cardinality(Lines(line.rid)) + 1, line.parent = line.seq - 1
  PROVE  FramesFormOneChain'
<1> DEFINE n == Len(ledger)
<1>1. SUFFICES ASSUME NEW r \in Responses, NEW k \in Lines(r)'
               PROVE  /\ ledger'[k].seq = Cardinality({j \in Lines(r)' : j <= k})
                      /\ ledger'[k].parent = ledger'[k].seq - 1
  BY DEF FramesFormOneChain
<1>2. CASE k \in Lines(r)
  <2>1. k \in 1 .. n /\ ledger'[k] = ledger[k]
    BY <1>2, AppendedLines
  <2>2. {j \in Lines(r)' : j <= k} = {j \in Lines(r) : j <= k}
    BY <2>1, AppendedLines
  <2> QED
    BY <1>2, <2>1, <2>2 DEF FramesFormOneChain
<1>3. CASE k \notin Lines(r)
  <2>1. /\ r = line.rid /\ k = n + 1 /\ ledger'[k] = line
        /\ Lines(r)' = Lines(r) \cup {k} /\ Lines(r) \subseteq 1 .. n /\ n \in Nat
    BY <1>1, <1>3, AppendedLines
  <2>2. {j \in Lines(r)' : j <= k} = Lines(r) \cup {k}
    BY <2>1
  <2>3. Cardinality(Lines(r) \cup {k}) = Cardinality(Lines(r)) + 1
    BY <1>3, SomeRows, FS_AddElement
  <2> QED
    BY <2>1, <2>2, <2>3
<1> QED
  BY <1>2, <1>3

\* The rows a compare-and-swap row could follow.
Before(led, k) == {j \in DOMAIN led : led[j].rid = led[k].rid /\ ~led[j].glued /\ j < k}

\* A row that keeps everything before it keeps its predecessor.
LEMMA EarlierSwaps ==
  ASSUME ledger \in Seq(Line), CasParentWasCurrent, DOMAIN ledger' \subseteq Nat \ {0},
         NEW k \in DOMAIN ledger, ledger[k].expect # 0,
         \A i \in 1 .. k : i \in DOMAIN ledger' /\ ledger'[i] = ledger[i]
  PROVE  /\ Before(ledger', k) # {}
         /\ ledger'[Greatest(Before(ledger', k))].seq = ledger'[k].expect
<1>1. Before(ledger, k) = {j \in Lines(ledger[k].rid) : j < k}
  BY DEF Lines, Before
<1>2. /\ {j \in Lines(ledger[k].rid) : j < k} # {}
      /\ ledger[Greatest({j \in Lines(ledger[k].rid) : j < k})].seq = ledger[k].expect
  BY DEF CasParentWasCurrent
<1>3. Before(ledger, k) # {} /\ ledger[Greatest(Before(ledger, k))].seq = ledger[k].expect
  BY <1>1, <1>2
<1>4. k \in 1 .. Len(ledger) /\ Len(ledger) \in Nat /\ DOMAIN ledger = 1 .. Len(ledger)
  OBVIOUS
<1>5. Before(ledger', k) = Before(ledger, k)
  <2>1. \A j : j \in DOMAIN ledger' /\ j < k => j \in 1 .. k
    BY <1>4
  <2>2. \A j : j \in DOMAIN ledger /\ j < k => j \in 1 .. k
    BY <1>4
  <2>3. k \in 1 .. k
    BY <1>4
  <2> QED
    BY <1>4, <2>1, <2>2, <2>3 DEF Before
<1>6. Before(ledger, k) \in SUBSET (0 .. k)
  BY <1>4 DEF Before
<1>7. Greatest(Before(ledger, k)) \in Before(ledger, k)
  <2>1. k \in Nat
    BY <1>4
  <2> QED
    BY <1>3, <1>6, <2>1, GreatestIsMaximum
<1>8. Greatest(Before(ledger, k)) \in 1 .. k /\ k \in 1 .. k
  BY <1>4, <1>7 DEF Before
<1> QED
  BY <1>3, <1>5, <1>8

LEMMA SwapsRestated ==
  ASSUME \A k \in DOMAIN ledger' : ledger'[k].expect # 0 =>
            /\ Before(ledger', k) # {}
            /\ ledger'[Greatest(Before(ledger', k))].seq = ledger'[k].expect
  PROVE  CasParentWasCurrent'
<1>1. ASSUME NEW k \in DOMAIN ledger'
      PROVE  Before(ledger', k) = {j \in {i \in DOMAIN ledger' :
                               ledger'[i].rid = ledger'[k].rid /\ ~ledger'[i].glued} : j < k}
  BY DEF Before
<1> QED
  BY <1>1 DEF CasParentWasCurrent, Lines

\* A compare-and-swap row whose expected parent is the latest frame keeps all
\* earlier decisions right.
LEMMA AppendSwaps ==
  ASSUME ledger \in Seq(Line), CasParentWasCurrent,
         NEW line \in Line, ~line.glued, ledger' = Append(ledger, line),
         line.expect # 0 => Lines(line.rid) # {} /\ LatestSeq(line.rid) = line.expect
  PROVE  CasParentWasCurrent'
<1> DEFINE n == Len(ledger)
<1>1. SUFFICES ASSUME NEW k \in DOMAIN ledger', ledger'[k].expect # 0
               PROVE  /\ Before(ledger', k) # {}
                      /\ ledger'[Greatest(Before(ledger', k))].seq = ledger'[k].expect
  BY SwapsRestated
<1>2. /\ n \in Nat /\ DOMAIN ledger = 1 .. n /\ DOMAIN ledger' = 1 .. (n + 1)
      /\ \A i \in 1 .. n : ledger'[i] = ledger[i]
      /\ ledger'[n + 1] = line
  BY AppendedLines
<1>3. CASE k \in DOMAIN ledger
  <2>1. ledger[k].expect # 0 /\ DOMAIN ledger' \subseteq Nat \ {0}
    BY <1>1, <1>2, <1>3
  <2>2. \A i \in 1 .. k : i \in DOMAIN ledger' /\ ledger'[i] = ledger[i]
    BY <1>2, <1>3
  <2> QED
    BY <1>3, <2>1, <2>2, EarlierSwaps
<1>4. CASE k \notin DOMAIN ledger
  <2>1. k = n + 1 /\ ledger'[k] = line
    BY <1>2, <1>4
  <2>2. Before(ledger', k) = Lines(line.rid)
    <3>1. Before(ledger', k) = {j \in 1 .. n : ledger[j].rid = line.rid /\ ~ledger[j].glued}
      BY <1>2, <2>1 DEF Before
    <3> QED
      BY <1>2, <3>1 DEF Lines
  <2>3. Lines(line.rid) # {} /\ LatestSeq(line.rid) = line.expect
    BY <1>1, <2>1
  <2>4. Greatest(Lines(line.rid)) = LatestLine(line.rid)
    BY <2>3 DEF LatestLine
  <2>5. /\ LatestLine(line.rid) \in 1 .. n
        /\ LatestSeq(line.rid) = ledger[LatestLine(line.rid)].seq
    BY <2>3, LatestFacts
  <2>6. ledger'[LatestLine(line.rid)] = ledger[LatestLine(line.rid)]
    BY <1>2, <2>5
  <2> QED
    BY <2>1, <2>2, <2>3, <2>4, <2>5, <2>6
<1> QED
  BY <1>3, <1>4

\* What a crash leaves of the file is a prefix, and a prefix of a chain is one.
LEMMA PrefixKeeps ==
  ASSUME ledger \in Seq(Line), FramesFormOneChain, CasParentWasCurrent,
         NEW n \in 0 .. Len(ledger), ledger' = SubSeq(ledger, 1, n)
  PROVE  /\ Len(ledger') = n /\ \A k \in 1 .. n : ledger'[k] = ledger[k]
         /\ \A r : Lines(r)' = {k \in Lines(r) : k <= n}
         /\ FramesFormOneChain' /\ CasParentWasCurrent'
<1>1. Len(ledger) \in Nat /\ DOMAIN ledger = 1 .. Len(ledger) /\ n \in Nat
  OBVIOUS
<1>2. /\ Len(ledger') = n /\ DOMAIN ledger' = 1 .. n
      /\ \A k \in 1 .. n : ledger'[k] = ledger[k] /\ k \in DOMAIN ledger
  BY <1>1
<1>3. \A r : Lines(r)' = {k \in Lines(r) : k <= n}
  BY <1>1, <1>2 DEF Lines
<1>4. FramesFormOneChain'
  <2>1. SUFFICES ASSUME NEW r \in Responses, NEW k \in Lines(r)'
                 PROVE  /\ ledger'[k].seq = Cardinality({j \in Lines(r)' : j <= k})
                        /\ ledger'[k].parent = ledger'[k].seq - 1
    BY DEF FramesFormOneChain
  <2>2. k \in Lines(r) /\ k <= n /\ k \in 1 .. n
    BY <1>1, <1>3, <2>1 DEF Lines
  <2>3. {j \in Lines(r)' : j <= k} = {j \in Lines(r) : j <= k}
    <3>1. Lines(r) \subseteq Nat
      BY <1>1 DEF Lines
    <3> QED
      BY <1>1, <1>3, <2>2, <3>1
  <2> QED
    BY <1>2, <2>2, <2>3 DEF FramesFormOneChain
<1>5. CasParentWasCurrent'
  <2>1. SUFFICES ASSUME NEW k \in DOMAIN ledger', ledger'[k].expect # 0
                 PROVE  /\ Before(ledger', k) # {}
                        /\ ledger'[Greatest(Before(ledger', k))].seq = ledger'[k].expect
    BY SwapsRestated
  <2>2. k \in DOMAIN ledger /\ ledger[k].expect # 0 /\ DOMAIN ledger' \subseteq Nat \ {0}
    BY <1>1, <1>2, <2>1
  <2>3. \A i \in 1 .. k : i \in DOMAIN ledger' /\ ledger'[i] = ledger[i]
    BY <1>1, <1>2, <2>1
  <2> QED
    BY <2>2, <2>3, EarlierSwaps
<1> QED
  BY <1>2, <1>3, <1>4, <1>5

-----------------------------------------------------------------------------
(* Steps. *)

LEMMA SameRows ==
  ASSUME ledger' = ledger
  PROVE  /\ \A r : /\ Lines(r)' = Lines(r) /\ LatestLine(r)' = LatestLine(r)
                   /\ LatestSeq(r)' = LatestSeq(r)
         /\ FramesFormOneChain => FramesFormOneChain'
         /\ CasParentWasCurrent => CasParentWasCurrent'
<1>1. \A r : Lines(r)' = Lines(r)
  BY DEF Lines
<1>2. ASSUME NEW r PROVE LatestLine(r)' = LatestLine(r) /\ LatestSeq(r)' = LatestSeq(r)
  BY <1>1 DEF LatestSeq, LatestLine
<1>3. FramesFormOneChain => FramesFormOneChain'
  BY <1>1 DEF FramesFormOneChain
<1>4. CasParentWasCurrent => CasParentWasCurrent'
  BY DEF CasParentWasCurrent, Lines
<1> QED
  BY <1>1, <1>2, <1>3, <1>4

\* The facts of the ledger's own invariant that the steps need.
LEMMA LedgerFacts ==
  ASSUME IInv
  PROVE  /\ ledger \in Seq(Line) /\ Len(ledger) \in Nat /\ DOMAIN ledger = 1 .. Len(ledger)
         /\ index \in Index /\ torn \in BOOLEAN
         /\ pc \in [Writers -> {"idle", "plain", "ready", "prepared", "writing",
                               "written", "synced"}]
         /\ job \in [Writers -> Job \cup {None}] /\ row \in [Writers -> Line \cup {None}]
         /\ held \in [Responses -> SUBSET Nat]
         /\ crashes \in Nat /\ failures \in Nat /\ losses \in Nat
         /\ \A w \in Writers : /\ pc[w] # "idle" => job[w] \in Job /\ job[w].rid \in Responses
                               /\ pc[w] \in Holding => row[w] \in Line /\ row[w].rid \in Responses
                               /\ pc[w] \in Holding <=> lock = w
<1>1. TypeOK /\ WritersOK
  BY DEF IInv
<1>2. \A j \in Job : j.rid \in Responses
  BY DEF Job
<1>3. \A l \in Line : l.rid \in Responses
  BY DEF Line
<1> QED
  BY <1>1, <1>2, <1>3 DEF TypeOK, WritersOK

LEMMA FreeLock ==
  ASSUME IInv, Whole, lock = None
  PROVE  ~torn /\ \A r : ~Publishing(r)
<1>1. \A w \in Writers : pc[w] \notin Holding
  BY LedgerFacts, NoneAssumption
<1> QED
  BY <1>1 DEF Whole, Publishing, Holding

\* A step that touches neither the rows nor the entries keeps what they say, if
\* the frames it begins or changes fit where the index is stale.
LEMMA QuietKeeps ==
  ASSUME IInv, ChainInv, ledger' = ledger, held' = held,
         synced' = synced \/ synced' = Len(ledger),
         index' = index \/ (index.ok /\ index'.ok /\ index'.entries = index.entries),
         \A w \in Writers :
            /\ pc'[w] \in {"written", "synced"} <=> pc[w] \in {"written", "synced"}
            /\ pc[w] \in {"written", "synced"} => row'[w] = row[w]
            /\ pc'[w] \in {"plain", "ready"} =>
                 \/ pc[w] \in {"plain", "ready"} /\ job'[w] = job[w]
                 \/ \A r \in Responses : ~IsFresh(r) /\ ~Publishing(r) /\ job'[w].rid = r
                                           => Fits(job'[w], r),
         RowsFit'
  PROVE  ChainInv'
<1>1. /\ \A r : /\ Lines(r)' = Lines(r) /\ LatestLine(r)' = LatestLine(r)
                /\ LatestSeq(r)' = LatestSeq(r)
      /\ FramesFormOneChain' /\ CasParentWasCurrent'
  BY SameRows DEF ChainInv
<1>2. synced \in Nat /\ synced' \in Nat /\ synced <= synced'
  BY DEF IInv, TypeOK
<1>3. index'.entries = index.entries
  OBVIOUS
<1>4. IndexRows'
  BY <1>2, <1>3 DEF ChainInv, IndexRows
<1>5. \A r : IsFresh(r)' = IsFresh(r) /\ Publishing(r)' = Publishing(r)
  <2>1. \A r : IsFresh(r)' = IsFresh(r)
    BY <1>1, <1>3 DEF IsFresh
  <2>2. \A r : Publishing(r)' <=> Publishing(r)
    BY DEF Publishing
  <2> QED
    BY <2>1, <2>2 DEF Publishing
<1>6. StaleFits'
  <2> SUFFICES ASSUME NEW r \in Responses, ~IsFresh(r), ~Publishing(r)
               PROVE  /\ held[r] = {}
                      /\ \A w \in Writers : pc'[w] \in {"plain", "ready"} /\ job'[w].rid = r
                                              => Fits(job'[w], r)
    BY <1>1, <1>5 DEF StaleFits, Fits
  <2>1. /\ held[r] = {}
        /\ \A w \in Writers : pc[w] \in {"plain", "ready"} /\ job[w].rid = r => Fits(job[w], r)
    BY DEF ChainInv, StaleFits
  <2>2. ASSUME NEW w \in Writers, pc'[w] \in {"plain", "ready"}, job'[w].rid = r
        PROVE  Fits(job'[w], r)
    BY <2>1, <2>2
  <2> QED
    BY <2>1, <2>2
<1> QED
  BY <1>1, <1>4, <1>6 DEF ChainInv

\* A writer that neither holds nor takes the lock leaves the prepared rows alone.
LEMMA OtherRowsFit ==
  ASSUME ChainInv, ledger' = ledger, row' = row,
         \A w \in Writers : pc'[w] \in Holding => pc'[w] = pc[w] /\ job'[w] = job[w]
  PROVE  RowsFit'
<1>1. \A r : Lines(r)' = Lines(r) /\ LatestSeq(r)' = LatestSeq(r)
  BY SameRows
<1>2. \A w \in Writers : pc'[w] \in {"prepared", "writing"} => pc'[w] \in Holding
  BY DEF Holding
<1> QED
  BY <1>1, <1>2 DEF ChainInv, RowsFit

\* A new frame starts at the latest one, unless a live payload carries an older
\* one, and then the index is fresh.
LEMMA BeginKeeps ==
  ASSUME IInv, Whole, ChainInv, NEW w \in Writers, BeginInitial(w) \/ BeginSuccessor(w)
  PROVE  ChainInv'
<1>1. /\ UNCHANGED <<ledger, index, synced, row, held>>
      /\ pc[w] = "idle" /\ \A v \in Writers \ {w} : pc'[v] = pc[v] /\ job'[v] = job[v]
      /\ pc'[w] \in {"plain", "ready"}
  BY LedgerFacts DEF BeginInitial, BeginSuccessor, disk
<1>2. ASSUME NEW r \in Responses, ~IsFresh(r), ~Publishing(r), job'[w].rid = r
      PROVE  Fits(job'[w], r)
  <2>1. CASE BeginInitial(w)
    <3>1. PICK q \in Responses, refs \in Manifest :
             /\ \A k \in DOMAIN ledger : ledger[k].rid # q
             /\ job' = [job EXCEPT ![w] =
                  [rid |-> q, seq |-> 1, parent |-> 0, refs |-> refs, expect |-> 0]]
      BY <2>1 DEF BeginInitial
    <3>2. job'[w] = [rid |-> q, seq |-> 1, parent |-> 0, refs |-> refs, expect |-> 0]
      BY <3>1, LedgerFacts
    <3>3. Lines(r) = {}
      BY <1>2, <3>1, <3>2 DEF Lines
    <3> QED
      BY <3>2, <3>3 DEF Fits, LatestSeq
  <2>2. CASE BeginSuccessor(w)
    <3>1. PICK q \in Responses, refs \in Manifest, cas \in BOOLEAN :
          \E base \in (held[q] \cup {LatestSeq(q)}) \ {0} :
            job' = [job EXCEPT ![w] =
                 [rid |-> q, seq |-> base + 1, parent |-> base, refs |-> refs,
                  expect |-> IF cas THEN base ELSE 0]]
      BY <2>2 DEF BeginSuccessor
    <3>2. PICK base \in (held[q] \cup {LatestSeq(q)}) \ {0} :
            job' = [job EXCEPT ![w] =
                 [rid |-> q, seq |-> base + 1, parent |-> base, refs |-> refs,
                  expect |-> IF cas THEN base ELSE 0]]
      BY <3>1
    <3>3. job'[w] = [rid |-> q, seq |-> base + 1, parent |-> base, refs |-> refs,
                     expect |-> IF cas THEN base ELSE 0]
      BY <3>2, LedgerFacts
    <3>4. r = q /\ held[r] = {}
      BY <1>2, <3>3 DEF ChainInv, StaleFits
    <3>5. base = LatestSeq(r)
      BY <3>4
    <3> QED
      BY <3>3, <3>4, <3>5 DEF Fits
  <2> QED
    BY <2>1, <2>2
<1>3. RowsFit'
  BY <1>1, OtherRowsFit DEF Holding
<1>4. \A v \in Writers :
         /\ pc'[v] \in {"written", "synced"} <=> pc[v] \in {"written", "synced"}
         /\ pc[v] \in {"written", "synced"} => row'[v] = row[v]
         /\ pc'[v] \in {"plain", "ready"} =>
              \/ pc[v] \in {"plain", "ready"} /\ job'[v] = job[v]
              \/ \A r \in Responses : ~IsFresh(r) /\ ~Publishing(r) /\ job'[v].rid = r
                                        => Fits(job'[v], r)
  BY <1>1, <1>2
<1> QED
  BY <1>1, <1>3, <1>4, QuietKeeps

\* What enrichment makes of a frame that fits fits as well.
LEMMA EnrichFits ==
  ASSUME NEW j \in Job, NEW r, NEW prior \in {0, LatestSeq(r)}, Fits(j, r)
  PROVE  Fits(Enrich(j, prior), r)
<1>1. CASE prior = 0
  BY <1>1 DEF Enrich
<1>2. CASE prior # 0
  <2>1. Enrich(j, prior) = [j EXCEPT !.seq = LatestSeq(r) + 1, !.parent = LatestSeq(r)]
    BY <1>2 DEF Enrich
  <2> QED
    BY <2>1 DEF Fits, Job
<1> QED
  BY <1>1, <1>2

LEMMA EnrichKeeps ==
  ASSUME IInv, Whole, ChainInv, NEW w \in Writers, EnrichUnlocked(w)
  PROVE  ChainInv'
<1> DEFINE j == Enrich(job[w], PriorSeq(job[w].rid, index))
<1>1. /\ UNCHANGED <<ledger, index, synced, row, held>>
      /\ pc[w] = "plain" /\ \A v \in Writers \ {w} : pc'[v] = pc[v] /\ job'[v] = job[v]
      /\ pc'[w] = "ready" /\ job'[w] = j
  BY LedgerFacts DEF EnrichUnlocked, disk
<1>2. job[w] \in Job /\ job[w].rid \in Responses /\ j.rid = job[w].rid
  <2>1. job[w] \in Job /\ job[w].rid \in Responses
    BY <1>1, LedgerFacts
  <2> QED
    BY <2>1, LedgerFacts, PriorSeqType, EnrichType
<1>3. ASSUME NEW r \in Responses, ~IsFresh(r), ~Publishing(r), j.rid = r PROVE Fits(j, r)
  <2>1. job[w].rid = r
    BY <1>2, <1>3
  <2>2. Fits(job[w], r) /\ PriorSeq(r, index) \in {0, LatestSeq(r)}
    BY <1>1, <1>3, <2>1, StalePrior DEF ChainInv, StaleFits
  <2> QED
    BY <1>2, <2>1, <2>2, EnrichFits
<1> HIDE DEF j
<1>4. RowsFit'
  BY <1>1, OtherRowsFit DEF Holding
<1>5. \A v \in Writers :
         /\ pc'[v] \in {"written", "synced"} <=> pc[v] \in {"written", "synced"}
         /\ pc[v] \in {"written", "synced"} => row'[v] = row[v]
         /\ pc'[v] \in {"plain", "ready"} =>
              \/ pc[v] \in {"plain", "ready"} /\ job'[v] = job[v]
              \/ \A r \in Responses : ~IsFresh(r) /\ ~Publishing(r) /\ job'[v].rid = r
                                        => Fits(job'[v], r)
  BY <1>1, <1>3
<1> QED
  BY <1>1, <1>4, <1>5, QuietKeeps

LEMMA RefuseKeeps ==
  ASSUME IInv, Whole, ChainInv, NEW w \in Writers, Refuse(w)
  PROVE  ChainInv'
<1>1. /\ UNCHANGED <<ledger, index, synced, held>>
      /\ pc[w] = "ready" /\ pc'[w] = "idle"
      /\ \A v \in Writers \ {w} : pc'[v] = pc[v] /\ job'[v] = job[v] /\ row'[v] = row[v]
  BY LedgerFacts DEF Refuse, Leave, disk
<1>2. \A r : Lines(r)' = Lines(r) /\ LatestSeq(r)' = LatestSeq(r)
  BY <1>1, SameRows
<1>3. RowsFit'
  BY <1>1, <1>2 DEF ChainInv, RowsFit, Holding
<1>4. \A v \in Writers :
         /\ pc'[v] \in {"written", "synced"} <=> pc[v] \in {"written", "synced"}
         /\ pc[v] \in {"written", "synced"} => row'[v] = row[v]
         /\ pc'[v] \in {"plain", "ready"} => pc[v] \in {"plain", "ready"} /\ job'[v] = job[v]
  BY <1>1
<1> QED
  BY <1>1, <1>3, <1>4, QuietKeeps

\* The decision under the lock: with a fresh entry the parent is the latest row,
\* with a stale one the frame was right before.
LEMMA PrepareKeeps ==
  ASSUME IInv, Whole, ChainInv, NEW w \in Writers, Prepare(w)
  PROVE  ChainInv'
<1> DEFINE r == job[w].rid
           p == ParentRow(r, index).at
           j == Enrich(job[w], PriorSeq(r, index))
<1>1. /\ UNCHANGED <<ledger, index, synced, held, job>>
      /\ pc[w] = "ready" /\ pc'[w] = "prepared"
      /\ \A v \in Writers \ {w} : pc'[v] = pc[v] /\ row'[v] = row[v]
      /\ lock = None /\ ~Mismatch(w)
  BY LedgerFacts DEF Prepare, disk
<1>2. job[w] \in Job /\ r \in Responses /\ j \in Job /\ j.rid = r
  <2>1. job[w] \in Job /\ r \in Responses
    BY <1>1, LedgerFacts
  <2> QED
    BY <2>1, LedgerFacts, PriorSeqType, EnrichType
<1>3. /\ row'[w].rid = j.rid /\ row'[w].seq = j.seq /\ row'[w].parent = j.parent
      /\ row'[w].expect = j.expect
  BY LedgerFacts DEF Prepare
<1>4. \A q : ~Publishing(q)
  BY <1>1, FreeLock
<1>5. \A q : Lines(q)' = Lines(q) /\ LatestSeq(q)' = LatestSeq(q)
  BY <1>1, SameRows
<1>6. /\ j.seq = LatestSeq(r) + 1 /\ j.parent = LatestSeq(r)
      /\ j.expect # 0 => LatestSeq(r) = j.expect
  <2>1. CASE IsFresh(r)
    <3>1. Lines(r) # {} /\ PriorSeq(r, index) = LatestSeq(r) /\ p = LatestLine(r)
      BY <1>2, <2>1, FreshTells DEF ChainInv
    <3>2. /\ LatestSeq(r) = ledger[LatestLine(r)].seq /\ LatestSeq(r) = Cardinality(Lines(r))
          /\ LatestLine(r) # 0 /\ LatestSeq(r) # 0
      <4>1. /\ LatestSeq(r) = ledger[LatestLine(r)].seq
            /\ LatestSeq(r) = Cardinality(Lines(r)) /\ LatestLine(r) \in 1 .. Len(ledger)
        BY <1>2, <3>1, LedgerFacts, LatestFacts, LatestCounts DEF ChainInv
      <4>2. Cardinality(Lines(r)) # 0
        BY <3>1, LedgerFacts, SomeRows, FS_EmptySet
      <4> QED
        BY <4>1, <4>2
    <3>3. j = [job[w] EXCEPT !.seq = LatestSeq(r) + 1, !.parent = LatestSeq(r)]
      BY <3>1, <3>2 DEF Enrich
    <3>4. job[w].expect = 0 \/ job[w].expect = (IF p = 0 THEN 0 ELSE ledger[p].seq)
      BY <1>1 DEF Mismatch
    <3>5. job[w].expect # 0 => LatestSeq(r) = job[w].expect
      <4> HIDE DEF p
      <4> QED
        BY <3>1, <3>2, <3>4
    <3>6. /\ j.seq = LatestSeq(r) + 1 /\ j.parent = LatestSeq(r)
          /\ j.expect = job[w].expect
      <4> HIDE DEF j
      <4> QED
        BY <1>2, <3>3 DEF Job
    <3> QED
      BY <3>5, <3>6
  <2>2. CASE ~IsFresh(r)
    <3>1. Fits(job[w], r) /\ PriorSeq(r, index) \in {0, LatestSeq(r)}
      BY <1>1, <1>2, <1>4, <2>2, StalePrior DEF ChainInv, StaleFits
    <3>2. Fits(j, r)
      BY <1>2, <3>1, EnrichFits
    <3> HIDE DEF j
    <3> QED
      BY <3>2 DEF Fits
  <2> QED
    BY <2>1, <2>2
<1> HIDE DEF j, p
<1>7. /\ row'[w].rid = r
      /\ row'[w].seq = Cardinality(Lines(r)) + 1 /\ row'[w].parent = row'[w].seq - 1
      /\ row'[w].expect # 0 => Lines(r) # {} /\ LatestSeq(r) = row'[w].expect
  <2>1. LatestSeq(r) = Cardinality(Lines(r)) /\ Cardinality(Lines(r)) \in Nat
    BY <1>2, LedgerFacts, LatestCounts, SomeRows DEF ChainInv
  <2>2. LatestSeq(r) # 0 => Lines(r) # {}
    BY DEF LatestSeq
  <2> QED
    BY <1>2, <1>3, <1>6, <2>1, <2>2
<1>8. RowsFit'
  <2>1. ASSUME NEW q \in Responses, row'[w].rid = q
        PROVE  /\ row'[w].seq = Cardinality(Lines(q)') + 1
               /\ row'[w].parent = row'[w].seq - 1
               /\ row'[w].expect # 0 => Lines(q)' # {} /\ LatestSeq(q)' = row'[w].expect
    BY <1>5, <1>7, <2>1
  <2>2. row'[w].rid = job'[w].rid
    BY <1>1, <1>7
  <2> QED
    BY <1>1, <1>5, <2>1, <2>2 DEF ChainInv, RowsFit
<1>9. \A v \in Writers :
         /\ pc'[v] \in {"written", "synced"} <=> pc[v] \in {"written", "synced"}
         /\ pc[v] \in {"written", "synced"} => row'[v] = row[v]
         /\ pc'[v] \in {"plain", "ready"} => pc[v] \in {"plain", "ready"} /\ job'[v] = job[v]
  BY <1>1
<1> QED
  BY <1>1, <1>8, <1>9, QuietKeeps

\* The bytes of the row, and its fsync, change nothing that was decided.
LEMMA WriteStepKeeps ==
  ASSUME IInv, Whole, ChainInv, NEW w \in Writers, StartWrite(w) \/ Fsync(w)
  PROVE  ChainInv'
<1>1. /\ UNCHANGED <<ledger, index, held, job, row>>
      /\ \A v \in Writers \ {w} : pc'[v] = pc[v]
      /\ \/ pc[w] = "prepared" /\ pc'[w] = "writing" /\ synced' = synced
         \/ pc[w] = "written" /\ pc'[w] = "synced" /\ synced' = Len(ledger)
  BY LedgerFacts DEF StartWrite, Fsync
<1>2. \A r : Lines(r)' = Lines(r) /\ LatestSeq(r)' = LatestSeq(r)
  BY <1>1, SameRows
<1>3. RowsFit'
  BY <1>1, <1>2 DEF ChainInv, RowsFit, Holding
<1>4. \A v \in Writers :
         /\ pc'[v] \in {"written", "synced"} <=> pc[v] \in {"written", "synced"}
         /\ pc[v] \in {"written", "synced"} => row'[v] = row[v]
         /\ pc'[v] \in {"plain", "ready"} => pc[v] \in {"plain", "ready"} /\ job'[v] = job[v]
  BY <1>1
<1> QED
  BY <1>1, <1>3, <1>4, QuietKeeps

LEMMA FinishWriteKeeps ==
  ASSUME IInv, Whole, ChainInv, NEW w \in Writers, FinishWrite(w)
  PROVE  ChainInv'
<1> DEFINE n == Len(ledger)
<1>1. /\ ledger' = Append(ledger, row[w])
      /\ UNCHANGED <<index, synced, held, job, row>>
      /\ pc[w] = "writing" /\ pc'[w] = "written"
      /\ \A v \in Writers \ {w} : pc'[v] = pc[v] /\ pc[v] \notin Holding
  BY LedgerFacts DEF FinishWrite, Holding
<1>2. /\ row[w] \in Line /\ row[w].rid \in Responses /\ ~row[w].glued
      /\ row[w].seq = Cardinality(Lines(row[w].rid)) + 1
      /\ row[w].parent = row[w].seq - 1
      /\ row[w].expect # 0 =>
            Lines(row[w].rid) # {} /\ LatestSeq(row[w].rid) = row[w].expect
  BY <1>1, LedgerFacts DEF Whole, ChainInv, RowsFit, Holding
<1>3. FramesFormOneChain' /\ CasParentWasCurrent'
  BY <1>1, <1>2, LedgerFacts, AppendChains, AppendSwaps DEF ChainInv
<1>4. /\ n \in Nat /\ \A k \in 1 .. n : ledger'[k] = ledger[k]
      /\ \A r : r # row[w].rid => Lines(r)' = Lines(r)
  BY <1>1, <1>2, LedgerFacts, AppendedLines
<1>5. IndexRows'
  <2>1. synced \in 0 .. n
    BY DEF IInv, TypeOK
  <2>2. 1 .. synced \subseteq 1 .. n
    BY <1>4, <2>1
  <2> QED
    BY <1>1, <1>4, <2>2 DEF ChainInv, IndexRows
<1>6. ASSUME NEW r \in Responses, r # row[w].rid
      PROVE  /\ LatestLine(r)' = LatestLine(r) /\ LatestSeq(r)' = LatestSeq(r)
             /\ ~Publishing(r)
  <2>1. Lines(r)' = Lines(r)
    BY <1>4, <1>6
  <2>2. LatestLine(r)' = LatestLine(r)
    BY <2>1 DEF LatestLine
  <2>3. ledger'[LatestLine(r)] = ledger[LatestLine(r)] \/ Lines(r) = {}
    BY <1>4, LedgerFacts, LatestFacts
  <2>4. LatestSeq(r)' = LatestSeq(r)
    BY <2>1, <2>2, <2>3 DEF LatestSeq
  <2>5. ~Publishing(r)
    BY <1>1 DEF Publishing, Holding
  <2> QED
    BY <2>2, <2>4, <2>5
<1>7. StaleFits'
  <2> SUFFICES ASSUME NEW r \in Responses, ~IsFresh(r)', ~Publishing(r)'
               PROVE  /\ held[r] = {}
                      /\ \A v \in Writers : pc'[v] \in {"plain", "ready"} /\ job[v].rid = r
                           => /\ job[v].seq = LatestSeq(r)' + 1 /\ job[v].parent = LatestSeq(r)'
                              /\ job[v].expect \in {0, LatestSeq(r)'}
    BY <1>1 DEF StaleFits, Fits
  <2>1. r # row[w].rid
    BY <1>1 DEF Publishing
  <2>2. /\ LatestLine(r)' = LatestLine(r) /\ LatestSeq(r)' = LatestSeq(r)
        /\ ~Publishing(r)
    BY <1>6, <2>1
  <2>3. ~IsFresh(r)
    BY <1>1, <2>2 DEF IsFresh
  <2>4. \A v \in Writers : pc'[v] \in {"plain", "ready"} => pc[v] = pc'[v]
    BY <1>1
  <2> QED
    BY <2>2, <2>3, <2>4 DEF ChainInv, StaleFits, Fits
<1>8. RowsFit'
  BY <1>1 DEF ChainInv, RowsFit, Holding
<1> QED
  BY <1>3, <1>5, <1>7, <1>8 DEF ChainInv

\* The published index has the entry of the last row and otherwise the old ones.
LEMMA PublishedIndex ==
  ASSUME IInv, Whole, ChainInv, NEW w \in Writers, Publish(w)
  PROVE  /\ index'.ok /\ index'.entries[row[w].rid] # None
         /\ index'.entries[row[w].rid].off = Len(ledger)
         /\ index'.entries[row[w].rid].seq = row[w].seq
         /\ index'.entries[row[w].rid].man = man[w]
         /\ \A r \in Responses \ {row[w].rid} : index'.entries[r] = index.entries[r]
         /\ Lines(row[w].rid) # {} /\ LatestLine(row[w].rid) = Len(ledger)
<1> DEFINE n == Len(ledger)
           line == row[w]
           e == [seq |-> line.seq, off |-> n, man |-> man[w]]
           epoch == n = 1 /\ ~line.glued
           kept == IF epoch \/ ~index.ok THEN NoIndex.entries ELSE index.entries
<1>1. /\ line \in Line /\ line.rid \in Responses /\ ledger' = ledger /\ n \in Nat \ {0}
      /\ ledger[n] = line /\ synced = n
      /\ ledger \in Seq(Line) /\ index \in Index /\ DOMAIN ledger = 1 .. n
  BY PublishFacts, LedgerFacts DEF Line
<1>2. e # None /\ e.off = n /\ e.seq = line.seq /\ e.man = man[w]
  <2>1. man[w] \in Manifest
    BY DEF IInv, TypeOK
  <2>2. e \in Entry
    BY <1>1, <2>1 DEF Entry, Line
  <2> QED
    BY <2>2, NoEntryAssumption
<1>3. index'.ok /\ index'.entries = [kept EXCEPT ![line.rid] = e]
  <2>1. index' = NextIndex(index, line, n, man[w])
    BY PublishFacts
  <2> QED
    BY <2>1 DEF NextIndex
<1>4. kept \in [Responses -> Entry \cup {None}]
  BY <1>1, NoIndexType DEF Index
<1>5. ASSUME NEW r \in Responses \ {line.rid} PROVE kept[r] = index.entries[r]
  <2>1. CASE ~index.ok
    BY <2>1 DEF ChainInv, IndexRows
  <2>2. CASE index.ok /\ ~epoch
    BY <2>2
  <2>3. CASE index.ok /\ epoch
    <3>1. n = 1
      BY <2>3
    <3>2. ASSUME index.entries[r] # None PROVE FALSE
      <4>1. index.entries[r].off \in 1 .. synced /\ ledger[index.entries[r].off].rid = r
        BY <3>2 DEF ChainInv, IndexRows
      <4>2. index.entries[r].off = n
        BY <1>1, <3>1, <4>1
      <4> QED
        BY <1>1, <4>1, <4>2
    <3>3. kept[r] = None
      BY <2>3 DEF NoIndex
    <3> QED
      BY <3>2, <3>3
  <2> QED
    BY <2>1, <2>2, <2>3
<1>6. n \in Lines(line.rid)
  BY <1>1 DEF Lines, Whole
<1>7. LatestLine(line.rid) = n
  <2>1. LatestLine(line.rid) \in 1 .. n /\ n <= LatestLine(line.rid)
    BY <1>1, <1>6, LatestFacts
  <2> HIDE DEF n
  <2> QED
    BY <1>1, <2>1
<1> HIDE DEF e, kept, n
<1>8. /\ index'.entries[line.rid] = e
      /\ \A r \in Responses \ {line.rid} : index'.entries[r] = index.entries[r]
  BY <1>1, <1>3, <1>4, <1>5
<1> QED
  BY <1>2, <1>3, <1>6, <1>7, <1>8 DEF n

LEMMA PublishKeeps ==
  ASSUME IInv, Whole, ChainInv, NEW w \in Writers, Publish(w)
  PROVE  ChainInv'
<1> DEFINE q == row[w].rid
<1>1. /\ UNCHANGED <<ledger, synced>>
      /\ pc[w] = "synced" /\ pc'[w] = "idle"
      /\ \A v \in Writers \ {w} : /\ pc'[v] = pc[v] /\ job'[v] = job[v] /\ row'[v] = row[v]
                               /\ pc[v] \notin Holding
      /\ synced = Len(ledger) /\ Len(ledger) \in Nat \ {0} /\ ledger[Len(ledger)] = row[w]
      /\ \A r \in Responses \ {q} : held'[r] = held[r]
  <2>1. /\ Leave(w) /\ pc[w] = "synced"
        /\ held' = [held EXCEPT ![job[w].rid] = @ \cup {Receipt(w)}]
    BY DEF Publish
  <2>2. /\ pc'[w] = "idle"
        /\ \A v \in Writers \ {w} : pc'[v] = pc[v] /\ job'[v] = job[v] /\ row'[v] = row[v]
    BY <2>1, LedgerFacts DEF Leave
  <2>3. \A v \in Writers \ {w} : pc[v] \notin Holding
    BY <2>1, LedgerFacts DEF Holding
  <2>4. job[w].rid = q
    BY <2>1 DEF ChainInv, RowsFit, Holding
  <2>5. \A r \in Responses \ {q} : held'[r] = held[r]
    BY <2>1, <2>4, LedgerFacts
  <2>6. /\ UNCHANGED <<ledger, synced>> /\ ledger[Len(ledger)] = row[w]
        /\ Len(ledger) \in Nat \ {0} /\ synced = Len(ledger)
    BY PublishFacts
  <2> QED
    BY <2>1, <2>2, <2>3, <2>5, <2>6
<1>2. /\ index'.ok /\ index'.entries[q] # None /\ index'.entries[q].off = Len(ledger)
      /\ index'.entries[q].seq = row[w].seq
      /\ \A r \in Responses \ {q} : index'.entries[r] = index.entries[r]
      /\ LatestLine(q) = Len(ledger)
  BY PublishedIndex
<1>3. \A r : /\ Lines(r)' = Lines(r) /\ LatestLine(r)' = LatestLine(r)
             /\ LatestSeq(r)' = LatestSeq(r)
  BY <1>1, SameRows
<1>4. IndexRows'
  <2>1. Len(ledger) \in 1 .. synced
    BY <1>1
  <2>2. ASSUME NEW r \in Responses, index'.entries[r] # None
        PROVE  /\ index'.entries[r].off \in 1 .. synced
               /\ ledger[index'.entries[r].off].rid = r
               /\ ledger[index'.entries[r].off].seq = index'.entries[r].seq
    <3>1. CASE r = q
      BY <1>1, <1>2, <2>1, <3>1
    <3>2. CASE r # q
      BY <1>2, <2>2, <3>2 DEF ChainInv, IndexRows
    <3> QED
      BY <3>1, <3>2
  <2> QED
    BY <1>1, <1>2, <2>2 DEF IndexRows
<1>5. StaleFits'
  <2> SUFFICES ASSUME NEW r \in Responses, ~IsFresh(r)', ~Publishing(r)'
               PROVE  /\ held'[r] = {}
                      /\ \A v \in Writers : pc'[v] \in {"plain", "ready"} /\ job'[v].rid = r
                           => /\ job'[v].seq = LatestSeq(r) + 1 /\ job'[v].parent = LatestSeq(r)
                              /\ job'[v].expect \in {0, LatestSeq(r)}
    BY <1>3 DEF StaleFits, Fits
  <2>1. r # q
    BY <1>2, <1>3 DEF IsFresh
  <2>2. ~IsFresh(r)
    BY <1>2, <1>3, <2>1 DEF IsFresh
  <2>3. ~Publishing(r)
    BY <1>1, <2>1 DEF Publishing
  <2> QED
    BY <1>1, <2>1, <2>2, <2>3 DEF ChainInv, StaleFits, Fits
<1>6. RowsFit'
  BY <1>1, <1>3 DEF ChainInv, RowsFit, Holding
<1>7. FramesFormOneChain' /\ CasParentWasCurrent'
  BY <1>1, SameRows DEF ChainInv
<1> QED
  BY <1>4, <1>5, <1>6, <1>7 DEF ChainInv

\* A crash ends every thread and every live payload; the entries name rows that
\* were on disk.
LEMMA CrashKeeps ==
  ASSUME IInv, ChainInv, Crash
  PROVE  ChainInv'
<1>1. /\ ledger \in Seq(Line) /\ Len(ledger) \in Nat /\ synced \in 0 .. Len(ledger)
  BY DEF IInv, TypeOK
<1>2. PICK n \in synced .. Len(ledger) : ledger' = SubSeq(ledger, 1, n) /\ synced' = n
  BY DEF Crash
<1>3. n \in 0 .. Len(ledger) /\ n \in Nat /\ synced <= n /\ synced \in Nat
  BY <1>1, <1>2
<1>4. /\ \A k \in 1 .. n : ledger'[k] = ledger[k]
      /\ FramesFormOneChain' /\ CasParentWasCurrent'
  BY <1>1, <1>2, <1>3, PrefixKeeps DEF ChainInv
<1>5. /\ index' = index /\ held' = [r \in Responses |-> {}]
      /\ \A w \in Writers : pc'[w] = "idle"
  BY DEF Crash
<1>6. IndexRows'
  BY <1>2, <1>3, <1>4, <1>5 DEF ChainInv, IndexRows
<1>7. StaleFits' /\ RowsFit'
  BY <1>5 DEF StaleFits, RowsFit, Holding
<1> QED
  BY <1>4, <1>6, <1>7 DEF ChainInv

\* Every other step leaves the rows, the entries and the writers as they are.
LEMMA OtherStepsKeep ==
  ASSUME IInv, Whole, ChainInv,
         \/ Attest \/ UNCHANGED vars
         \/ \E d \in Readers : Ask(d) \/ ReaderStep(d)
  PROVE  ChainInv'
<1>1. UNCHANGED <<ledger, synced, pc, job, row, held>>
  BY DEF Attest, Ask, ReaderStep, LoadIndex, LookUp, Confirm, vars, disk, writer
<1>2. index' = index \/ (index.ok /\ index'.ok /\ index'.entries = index.entries)
  <2>1. CASE Attest
    BY <2>1, LedgerFacts DEF Attest, Attestable, Index
  <2>2. CASE ~Attest
    BY <2>2 DEF Ask, ReaderStep, LoadIndex, LookUp, Confirm, vars, disk
  <2> QED
    BY <2>1, <2>2
<1>3. RowsFit'
  BY <1>1, OtherRowsFit
<1> QED
  BY <1>1, <1>2, <1>3, QuietKeeps

-----------------------------------------------------------------------------
(* The theorems. *)

LEMMA ChainInitially == Init => ChainInv
<1> SUFFICES ASSUME Init PROVE ChainInv
  OBVIOUS
<1>1. ledger = <<>> /\ index = NoIndex /\ DOMAIN ledger = {}
  BY DEF Init
<1>2. \A w \in Writers : pc[w] = "idle"
  BY DEF Init
<1>3. \A r \in Responses : held[r] = {}
  BY DEF Init
<1>4. \A r \in Responses : Lines(r) = {} /\ index.entries[r] = None
  BY <1>1 DEF Lines, NoIndex
<1>5. IndexRows
  BY <1>1, <1>4 DEF IndexRows
<1>6. StaleFits /\ RowsFit
  BY <1>2, <1>3 DEF StaleFits, RowsFit, Holding
<1>7. FramesFormOneChain /\ CasParentWasCurrent
  BY <1>1, <1>4 DEF FramesFormOneChain, CasParentWasCurrent
<1> QED
  BY <1>5, <1>6, <1>7 DEF ChainInv

LEMMA OnlyCrashes ==
  ASSUME CrashesOnly, IInv
  PROVE  ~LoseIndex /\ \A w \in Writers : ~Fail(w)
<1>1. ~(failures < MaxFailures) /\ ~(losses < MaxIndexLosses)
  BY LedgerFacts DEF CrashesOnly
<1>2. ~LoseIndex
  BY <1>1 DEF LoseIndex
<1>3. \A w \in Writers : ~Fail(w)
  BY <1>1 DEF Fail
<1> QED
  BY <1>2, <1>3

LEMMA ChainPreserved ==
  ASSUME CrashesOnly, IInv, Whole, ChainInv, [Next]_vars
  PROVE  ChainInv'
<1>1. ~LoseIndex /\ \A w \in Writers : ~Fail(w)
  BY OnlyCrashes
<1> QED
  BY <1>1, BeginKeeps, EnrichKeeps, RefuseKeeps, PrepareKeeps, WriteStepKeeps,
     FinishWriteKeeps, PublishKeeps, CrashKeeps, OtherStepsKeep DEF Next, WriterStep

LEMMA ChainInvariance == CrashesOnly => (Spec => [](IInv /\ Whole /\ ChainInv))
<1> SUFFICES ASSUME CrashesOnly PROVE Spec => [](IInv /\ Whole /\ ChainInv)
  OBVIOUS
<1>1. IInv /\ Whole /\ ChainInv /\ [Next]_vars => Whole' /\ ChainInv'
  BY ChainPreserved, WholePreserved DEF CrashesOnly
<1> QED
  BY ChainInitially, WholeInitially, <1>1, Invariance, PTL DEF Spec

\* However many threads finalize frames of however many responses and however
\* often the process crashes, the frames of each response are numbered without a
\* gap or a fork and name their predecessor, although an append reads the parent
\* from a derived index that a crash leaves behind the rows, and the metadata of
\* a plain append is computed before it takes the lock.
THEOREM ConcurrentAppendsChain == CrashesOnly => (Spec => []FramesFormOneChain)
BY ChainInvariance, PTL DEF ChainInv

\* A compare-and-swap append succeeds only if the expected parent was the latest
\* frame of the response at the moment its row was written, crashes or not.
THEOREM SwapsAreAtomic == CrashesOnly => (Spec => []CasParentWasCurrent)
BY ChainInvariance, PTL DEF ChainInv

-----------------------------------------------------------------------------
(* Refusals.  Without a crash the index always knows the latest row, except *)
(* for the one that is being published.                                     *)

AllFresh == \A r \in Responses : Lines(r) # {} /\ ~Publishing(r) => IsFresh(r)

LEMMA NothingFails ==
  ASSUME NoFaults, IInv
  PROVE  CrashesOnly /\ ~Crash /\ ~LoseIndex /\ \A w \in Writers : ~Fail(w)
<1>1. CrashesOnly
  BY DEF NoFaults, CrashesOnly, NothingTears
<1>2. ~(crashes < MaxCrashes)
  BY LedgerFacts DEF NoFaults
<1>3. ~Crash
  BY <1>2 DEF Crash
<1> QED
  BY <1>1, <1>3, OnlyCrashes

LEMMA FreshPreserved ==
  ASSUME NoFaults, IInv, Whole, ChainInv, AllFresh, [Next]_vars
  PROVE  AllFresh'
<1>1. ~Crash /\ ~LoseIndex /\ \A w \in Writers : ~Fail(w)
  BY NothingFails
<1>2. ASSUME UNCHANGED ledger, index'.entries = index.entries,
             \A w \in Writers :
                /\ pc'[w] \in {"written", "synced"} <=> pc[w] \in {"written", "synced"}
                /\ pc[w] \in {"written", "synced"} => row'[w] = row[w]
      PROVE  AllFresh'
  <2>1. \A r : Lines(r)' = Lines(r) /\ LatestLine(r)' = LatestLine(r)
    BY <1>2, SameRows
  <2>2. \A r : Publishing(r)' <=> Publishing(r)
    BY <1>2 DEF Publishing
  <2> QED
    BY <1>2, <2>1, <2>2 DEF AllFresh, IsFresh
<1>3. ASSUME NEW w \in Writers,
             \/ BeginInitial(w) \/ BeginSuccessor(w) \/ EnrichUnlocked(w) \/ Prepare(w)
             \/ Refuse(w) \/ StartWrite(w) \/ Fsync(w)
      PROVE  AllFresh'
  <2>1. UNCHANGED <<ledger, index>>
    BY <1>3 DEF BeginInitial, BeginSuccessor, EnrichUnlocked, Prepare, Refuse, StartWrite,
                Fsync, disk
  <2>2. \A v \in Writers :
           /\ pc'[v] \in {"written", "synced"} <=> pc[v] \in {"written", "synced"}
           /\ pc[v] \in {"written", "synced"} => row'[v] = row[v]
    BY <1>3, LedgerFacts DEF BeginInitial, BeginSuccessor, EnrichUnlocked, Prepare, Refuse,
                             StartWrite, Fsync, Leave
  <2> QED
    BY <1>2, <2>1, <2>2
<1>4. ASSUME \/ Attest \/ UNCHANGED vars
             \/ \E d \in Readers : Ask(d) \/ ReaderStep(d)
      PROVE  AllFresh'
  <2>1. UNCHANGED <<ledger, pc, row>>
    BY <1>4 DEF Attest, Ask, ReaderStep, LoadIndex, LookUp, Confirm, vars, disk, writer
  <2>2. index'.entries = index.entries
    <3>1. CASE Attest
      BY <3>1, LedgerFacts DEF Attest, Index
    <3>2. CASE ~Attest
      BY <1>4, <3>2 DEF Ask, ReaderStep, LoadIndex, LookUp, Confirm, vars, disk
    <3> QED
      BY <3>1, <3>2
  <2> QED
    BY <1>2, <2>1, <2>2
<1>5. ASSUME NEW w \in Writers, FinishWrite(w) PROVE AllFresh'
  <2>1. /\ ledger' = Append(ledger, row[w]) /\ UNCHANGED <<index, row>>
        /\ pc[w] = "writing" /\ pc'[w] = "written"
        /\ \A v \in Writers \ {w} : pc'[v] = pc[v] /\ pc[v] \notin Holding
    BY <1>5, LedgerFacts DEF FinishWrite, Holding
  <2>2. row[w] \in Line /\ ~row[w].glued
    BY <2>1, LedgerFacts DEF Whole, Holding
  <2>3. ASSUME NEW r \in Responses, Lines(r)' # {}, ~Publishing(r)' PROVE IsFresh(r)'
    <3>1. r # row[w].rid
      BY <2>1, <2>3 DEF Publishing
    <3>2. Lines(r)' = Lines(r)
      BY <2>1, <2>2, <3>1, LedgerFacts, AppendedLines
    <3>3. LatestLine(r)' = LatestLine(r)
      BY <3>2 DEF LatestLine
    <3>4. ~Publishing(r)
      BY <2>1 DEF Publishing, Holding
    <3> QED
      BY <2>1, <2>3, <3>2, <3>3, <3>4 DEF AllFresh, IsFresh
  <2> QED
    BY <2>3 DEF AllFresh
<1>6. ASSUME NEW w \in Writers, Publish(w) PROVE AllFresh'
  <2>1. /\ index'.entries[row[w].rid] # None
        /\ index'.entries[row[w].rid].off = Len(ledger)
        /\ \A r \in Responses \ {row[w].rid} : index'.entries[r] = index.entries[r]
        /\ LatestLine(row[w].rid) = Len(ledger)
    BY <1>6, PublishedIndex
  <2>2. /\ ledger' = ledger
        /\ \A v \in Writers \ {w} : pc'[v] = pc[v] /\ row'[v] = row[v]
    BY <1>6, LedgerFacts DEF Publish, Leave
  <2>3. \A r : Lines(r)' = Lines(r) /\ LatestLine(r)' = LatestLine(r)
    BY <2>2, SameRows
  <2>4. ASSUME NEW r \in Responses, Lines(r)' # {}, ~Publishing(r)' PROVE IsFresh(r)'
    <3>1. CASE r = row[w].rid
      BY <2>1, <2>3, <3>1 DEF IsFresh
    <3>2. CASE r # row[w].rid
      <4>1. ~Publishing(r)
        BY <2>2, <2>4, <3>2 DEF Publishing
      <4> QED
        BY <2>1, <2>3, <2>4, <3>2, <4>1 DEF AllFresh, IsFresh
    <3> QED
      BY <3>1, <3>2
  <2> QED
    BY <2>4 DEF AllFresh
<1> QED
  BY <1>1, <1>3, <1>4, <1>5, <1>6 DEF Next, WriterStep

LEMMA FreshInvariance == NoFaults => (Spec => [](IInv /\ Whole /\ ChainInv /\ AllFresh))
<1> SUFFICES ASSUME NoFaults PROVE Spec => [](IInv /\ Whole /\ ChainInv /\ AllFresh)
  OBVIOUS
<1>1. CrashesOnly
  BY DEF NoFaults, CrashesOnly, NothingTears
<1>2. Init => AllFresh
  BY DEF Init, AllFresh, Lines
<1>3. IInv /\ Whole /\ ChainInv /\ AllFresh /\ [Next]_vars => AllFresh'
  BY FreshPreserved
<1>4. Spec => [](IInv /\ Whole /\ ChainInv)
  BY <1>1, ChainInvariance
<1> QED
  BY <1>2, <1>3, <1>4, PTL DEF Spec

\* While nothing fails, a compare-and-swap is refused only if the expected parent
\* was not the latest frame: the index never makes an append refuse what the rows
\* would allow.  (After a crash it may: the entry names an older frame.)
THEOREM RefusalsTrue == NoFaults => (Spec => RefusalsAreTrue)
<1> SUFFICES ASSUME NoFaults PROVE Spec => RefusalsAreTrue
  OBVIOUS
<1> DEFINE Truthful == \A w \in Writers :
             pc[w] = "ready" /\ pc'[w] = "idle" /\ crashes' = crashes =>
                 LatestSeq(job[w].rid) # job[w].expect
<1>1. ASSUME IInv, Whole, ChainInv, AllFresh, [Next]_vars PROVE Truthful
  <2> SUFFICES ASSUME NEW w \in Writers, pc[w] = "ready", pc'[w] = "idle"
               PROVE  LatestSeq(job[w].rid) # job[w].expect
    OBVIOUS
  <2> DEFINE r == job[w].rid
  <2>1. Refuse(w)
    <3>1. ~Crash /\ ~LoseIndex /\ \A v \in Writers : ~Fail(v)
      BY <1>1, NothingFails
    <3>2. ASSUME NEW v \in Writers,
                 \/ BeginInitial(v) \/ BeginSuccessor(v) \/ EnrichUnlocked(v)
                 \/ Prepare(v) \/ StartWrite(v) \/ FinishWrite(v) \/ Fsync(v) \/ Publish(v)
          PROVE  FALSE
      BY <1>1, <3>2, LedgerFacts DEF BeginInitial, BeginSuccessor, EnrichUnlocked, Prepare,
                  StartWrite, FinishWrite, Fsync, Publish, Leave
    <3>3. ASSUME NEW v \in Writers, Refuse(v) PROVE v = w
      BY <1>1, <3>3, LedgerFacts DEF Refuse, Leave
    <3>4. ASSUME \/ Attest \/ UNCHANGED vars
                 \/ \E d \in Readers : Ask(d) \/ ReaderStep(d)
          PROVE  FALSE
      BY <3>4 DEF Attest, Ask, ReaderStep, LoadIndex, LookUp, Confirm, vars, writer
    <3> QED
      BY <1>1, <3>1, <3>2, <3>3, <3>4 DEF Next, WriterStep
  <2>2. r \in Responses /\ lock = None /\ Mismatch(w)
    BY <1>1, <2>1, LedgerFacts DEF Refuse
  <2>3. ParentRow(r, index).at = LatestLine(r)
    <3>1. CASE Lines(r) = {}
      <4>1. index.entries[r] = None
        BY <1>1, <2>2, <3>1, EntryRow DEF ChainInv
      <4>2. ParentRow(r, index).at = 0
        BY <3>1, <4>1 DEF ParentRow, IndexedRow
      <4> QED
        BY <3>1, <4>2 DEF LatestLine
    <3>2. CASE Lines(r) # {}
      <4>1. IsFresh(r)
        BY <1>1, <2>2, <3>2, FreeLock DEF AllFresh
      <4> QED
        BY <1>1, <2>2, <4>1, FreshTells DEF ChainInv
    <3> QED
      BY <3>1, <3>2
  <2>4. job[w].expect # (IF LatestLine(r) = 0 THEN 0 ELSE ledger[LatestLine(r)].seq)
    BY <2>2, <2>3 DEF Mismatch
  <2>5. LatestLine(r) = 0 <=> Lines(r) = {}
    <3>1. Lines(r) # {} => LatestLine(r) \in 1 .. Len(ledger)
      BY <1>1, LedgerFacts, LatestFacts
    <3> QED
      BY <3>1 DEF LatestLine
  <2> QED
    BY <2>4, <2>5 DEF LatestSeq
<1>2. (IInv /\ Whole /\ ChainInv /\ AllFresh) /\ [Next]_vars => [Truthful]_vars
  BY <1>1
<1> HIDE DEF Truthful
<1>3. Spec => [][Truthful]_vars
  BY FreshInvariance, <1>2, PTL DEF Spec
<1> QED
  BY <1>3 DEF RefusalsAreTrue, Truthful

-----------------------------------------------------------------------------
(* Manifests.  A row inherits from an earlier row, so the recursion over a  *)
(* file of any length has a solution, and what it gives a row depends on no *)
(* later row: each fact by a least counterexample.                          *)

LEMMA LeastRow ==
  ASSUME NEW T \in SUBSET Nat, T # {}
  PROVE  \E k \in T : \A j \in T : k <= j
<1>1. PICK k \in T : \A j \in T : <<j, k>> \notin OpToRel(<, Nat)
  BY NatLessThanWellFounded, WFMin
<1>2. \A j \in T : ~(j < k)
  BY <1>1 DEF OpToRel
<1> QED
  BY <1>2

\* Expanded with the file as a parameter.
Earlier(led, k) == {j \in {i \in DOMAIN led : led[i].rid = led[k].rid /\ ~led[i].glued} : j < k}
Named(led, k) == {j \in Earlier(led, k) : led[j].seq = led[k].parent}
Source(led, k) == Greatest(IF Named(led, k) # {} THEN Named(led, k) ELSE Earlier(led, k))
From(led, g, k) ==
    IF led[k].parent = 0 \/ Earlier(led, k) = {} THEN NoManifest ELSE g[Source(led, k)]
Inherits(led, g, k) == Merge(From(led, g, k), led[k].delta)
ExpandedOf(led) == CHOOSE g : g = [k \in DOMAIN led |-> Inherits(led, g, k)]

LEMMA ExpandedIs == Expanded = ExpandedOf(ledger) /\ Expanded' = ExpandedOf(ledger')
<1>1. Expanded = ExpandedOf(ledger)
  BY DEF Expanded, ExpandedOf, Inherits, From, Source, Named, Earlier, Lines
<1>2. Expanded' = ExpandedOf(ledger')
  BY DEF Expanded, ExpandedOf, Inherits, From, Source, Named, Earlier, Lines
<1> QED
  BY <1>1, <1>2

LEMMA EarlierBelow ==
  ASSUME NEW n \in Nat, NEW led, DOMAIN led = 1 .. n, NEW k \in 1 .. n,
         NEW S, S \subseteq Earlier(led, k), S # {}
  PROVE  /\ Greatest(S) \in S /\ Greatest(S) \in 1 .. k - 1
         /\ \A j \in S : j <= Greatest(S)
<1>1. S \in SUBSET (0 .. n)
  BY DEF Earlier
<1>2. Greatest(S) \in S /\ \A j \in S : j <= Greatest(S)
  BY <1>1, GreatestIsMaximum
<1>3. S \subseteq 1 .. k - 1
  BY DEF Earlier
<1> QED
  BY <1>2, <1>3

LEMMA SourceBelow ==
  ASSUME NEW n \in Nat, NEW led, DOMAIN led = 1 .. n, NEW k \in 1 .. n, Earlier(led, k) # {}
  PROVE  Source(led, k) \in 1 .. k - 1
<1>1. PICK S : S = IF Named(led, k) # {} THEN Named(led, k) ELSE Earlier(led, k)
  OBVIOUS
<1>2. S # {} /\ S \subseteq Earlier(led, k)
  BY <1>1 DEF Named
<1>3. Greatest(S) \in 1 .. k - 1
  BY <1>2, EarlierBelow
<1> QED
  BY <1>1, <1>3 DEF Source

\* What a row inherits depends on the manifests of earlier rows.
LEMMA FromBelow ==
  ASSUME NEW n \in Nat, NEW led, DOMAIN led = 1 .. n, NEW k \in 1 .. n, NEW g, NEW h,
         \A j \in 1 .. k - 1 : g[j] = h[j]
  PROVE  Inherits(led, g, k) = Inherits(led, h, k)
BY SourceBelow DEF Inherits, From

LEMMA ExpandedStep ==
  ASSUME NEW n \in Nat, NEW led, DOMAIN led = 1 .. n
  PROVE  /\ DOMAIN ExpandedOf(led) = 1 .. n
         /\ \A k \in 1 .. n : ExpandedOf(led)[k] = Inherits(led, ExpandedOf(led), k)
<1> DEFINE Solves(g, m) == g = [k \in 1 .. m |-> Inherits(led, g, k)]
           Bad == {m \in 0 .. n : ~\E g : Solves(g, m)}
<1>1. Bad = {}
  <2> SUFFICES ASSUME Bad # {} PROVE FALSE
    OBVIOUS
  <2>1. Bad \in SUBSET Nat
    OBVIOUS
  <2>2. PICK m \in Bad : \A j \in Bad : m <= j
    <3> HIDE DEF Bad
    <3> QED
      BY <2>1, LeastRow
  <2>3. m # 0
    <3> SUFFICES ASSUME m = 0 PROVE FALSE
      OBVIOUS
    <3> DEFINE e == [k \in 1 .. 0 |-> None]
    <3>1. Solves(e, 0)
      OBVIOUS
    <3> QED
      BY <2>2, <3>1
  <2>4. m - 1 \in 0 .. n /\ m - 1 \notin Bad
    BY <2>2, <2>3
  <2>5. PICK g : Solves(g, m - 1)
    BY <2>4
  <2> DEFINE e == [k \in 1 .. m |-> Inherits(led, g, k)]
  <2>6. \A k \in 1 .. m - 1 : e[k] = g[k]
    <3>1. \A k \in 1 .. m - 1 : g[k] = Inherits(led, g, k)
      BY <2>5
    <3> QED
      BY <2>2, <2>4, <3>1
  <2>7. \A k \in 1 .. m : Inherits(led, g, k) = Inherits(led, e, k)
    <3> HIDE DEF e
    <3> TAKE k \in 1 .. m
    <3>1. k \in 1 .. n /\ \A j \in 1 .. k - 1 : g[j] = e[j]
      BY <2>2, <2>6
    <3> QED
      BY <3>1, FromBelow
  <2>8. e = [k \in 1 .. m |-> Inherits(led, e, k)]
    BY <2>7
  <2> QED
    BY <2>2, <2>8
<1>2. \E g : Solves(g, n)
  BY <1>1
<1>3. ExpandedOf(led) = CHOOSE g : Solves(g, n)
  BY DEF ExpandedOf
<1> DEFINE E == CHOOSE g : Solves(g, n)
<1>4. Solves(E, n)
  BY <1>2
<1> QED
  BY <1>3, <1>4

\* Rows that are added do not change what the earlier ones expand to.
LEMMA ExpandedLocal ==
  ASSUME NEW n \in Nat, NEW m \in Nat, n <= m,
         NEW f, DOMAIN f = 1 .. n, NEW g, DOMAIN g = 1 .. m, \A k \in 1 .. n : f[k] = g[k]
  PROVE  \A k \in 1 .. n : ExpandedOf(f)[k] = ExpandedOf(g)[k]
<1>1. ASSUME NEW k \in 1 .. n PROVE Earlier(f, k) = Earlier(g, k) /\ Named(f, k) = Named(g, k)
  <2>1. Earlier(f, k) = Earlier(g, k)
    BY DEF Earlier
  <2>2. Earlier(f, k) \subseteq 1 .. n
    BY DEF Earlier
  <2> QED
    BY <2>1, <2>2 DEF Named
<1>2. ASSUME NEW k \in 1 .. n, NEW h PROVE Inherits(f, h, k) = Inherits(g, h, k)
  BY <1>1, <1>2 DEF Inherits, From, Source
<1> DEFINE Bad == {k \in 1 .. n : ExpandedOf(f)[k] # ExpandedOf(g)[k]}
<1>3. ASSUME Bad # {} PROVE FALSE
  <2>1. Bad \in SUBSET Nat
    OBVIOUS
  <2>2. PICK k \in Bad : \A j \in Bad : k <= j
    <3> HIDE DEF Bad
    <3> QED
      BY <1>3, <2>1, LeastRow
  <2>3. /\ ExpandedOf(f)[k] = Inherits(f, ExpandedOf(f), k)
        /\ ExpandedOf(g)[k] = Inherits(g, ExpandedOf(g), k)
    BY <2>2, ExpandedStep
  <2>4. \A j \in 1 .. k - 1 : ExpandedOf(f)[j] = ExpandedOf(g)[j]
    BY <2>2
  <2>5. Inherits(g, ExpandedOf(f), k) = Inherits(g, ExpandedOf(g), k)
    BY <2>2, <2>4, FromBelow
  <2> QED
    BY <1>2, <2>2, <2>3, <2>5
<1> QED
  BY <1>3

LEMMA ExpandedTyped ==
  ASSUME NEW n \in Nat, NEW led, DOMAIN led = 1 .. n,
         \A k \in 1 .. n : led[k].delta \in Manifest
  PROVE  \A k \in 1 .. n : ExpandedOf(led)[k] \in Manifest
<1> DEFINE Bad == {k \in 1 .. n : ExpandedOf(led)[k] \notin Manifest}
<1>1. ASSUME Bad # {} PROVE FALSE
  <2>1. Bad \in SUBSET Nat
    OBVIOUS
  <2>2. PICK k \in Bad : \A j \in Bad : k <= j
    <3> HIDE DEF Bad
    <3> QED
      BY <1>1, <2>1, LeastRow
  <2>3. ExpandedOf(led)[k] = Merge(From(led, ExpandedOf(led), k), led[k].delta)
    BY <2>2, ExpandedStep DEF Inherits
  <2>4. \A j \in 1 .. k - 1 : ExpandedOf(led)[j] \in Manifest
    BY <2>2
  <2>5. From(led, ExpandedOf(led), k) \in Manifest
    <3>1. Earlier(led, k) # {} => Source(led, k) \in 1 .. k - 1
      <4>1. k \in 1 .. n
        BY <2>2
      <4> QED
        BY <4>1, SourceBelow
    <3> QED
      BY <2>4, <3>1, ManifestTypes DEF From
  <2>6. ExpandedOf(led)[k] \in Manifest
    BY <2>2, <2>3, <2>5, ManifestTypes
  <2> QED
    BY <2>2, <2>6
<1> QED
  BY <1>1

\* Logging a row as a delta against what it inherits loses nothing.
LEMMA DeltaMerges ==
  ASSUME NEW base \in Manifest, NEW refs \in Manifest
  PROVE  /\ Merge(base, Delta(base, refs)) = Merge(base, refs)
         /\ \A p \in Paths : refs[p] # None => refs[p] = Merge(base, refs)[p]
         /\ Items(base) = base
<1>1. ASSUME NEW p \in Paths
      PROVE  Merge(base, Delta(base, refs))[p] = Merge(base, refs)[p]
  BY DEF Merge, Delta
<1>2. Merge(base, Delta(base, refs)) = Merge(base, refs)
  BY <1>1 DEF Merge
<1>3. Items(base) = base
  <2>1. base = [p \in Paths |-> base[p]] /\ \A p \in Paths : base[p] \in Bodies \cup {None}
    BY DEF Manifest
  <2>2. ASSUME NEW p \in Paths PROVE (IF base[p] \in Bodies THEN base[p] ELSE None) = base[p]
    BY <2>1
  <2> QED
    BY <2>1, <2>2 DEF Items
<1> QED
  BY <1>2, <1>3 DEF Merge

\* What the next row of a response inherits.
Base(r) == IF Lines(r) = {} THEN NoManifest ELSE Expanded[LatestLine(r)]

(* A cached manifest is what its row expands to, a prepared row is logged   *)
(* against what it will inherit, and a written one expands to the manifest  *)
(* that its writer is going to publish.                                     *)
ManifestsFit ==
    /\ \A r \in Responses : index.entries[r] # None =>
          index.entries[r].man = Expanded[index.entries[r].off]
    /\ \A w \in Writers :
          /\ pc[w] \in {"prepared", "writing"} =>
               \A r \in Responses : row[w].rid = r =>
                  /\ row[w].delta = Delta(Base(r), row[w].refs)
                  /\ man[w] = Merge(Base(r), row[w].refs)
          /\ pc[w] \in {"written", "synced"} => man[w] = Expanded[Len(ledger)]

LEMMA ManifestFacts ==
  ASSUME IInv
  PROVE  /\ \A k \in 1 .. Len(ledger) : /\ Expanded[k] \in Manifest
                                        /\ ledger[k].refs \in Manifest
         /\ \A r \in Responses : Base(r) \in Manifest
         /\ man \in [Writers -> Manifest]
         /\ \A w \in Writers : /\ pc[w] \in Holding => row[w].refs \in Manifest
                               /\ pc[w] # "idle" => job[w].refs \in Manifest
<1>1. /\ ledger \in Seq(Line) /\ Len(ledger) \in Nat /\ DOMAIN ledger = 1 .. Len(ledger)
      /\ \A w \in Writers : /\ pc[w] \in Holding => row[w] \in Line
                            /\ pc[w] # "idle" => job[w] \in Job
  BY LedgerFacts
<1>2. \A k \in 1 .. Len(ledger) : ledger[k].delta \in Manifest /\ ledger[k].refs \in Manifest
  <2>1. \A k \in 1 .. Len(ledger) : ledger[k] \in Line
    BY <1>1
  <2> QED
    BY <2>1 DEF Line
<1>3. \A k \in 1 .. Len(ledger) : Expanded[k] \in Manifest
  BY <1>1, <1>2, ExpandedIs, ExpandedTyped
<1>4. ASSUME NEW r \in Responses PROVE Base(r) \in Manifest
  BY <1>1, <1>3, LatestFacts, ManifestTypes DEF Base
<1>5. man \in [Writers -> Manifest]
  BY DEF IInv, TypeOK
<1>6. \A w \in Writers : /\ pc[w] \in Holding => row[w].refs \in Manifest
                         /\ pc[w] # "idle" => job[w].refs \in Manifest
  BY <1>1 DEF Line, Job
<1> QED
  BY <1>2, <1>3, <1>4, <1>5, <1>6

\* Under the lock an append inherits what a scan would give it, whether it takes
\* the manifest from the index or from the rows.
LEMMA ParentManifest ==
  ASSUME IInv, Whole, ChainInv, AllFresh, ManifestsFit, lock = None, NEW r \in Responses
  PROVE  ParentRow(r, index).man = Base(r)
<1>1. CASE Lines(r) = {}
  <2>1. index.entries[r] = None
    BY <1>1, EntryRow DEF ChainInv
  <2> QED
    BY <1>1, <2>1 DEF ParentRow, Base
<1>2. CASE Lines(r) # {}
  <2>1. IsFresh(r)
    BY <1>2, FreeLock DEF AllFresh
  <2>2. index.entries[r].man = Expanded[LatestLine(r)] /\ index.entries[r] # None
    BY <2>1 DEF IsFresh, ManifestsFit
  <2>3. LatestLine(r) \in 1 .. Len(ledger)
    BY <1>2, LedgerFacts, LatestFacts
  <2>4. Items(Expanded[LatestLine(r)]) = Expanded[LatestLine(r)]
    BY <2>3, ManifestFacts, DeltaMerges
  <2> QED
    BY <1>2, <2>2, <2>4 DEF ParentRow, Base
<1> QED
  BY <1>1, <1>2

LEMMA SameManifests ==
  ASSUME ledger' = ledger
  PROVE  Expanded' = Expanded /\ \A r : Base(r)' = Base(r)
<1>1. Expanded' = Expanded
  BY ExpandedIs
<1>2. \A r : Lines(r)' = Lines(r) /\ LatestLine(r)' = LatestLine(r)
  BY SameRows
<1> QED
  BY <1>1, <1>2 DEF Base

\* The row that is written expands to the manifest its writer has computed.
LEMMA WrittenManifest ==
  ASSUME IInv, Whole, ChainInv, ManifestsFit, NEW w \in Writers, FinishWrite(w)
  PROVE  /\ \A k \in 1 .. Len(ledger) : Expanded'[k] = Expanded[k] /\ ledger'[k] = ledger[k]
         /\ Expanded'[Len(ledger) + 1] = man[w]
         /\ ledger'[Len(ledger) + 1] = row[w] /\ Len(ledger') = Len(ledger) + 1
         /\ \A p \in Paths : row[w].refs[p] # None => row[w].refs[p] = man[w][p]
<1> DEFINE n == Len(ledger)
           k == n + 1
<1>0. PICK q \in Responses : row[w].rid = q
  BY LedgerFacts DEF FinishWrite, Holding
<1>1. /\ pc[w] = "writing" /\ row[w] \in Line /\ ~row[w].glued
      /\ ledger' = Append(ledger, row[w]) /\ ledger \in Seq(Line)
  BY LedgerFacts DEF FinishWrite, Holding, Whole
<1>2. /\ row[w].seq = Cardinality(Lines(q)) + 1 /\ row[w].parent = row[w].seq - 1
      /\ row[w].delta = Delta(Base(q), row[w].refs)
      /\ man[w] = Merge(Base(q), row[w].refs)
  BY <1>0, <1>1 DEF ChainInv, RowsFit, ManifestsFit, Holding
<1>3. /\ Len(ledger') = k /\ n \in Nat /\ DOMAIN ledger = 1 .. n /\ DOMAIN ledger' = 1 .. k
      /\ \A i \in 1 .. n : ledger'[i] = ledger[i]
      /\ ledger'[k] = row[w] /\ Lines(q) \subseteq 1 .. n
      /\ Lines(q)' = Lines(q) \cup {k}
  <2>1. PICK line : line = row[w]
    OBVIOUS
  <2>2. line \in Line /\ ~line.glued /\ line.rid = q /\ ledger' = Append(ledger, line)
    BY <1>0, <1>1, <2>1
  <2>3. /\ Len(ledger') = k /\ n \in Nat /\ DOMAIN ledger = 1 .. n /\ DOMAIN ledger' = 1 .. k
        /\ \A i \in 1 .. n : ledger'[i] = ledger[i]
        /\ ledger'[k] = line
        /\ \A r : /\ Lines(r) \subseteq 1 .. n
                  /\ Lines(r)' = IF r = line.rid THEN Lines(r) \cup {k} ELSE Lines(r)
    BY <1>1, <2>2, AppendedLines
  <2> HIDE DEF n, k
  <2> QED
    BY <2>1, <2>2, <2>3
<1>4. \A i \in 1 .. n : Expanded'[i] = Expanded[i]
  <2>1. n <= k /\ k \in Nat
    BY <1>3
  <2> HIDE DEF n, k
  <2> QED
    BY <1>3, <2>1, ExpandedIs, ExpandedLocal
<1>5. Expanded'[k] = Merge(From(ledger', Expanded', k), row[w].delta)
  <2>1. k \in Nat /\ k \in 1 .. k
    BY <1>3
  <2> HIDE DEF k
  <2> QED
    BY <1>3, <2>1, ExpandedIs, ExpandedStep DEF Inherits
<1>6. Earlier(ledger', k) = Lines(q)
  <2>1. Earlier(ledger', k) = {j \in Lines(q)' : j < k}
    BY <1>3 DEF Earlier, Lines
  <2>2. \A j \in 1 .. n : j < k
    BY <1>3
  <2>3. ~(k < k)
    BY <1>3
  <2> HIDE DEF n, k
  <2> QED
    BY <1>3, <2>1, <2>2, <2>3
<1>7. From(ledger', Expanded', k) = Base(q)
  <2>1. LatestSeq(q) = Cardinality(Lines(q)) /\ Cardinality(Lines(q)) \in Nat
    BY <1>1, LatestCounts, SomeRows DEF ChainInv
  <2>2. CASE Lines(q) = {}
    BY <1>6, <2>2 DEF From, Base
  <2>3. CASE Lines(q) # {}
    <3>1. /\ LatestLine(q) \in Lines(q) /\ \A j \in Lines(q) : j <= LatestLine(q)
          /\ LatestSeq(q) = ledger[LatestLine(q)].seq /\ LatestLine(q) \in 1 .. n
      BY <1>1, <1>3, <2>3, LatestFacts
    <3>2. Cardinality(Lines(q)) # 0
      BY <1>1, <2>3, SomeRows, FS_EmptySet
    <3>3. row[w].parent = LatestSeq(q) /\ row[w].parent # 0
      BY <1>2, <2>1, <3>2
    <3>4. LatestLine(q) \in Named(ledger', k) /\ Named(ledger', k) \subseteq Lines(q)
      BY <1>3, <1>6, <3>1, <3>3 DEF Named
    <3>5. Greatest(Named(ledger', k)) = LatestLine(q)
      <4>1. PICK S : S = Named(ledger', k)
        OBVIOUS
      <4>2. /\ S \in SUBSET (0 .. n) /\ S # {} /\ LatestLine(q) \in S
            /\ \A j \in S : j <= LatestLine(q)
        BY <1>3, <3>1, <3>4, <4>1
      <4>3. Greatest(S) \in S /\ \A j \in S : j <= Greatest(S)
        BY <1>3, <4>2, GreatestIsMaximum
      <4>4. Greatest(S) \in 0 .. n /\ LatestLine(q) \in 0 .. n
        BY <4>2, <4>3
      <4> QED
        BY <4>1, <4>2, <4>3, <4>4
    <3>6. Source(ledger', k) = LatestLine(q)
      BY <3>4, <3>5 DEF Source
    <3>7. From(ledger', Expanded', k) = Expanded'[LatestLine(q)]
      BY <1>3, <1>6, <2>3, <3>3, <3>6 DEF From
    <3> QED
      BY <1>4, <2>3, <3>1, <3>7 DEF Base
  <2> QED
    BY <2>2, <2>3
<1>8. Base(q) \in Manifest /\ row[w].refs \in Manifest
  BY <1>1, ManifestFacts DEF Holding
<1> QED
  BY <1>2, <1>3, <1>4, <1>5, <1>7, <1>8, DeltaMerges


\* A step that leaves the rows, the entries and what the writers hold alone.
LEMMA QuietManifests ==
  ASSUME ManifestsFit, BodiesRestorable,
         ledger' = ledger, index'.entries = index.entries,
         \A w \in Writers :
            /\ pc'[w] \in {"prepared", "writing"} =>
                 pc[w] \in {"prepared", "writing"} /\ row'[w] = row[w] /\ man'[w] = man[w]
            /\ pc'[w] \in {"written", "synced"} =>
                 pc[w] \in {"written", "synced"} /\ man'[w] = man[w]
  PROVE  ManifestsFit' /\ BodiesRestorable'
<1>1. Expanded' = Expanded /\ \A r : Base(r)' = Base(r)
  BY SameManifests
<1>2. ManifestsFit'
  BY <1>1 DEF ManifestsFit
<1>3. BodiesRestorable'
  BY <1>1 DEF BodiesRestorable, Restorable
<1> QED
  BY <1>2, <1>3

LEMMA PrepareManifest ==
  ASSUME IInv, Whole, ChainInv, AllFresh, ManifestsFit, BodiesRestorable,
         NEW w \in Writers, Prepare(w)
  PROVE  ManifestsFit' /\ BodiesRestorable'
<1>1. /\ UNCHANGED <<ledger, index>> /\ lock = None
      /\ pc[w] = "ready" /\ pc'[w] = "prepared"
      /\ \A v \in Writers \ {w} : pc'[v] = pc[v] /\ row'[v] = row[v] /\ man'[v] = man[v]
  BY LedgerFacts, ManifestFacts DEF Prepare, disk
<1>2. PICK j \in Job : j = Enrich(job[w], PriorSeq(job[w].rid, index))
  BY <1>1, LedgerFacts, PriorSeqType, EnrichType
<1>3. PICK q \in Responses : q = j.rid
  BY DEF Job
<1>4. ParentRow(q, index).man = Base(q)
  BY <1>1, ParentManifest
<1>5. /\ row'[w].rid = q /\ row'[w].refs = j.refs
      /\ row'[w].delta = Delta(Base(q), j.refs)
      /\ man'[w] = Merge(Base(q), j.refs)
  BY <1>2, <1>3, <1>4, LedgerFacts, ManifestFacts DEF Prepare
<1>6. Expanded' = Expanded /\ \A r : Base(r)' = Base(r)
  BY <1>1, SameManifests
<1>7. ManifestsFit'
  <2>1. \A r \in Responses : index'.entries[r] # None =>
          index'.entries[r].man = Expanded[index'.entries[r].off]
    BY <1>1 DEF ManifestsFit
  <2>2. ASSUME NEW v \in Writers, NEW r \in Responses,
               pc'[v] \in {"prepared", "writing"}, row'[v].rid = r
        PROVE  row'[v].delta = Delta(Base(r), row'[v].refs) /\ man'[v] = Merge(Base(r), row'[v].refs)
    <3>1. CASE v = w
      BY <1>5, <2>2, <3>1
    <3>2. CASE v # w
      BY <1>1, <2>2, <3>2 DEF ManifestsFit
    <3> QED
      BY <3>1, <3>2
  <2>3. ASSUME NEW v \in Writers, pc'[v] \in {"written", "synced"}
        PROVE  man'[v] = Expanded[Len(ledger)]
    BY <1>1, <2>3 DEF ManifestsFit
  <2> QED
    BY <1>1, <1>6, <2>1, <2>2, <2>3 DEF ManifestsFit
<1>8. BodiesRestorable'
  BY <1>1, <1>6 DEF BodiesRestorable, Restorable
<1> QED
  BY <1>7, <1>8

LEMMA FinishManifest ==
  ASSUME IInv, Whole, ChainInv, ManifestsFit, BodiesRestorable,
         NEW w \in Writers, FinishWrite(w)
  PROVE  ManifestsFit' /\ BodiesRestorable'
<1> DEFINE n == Len(ledger)
<1>1. /\ \A k \in 1 .. n : Expanded'[k] = Expanded[k] /\ ledger'[k] = ledger[k]
      /\ Expanded'[n + 1] = man[w]
      /\ ledger'[n + 1] = row[w] /\ Len(ledger') = n + 1
      /\ \A p \in Paths : row[w].refs[p] # None => row[w].refs[p] = man[w][p]
  BY WrittenManifest
<1>2. /\ UNCHANGED <<index, man, row>> /\ pc[w] = "writing" /\ pc'[w] = "written"
      /\ \A v \in Writers \ {w} : pc'[v] = pc[v] /\ pc[v] \notin Holding
  BY LedgerFacts DEF FinishWrite, Holding
<1>3. /\ n \in Nat /\ DOMAIN ledger = 1 .. n /\ DOMAIN ledger' = 1 .. (n + 1)
  BY LedgerFacts, AppendedLines DEF FinishWrite, Whole, Holding
<1>4. \A r \in Responses : index'.entries[r] # None =>
        index'.entries[r].man = Expanded'[index'.entries[r].off]
  <2>1. ASSUME NEW r \in Responses, index.entries[r] # None
        PROVE  index.entries[r].off \in 1 .. n
    <3>1. synced \in 0 .. n /\ index.entries[r].off \in 1 .. synced
      BY <2>1 DEF IInv, TypeOK, ChainInv, IndexRows
    <3> QED
      BY <1>3, <3>1
  <2> QED
    BY <1>1, <1>2, <2>1 DEF ManifestsFit
<1>5. ManifestsFit'
  BY <1>1, <1>2, <1>4 DEF ManifestsFit, Holding
<1>6. ASSUME NEW k \in 1 .. (n + 1) PROVE Restorable(k, Expanded[k])'
  <2>1. CASE k \in 1 .. n
    <3>1. ~ledger[k].glued
      BY <1>3, <2>1 DEF Whole
    <3>2. Restorable(k, Expanded[k])
      BY <1>3, <2>1, <3>1 DEF BodiesRestorable
    <3> QED
      BY <1>1, <2>1, <3>2 DEF Restorable
  <2>2. CASE k \notin 1 .. n
    <3>1. k = n + 1
      BY <1>3, <2>2
    <3> QED
      BY <1>1, <3>1 DEF Restorable
  <2> QED
    BY <2>1, <2>2
<1>7. BodiesRestorable'
  BY <1>3, <1>6 DEF BodiesRestorable
<1> QED
  BY <1>5, <1>7

LEMMA PublishManifest ==
  ASSUME IInv, Whole, ChainInv, ManifestsFit, BodiesRestorable,
         NEW w \in Writers, Publish(w)
  PROVE  ManifestsFit' /\ BodiesRestorable'
<1>1. PICK q \in Responses : q = row[w].rid
  BY PublishFacts DEF Line
<1>2. /\ index'.entries[q] # None /\ index'.entries[q].off = Len(ledger)
      /\ index'.entries[q].man = man[w]
      /\ \A r \in Responses \ {q} : index'.entries[r] = index.entries[r]
  BY <1>1, PublishedIndex
<1>3. /\ ledger' = ledger /\ pc[w] = "synced" /\ pc'[w] = "idle"
      /\ \A v \in Writers \ {w} : /\ pc'[v] = pc[v] /\ pc[v] \notin Holding
  BY LedgerFacts DEF Publish, Leave, Holding
<1>4. Expanded' = Expanded /\ \A r : Base(r)' = Base(r)
  BY <1>3, SameManifests
<1>5. \A r \in Responses : index'.entries[r] # None =>
        index'.entries[r].man = Expanded[index'.entries[r].off]
  BY <1>2, <1>3 DEF ManifestsFit
<1>6. \A v \in Writers : pc'[v] \notin Holding
  BY <1>3 DEF Holding
<1>7. ManifestsFit'
  BY <1>4, <1>5, <1>6 DEF ManifestsFit, Holding
<1>8. BodiesRestorable'
  BY <1>3, <1>4 DEF BodiesRestorable, Restorable
<1> QED
  BY <1>7, <1>8

LEMMA ManifestsPreserved ==
  ASSUME NoFaults, IInv, Whole, ChainInv, AllFresh, ManifestsFit, BodiesRestorable,
         [Next]_vars
  PROVE  ManifestsFit' /\ BodiesRestorable'
<1>1. ~Crash /\ ~LoseIndex /\ \A w \in Writers : ~Fail(w)
  BY NothingFails
<1>2. ASSUME NEW w \in Writers,
             \/ BeginInitial(w) \/ BeginSuccessor(w) \/ EnrichUnlocked(w)
             \/ Refuse(w) \/ StartWrite(w) \/ Fsync(w)
      PROVE  ManifestsFit' /\ BodiesRestorable'
  <2>1. UNCHANGED <<ledger, index>>
    BY <1>2 DEF BeginInitial, BeginSuccessor, EnrichUnlocked, Refuse, StartWrite, Fsync, disk
  <2>2. \A v \in Writers :
            /\ pc'[v] \in {"prepared", "writing"} =>
                 pc[v] \in {"prepared", "writing"} /\ row'[v] = row[v] /\ man'[v] = man[v]
            /\ pc'[v] \in {"written", "synced"} =>
                 pc[v] \in {"written", "synced"} /\ man'[v] = man[v]
    BY <1>2, LedgerFacts, ManifestFacts DEF BeginInitial, BeginSuccessor, EnrichUnlocked,
                             Refuse, StartWrite, Fsync, Leave
  <2> QED
    BY <2>1, <2>2, QuietManifests
<1>3. ASSUME \/ Attest \/ UNCHANGED vars
             \/ \E d \in Readers : Ask(d) \/ ReaderStep(d)
      PROVE  ManifestsFit' /\ BodiesRestorable'
  <2>1. UNCHANGED <<ledger, pc, row, man>>
    BY <1>3 DEF Attest, Ask, ReaderStep, LoadIndex, LookUp, Confirm, vars, disk, writer
  <2>2. index'.entries = index.entries
    <3>1. CASE Attest
      BY <3>1, LedgerFacts DEF Attest, Index
    <3>2. CASE ~Attest
      BY <1>3, <3>2 DEF Ask, ReaderStep, LoadIndex, LookUp, Confirm, vars, disk
    <3> QED
      BY <3>1, <3>2
  <2> QED
    BY <2>1, <2>2, QuietManifests
<1> QED
  BY <1>1, <1>2, <1>3, PrepareManifest, FinishManifest, PublishManifest DEF Next, WriterStep

LEMMA ManifestInvariance == NoFaults => (Spec => [](IInv /\ ManifestsFit /\ BodiesRestorable))
<1> SUFFICES ASSUME NoFaults PROVE Spec => [](IInv /\ ManifestsFit /\ BodiesRestorable)
  OBVIOUS
<1>1. Init => ManifestsFit /\ BodiesRestorable
  <2> SUFFICES ASSUME Init PROVE ManifestsFit /\ BodiesRestorable
    OBVIOUS
  <2>1. /\ DOMAIN ledger = {} /\ \A r \in Responses : index.entries[r] = None
        /\ \A w \in Writers : pc[w] = "idle"
    BY DEF Init, NoIndex
  <2> QED
    BY <2>1 DEF ManifestsFit, BodiesRestorable
<1>2. /\ IInv /\ Whole /\ ChainInv /\ AllFresh
      /\ ManifestsFit /\ BodiesRestorable /\ [Next]_vars
      => ManifestsFit' /\ BodiesRestorable'
  BY ManifestsPreserved
<1> QED
  BY FreshInvariance, <1>1, <1>2, PTL DEF Spec

\* A row logs only what differs from the frame it follows; while nothing fails,
\* expanding the rows gives every frame back all the refs it was written with,
\* however long the chain and whichever threads wrote it.  (Across a crash this
\* is false: a row may be logged against the manifest of a stale entry.)
THEOREM BodiesComeBack == NoFaults => (Spec => []BodiesRestorable)
BY ManifestInvariance, PTL

\* While nothing fails, the manifest an index entry caches is what the rows of
\* the file expand to, so recovery may use either.
THEOREM CachedManifestsRight == NoFaults => (Spec => []IndexedManifestIsExpanded)
<1> SUFFICES ASSUME NoFaults PROVE Spec => []IndexedManifestIsExpanded
  OBVIOUS
<1>1. ManifestsFit => IndexedManifestIsExpanded
  BY DEF ManifestsFit, IndexedManifestIsExpanded
<1> QED
  BY ManifestInvariance, <1>1, PTL

-----------------------------------------------------------------------------
(* The refinement of FrameLineage.  No number is left out, and the file is  *)
(* on disk except for the row whose writer has not called fsync yet.        *)

NoGaps ==
    \A r \in Responses : \A n \in 1 .. Cardinality(Lines(r)) :
        \E k \in Lines(r) : ledger[k].seq = n

SyncedRows ==
    synced = IF \E w \in Writers : pc[w] = "written" THEN Len(ledger) - 1 ELSE Len(ledger)

\* The n-th frame of a response is the one with the number n.
LEMMA NthFrame ==
  ASSUME IInv, FramesFormOneChain, NoGaps,
         NEW r \in Responses, NEW n \in 1 .. Cardinality(Lines(r))
  PROVE  Nth(Lines(r), n) \in Lines(r) /\ ledger[Nth(Lines(r), n)].seq = n
<1>1. PICK k \in Lines(r) : Cardinality({j \in Lines(r) : j <= k}) = n
  BY DEF NoGaps, FramesFormOneChain
<1>2. /\ Nth(Lines(r), n) \in Lines(r)
      /\ Cardinality({j \in Lines(r) : j <= Nth(Lines(r), n)}) = n
  BY <1>1, Zenon DEF Nth
<1> QED
  BY <1>2 DEF FramesFormOneChain

\* The last row is the last frame of its response, and without it the earlier
\* frames keep their places.
LEMMA NthBeforeLast ==
  ASSUME IInv, FramesFormOneChain, NoGaps, NEW r \in Responses, Len(ledger) \in Lines(r)
  PROVE  LET m    == Len(ledger)
             rest == Lines(r) \ {m}
         IN  /\ Cardinality(rest) \in Nat /\ Cardinality(Lines(r)) = Cardinality(rest) + 1
             /\ \A n \in 1 .. Cardinality(rest) : Nth(rest, n) = Nth(Lines(r), n)
             /\ Nth(Lines(r), Cardinality(rest) + 1) = m
<1> DEFINE m    == Len(ledger)
           L    == Lines(r)
           rest == L \ {m}
           c    == Cardinality(rest)
<1>1. L \subseteq 1 .. m /\ m \in Nat /\ m \in L
  BY LedgerFacts, LatestFacts
<1>2. IsFiniteSet(L) /\ IsFiniteSet(rest) /\ c \in Nat /\ Cardinality(L) \in Nat
  <2>1. rest \subseteq L
    OBVIOUS
  <2> QED
    BY <2>1, LedgerFacts, SomeRows
<1>3. Cardinality(L) = c + 1
  <2>1. L = rest \cup {m} /\ m \notin rest
    BY <1>1
  <2> HIDE DEF rest, L
  <2> QED
    BY <1>2, <2>1, FS_AddElement
<1>4. {j \in L : j <= m} = L
  BY <1>1
<1>5. ASSUME NEW n \in 1 .. c PROVE Nth(rest, n) = Nth(L, n)
  <2>1. ASSUME NEW k \in rest PROVE {j \in rest : j <= k} = {j \in L : j <= k}
    BY <1>1, <2>1
  <2>2. n # Cardinality({j \in L : j <= m})
    <3>1. n # Cardinality(L)
      <4> HIDE DEF L, c
      <4> QED
        BY <1>2, <1>3
    <3> QED
      BY <1>4, <3>1
  <2>3. \A k : (k \in rest /\ Cardinality({j \in rest : j <= k}) = n)
                 <=> (k \in L /\ Cardinality({j \in L : j <= k}) = n)
    <3> SUFFICES ASSUME NEW k
                 PROVE  (k \in rest /\ Cardinality({j \in rest : j <= k}) = n)
                           <=> (k \in L /\ Cardinality({j \in L : j <= k}) = n)
      OBVIOUS
    <3>1. CASE k \in rest
      <4>1. k \in L
        BY <3>1
      <4> HIDE DEF rest, L
      <4> QED
        BY <2>1, <3>1, <4>1
    <3>2. CASE k \notin rest
      <4>1. k \in L => k = m
        BY <3>2
      <4> HIDE DEF rest, L
      <4> QED
        BY <2>2, <3>2, <4>1
    <3> QED
      BY <3>1, <3>2
  <2> HIDE DEF rest, L
  <2> QED
    BY <2>3, Zenon DEF Nth
<1>6. Nth(L, c + 1) = m
  <2> DEFINE k == Nth(L, c + 1)
             upTo == {j \in L : j <= k}
  <2>1. k \in L /\ ledger[k].seq = c + 1
    BY <1>2, <1>3, NthFrame
  <2>2. Cardinality(upTo) = c + 1
    BY <2>1 DEF FramesFormOneChain
  <2>3. upTo \subseteq L
    OBVIOUS
  <2>4. upTo = L
    <3> HIDE DEF upTo, L, k, c
    <3> QED
      BY <1>2, <1>3, <2>2, <2>3, FS_Subset
  <2>5. m <= k
    BY <1>1, <2>4
  <2>6. k \in 1 .. m
    BY <1>1, <2>1
  <2>7. k = m
    <3> HIDE DEF k, m
    <3> QED
      BY <1>1, <2>5, <2>6
  <2> QED
    BY <2>7
<1> QED
  BY <1>2, <1>3, <1>5, <1>6

\* Only the end of a write, its fsync and a crash move the file.
LEMMA FileSteps ==
  ASSUME CrashesOnly, IInv, ChainInv, [Next]_vars
  PROVE  \/ /\ UNCHANGED <<ledger, synced>>
            /\ \A w \in Writers : pc'[w] = "written" <=> pc[w] = "written"
         \/ \E w \in Writers : FinishWrite(w)
         \/ \E w \in Writers : Fsync(w)
         \/ Crash
<1>1. ~LoseIndex /\ \A w \in Writers : ~Fail(w)
  BY OnlyCrashes
<1>2. ASSUME NEW w \in Writers,
             \/ BeginInitial(w) \/ BeginSuccessor(w) \/ EnrichUnlocked(w) \/ Prepare(w)
             \/ Refuse(w) \/ StartWrite(w) \/ Publish(w)
      PROVE  /\ UNCHANGED <<ledger, synced>>
             /\ \A v \in Writers : pc'[v] = "written" <=> pc[v] = "written"
  BY <1>2, LedgerFacts DEF BeginInitial, BeginSuccessor, EnrichUnlocked, Prepare, Refuse,
     StartWrite, Publish, Leave, disk
<1>3. ASSUME \/ Attest \/ UNCHANGED vars
             \/ \E d \in Readers : Ask(d) \/ ReaderStep(d)
      PROVE  UNCHANGED <<ledger, synced, pc>>
  BY <1>3 DEF Attest, Ask, ReaderStep, LoadIndex, LookUp, Confirm, vars, disk, writer
<1> QED
  BY <1>1, <1>2, <1>3 DEF Next, WriterStep

\* The row that is being written is the only one that is not on disk.
LEMMA WrittenRow ==
  ASSUME IInv, SyncedRows
  PROVE  /\ synced \in Nat /\ Len(ledger) \in Nat
         /\ \A w \in Writers :
              /\ pc[w] = "writing" => synced = Len(ledger)
              /\ pc[w] = "written" => /\ synced = Len(ledger) - 1 /\ Len(ledger) \in DOMAIN ledger
                                      /\ ledger[Len(ledger)] = row[w] /\ row[w].rid \in Responses
<1>1. synced \in Nat /\ Len(ledger) \in Nat
  BY LedgerFacts DEF IInv, TypeOK
<1>2. ASSUME NEW w \in Writers, pc[w] = "writing" PROVE synced = Len(ledger)
  <2>1. \A v \in Writers : pc[v] # "written"
    BY <1>2, LedgerFacts DEF Holding
  <2> QED
    BY <2>1 DEF SyncedRows
<1>3. ASSUME NEW w \in Writers, pc[w] = "written"
      PROVE  /\ synced = Len(ledger) - 1 /\ Len(ledger) \in DOMAIN ledger
             /\ ledger[Len(ledger)] = row[w] /\ row[w].rid \in Responses
  <2>1. ledger # <<>> /\ ledger[Len(ledger)] = row[w] /\ row[w].rid \in Responses
    BY <1>3, LedgerFacts DEF Holding, IInv, WritersOK
  <2>2. synced = Len(ledger) - 1
    BY <1>3 DEF SyncedRows
  <2>3. Len(ledger) \in DOMAIN ledger
    <3>1. ledger \in Seq(Line)
      BY LedgerFacts
    <3> QED
      BY <2>1, <3>1
  <2> QED
    BY <2>1, <2>2, <2>3
<1> QED
  BY <1>1, <1>2, <1>3

\* A crash either leaves the whole file, with the row that was being written on
\* disk after all, or takes that row back.
LEMMA CrashFile ==
  ASSUME IInv, SyncedRows, Crash
  PROVE  /\ \A w \in Writers : pc'[w] = "idle"
         /\ \/ ledger' = ledger /\ synced' = Len(ledger)
            \/ /\ ledger' = SubSeq(ledger, 1, Len(ledger) - 1)
               /\ synced' = synced /\ synced = Len(ledger) - 1
               /\ synced \in Nat /\ Len(ledger) \in Nat
<1>1. /\ ledger \in Seq(Line) /\ Len(ledger) \in Nat
      /\ synced \in Nat /\ synced \in {Len(ledger) - 1, Len(ledger)}
  BY WrittenRow, LedgerFacts DEF SyncedRows
<1>2. PICK n \in synced .. Len(ledger) : ledger' = SubSeq(ledger, 1, n) /\ synced' = n
  BY DEF Crash
<1>3. \A w \in Writers : pc'[w] = "idle"
  BY DEF Crash
<1>4. n = Len(ledger) \/ (n = Len(ledger) - 1 /\ synced = Len(ledger) - 1)
  BY <1>1, <1>2
<1>5. SubSeq(ledger, 1, Len(ledger)) = ledger
  BY <1>1
<1> QED
  BY <1>1, <1>2, <1>3, <1>4, <1>5

\* Without its last row the file is a ledger like any other.
LEMMA LastRowTakenBack ==
  ASSUME IInv, FramesFormOneChain, CasParentWasCurrent, NoGaps,
         Len(ledger) - 1 \in Nat, ledger' = SubSeq(ledger, 1, Len(ledger) - 1)
  PROVE  /\ Len(ledger') = Len(ledger) - 1
         /\ \A k \in 1 .. Len(ledger) - 1 : ledger'[k] = ledger[k]
         /\ \A r \in Responses :
              /\ Lines(r)' = Lines(r) \ {Len(ledger)} /\ Lines(r)' \subseteq 1 .. Len(ledger) - 1
              /\ \A n \in 1 .. Cardinality(Lines(r)') :
                   Nth(Lines(r)', n) \in Lines(r)' /\ ledger[Nth(Lines(r)', n)].seq = n
<1> DEFINE m == Len(ledger)
<1>1. ledger \in Seq(Line) /\ m \in Nat /\ m - 1 \in 0 .. m
  BY LedgerFacts
<1>2. /\ Len(ledger') = m - 1 /\ \A k \in 1 .. m - 1 : ledger'[k] = ledger[k]
      /\ \A r : Lines(r)' = {k \in Lines(r) : k <= m - 1}
  BY <1>1, PrefixKeeps
<1>3. ASSUME NEW r \in Responses
      PROVE  Lines(r)' = Lines(r) \ {m} /\ Lines(r)' \subseteq 1 .. m - 1
  <2>1. Lines(r) \subseteq 1 .. m
    BY <1>1, LatestFacts
  <2> HIDE DEF m
  <2> QED
    BY <1>1, <1>2, <2>1
<1>4. ASSUME NEW r \in Responses, NEW n \in 1 .. Cardinality(Lines(r)')
      PROVE  Nth(Lines(r)', n) \in Lines(r)' /\ ledger[Nth(Lines(r)', n)].seq = n
  <2>1. CASE m \notin Lines(r)
    <3>1. Lines(r)' = Lines(r)
      BY <1>3, <2>1
    <3>2. n \in 1 .. Cardinality(Lines(r))
      BY <1>4, <3>1
    <3> QED
      BY <3>1, <3>2, NthFrame
  <2>2. CASE m \in Lines(r)
    <3> DEFINE rest == Lines(r) \ {m}
               c == Cardinality(rest)
    <3>1. /\ c \in Nat /\ Cardinality(Lines(r)) = c + 1
          /\ \A i \in 1 .. c : Nth(rest, i) = Nth(Lines(r), i)
          /\ Nth(Lines(r), c + 1) = m
      BY <2>2, NthBeforeLast
    <3>2. Lines(r)' = rest
      BY <1>3
    <3> HIDE DEF rest
    <3>3. n \in 1 .. c /\ n \in 1 .. Cardinality(Lines(r)) /\ c + 1 \in 1 .. Cardinality(Lines(r))
      BY <1>4, <3>1, <3>2
    <3>4. /\ Nth(Lines(r), n) \in Lines(r) /\ ledger[Nth(Lines(r), n)].seq = n
          /\ ledger[m].seq = c + 1
      BY <3>1, <3>3, NthFrame
    <3>5. Nth(Lines(r), n) # m
      <4>1. n # c + 1
        BY <3>1, <3>3
      <4> QED
        BY <3>4, <4>1
    <3>6. Nth(rest, n) = Nth(Lines(r), n)
      BY <3>1, <3>3
    <3> QED
      BY <3>2, <3>4, <3>5, <3>6 DEF rest
  <2> QED
    BY <2>1, <2>2
<1> QED
  BY <1>2, <1>3, <1>4

LEMMA NoGapsPreserved ==
  ASSUME CrashesOnly, IInv, Whole, ChainInv, NoGaps, SyncedRows, [Next]_vars
  PROVE  NoGaps'
<1>1. CASE ledger' = ledger
  BY <1>1, SameRows DEF NoGaps
<1>2. ASSUME NEW w \in Writers, FinishWrite(w) PROVE NoGaps'
  <2>1. /\ ledger' = Append(ledger, row[w]) /\ row[w] \in Line /\ row[w].rid \in Responses
        /\ ~row[w].glued /\ row[w].seq = Cardinality(Lines(row[w].rid)) + 1
    BY <1>2, LedgerFacts DEF FinishWrite, Whole, ChainInv, RowsFit, Holding
  <2> DEFINE m == Len(ledger) + 1
  <2>2. ASSUME NEW r \in Responses, NEW n \in 1 .. Cardinality(Lines(r)')
        PROVE  \E k \in Lines(r)' : ledger'[k].seq = n
    <3>1. /\ Lines(r) \subseteq 1 .. Len(ledger) /\ Len(ledger) \in Nat
          /\ \A k \in 1 .. Len(ledger) : ledger'[k] = ledger[k]
          /\ ledger'[m] = row[w]
          /\ Lines(r)' = IF r = row[w].rid THEN Lines(r) \cup {m} ELSE Lines(r)
      BY <2>1, LedgerFacts, AppendedLines
    <3>2. CASE n \in 1 .. Cardinality(Lines(r))
      <4>1. PICK k \in Lines(r) : ledger[k].seq = n
        BY <3>2 DEF NoGaps
      <4> QED
        BY <3>1, <4>1
    <3>3. CASE n \notin 1 .. Cardinality(Lines(r))
      <4>1. IsFiniteSet(Lines(r)) /\ Cardinality(Lines(r)) \in Nat
        BY LedgerFacts, SomeRows
      <4>2. r = row[w].rid /\ Lines(r)' = Lines(r) \cup {m} /\ m \notin Lines(r)
        BY <3>1, <3>3
      <4>3. Cardinality(Lines(r)') = Cardinality(Lines(r)) + 1
        BY <4>1, <4>2, FS_AddElement
      <4>4. n = Cardinality(Lines(r)) + 1
        BY <3>3, <4>1, <4>3
      <4> QED
        BY <2>1, <3>1, <4>2, <4>4
    <3> QED
      BY <3>2, <3>3
  <2> QED
    BY <2>2 DEF NoGaps
<1>3. ASSUME NEW w \in Writers, Fsync(w) PROVE ledger' = ledger
  BY <1>3 DEF Fsync
<1>4. ASSUME Crash, ledger' # ledger PROVE NoGaps'
  <2>1. /\ \A k \in 1 .. Len(ledger) - 1 : ledger'[k] = ledger[k]
        /\ \A r \in Responses :
             /\ Lines(r)' \subseteq 1 .. Len(ledger) - 1
             /\ \A n \in 1 .. Cardinality(Lines(r)') :
                  Nth(Lines(r)', n) \in Lines(r)' /\ ledger[Nth(Lines(r)', n)].seq = n
    BY <1>4, CrashFile, LastRowTakenBack DEF ChainInv
  <2>2. ASSUME NEW r \in Responses, NEW n \in 1 .. Cardinality(Lines(r)')
        PROVE  \E k \in Lines(r)' : ledger'[k].seq = n
    <3>1. Nth(Lines(r)', n) \in Lines(r)' /\ ledger[Nth(Lines(r)', n)].seq = n
      BY <2>1
    <3>2. ledger'[Nth(Lines(r)', n)] = ledger[Nth(Lines(r)', n)]
      BY <2>1, <3>1
    <3> QED
      BY <3>1, <3>2
  <2> QED
    BY <2>2 DEF NoGaps
<1> QED
  BY <1>1, <1>2, <1>3, <1>4, FileSteps

LEMMA SyncedPreserved ==
  ASSUME CrashesOnly, IInv, Whole, ChainInv, NoGaps, SyncedRows, [Next]_vars
  PROVE  SyncedRows'
<1>1. ASSUME UNCHANGED <<ledger, synced>>,
             \A w \in Writers : pc'[w] = "written" <=> pc[w] = "written"
      PROVE  SyncedRows'
  BY <1>1 DEF SyncedRows
<1>2. ASSUME NEW w \in Writers, FinishWrite(w) PROVE SyncedRows'
  <2>1. synced' = Len(ledger) /\ pc'[w] = "written"
    BY <1>2, WrittenRow, LedgerFacts DEF FinishWrite
  <2>2. Len(ledger') = Len(ledger) + 1 /\ Len(ledger) \in Nat
    BY <1>2, LedgerFacts, AppendedLines DEF FinishWrite, Whole, Holding
  <2> QED
    BY <2>1, <2>2 DEF SyncedRows
<1>3. ASSUME NEW w \in Writers, Fsync(w) PROVE SyncedRows'
  <2>1. synced' = Len(ledger')
    BY <1>3 DEF Fsync
  <2>2. \A v \in Writers : pc'[v] # "written"
    BY <1>3, LedgerFacts DEF Fsync, Holding
  <2> QED
    BY <2>1, <2>2 DEF SyncedRows
<1>4. ASSUME Crash PROVE SyncedRows'
  <2>1. \A w \in Writers : pc'[w] # "written"
    BY <1>4, CrashFile
  <2>2. CASE ledger' = ledger /\ synced' = Len(ledger)
    BY <2>1, <2>2 DEF SyncedRows
  <2>3. CASE ledger' = SubSeq(ledger, 1, Len(ledger) - 1) /\ synced' = Len(ledger) - 1
             /\ Len(ledger) - 1 \in Nat
    <3>1. ledger \in Seq(Line) /\ Len(ledger) \in Nat
      BY LedgerFacts
    <3>2. Len(ledger') = Len(ledger) - 1
      BY <2>3, LastRowTakenBack DEF ChainInv
    <3> QED
      BY <2>1, <2>3, <3>2 DEF SyncedRows
  <2> QED
    BY <1>4, <2>2, <2>3, CrashFile
<1> QED
  BY <1>1, <1>2, <1>3, <1>4, FileSteps

LEMMA RowFrame ==
  ASSUME IInv, FramesFormOneChain, NEW r \in Responses, NEW k \in Lines(r)
  PROVE  /\ ledger[k].seq \in Nat /\ ledger[k].parent = ledger[k].seq - 1
         /\ ledger[k].refs \in Manifest /\ k \in 1 .. Len(ledger)
<1>1. ledger \in Seq(Line) /\ k \in 1 .. Len(ledger)
  BY LedgerFacts, LatestFacts
<1>2. ledger[k] \in Line
  BY <1>1
<1>3. ledger[k].parent = ledger[k].seq - 1
  BY DEF FramesFormOneChain
<1> QED
  BY <1>1, <1>2, <1>3 DEF Line

\* Writing the bytes of a row changes nothing durable.
LEMMA WriteIsAStutter ==
  ASSUME IInv, Whole, ChainInv, NoGaps, SyncedRows, NEW w \in Writers, FinishWrite(w),
         NEW r \in Responses
  PROVE  Chain(r)' = Chain(r)
<1> DEFINE n == Len(ledger)
<1>1. synced = n /\ synced' = n /\ n \in Nat
  BY WrittenRow DEF FinishWrite
<1>2. /\ Lines(r) \subseteq 1 .. n /\ \A k \in 1 .. n : ledger'[k] = ledger[k]
      /\ Lines(r)' = Lines(r) \/ Lines(r)' = Lines(r) \cup {n + 1}
  BY LedgerFacts, AppendedLines DEF FinishWrite, Whole, Holding
<1>3. Durable(r) = Lines(r) /\ Durable(r)' = Lines(r)
  BY <1>1, <1>2 DEF Durable
<1>4. ASSUME NEW i \in 1 .. Cardinality(Lines(r))
      PROVE  ledger'[Nth(Lines(r), i)] = ledger[Nth(Lines(r), i)]
  BY <1>2, NthFrame DEF ChainInv
<1> HIDE DEF n
<1> QED
  BY <1>3, <1>4 DEF Chain

\* A crash that takes the row back that was being written changes nothing durable.
LEMMA TakingBackIsAStutter ==
  ASSUME IInv, ChainInv, NoGaps, synced' = synced, synced = Len(ledger) - 1, synced \in Nat,
         ledger' = SubSeq(ledger, 1, Len(ledger) - 1), NEW r \in Responses
  PROVE  Chain(r)' = Chain(r)
<1> DEFINE m == Len(ledger)
<1>1. /\ m \in Nat /\ \A k \in 1 .. m - 1 : ledger'[k] = ledger[k]
      /\ Lines(r)' = Lines(r) \ {m} /\ Lines(r)' \subseteq 1 .. m - 1
      /\ \A n \in 1 .. Cardinality(Lines(r)') : Nth(Lines(r)', n) \in Lines(r)'
  BY LedgerFacts, LastRowTakenBack DEF ChainInv
<1>2. Lines(r) \subseteq 1 .. m
  BY LedgerFacts, LatestFacts
<1>3. PICK L : L = Lines(r)'
  OBVIOUS
<1> HIDE DEF m
<1>4. Durable(r) = L /\ Durable(r)' = L
  BY <1>1, <1>2, <1>3 DEF Durable, m
<1>5. ASSUME NEW n \in 1 .. Cardinality(L)
      PROVE  ledger'[Nth(L, n)] = ledger[Nth(L, n)]
  BY <1>1, <1>3
<1> QED
  BY <1>4, <1>5 DEF Chain

\* A row that comes to be on disk adds one linked frame to the chain of its response.
LEMMA SyncGrows ==
  ASSUME IInv, Whole, ChainInv, NoGaps, SyncedRows, NEW w \in Writers, pc[w] = "written",
         ledger' = ledger, synced' = Len(ledger),
         NEW q \in Responses, row[w].rid = q
  PROVE  \E payload \in Manifest :
            /\ Chain(q)' = Append(Chain(q), Lineage!Link(Len(Chain(q)) + 1, payload))
            /\ \A r \in Responses \ {q} : Chain(r)' = Chain(r)
<1> DEFINE m == Len(ledger)
           c == Cardinality(Durable(q))
           Frame == [seq : Nat, parent : Int, payload : Manifest]
           F(k) == [seq |-> ledger[k].seq, parent |-> ledger[k].parent, payload |-> ledger[k].refs]
<1>1. /\ m \in Nat /\ synced = m - 1 /\ m \in DOMAIN ledger /\ ledger[m].rid = q
      /\ ledger' = ledger /\ synced' = m
  BY WrittenRow
<1>2. ASSUME NEW r \in Responses
      PROVE  /\ Durable(r) = Lines(r) \ {m} /\ Durable(r)' = Lines(r)
  <2>1. Lines(r) \subseteq 1 .. m
    BY LedgerFacts, LatestFacts
  <2>2. Lines(r)' = Lines(r)
    BY <1>1, SameRows
  <2> QED
    BY <1>1, <2>1, <2>2 DEF Durable
<1>3. ASSUME NEW r \in Responses \ {q} PROVE Chain(r)' = Chain(r)
  <2>1. m \notin Lines(r)
    BY <1>1 DEF Lines
  <2>2. Durable(r)' = Durable(r)
    <3>1. Lines(r) \ {m} = Lines(r)
      BY <2>1
    <3>2. Durable(r) = Lines(r) \ {m} /\ Durable(r)' = Lines(r)
      BY <1>2
    <3> QED
      BY <3>1, <3>2
  <2> QED
    BY <1>1, <2>2 DEF Chain
<1>4. m \in Lines(q)
  BY <1>1 DEF Lines, Whole
<1>5. /\ c \in Nat /\ Cardinality(Lines(q)) = c + 1
      /\ \A n \in 1 .. c : Nth(Durable(q), n) = Nth(Lines(q), n)
      /\ Nth(Lines(q), c + 1) = m
  BY <1>1, <1>2, <1>4, NthBeforeLast DEF ChainInv
<1>6. ASSUME NEW n \in 1 .. (c + 1) PROVE F(Nth(Lines(q), n)) \in Frame
  <2>1. Nth(Lines(q), n) \in Lines(q)
    BY <1>1, <1>5, NthFrame DEF ChainInv
  <2> HIDE DEF m, c
  <2> QED
    BY <1>1, <2>1, RowFrame DEF ChainInv
<1>7. /\ Chain(q) = [n \in 1 .. c |-> F(Nth(Lines(q), n))]
      /\ Chain(q)' = [n \in 1 .. (c + 1) |-> F(Nth(Lines(q), n))]
  <2>1. Chain(q) = [n \in 1 .. c |-> F(Nth(Durable(q), n))]
    BY DEF Chain
  <2>2. Chain(q)' = [n \in 1 .. Cardinality(Durable(q)') |->
                       [seq |-> ledger'[Nth(Durable(q)', n)].seq,
                        parent |-> ledger'[Nth(Durable(q)', n)].parent,
                        payload |-> ledger'[Nth(Durable(q)', n)].refs]]
    BY DEF Chain
  <2> QED
    BY <1>1, <1>2, <1>5, <2>1, <2>2
<1>8. F(m) = Lineage!Link(c + 1, ledger[m].refs) /\ ledger[m].refs \in Manifest
  <2>1. ledger[m].seq = c + 1
    BY <1>1, <1>5, NthFrame DEF ChainInv
  <2> HIDE DEF c
  <2> QED
    BY <1>1, <1>4, <2>1, RowFrame DEF ChainInv, Lineage!Link
<1>9. /\ Chain(q) \in Seq(Frame) /\ Len(Chain(q)) = c
      /\ Chain(q)' = Append(Chain(q), F(m))
  <2> HIDE DEF F, Frame, m, c
  <2>1. \A n \in 1 .. c : F(Nth(Lines(q), n)) \in Frame
    BY <1>5, <1>6
  <2>2. Chain(q) \in Seq(Frame) /\ Len(Chain(q)) = c
    BY <1>5, <1>7, <2>1
  <2>3. F(m) \in Frame /\ F(Nth(Lines(q), c + 1)) = F(m)
    BY <1>5, <1>6
  <2> QED
    BY <1>5, <1>7, <2>2, <2>3
<1> QED
  BY <1>3, <1>8, <1>9

\* The detailed ledger implements the abstract one: however many threads append
\* and however often the process crashes, what is durable of every response grows
\* by one linked frame at a time.  A row is durable from its fsync on, or from a
\* crash that happens to spare it.
THEOREM LedgerRefinesLineage == CrashesOnly => (Spec => RefinesLineage)
<1> SUFFICES ASSUME CrashesOnly PROVE Spec => Lineage!Spec
  BY DEF RefinesLineage
<1> DEFINE chains == [r \in Responses |-> Chain(r)]
           RefInv == IInv /\ Whole /\ ChainInv /\ NoGaps /\ SyncedRows
<1>1. Init => NoGaps /\ SyncedRows
  <2> SUFFICES ASSUME Init PROVE NoGaps /\ SyncedRows
    OBVIOUS
  <2>1. ledger = <<>> /\ Len(ledger) = 0 /\ DOMAIN ledger = {} /\ synced = 0
    BY DEF Init
  <2>2. \A r \in Responses : Cardinality(Lines(r)) = 0
    BY <2>1, FS_EmptySet DEF Lines
  <2>3. \A w \in Writers : pc[w] # "written"
    BY DEF Init
  <2> QED
    BY <2>1, <2>2, <2>3 DEF NoGaps, SyncedRows
<1>2. RefInv /\ [Next]_vars => NoGaps' /\ SyncedRows'
  BY NoGapsPreserved, SyncedPreserved
<1>3. Spec => []RefInv
  BY ChainInvariance, <1>1, <1>2, PTL DEF Spec
<1>4. Init => Lineage!Init
  <2> SUFFICES ASSUME Init PROVE \A r \in Responses : Chain(r) = <<>>
    BY DEF Lineage!Init
  <2>1. \A r \in Responses : Durable(r) = {}
    BY DEF Init, Durable, Lines
  <2>2. ASSUME NEW r \in Responses PROVE Chain(r) = <<>>
    <3> DEFINE F(n) == LET line == ledger[Nth(Durable(r), n)]
                       IN  [seq |-> line.seq, parent |-> line.parent, payload |-> line.refs]
    <3>1. Chain(r) = [n \in 1 .. Cardinality(Durable(r)) |-> F(n)]
      BY DEF Chain
    <3>2. Cardinality(Durable(r)) = 0
      BY <2>1, FS_EmptySet
    <3> HIDE DEF F
    <3>3. Chain(r) = [n \in 1 .. 0 |-> F(n)]
      BY <3>1, <3>2
    <3>4. [n \in 1 .. 0 |-> F(n)] = <<>>
      OBVIOUS
    <3> QED
      BY <3>3, <3>4
  <2> QED
    BY <2>2
<1>5. ASSUME RefInv, [Next]_vars PROVE [Lineage!Next]_chains
  <2>1. ASSUME UNCHANGED <<ledger, synced>> PROVE chains' = chains
    <3>1. \A r : Durable(r)' = Durable(r)
      BY <2>1, SameRows DEF Durable
    <3>2. \A r : Chain(r)' = Chain(r)
      BY <2>1, <3>1 DEF Chain
    <3> QED
      BY <3>2
  <2>2. ASSUME NEW w \in Writers, FinishWrite(w) PROVE chains' = chains
    BY <1>5, <2>2, WriteIsAStutter
  <2>3. ASSUME NEW w \in Writers, pc[w] = "written", ledger' = ledger, synced' = Len(ledger)
        PROVE  Lineage!Next
    <3>1. PICK q \in Responses : row[w].rid = q
      BY <1>5, <2>3, WrittenRow
    <3>2. PICK payload \in Manifest :
            /\ Chain(q)' = Append(Chain(q), Lineage!Link(Len(Chain(q)) + 1, payload))
            /\ \A r \in Responses \ {q} : Chain(r)' = Chain(r)
      BY <1>5, <2>3, <3>1, SyncGrows
    <3>3. Lineage!Grow(q, payload)
      BY <3>2 DEF Lineage!Grow
    <3> QED
      BY <3>3 DEF Lineage!Next
  <2>4. ASSUME NEW w \in Writers, Fsync(w) PROVE Lineage!Next
    BY <2>3, <2>4 DEF Fsync
  <2>5. ASSUME Crash PROVE [Lineage!Next]_chains
    <3>1. CASE ledger' = ledger /\ synced' = Len(ledger)
      <4>1. CASE \E w \in Writers : pc[w] = "written"
        BY <2>3, <3>1, <4>1
      <4>2. CASE ~ \E w \in Writers : pc[w] = "written"
        BY <1>5, <2>1, <3>1, <4>2 DEF SyncedRows
      <4> QED
        BY <4>1, <4>2
    <3>2. CASE /\ ledger' = SubSeq(ledger, 1, Len(ledger) - 1)
               /\ synced' = synced /\ synced = Len(ledger) - 1 /\ synced \in Nat
      BY <1>5, <3>2, TakingBackIsAStutter
    <3> QED
      BY <1>5, <2>5, <3>1, <3>2, CrashFile
  <2> QED
    BY <1>5, <2>1, <2>2, <2>4, <2>5, FileSteps
<1>6. RefInv /\ [Next]_vars => [Lineage!Next]_chains
  BY <1>5
<1> QED
  BY <1>3, <1>4, <1>6, PTL DEF Spec, Lineage!Spec
=============================================================================
