--------------------------- MODULE LedgerCompaction ---------------------------
(***************************************************************************)
(* compact_response_frame_ledger: a command that moves the large previews  *)
(* an older release left inline in ledger rows to the snapshot store.  It  *)
(* rewrites the ledger and its index, which are installed one after the    *)
(* other, and may stop anywhere.  Appends go on until its last look at the *)
(* two files: from there to the second install its operator has asserted   *)
(* that writers are stopped (--writers-stopped).  When the command stops,  *)
(* writers start again on whatever it left.                                *)
(*                                                                         *)
(* Of a frame only its preview is kept, and appends do not overlap (module *)
(* FrameLedger has both).  Bytes are kept as far as compaction changes     *)
(* them: a position is the sequence of the rows before it, an inline row   *)
(* counted TRUE, so that no saving is ever made up by later appends; the   *)
(* length of a line is whether it is inline.                               *)
(***************************************************************************)
EXTENDS Naturals, Sequences, FiniteSets

CONSTANTS
    None,
    Responses,   \* response ids
    Previews,    \* contents of a large ghost preview
    MaxHistory,  \* bound: rows an older release wrote
    MaxRows      \* bound: rows of the ledger

Content == Previews \cup {None}

(* An entry of the index: the latest row of a response. *)
Entry == [seq : Nat, pos : Seq(BOOLEAN), long : BOOLEAN, man : Content]

ASSUME CompactionAssumption ==
    None \notin Responses \cup Previews \cup Entry /\ MaxHistory \in Nat /\ MaxRows \in Nat

VARIABLES
    ledger,   \* responses.jsonl
    cas,      \* previews in the snapshot store
    index,    \* current_index.json
    step,     \* the command: off, audited, captured, saved, rewritten, checked, swapped, installed
    source,   \* the files as it has audited and captured them
    temp,     \* the rewritten ledger, and the rows it was made from
    written   \* history: the frames whose rows were written

vars == <<ledger, cas, index, step, source, temp, written>>

(* inline: the preview itself.  ref: ghost_preview_snapshot_ref.  logged:  *)
(* the row's own item in external_snapshots, which its parent has not.     *)
Row == [rid : Responses, seq : Nat, inline : Content, ref : Content, logged : Content]
Frame == [rid : Responses, seq : Nat, preview : Content]

Greatest(S) == CHOOSE k \in S : \A j \in S : j <= k
Before(f, k) == {j \in DOMAIN f : j < k /\ f[j].rid = f[k].rid}
RowsOf(f, r) == {k \in DOMAIN f : f[k].rid = r}
Latest(f, r) == IF RowsOf(f, r) = {} THEN 0 ELSE Greatest(RowsOf(f, r))

(* The item of every row: its own or its parent's. *)
Effective(f, item) ==
    LET E[k \in DOMAIN f] ==
          IF item[k] # None THEN item[k]
          ELSE IF Before(f, k) = {} THEN None ELSE E[Greatest(Before(f, k))]
    IN  E

(* The effective manifests. *)
Expanded(f) == Effective(f, [k \in DOMAIN f |-> f[k].logged])
LatestManifest(f, r) == IF Latest(f, r) = 0 THEN None ELSE Expanded(f)[Latest(f, r)]

Inline(f) == [k \in DOMAIN f |-> f[k].inline # None]
Size(f) == Inline(f)
Position(f, k) == SubSeq(Inline(f), 1, k - 1)

-----------------------------------------------------------------------------
(* The index. *)

(* What the rewrite computes for the file it writes. *)
IndexOf(f) ==
    [size |-> Size(f), verified |-> TRUE,
     entries |-> [r \in Responses |->
        LET k == Latest(f, r)
        IN  IF k = 0 THEN None
            ELSE [seq |-> f[k].seq, pos |-> Position(f, k), long |-> f[k].inline # None,
                  man |-> LatestManifest(f, r)]]]

Verified(ix) == ix.verified /\ ix.size = Size(ledger)

\* The row at the position of an entry, if it is the one the entry names.
IndexedRow(r, ix) ==
    LET e == ix.entries[r]
        found == {k \in RowsOf(ledger, r) : /\ Position(ledger, k) = e.pos
                                            /\ ledger[k].seq = e.seq}
    IN  IF e = None \/ found = {} THEN 0 ELSE Greatest(found)

\* Faulty as Matches: the length of the line is not compared
MatchesStart(e, k) == e.pos = Position(ledger, k) /\ e.seq = ledger[k].seq
Matches(e, k) ==
    e.pos = Position(ledger, k) /\ e.seq = ledger[k].seq /\ e.long = Inline(ledger)[k]

(* A complete scan confirms size and coordinates; manifests are not read.  *)
Attestable(ix) ==
    /\ ix.size = Size(ledger)
    /\ \A r \in Responses :
         LET k == Latest(ledger, r)
         IN  IF k = 0 THEN ix.entries[r] = None
             ELSE ix.entries[r] # None /\ Matches(ix.entries[r], k)

(* attest_response_frame_index as an operator command of its own.          *)
Attest ==
    /\ Attestable(index)
    /\ index' = [index EXCEPT !.verified = TRUE]
    /\ UNCHANGED <<ledger, cas, step, source, temp, written>>

-----------------------------------------------------------------------------
(* The files an older release left: previews inline, an exact index that   *)
(* may lack the coverage fields.                                           *)
Historic(rid, preview) ==
    [k \in DOMAIN rid |->
        [rid |-> rid[k], seq |-> Cardinality({j \in 1 .. k : rid[j] = rid[k]}),
         inline |-> preview[k], ref |-> None, logged |-> None]]

FrameOf(row) == [rid |-> row.rid, seq |-> row.seq,
                 preview |-> IF row.inline # None THEN row.inline ELSE row.ref]

Init ==
    /\ \E n \in 0 .. MaxHistory :
       \E rid \in [1 .. n -> Responses], preview \in [1 .. n -> Content] :
         ledger = Historic(rid, preview)
    /\ \E known \in BOOLEAN : index = [IndexOf(ledger) EXCEPT !.verified = known]
    /\ cas = {} /\ step = "off"
    /\ source = [ledger |-> <<>>, index |-> index]
    /\ temp = [rows |-> <<>>, from |-> <<>>]
    /\ written = [k \in DOMAIN ledger |-> FrameOf(ledger[k])]

-----------------------------------------------------------------------------
(* Appends. *)

WritersStopped == step \in {"checked", "swapped"}

\* What a successor inherits: the manifest of the index entry; a scan where
\* the entry names no row or its manifest, other snapshots included, is empty.
ParentManifests(r) ==
    IF IndexedRow(r, index) = 0 THEN {LatestManifest(ledger, r)}
    ELSE {index.entries[r].man}
         \cup (IF index.entries[r].man = None THEN {LatestManifest(ledger, r)} ELSE {})

\* _write_response_frame_index: coverage is kept only where there was one.
NextIndex(row, man) ==
    LET grown == Append(ledger, row)
    IN  [size |-> Size(grown), verified |-> ledger = <<>> \/ Verified(index),
         entries |-> [index.entries EXCEPT ![row.rid] =
                        [seq |-> row.seq, pos |-> Position(grown, Len(grown)),
                         long |-> FALSE, man |-> man]]]

(* A large preview is stored before its row; the index follows the row.    *)
AppendFrame ==
    /\ ~WritersStopped /\ Len(ledger) < MaxRows
    /\ \E r \in Responses, p \in Content : \E man \in ParentManifests(r) :
         LET row == [rid |-> r, seq |-> Cardinality(RowsOf(ledger, r)) + 1, inline |-> None,
                     ref |-> p, logged |-> IF p = man THEN None ELSE p]
         IN  /\ cas' = (cas \cup {p}) \ {None}
             /\ ledger' = Append(ledger, row)
             /\ index' = NextIndex(row, IF p = None THEN man ELSE p)
             /\ written' = Append(written, FrameOf(row))
    /\ UNCHANGED <<step, source, temp>>

(* An append that stops in between leaves the preview without a row.       *)
AppendStops ==
    /\ ~WritersStopped
    /\ \E p \in Previews : cas' = cas \cup {p}
    /\ UNCHANGED <<ledger, index, step, source, temp, written>>

-----------------------------------------------------------------------------
(* The command. *)

(* Every manifest item has its sidecar, and there is a preview to move.    *)
Sound(f) == \A k \in DOMAIN f : Expanded(f)[k] \in cas \cup {None}
Eligible(f) == {k \in DOMAIN f : f[k].inline # None}

Audit ==
    /\ step = "off" /\ Sound(ledger) /\ Eligible(ledger) # {}
    /\ step' = "audited"
    /\ source' = [source EXCEPT !.ledger = ledger]
    /\ UNCHANGED <<ledger, cas, index, temp, written>>

Capture ==
    /\ step = "audited"
    /\ step' = IF Attestable(index) /\ ledger = source.ledger THEN "captured" ELSE "off"
    /\ source' = [source EXCEPT !.index = index]
    /\ UNCHANGED <<ledger, cas, index, temp, written>>

NeverMoved == FALSE                     \* Faulty as Moved: no check of the files
Moved == ledger # source.ledger \/ index # source.index

(* Both files are backed up and compared with what was captured.           *)
Backup ==
    /\ step = "captured"
    /\ step' = IF Moved THEN "off" ELSE "saved"
    /\ UNCHANGED <<ledger, cas, index, source, temp, written>>

\* Faulty as Item: nothing is logged where the parent has any item
ItemByPath(preview, inherited) == IF inherited = None THEN preview ELSE None
Item(preview, inherited) == IF inherited = preview THEN None ELSE preview

\* Faulty as Compacted: only the rows it changes are written
CompactedChanged(f) ==
    LET Due(row) == row.inline # None
        Externalized(row) == [row EXCEPT !.inline = None, !.ref = row.inline, !.logged = row.inline]
    IN  [k \in DOMAIN SelectSeq(f, Due) |-> Externalized(SelectSeq(f, Due)[k])]

(* _compact_one_frame on every row, in order. *)
Compacted(f) ==
    LET M == Effective(f, [k \in DOMAIN f |->
                 IF f[k].inline # None THEN f[k].inline ELSE f[k].logged])
        Inherited(k) == IF Before(f, k) = {} THEN None ELSE M[Greatest(Before(f, k))]
    IN  [k \in DOMAIN f |->
            IF f[k].inline = None THEN f[k]
            ELSE [f[k] EXCEPT !.inline = None, !.ref = f[k].inline,
                              !.logged = Item(f[k].inline, Inherited(k))]]

Rewrite ==
    /\ step = "saved"
    /\ step' = "rewritten"
    /\ cas' = cas \cup {ledger[k].inline : k \in Eligible(ledger)}
    /\ temp' = [rows |-> Compacted(ledger), from |-> ledger]
    /\ UNCHANGED <<ledger, index, source, written>>

(* The last look at the files and at what the rewrite has read.            *)
Check ==
    /\ step = "rewritten"
    /\ step' = IF Moved \/ temp.from # source.ledger THEN "off" ELSE "checked"
    /\ UNCHANGED <<ledger, cas, index, source, temp, written>>

InstallLedger ==
    /\ step = "checked"
    /\ step' = "swapped"
    /\ ledger' = temp.rows
    /\ UNCHANGED <<cas, index, source, temp, written>>

InstallIndex ==
    /\ step = "swapped"
    /\ step' = "installed"
    /\ index' = IndexOf(temp.rows)
    /\ UNCHANGED <<ledger, cas, source, temp, written>>

(* The postflight only decides what is reported.  The command may also be  *)
(* killed or raise at any point: nothing is rolled back.                   *)
Stop ==
    /\ step # "off"
    /\ step' = "off"
    /\ UNCHANGED <<ledger, cas, index, source, temp, written>>

Next ==
    \/ AppendFrame \/ AppendStops \/ Attest
    \/ Audit \/ Capture \/ Backup \/ Rewrite \/ Check \/ InstallLedger \/ InstallIndex
    \/ Stop

Spec == Init /\ [][Next]_vars

-----------------------------------------------------------------------------
Index(ix) ==
    /\ DOMAIN ix = {"size", "verified", "entries"}
    /\ ix.size \in Seq(BOOLEAN) /\ ix.verified \in BOOLEAN
    /\ DOMAIN ix.entries = Responses
    /\ \A r \in Responses : ix.entries[r] \in Entry \cup {None}

(* The types, and that a rewritten file matches the rows it was made from. *)
TypeOK ==
    /\ ledger \in Seq(Row) /\ cas \subseteq Previews /\ Index(index)
    /\ step \in {"off", "audited", "captured", "saved", "rewritten", "checked",
                 "swapped", "installed"}
    /\ DOMAIN source = {"ledger", "index"} /\ source.ledger \in Seq(Row) /\ Index(source.index)
    /\ temp \in [rows : Seq(Row), from : Seq(Row)] /\ DOMAIN temp.rows = DOMAIN temp.from
    /\ written \in Seq(Frame)

\* No row that was written is lost, invented or reordered, although the
\* ledger is replaced by a file made from an earlier one: rows that are
\* appended while the command works make it stop
\* (response_frame_ledger_maintenance.py:1309-1317).
RowsSurvive ==
    /\ Len(ledger) = Len(written)
    /\ \A k \in DOMAIN ledger : ledger[k].rid = written[k].rid /\ ledger[k].seq = written[k].seq

\* The preview that can be read of row k under a manifest.
Body(k, man) ==
    CASE ledger[k].inline # None -> ledger[k].inline
      [] ledger[k].inline = None /\ ledger[k].ref = man /\ man \in cas -> man
      [] OTHER -> None

\* Every preview stays readable as it was written: inline, or by a ref that
\* the manifests of the rows authorize and whose sidecar is stored.  Rows
\* written against the manifests before a compaction are read with those
\* after it, and the other way round where only the ledger was installed.
PreviewsReadable == \A k \in DOMAIN ledger : Body(k, Expanded(ledger)[k]) = written[k].preview

\* A recovery read finds the latest frame of a response with its preview, or
\* that there is none, at every point of the command and wherever it stopped:
\* between the two installs the index still describes the old file.
LookupsStayRight ==
    \A r \in Responses :
        LET k == Latest(ledger, r)
            i == IndexedRow(r, index)
        IN  IF Verified(index) /\ (i # 0 \/ index.entries[r] = None)
            THEN i = k /\ (i # 0 => Body(i, index.entries[r].man) = written[i].preview)
            ELSE k # 0 => Body(k, Expanded(ledger)[k]) = written[k].preview
=============================================================================
