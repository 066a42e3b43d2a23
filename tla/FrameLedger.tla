----------------------------- MODULE FrameLedger -----------------------------
(***************************************************************************)
(* The response-frame ledger of ollmo_services/response_frames.py: an      *)
(* append-only JSONL file of frozen frames, a derived index that is        *)
(* replaced atomically after each append, content-addressed snapshots that *)
(* a row logs as a delta against its parent's manifest, the threads that   *)
(* append under _RESPONSE_FRAME_APPEND_LOCK, the readers that hold no      *)
(* lock, and what a crash, a failing disk or a lost index leave behind.    *)
(*                                                                         *)
(* A physical line is one row.  Bytes are abstracted to rows: the size of  *)
(* the file is the number of complete appends together with "torn", which  *)
(* says that bytes of an unfinished append hang behind the last one.  A    *)
(* row appended behind such bytes is "glued": it shares its physical line  *)
(* with them, so a line scan cannot parse it, while a seek to its byte     *)
(* offset can.                                                             *)
(***************************************************************************)
EXTENDS Naturals, Sequences, FiniteSets

CONSTANTS
    Responses,          \* response ids
    Writers,            \* threads that finalize response frames
    Readers,            \* threads that recover a response
    Paths,              \* JSON paths a frame externalizes as snapshots
    Bodies,             \* snapshot digests
    None,               \* no entry, no lock holder, no digest
    MaxRows,            \* bound: rows the ledger ever holds
    MaxCrashes,         \* bound: crashes of the process
    MaxFailures,        \* bound: exceptions raised inside one append
    MaxIndexLosses,     \* bound: times current_index.json is lost or corrupted
    TornWrites          \* may an append stop between its first and last byte?

ASSUME NoneAssumption == None \notin Responses \cup Writers \cup Bodies
ASSUME BoundsAssumption == /\ MaxRows \in Nat
                           /\ MaxCrashes \in Nat
                           /\ MaxFailures \in Nat
                           /\ MaxIndexLosses \in Nat
                           /\ TornWrites \in BOOLEAN

VARIABLES
    ledger,     \* responses.jsonl: the complete appends, in order
    torn,       \* bytes of an incomplete append at the end of the file
    synced,     \* how many rows are known to be on disk
    index,      \* current_index.json
    lock,       \* who holds _RESPONSE_FRAME_APPEND_LOCK
    pc,         \* where each writer is
    job,        \* the frame each writer is finalizing
    row,        \* the ledger row each writer has prepared
    man,        \* the effective manifest that goes with it
    held,       \* frame sequences that live payloads carry, per response
    acked,      \* rows whose append returned to its caller
    rpc, want, seen, copy, again, res,      \* the readers
    crashes, failures, losses               \* faults spent

disk    == <<ledger, torn, synced, index>>
writer  == <<lock, pc, job, row, man, held, acked>>
reader  == <<rpc, want, seen, copy, again, res>>
faults  == <<crashes, failures, losses>>
vars    == <<disk, writer, reader, faults>>

-----------------------------------------------------------------------------
(* Manifests: which digest each externalized path of a frame has.           *)

Manifest == [Paths -> Bodies \cup {None}]
NoManifest == [p \in Paths |-> None]

\* _effective_snapshot_manifest: the parent's refs, overridden by the row's.
Merge(parentMan, refs) ==
    [p \in Paths |-> IF refs[p] # None THEN refs[p] ELSE parentMan[p]]

\* _snapshot_items_from_frame: only refs that carry a digest count.
Items(manifest) ==
    [p \in Paths |-> IF manifest[p] \in Bodies THEN manifest[p] ELSE None]

\* Faulty: drops every path the parent has, whatever its digest.
DeltaByPath(parentMan, refs) ==
    [p \in Paths |-> IF parentMan[p] # None THEN None ELSE refs[p]]

\* _apply_snapshot_manifest_to_frame: what the parent has already is not logged.
Delta(parentMan, refs) ==
    [p \in Paths |-> IF refs[p] = parentMan[p] THEN None ELSE refs[p]]

-----------------------------------------------------------------------------
(* What a scan of the ledger's lines finds (_iter_ledger_frames).           *)

Greatest(S) == CHOOSE k \in S : \A j \in S : j <= k

Lines(r) == {k \in DOMAIN ledger : ledger[k].rid = r /\ ~ledger[k].glued}
Malformed == torn \/ \E k \in DOMAIN ledger : ledger[k].glued
LatestLine(r) == IF Lines(r) = {} THEN 0 ELSE Greatest(Lines(r))
LatestSeq(r) == IF Lines(r) = {} THEN 0 ELSE ledger[LatestLine(r)].seq

\* _expand_snapshot_manifests_for_frames: a frame inherits from the last
\* earlier frame that has its parent's id, else from the frame before it.
Expanded ==
    LET E[k \in DOMAIN ledger] ==
          LET line    == ledger[k]
              earlier == {j \in Lines(line.rid) : j < k}
              named   == {j \in earlier : ledger[j].seq = line.parent}
              from    == IF line.parent = 0 \/ earlier = {} THEN NoManifest
                         ELSE E[Greatest(IF named # {} THEN named ELSE earlier)]
          IN  Merge(from, line.delta)
    IN  E

-----------------------------------------------------------------------------
(* The index.  size and verified count the rows the file had when they were *)
(* written; verified = 0: the coverage fields are absent.  The file is      *)
(* replaced atomically, so its entry count and its digest always agree with *)
(* the map they were computed from and need no state of their own.          *)

NoIndex == [ok |-> FALSE, size |-> 0, verified |-> 0,
            entries |-> [r \in Responses |-> None]]

Entry == [seq : Nat, off : Nat, man : Manifest]
ASSUME NoEntryAssumption == None \notin Entry

Index == [ok : BOOLEAN, size : Nat, verified : Nat,
          entries : [Responses -> Entry \cup {None}]]

\* Faulty: does not compare the index with the file as it is now.
VerifiedWhenWritten(ix) == ix.ok /\ ix.verified # 0 /\ ix.verified = ix.size

\* _response_frame_index_has_verified_response_map
Verified(ix) == /\ ix.ok /\ ~torn
                /\ ix.size = Len(ledger)
                /\ ix.verified # 0 /\ ix.verified = ix.size

\* _read_indexed_response_frame: does the row at the entry's offset match it?
IndexedRow(r, ix) ==
    LET e == ix.entries[r]
    IN  IF /\ e # None
           /\ e.off \in DOMAIN ledger
           /\ ledger[e.off].rid = r
           /\ ledger[e.off].seq = e.seq
        THEN e.off ELSE 0

\* Faulty: trusts an entry of a stale index.
PriorSeqOfEntry(r, ix) ==
    IF ~ix.ok THEN LatestSeq(r)
    ELSE IF ix.entries[r] = None THEN 0 ELSE ix.entries[r].seq

\* _index_parent_frame_stub and the scan its callers fall back to: the latest
\* sequence of the response as far as an append can tell, 0 for none.
PriorSeq(r, ix) ==
    IF ix.ok /\ ix.entries[r] = None THEN 0
    ELSE IF Verified(ix) THEN ix.entries[r].seq
    ELSE LatestSeq(r)

\* _persist_response_frame_locked: the row an append takes as its parent and
\* the manifest it inherits.
ParentRow(r, ix) ==
    LET inherited == IF ix.entries[r] = None THEN NoManifest ELSE ix.entries[r].man
        indexed   == IndexedRow(r, ix)
    IN  IF (indexed = 0 \/ inherited = NoManifest) /\ Lines(r) # {}
        THEN [at |-> LatestLine(r), man |-> Items(Expanded[LatestLine(r)])]
        ELSE [at |-> indexed, man |-> inherited]

\* Faulty: keeps the sequence a stale live payload brought along.
EnrichKeepsSequence(j, prior) ==
    IF prior = 0 \/ j.seq # 0 THEN j ELSE [j EXCEPT !.seq = prior + 1, !.parent = prior]

\* Faulty: rewrites the sequence and leaves the relation alone.
EnrichKeepsParent(j, prior) ==
    IF prior = 0 THEN j ELSE [j EXCEPT !.seq = prior + 1]

\* enrich_response_frame_metadata with force_append_sequence
Enrich(j, prior) ==
    IF prior = 0 THEN j ELSE [j EXCEPT !.seq = prior + 1, !.parent = prior]

\* Faulty: extends the coverage of any index that once had it.
NextIndexTrustsPrior(ix, line, off, manifest) ==
    LET epoch == off = 1 /\ ~line.glued
        kept  == IF epoch \/ ~ix.ok THEN NoIndex.entries ELSE ix.entries
    IN  [ok |-> TRUE, size |-> off,
         verified |-> IF epoch \/ ix.verified # 0 THEN off ELSE 0,
         entries |-> [kept EXCEPT ![line.rid] =
                        [seq |-> line.seq, off |-> off, man |-> manifest]]]

\* Faulty: caches the row's own refs as its effective manifest.
NextIndexCachesDelta(ix, line, off, manifest) ==
    LET epoch   == off = 1 /\ ~line.glued
        kept    == IF epoch \/ ~ix.ok THEN NoIndex.entries ELSE ix.entries
        advance == epoch \/ (ix.ok /\ ~line.glued /\ ix.size = off - 1
                              /\ ix.verified # 0 /\ ix.verified = off - 1)
    IN  [ok |-> TRUE, size |-> off,
         verified |-> IF advance THEN off ELSE 0,
         entries |-> [kept EXCEPT ![line.rid] =
                        [seq |-> line.seq, off |-> off, man |-> line.delta]]]

\* _write_response_frame_index after the row at position off
NextIndex(ix, line, off, manifest) ==
    LET epoch   == off = 1 /\ ~line.glued
        kept    == IF epoch \/ ~ix.ok THEN NoIndex.entries ELSE ix.entries
        advance == \/ epoch
                   \/ /\ ix.ok /\ ~line.glued
                      /\ ix.size = off - 1
                      /\ ix.verified # 0 /\ ix.verified = off - 1
    IN  [ok |-> TRUE, size |-> off,
         verified |-> IF advance THEN off ELSE 0,
         entries |-> [kept EXCEPT ![line.rid] =
                        [seq |-> line.seq, off |-> off, man |-> manifest]]]

-----------------------------------------------------------------------------
Job  == [rid : Responses, seq : Nat, parent : Nat, refs : Manifest, expect : Nat]
Line == [rid : Responses, seq : Nat, parent : Nat, refs : Manifest,
         delta : Manifest, expect : Nat, glued : BOOLEAN]

Init ==
    /\ ledger = <<>> /\ torn = FALSE /\ synced = 0 /\ index = NoIndex
    /\ lock = None
    /\ pc = [w \in Writers |-> "idle"]
    /\ job = [w \in Writers |-> None]
    /\ row = [w \in Writers |-> None]
    /\ man = [w \in Writers |-> NoManifest]
    /\ held = [r \in Responses |-> {}]
    /\ acked = {}
    /\ rpc = [d \in Readers |-> "idle"]
    /\ want = [d \in Readers |-> None]
    /\ seen = [d \in Readers |-> <<0, FALSE>>]
    /\ copy = [d \in Readers |-> NoIndex]
    /\ again = [d \in Readers |-> TRUE]
    /\ res = [d \in Readers |-> None]
    /\ crashes = 0 /\ failures = 0 /\ losses = 0

\* Faulty: an exception path that keeps the lock.
LeaveLocked(w) == /\ lock' = IF lock = None THEN w ELSE lock
                  /\ pc' = [pc EXCEPT ![w] = "idle"]
                  /\ job' = [job EXCEPT ![w] = None]
                  /\ row' = [row EXCEPT ![w] = None]
                  /\ man' = [man EXCEPT ![w] = NoManifest]

\* A writer that leaves the append keeps nothing of it.
Leave(w) == /\ lock' = None
            /\ pc' = [pc EXCEPT ![w] = "idle"]
            /\ job' = [job EXCEPT ![w] = None]
            /\ row' = [row EXCEPT ![w] = None]
            /\ man' = [man EXCEPT ![w] = NoManifest]

Busy == {w \in Writers : pc[w] # "idle"}

(* The finalizer builds a frame: the first frame of a new response, or the  *)
(* successor of a frame that a live payload carries or that recovery has    *)
(* just loaded.  expect # 0: append with parent compare-and-swap.           *)
BeginInitial(w) ==
    /\ pc[w] = "idle"
    /\ Len(ledger) + Cardinality(Busy) < MaxRows
    /\ \E r \in Responses, refs \in Manifest :
          /\ held[r] = {}
          /\ \A k \in DOMAIN ledger : ledger[k].rid # r
          /\ \A v \in Busy : job[v].rid # r
          /\ job' = [job EXCEPT ![w] =
                [rid |-> r, seq |-> 1, parent |-> 0, refs |-> refs, expect |-> 0]]
    /\ pc' = [pc EXCEPT ![w] = "plain"]
    /\ UNCHANGED <<disk, lock, row, man, held, acked, reader, faults>>

BeginSuccessor(w) ==
    /\ pc[w] = "idle"
    /\ Len(ledger) + Cardinality(Busy) < MaxRows
    /\ \E r \in Responses, refs \in Manifest, cas \in BOOLEAN :
       \E base \in (held[r] \cup {LatestSeq(r)}) \ {0} :
          /\ job' = [job EXCEPT ![w] =
                [rid |-> r, seq |-> base + 1, parent |-> base, refs |-> refs,
                 expect |-> IF cas THEN base ELSE 0]]
          /\ pc' = [pc EXCEPT ![w] = IF cas THEN "ready" ELSE "plain"]
    /\ UNCHANGED <<disk, lock, row, man, held, acked, reader, faults>>

(* enrich_response_frame_for_ledger_append, which the finalizer calls       *)
(* without the append lock before a plain append.                           *)
EnrichUnlocked(w) ==
    /\ pc[w] = "plain"
    /\ job' = [job EXCEPT ![w] = Enrich(@, PriorSeq(@.rid, index))]
    /\ pc' = [pc EXCEPT ![w] = "ready"]
    /\ UNCHANGED <<disk, lock, row, man, held, acked, reader, faults>>

(* The append, up to the first byte it writes: take the lock, look up the   *)
(* parent, compare it with the expected one, rewrite the append metadata,   *)
(* compact the row against the parent's manifest.                           *)
\* Faulty: compares the frame with the parent the payload carries.
MismatchWithPayload(w) ==
    LET j == job[w]
        p == ParentRow(j.rid, index).at
    IN  j.expect # 0 /\ (p = 0 \/ j.expect # j.parent)

\* Faulty: compares the expected parent with the frame about to be written.
MismatchWithSuccessor(w) ==
    LET j == job[w]
        p == ParentRow(j.rid, index).at
    IN  j.expect # 0 /\ j.expect # (IF p = 0 THEN 0 ELSE ledger[p].seq + 1)

Mismatch(w) ==
    LET j == job[w]
        p == ParentRow(j.rid, index).at
    IN  j.expect # 0 /\ j.expect # (IF p = 0 THEN 0 ELSE ledger[p].seq)

Prepare(w) ==
    /\ pc[w] = "ready" /\ lock = None /\ ~Mismatch(w)
    /\ LET j      == Enrich(job[w], PriorSeq(job[w].rid, index))
           parent == ParentRow(j.rid, index)
       IN  /\ row' = [row EXCEPT ![w] =
                [rid |-> j.rid, seq |-> j.seq, parent |-> j.parent,
                 refs |-> j.refs, delta |-> Delta(parent.man, j.refs),
                 expect |-> j.expect, glued |-> torn]]
           /\ man' = [man EXCEPT ![w] = Merge(parent.man, j.refs)]
    /\ lock' = w
    /\ pc' = [pc EXCEPT ![w] = "prepared"]
    /\ UNCHANGED <<disk, job, held, acked, reader, faults>>

\* ResponseFrameParentCASMismatch reaches the caller; nothing was written.
Refuse(w) ==
    /\ pc[w] = "ready" /\ lock = None /\ Mismatch(w)
    /\ Leave(w)
    /\ UNCHANGED <<disk, held, acked, reader, faults>>

StartWrite(w) ==
    /\ pc[w] = "prepared"
    /\ torn' = TRUE
    /\ pc' = [pc EXCEPT ![w] = "writing"]
    /\ UNCHANGED <<ledger, synced, index, lock, job, row, man, held, acked, reader, faults>>

FinishWrite(w) ==
    /\ pc[w] = "writing"
    /\ ledger' = Append(ledger, row[w])
    /\ torn' = FALSE
    /\ pc' = [pc EXCEPT ![w] = "written"]
    /\ UNCHANGED <<synced, index, lock, job, row, man, held, acked, reader, faults>>

\* Faulty: flushes without fsync.
FlushOnly(w) ==
    /\ pc[w] = "written"
    /\ pc' = [pc EXCEPT ![w] = "synced"]
    /\ UNCHANGED <<ledger, torn, synced, index, lock, job, row, man, held, acked, reader, faults>>

Fsync(w) ==
    /\ pc[w] = "written"
    /\ synced' = Len(ledger)
    /\ pc' = [pc EXCEPT ![w] = "synced"]
    /\ UNCHANGED <<ledger, torn, index, lock, job, row, man, held, acked, reader, faults>>

\* The identity the live payload keeps: a CAS append returns the row's, a
\* plain append leaves the one EnrichUnlocked gave it.
Receipt(w) == IF job[w].expect # 0 THEN row[w].seq ELSE job[w].seq

Publish(w) ==
    /\ pc[w] = "synced"
    /\ index' = NextIndex(index, row[w], Len(ledger), man[w])
    /\ acked' = acked \cup {Len(ledger)}
    /\ held' = [held EXCEPT ![job[w].rid] = @ \cup {Receipt(w)}]
    /\ Leave(w)
    /\ UNCHANGED <<ledger, torn, synced, reader, faults>>

(* Any other exception inside the append: the finalizer logs it and keeps   *)
(* the live payload, with the identity it had before the append.            *)
Fail(w) ==
    /\ pc[w] \in {"prepared", "written", "synced"}
                    \cup (IF TornWrites THEN {"writing"} ELSE {})
    /\ failures < MaxFailures
    /\ failures' = failures + 1
    /\ held' = [held EXCEPT ![job[w].rid] = @ \cup {job[w].seq}]
    /\ Leave(w)
    /\ UNCHANGED <<disk, acked, reader, crashes, losses>>

-----------------------------------------------------------------------------
(* attest_response_frame_index: an operator grants the coverage fields back *)
(* to an index whose entries match a complete scan, coordinate by           *)
(* coordinate; the manifests in the entries are kept as they are.           *)
CoordinatesMatch(ix) ==
    \A r \in Responses :
        IF Lines(r) = {} THEN ix.entries[r] = None
        ELSE /\ ix.entries[r] # None
             /\ ix.entries[r].off = LatestLine(r)
             /\ ix.entries[r].seq = LatestSeq(r)

Attestable(ix) ==
    /\ ix.ok /\ ledger # <<>> /\ ~Malformed
    /\ ix.size = Len(ledger)
    /\ CoordinatesMatch(ix)

\* Every other answer of the command is a rejection that writes nothing.
Attest ==
    /\ lock = None
    /\ index' = IF Attestable(index) THEN [index EXCEPT !.verified = Len(ledger)]
                                     ELSE index
    /\ UNCHANGED <<ledger, torn, synced, writer, reader, faults>>

-----------------------------------------------------------------------------
(* load_latest_response_state: stat, load the index, look the response up,  *)
(* stat again; one retry when the ledger moved meanwhile.                   *)
FileState == <<Len(ledger), torn>>

Ask(d) ==
    /\ rpc[d] = "idle"
    /\ \E r \in Responses : want' = [want EXCEPT ![d] = r]
    /\ seen' = [seen EXCEPT ![d] = FileState]
    /\ again' = [again EXCEPT ![d] = TRUE]
    /\ res' = [res EXCEPT ![d] = None]
    /\ rpc' = [rpc EXCEPT ![d] = "stat"]
    /\ UNCHANGED <<disk, writer, copy, faults>>

LoadIndex(d) ==
    /\ rpc[d] = "stat"
    /\ copy' = [copy EXCEPT ![d] = index]
    /\ rpc' = [rpc EXCEPT ![d] = "loaded"]
    /\ UNCHANGED <<disk, writer, want, seen, again, res, faults>>

Outcome == [kind : {"found", "invalid", "missing", "corrupt", "moved"}, at : Nat]
Answer(kind, at) == [kind |-> kind, at |-> at]

\* A body is restored only where the row's own ref agrees with the manifest.
Restorable(k, manifest) ==
    \A p \in Paths : ledger[k].refs[p] # None => ledger[k].refs[p] = manifest[p]

Look(r, ix) ==
    LET k == IF Verified(ix) THEN IndexedRow(r, ix) ELSE 0
        l == LatestLine(r)
    IN  CASE k # 0 -> IF Restorable(k, ix.entries[r].man)
                      THEN Answer("found", k) ELSE Answer("invalid", k)
          [] k = 0 /\ ix.entries[r] = None /\ Verified(ix) -> Answer("missing", 0)
          [] k = 0 /\ ~(ix.entries[r] = None /\ Verified(ix)) ->
                IF l # 0 THEN IF Restorable(l, Expanded[l])
                              THEN Answer("found", l) ELSE Answer("invalid", l)
                ELSE IF Malformed THEN Answer("corrupt", 0) ELSE Answer("missing", 0)

LookUp(d) ==
    /\ rpc[d] = "loaded"
    /\ LET a == Look(want[d], copy[d])
       IN  /\ res' = [res EXCEPT ![d] = a]
           /\ rpc' = [rpc EXCEPT ![d] = IF a.kind = "found" THEN "found" ELSE "idle"]
    /\ copy' = [copy EXCEPT ![d] = NoIndex]
    /\ UNCHANGED <<disk, writer, want, seen, again, faults>>

\* Faulty: retries against the first stat for as long as it differs.
ConfirmAgainstFirstStat(d) ==
    /\ rpc[d] = "found"
    /\ rpc' = [rpc EXCEPT ![d] = IF FileState = seen[d] THEN "idle" ELSE "stat"]
    /\ UNCHANGED <<disk, writer, want, seen, copy, again, res, faults>>

Confirm(d) ==
    /\ rpc[d] = "found"
    /\ IF FileState = seen[d]
       THEN /\ rpc' = [rpc EXCEPT ![d] = "idle"]
            /\ UNCHANGED <<seen, again, res>>
       ELSE IF again[d]
       THEN /\ again' = [again EXCEPT ![d] = FALSE]
            /\ seen' = [seen EXCEPT ![d] = FileState]
            /\ res' = [res EXCEPT ![d] = None]
            /\ rpc' = [rpc EXCEPT ![d] = "stat"]
       ELSE /\ res' = [res EXCEPT ![d] = Answer("moved", 0)]
            /\ rpc' = [rpc EXCEPT ![d] = "idle"]
            /\ UNCHANGED <<seen, again>>
    /\ UNCHANGED <<disk, writer, want, copy, faults>>

-----------------------------------------------------------------------------
(* The environment.  A crash kills every thread; of the rows that were not  *)
(* fsynced any suffix may be lost, and a piece of the last one may remain.  *)
Crash ==
    /\ crashes < MaxCrashes
    /\ crashes' = crashes + 1
    /\ \E n \in synced .. Len(ledger) :
          /\ ledger' = SubSeq(ledger, 1, n)
          /\ synced' = n
          /\ torn' \in {FALSE} \cup (IF TornWrites /\ (torn \/ n < Len(ledger))
                                     THEN {TRUE} ELSE {})
    /\ lock' = None
    /\ pc' = [w \in Writers |-> "idle"]
    /\ job' = [w \in Writers |-> None]
    /\ row' = [w \in Writers |-> None]
    /\ man' = [w \in Writers |-> NoManifest]
    /\ held' = [r \in Responses |-> {}]
    /\ rpc' = [d \in Readers |-> "idle"]
    /\ res' = [d \in Readers |-> None]
    /\ copy' = [d \in Readers |-> NoIndex]
    /\ UNCHANGED <<index, acked, want, seen, again, failures, losses>>

LoseIndex ==
    /\ losses < MaxIndexLosses
    /\ index.ok
    /\ losses' = losses + 1
    /\ index' = NoIndex
    /\ UNCHANGED <<ledger, torn, synced, writer, reader, crashes, failures>>

-----------------------------------------------------------------------------
WriterStep(w) ==
    \/ EnrichUnlocked(w) \/ Prepare(w) \/ Refuse(w)
    \/ StartWrite(w) \/ FinishWrite(w) \/ Fsync(w) \/ Publish(w)

ReaderStep(d) == LoadIndex(d) \/ LookUp(d) \/ Confirm(d)

Next ==
    \/ \E w \in Writers : \/ BeginInitial(w) \/ BeginSuccessor(w)
                          \/ WriterStep(w) \/ Fail(w)
    \/ \E d \in Readers : Ask(d) \/ ReaderStep(d)
    \/ Attest \/ Crash \/ LoseIndex

Spec == Init /\ [][Next]_vars

(* Threads are preemptively scheduled, so a step of an append or a lookup   *)
(* that stays enabled is taken.  Nothing is assumed of the order in which   *)
(* waiting threads get the lock: with finitely many rows it is in the end   *)
(* free for good.  No request, fault or operator command is assumed.        *)
FairSpec == /\ Spec
            /\ \A w \in Writers : WF_vars(WriterStep(w))
            /\ \A d \in Readers : WF_vars(ReaderStep(d))

-----------------------------------------------------------------------------
(* Properties                                                               *)

TypeOK ==
    /\ ledger \in Seq(Line)
    /\ torn \in BOOLEAN
    /\ synced \in 0 .. Len(ledger)
    /\ index \in Index
    /\ lock \in Writers \cup {None}
    /\ pc \in [Writers -> {"idle", "plain", "ready", "prepared", "writing",
                          "written", "synced"}]
    /\ job \in [Writers -> Job \cup {None}]
    /\ row \in [Writers -> Line \cup {None}]
    /\ man \in [Writers -> Manifest]
    /\ held \in [Responses -> SUBSET Nat]
    /\ acked \in SUBSET (1 .. synced)
    /\ rpc \in [Readers -> {"idle", "stat", "loaded", "found"}]
    /\ want \in [Readers -> Responses \cup {None}]
    /\ seen \in [Readers -> Nat \X BOOLEAN]
    /\ copy \in [Readers -> Index]
    /\ again \in [Readers -> BOOLEAN]
    /\ res \in [Readers -> Outcome \cup {None}]
    /\ \A d \in Readers : rpc[d] # "idle" => want[d] # None
    /\ crashes \in Nat /\ failures \in Nat /\ losses \in Nat

\* An index that carries the coverage fields is the truth about the prefix it
\* covers: a response without an entry has no row there, and an entry is the
\* response's last row there; so "not in the index" may be answered with 404
\* without a scan (response_frames.py:2396), whatever crashed or failed before.
VerifiedIndexIsExact ==
    index.verified # 0 =>
        /\ index.ok
        /\ index.verified <= synced
        /\ \A k \in 1 .. index.verified : ~ledger[k].glued
        /\ \A r \in Responses :
            LET e == index.entries[r]
            IN  \A k \in 1 .. index.verified :
                    ledger[k].rid = r =>
                        /\ e # None
                        /\ k <= e.off
                        /\ e.off <= index.verified
                        /\ ledger[e.off].rid = r
                        /\ ledger[e.off].seq = e.seq

\* A row whose append returned survives every later crash, and what is on disk
\* is never rewritten or shortened (response_frames.py:6914-6918).
DurableRowsNeverChange ==
    [][/\ acked \subseteq acked'
       /\ \A k \in acked' : k <= Len(ledger')
       /\ \A k \in acked : ledger'[k] = ledger[k]]_vars

\* RESPONSES_CONTRACT.md:153: the readable frames of a response are numbered
\* 1, 2, 3, ... and each names the one before it.
FramesFormOneChain ==
    \A r \in Responses : \A k \in Lines(r) :
        /\ ledger[k].seq = Cardinality({j \in Lines(r) : j <= k})
        /\ ledger[k].parent = ledger[k].seq - 1

\* append_response_frame_with_parent_cas (6966): a successor is appended only
\* if its exact durable parent is current.
CasParentWasCurrent ==
    \A k \in DOMAIN ledger :
        ledger[k].expect # 0 =>
            LET before == {j \in Lines(ledger[k].rid) : j < k}
            IN  before # {} /\ ledger[Greatest(before)].seq = ledger[k].expect

\* A compare-and-swap that is refused was really late: the decision, taken from
\* the index, agrees with the rows (response_frames.py:6878-6892).
RefusalsAreTrue ==
    [][\A w \in Writers :
          pc[w] = "ready" /\ pc'[w] = "idle" /\ crashes' = crashes =>
              LatestSeq(job[w].rid) # job[w].expect]_vars

\* RESPONSES_CONTRACT.md:157-158: whatever a row inherits instead of logging,
\* expanding the readable rows gives back every ref the frame was written with.
BodiesRestorable ==
    \A k \in DOMAIN ledger : ~ledger[k].glued => Restorable(k, Expanded[k])

\* The manifest an index entry caches is the one the rows expand to, whenever
\* recovery would use the entry instead of the rows.
IndexedManifestIsExpanded ==
    \A r \in Responses :
        Verified(index) /\ index.entries[r] # None =>
            index.entries[r].man = Expanded[index.entries[r].off]

\* RESPONSES_CONTRACT.md:165: recovery answers with the latest frame, never an
\* older one: no row of the response that was complete when the lookup looked at
\* the file is newer than its answer, and after a 404 there was none.
ReadsAreCurrent ==
    \A d \in Readers :
        rpc[d] = "idle" /\ res[d] # None /\ res[d].kind \in {"found", "missing"} =>
            \A k \in 1 .. seen[d][1] : ledger[k].rid = want[d] => k <= res[d].at

\* The refinement mapping to FrameLineage: the chain of a response is what a
\* scan reads among the rows that are known to be on disk, in their order.
Durable(r) == {k \in Lines(r) : k <= synced}
Nth(S, n) == CHOOSE k \in S : Cardinality({j \in S : j <= k}) = n
Chain(r) ==
    [n \in 1 .. Cardinality(Durable(r)) |->
        LET line == ledger[Nth(Durable(r), n)]
        IN  [seq |-> line.seq, parent |-> line.parent, payload |-> line.refs]]

Lineage == INSTANCE FrameLineage
             WITH Payloads <- Manifest,
                  chain <- [r \in Responses |-> Chain(r)]

\* The durable rows of every response grow as FrameLineage says: one linked
\* frame at a time (RESPONSES_CONTRACT.md:152-154), whichever thread appends,
\* with or without compare-and-swap, and across crashes.
RefinesLineage == Lineage!Spec

\* Every finalization that started returns, and every lookup is answered:
\* no exception path keeps the lock and a lookup retries at most once.
JobsEnd == \A w \in Writers : pc[w] # "idle" ~> pc[w] = "idle"
LookupsEnd == \A d \in Readers : rpc[d] # "idle" ~> rpc[d] = "idle"
=============================================================================
