--------------------------- MODULE ResponseStreams ---------------------------
(***************************************************************************)
(* The event stream of one response whose first answer is a chat stream:   *)
(* the chat thread that answers and hands over to Late Fill, the Late Fill *)
(* worker that runs one wave after the other (module BranchWaves), the     *)
(* progress callbacks of a wave, all of which touch the live lookup record *)
(* and so publish to the stream, and the reader that generates the SSE     *)
(* response.                                                               *)
(*                                                                         *)
(* Of a payload only its late_fill object is kept.  The stream keeps which *)
(* kinds of events were appended and what the last update showed as open:  *)
(* a reader has seen all of that when it finds the stream done and nothing *)
(* left to read.  Branches are not requeued, no client stops any, and the  *)
(* record does not expire here (module LateFill has all three).            *)
(***************************************************************************)
EXTENDS BranchWaves

CONSTANTS MaxFaults  \* exceptions in the chat thread or the worker

ASSUME StreamsAssumption ==
    /\ MaxFaults \in Nat /\ Waves \subseteq Nat
    /\ \A v \in Waves : Of(v) # {}       \* a batch has a branch

VARIABLES
    chat,    \* the chat thread: answer, complete, handoff, ended
    gap,     \* the answer owes the branches of all waves
    worker,  \* the Late Fill worker: off, start, top, wave, over
    own,     \* its local lists
    rec,     \* late_fill of the live lookup record
    seen,    \* seen[v]: what the running callback of wave v read of it
    stream,  \* the registered stream
    reader,  \* the generator: reading, left, gone
    faults

streamVars == <<chat, gap, worker, own, rec, seen, stream, reader, faults>>
allVars == <<waveVars, streamVars>>

(* open: pending and active branches.  reported: branches with a terminal  *)
(* entry in branch_progress.                                               *)
LateFill == [status : {"none", "pending", "running", "terminal"}, open : SUBSET Branches,
             failed : SUBSET Branches, reported : SUBSET Branches]

NoLateFill == [status |-> "none", open |-> {}, failed |-> {}, reported |-> {}]
Owed == UNION {Of(v) : v \in Waves}

StreamsInit ==
    /\ WavesInit
    /\ chat = "answer" /\ gap \in BOOLEAN /\ worker = "off"
    /\ own = NoLateFill /\ rec = NoLateFill
    /\ seen = [v \in Waves |-> NoLateFill]
    /\ stream = [registered |-> TRUE, done |-> FALSE, kinds |-> {}, shown |-> Owed]
    /\ reader = "reading"
    /\ faults = MaxFaults

-----------------------------------------------------------------------------
(* The stream. *)

\* append_response_stream_events; a stream that was closed is not found.
Tell(kinds, done) ==
    stream' = IF ~stream.registered THEN stream
              ELSE [stream EXCEPT !.kinds = @ \cup kinds, !.done = @ \/ done]

\* Faulty as Outcome: nothing open is taken for the end
OutcomeWhenEmpty(s) == s.status # "none" /\ (s.open = {} \/ s.failed # {})

(* The payload is terminal or requires attention.  A failed branch makes   *)
(* the lifecycle repair_needed even while others are still open.           *)
Outcome(s) ==
    \/ s.status = "terminal"
    \/ s.status \in {"pending", "running"} /\ s.failed # {}

\* _touch_response_lookup with a payload stores it and publishes it.
Publish(s, view) ==
    /\ rec' = s
    /\ stream' = IF ~stream.registered THEN stream
                 ELSE LET ends == view = "ui" /\ Outcome(s)
                      IN  [stream EXCEPT !.kinds = @ \cup {"update"}
                                                     \cup (IF ends THEN {"outcome"} ELSE {}),
                                         !.done = @ \/ ends,
                                         !.shown = s.open]

(* The generator has yielded all events and finds the stream done.         *)
ReaderLeaves ==
    /\ reader = "reading" /\ stream.done
    /\ reader' = "left"
    /\ stream' = [stream EXCEPT !.registered = FALSE]
    /\ UNCHANGED <<waveVars, chat, gap, worker, own, rec, seen, faults>>

(* The client closes the connection. *)
ReaderGone ==
    /\ reader = "reading"
    /\ reader' = "gone"
    /\ stream' = [stream EXCEPT !.registered = FALSE]
    /\ UNCHANGED <<waveVars, chat, gap, worker, own, rec, seen, faults>>

-----------------------------------------------------------------------------
(* stream_worker. *)

(* The answer is persisted and published: owing its branches, or with the  *)
(* late_fill object of a direct closure, or without any.                   *)
Answer ==
    /\ chat = "answer"
    /\ chat' = "complete"
    /\ \E status \in IF gap THEN {"pending"} ELSE {"none", "terminal"} :
         Publish([NoLateFill EXCEPT !.status = status, !.open = IF gap THEN Owed ELSE {}], "ui")
    /\ UNCHANGED <<waveVars, gap, worker, own, seen, reader, faults>>

EndsStreamAlways == TRUE            \* Faulty as EndsStream: done with the answer
EndsStream == ~gap                  \* not wait_for_late_fill_terminal

(* The completion events; with a gap the stream waits for Late Fill.       *)
Complete ==
    /\ chat = "complete"
    /\ chat' = IF gap THEN "handoff" ELSE "ended"
    /\ Tell({"text"} \cup (IF gap THEN {} ELSE {"outcome"}), EndsStream)
    /\ UNCHANGED <<waveVars, gap, worker, own, rec, seen, reader, faults>>

Handoff ==
    /\ chat = "handoff"
    /\ chat' = "ended"
    /\ worker' = "start"
    /\ UNCHANGED <<waveVars, gap, own, rec, seen, stream, reader, faults>>

(* An exception anywhere before that: response.failed ends the stream.     *)
ChatFails ==
    /\ chat # "ended" /\ faults > 0
    /\ faults' = faults - 1
    /\ chat' = "ended"
    /\ Tell({"failed"}, TRUE)
    /\ UNCHANGED <<waveVars, gap, worker, own, rec, seen, reader>>

-----------------------------------------------------------------------------
(* complete_response_late_fill. *)

Start ==
    /\ worker = "start"
    /\ worker' = "top"
    /\ own' = [rec EXCEPT !.status = "running", !.reported = {}]
    /\ UNCHANGED <<waveVars, chat, gap, rec, seen, stream, reader, faults>>

(* The running state is published in full and the next wave is called: the *)
(* batches of the request graph come in its order.                         *)
StartWave(v) ==
    /\ worker = "top"
    /\ \A u \in Waves : u < v => phase[u] = "returned"
    /\ Of(v) \subseteq own.open
    /\ Begin(v)
    /\ worker' = "wave"
    /\ Publish(own, "ui")
    /\ UNCHANGED <<chat, gap, own, seen, reader, faults>>

WaveStep(v) == PoolStep(v) /\ UNCHANGED streamVars

(* publish_live_branch_progress: a read of the record, ... *)
ReadProgress(v) ==
    /\ CallbackBegin(v)
    /\ seen' = [seen EXCEPT ![v] = rec]
    /\ UNCHANGED <<chat, gap, worker, own, rec, stream, reader, faults>>

(* ... and a touch with the reported branches out of its open lists.       *)
TouchProgress(v) ==
    LET reported == seen[v].reported \cup {hears[v]} IN
    /\ CallbackEnd(v)
    /\ Publish([seen[v] EXCEPT !.reported = reported, !.open = @ \ reported], "ui")
    /\ seen' = [seen EXCEPT ![v] = NoLateFill]
    /\ UNCHANGED <<chat, gap, worker, own, reader, faults>>

ViewIsStatus(s) == "status"         \* Faulty as View: never the full view
View(s) == IF s.open = {} THEN "ui" ELSE "status"

(* The results are merged; with work left only the status is published.    *)
Settle(v) ==
    LET left == [own EXCEPT !.open = @ \ Of(v),
                            !.failed = @ \cup {b \in Of(v) : outcome[b] = "bad"}]
        mine == IF left.open = {} THEN [left EXCEPT !.status = "terminal"] ELSE left
    IN
    /\ worker = "wave" /\ phase[v] = "returned" /\ Of(v) \subseteq own.open
    /\ worker' = IF mine.open = {} THEN "over" ELSE "top"
    /\ own' = mine
    /\ Publish(mine, View(mine))
    /\ UNCHANGED <<waveVars, chat, gap, seen, reader, faults>>

(* The exception path publishes the active branches as failed.             *)
WorkerFails ==
    /\ worker \in {"start", "top", "wave"}
    /\ \A v \in Waves : phase[v] \in {"idle", "returned"}
    /\ faults > 0
    /\ faults' = faults - 1
    /\ worker' = "over"
    /\ \E active \in SUBSET rec.open :
         Publish([rec EXCEPT !.status = "terminal", !.open = {},
                             !.failed = @ \cup active], "ui")
    /\ UNCHANGED <<waveVars, chat, gap, own, seen, reader>>

-----------------------------------------------------------------------------
WorkerStep ==
    \/ Start
    \/ \E v \in Waves : StartWave(v) \/ WaveStep(v) \/ Settle(v)

StreamsIdle ==
    /\ chat = "ended" /\ worker \in {"off", "over"} /\ reader # "reading"
    /\ UNCHANGED allVars

(* What threads do when nothing fails and no client disconnects. *)
ThreadStep ==
    \/ Answer \/ Complete \/ Handoff
    \/ WorkerStep
    \/ \E v \in Waves : ReadProgress(v) \/ TouchProgress(v)
    \/ ReaderLeaves

StreamsNext ==
    ThreadStep \/ ChatFails \/ WorkerFails \/ ReaderGone \/ StreamsIdle

StreamsSpec == StreamsInit /\ [][StreamsNext]_allVars

(* Some thread that can go on is scheduled, and calls of backends return   *)
(* (they have timeouts).  All the work of one response is finite, so this  *)
(* weakest form of fairness gets every thread to its end.                  *)
StreamsFairSpec == StreamsSpec /\ WF_allVars(ThreadStep)

-----------------------------------------------------------------------------
StreamsTypeOK ==
    /\ WavesTypeOK
    /\ chat \in {"answer", "complete", "handoff", "ended"} /\ gap \in BOOLEAN
    /\ worker \in {"off", "start", "top", "wave", "over"}
    /\ own \in LateFill /\ rec \in LateFill /\ seen \in [Waves -> LateFill]
    /\ stream \in [registered : BOOLEAN, done : BOOLEAN, shown : SUBSET Branches,
                   kinds : SUBSET {"text", "update", "outcome", "failed"}]
    /\ reader \in {"reading", "left", "gone"}
    /\ faults \in 0 .. MaxFaults

\* No published update shows a branch as open again that an earlier one
\* showed as settled, although callbacks publish what they read some steps
\* ago: the drain of a wave keeps them from racing its worker.
UpdatesNeverReopen == [][stream'.shown \subseteq stream.shown]_stream

\* A reader that leaves by itself has been told how the response ended.
LeavesInformed == reader = "left" => stream.kinds \cap {"outcome", "failed"} # {}

\* As long as nothing failed, a stream that waits for Late Fill is not done
\* before the worker has settled everything: the last callback of a wave
\* empties the open lists of a response that is still running.
NoEarlyEnd ==
    gap /\ stream.done /\ faults = MaxFaults /\ rec.failed = {} => worker = "over"

\* The option late_fill_stream_waits_for_terminal (ollmo_webserver.py:3774)
\* says that the stream of an answer with a gap waits for the terminal state
\* of Late Fill: whatever happened to single branches, a stream that is done
\* has no branch left to execute.
DoneMeansSettled ==
    gap /\ stream.done /\ "failed" \notin stream.kinds => rec.open = {}

\* Everybody gets to an end: whatever its branches answer and however few
\* pool threads wait for how many instances, a wave that was called returns,
\* and so do the chat thread, the worker and the generator of the stream.
EverybodyEnds ==
    <>(/\ chat = "ended" /\ worker \in {"off", "over"} /\ reader # "reading"
       /\ \A v \in Waves : phase[v] \in {"idle", "returned"})
=============================================================================
