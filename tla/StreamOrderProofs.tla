--------------------------- MODULE StreamOrderProofs ---------------------------
(***************************************************************************)
(* The order in which worker and callbacks publish to the stream of a      *)
(* response, for any number of waves, branches and exceptions.  It rests   *)
(* on what BranchWavesProofs shows of the drain of a wave.                 *)
(***************************************************************************)
EXTENDS ResponseStreams, BranchWavesProofs

(* Types, and that the worker keeps no progress of its own.                *)
Records ==
    /\ own \in LateFill /\ rec \in LateFill /\ seen \in [Waves -> LateFill]
    /\ DOMAIN stream = {"registered", "done", "kinds", "shown"}
    /\ faults \in 0 .. MaxFaults
    /\ own.reported = {}

(* The chat thread hands over last, and no wave is called before that.     *)
HandsOver ==
    /\ worker # "off" => chat = "ended"
    /\ worker = "off" => rec.failed = {}
    /\ worker \in {"off", "start"} => \A v \in Waves : phase[v] = "idle"
    /\ worker # "wave" => \A v \in Waves : phase[v] \in {"idle", "returned"}

(* What the stream showed last is what the record says.                    *)
Mirrors ==
    /\ chat = "answer" => stream.shown = Owed
    /\ stream.registered /\ (worker # "off" \/ chat \in {"complete", "handoff"}) =>
           stream.shown = rec.open

(* A wave that is over has none of its branches open.                      *)
Over(u) == phase[u] = "idle" \/ (phase[u] = "returned" /\ Of(u) \cap own.open = {})

(* v is the wave the worker waits for: nothing but its branches is missing *)
(* in the record.                                                          *)
Current(v) ==
    /\ phase[v] # "idle" /\ Of(v) \subseteq own.open
    /\ \A u \in Waves : u # v => Over(u)
    /\ own.open \ Of(v) \subseteq rec.open /\ rec.open \subseteq own.open
    /\ rec.reported \subseteq Of(v)
    /\ rec.failed = own.failed /\ rec.status = "running"

Tops == worker = "top" =>
    own.open = rec.open /\ own.failed = rec.failed /\ \A u \in Waves : Over(u)
Calls == worker = "wave" => \E v \in Waves : Current(v)
Runs == worker \in {"top", "wave"} => own.status = "running"

(* A callback knows the newest record.                                     *)
Fetched == \A v \in Waves : hears[v] # None => seen[v] = rec

(* Why a stream is done.                                                   *)
Ends == gap /\ stream.done /\ faults = MaxFaults => worker = "over" \/ rec.failed # {}

OInv == Records /\ HandsOver /\ Mirrors /\ Tops /\ Calls /\ Runs /\ Fetched /\ Ends

Shrinks == stream'.shown \subseteq stream.shown

LEMMA InitOrder == StreamsInit => OInv
<1> SUFFICES ASSUME StreamsInit PROVE OInv
  OBVIOUS
<1>1. NoLateFill \in LateFill /\ NoLateFill.reported = {} /\ NoLateFill.failed = {}
  BY DEF NoLateFill, LateFill
<1>2. Records
  BY <1>1, StreamsAssumption DEF StreamsInit, Records
<1>3. HandsOver /\ Mirrors /\ Tops /\ Calls /\ Runs
  BY <1>1 DEF StreamsInit, WavesInit, HandsOver, Mirrors, Tops, Calls, Runs
<1>4. Fetched /\ Ends
  BY DEF StreamsInit, WavesInit, Fetched, Ends
<1> QED
  BY <1>2, <1>3, <1>4 DEF OInv

(* Every step is one of a wave or leaves the waves alone.                  *)
LEMMA WavesInside == [StreamsNext]_allVars => [WavesNext]_waveVars
<1> SUFFICES ASSUME [StreamsNext]_allVars PROVE [WavesNext]_waveVars
  OBVIOUS
<1>1. CASE UNCHANGED allVars \/ StreamsIdle
  BY <1>1 DEF StreamsIdle, allVars
<1>2. CASE Answer \/ Complete \/ Handoff \/ ChatFails
  BY <1>2 DEF Answer, Complete, Handoff, ChatFails
<1>3. CASE Start \/ WorkerFails \/ ReaderLeaves \/ ReaderGone
  BY <1>3 DEF Start, WorkerFails, ReaderLeaves, ReaderGone
<1>4. ASSUME NEW v \in Waves, StartWave(v) PROVE [WavesNext]_waveVars
  BY <1>4 DEF StartWave, WavesNext
<1>5. ASSUME NEW v \in Waves, WaveStep(v) PROVE [WavesNext]_waveVars
  BY <1>5 DEF WaveStep, WavesNext
<1>6. ASSUME NEW v \in Waves, ReadProgress(v) \/ TouchProgress(v) PROVE [WavesNext]_waveVars
  BY <1>6 DEF ReadProgress, TouchProgress, WavesNext
<1>7. ASSUME NEW v \in Waves, Settle(v) PROVE [WavesNext]_waveVars
  BY <1>7 DEF Settle
<1> QED
  BY <1>1, <1>2, <1>3, <1>4, <1>5, <1>6, <1>7 DEF StreamsNext, ThreadStep, WorkerStep

(* A callback runs while its wave executes, and for a branch of it.        *)
LEMMA HearsExecuting ==
  ASSUME CInv, NEW v \in Waves, hears[v] # None
  PROVE  phase[v] = "execute" /\ hears[v] \in Of(v)
<1>1. hears[v] \in Branches
  BY DEF CInv, Progress, Typed
<1>2. WaveOf[hears[v]] = v /\ at[hears[v]] = "collected"
  BY DEF CInv, Progress, Hearing, Fresh
<1>3. phase[v] \notin {"idle", "prepare"}
  BY <1>1, <1>2 DEF CInv, WInv, PreparedFirst
<1>4. phase[v] # "returned"
  BY DEF CInv, Drains, Told
<1> QED
  BY <1>1, <1>2, <1>3, <1>4 DEF CInv, WInv, Shape, Of

(* Where no wave executes, no callback runs.                               *)
LEMMA Silent ==
  ASSUME CInv, OInv, worker # "wave"
  PROVE  \A v \in Waves : hears[v] = None
BY HearsExecuting DEF OInv, HandsOver

LEMMA Published ==
  ASSUME Records, NEW s, NEW view, Publish(s, view)
  PROVE  /\ rec' = s
         /\ DOMAIN stream' = DOMAIN stream
         /\ stream'.registered = stream.registered
         /\ stream.registered => stream'.shown = s.open
         /\ ~stream.registered => stream' = stream
         /\ stream'.done => stream.done \/ (view = "ui" /\ Outcome(s))
<1>1. CASE ~stream.registered
  BY <1>1 DEF Publish
<1>2. CASE stream.registered
  <2> DEFINE ends == view = "ui" /\ Outcome(s)
  <2>1. stream' = [stream EXCEPT !.kinds = @ \cup {"update"}
                                             \cup (IF ends THEN {"outcome"} ELSE {}),
                                 !.done = @ \/ ends, !.shown = s.open]
    BY <1>2 DEF Publish
  <2>2. rec' = s
    BY DEF Publish
  <2> HIDE DEF ends
  <2>3. /\ DOMAIN stream' = DOMAIN stream /\ stream'.registered = stream.registered
        /\ stream'.shown = s.open /\ (stream'.done <=> stream.done \/ ends)
    BY <2>1 DEF Records
  <2> QED
    BY <1>2, <2>2, <2>3 DEF ends
<1> QED
  BY <1>1, <1>2

LEMMA TellsOnly ==
  ASSUME Records, NEW kinds, NEW done, Tell(kinds, done)
  PROVE  /\ DOMAIN stream' = DOMAIN stream
         /\ stream'.registered = stream.registered
         /\ stream'.shown = stream.shown
         /\ stream'.done => stream.done \/ done
<1>1. CASE ~stream.registered
  BY <1>1 DEF Tell
<1>2. CASE stream.registered
  <2>1. stream' = [stream EXCEPT !.kinds = @ \cup kinds, !.done = @ \/ done]
    BY <1>2 DEF Tell
  <2> QED
    BY <2>1 DEF Records
<1> QED
  BY <1>1, <1>2

-----------------------------------------------------------------------------
(* The chat thread.                                                        *)

LEMMA AnswerOrder ==
  ASSUME CInv, OInv, Answer
  PROVE  OInv' /\ Shrinks
<1> USE DEF OInv
<1>1. PICK status \in IF gap THEN {"pending"} ELSE {"none", "terminal"} :
        Publish([NoLateFill EXCEPT !.status = status, !.open = IF gap THEN Owed ELSE {}], "ui")
  BY DEF Answer
<1> DEFINE s == [NoLateFill EXCEPT !.status = status, !.open = IF gap THEN Owed ELSE {}]
<1>2. /\ s \in LateFill /\ s.open \subseteq Owed /\ s.failed = {}
      /\ gap => s.status = "pending"
  BY DEF NoLateFill, LateFill, Owed, Of
<1>3. Publish(s, "ui")
  BY <1>1
<1> HIDE DEF s
<1>4. /\ chat = "answer" /\ chat' = "complete"
      /\ UNCHANGED <<phase, hears, gap, worker, own, seen, faults>>
  BY DEF Answer, waveVars
<1>5. worker = "off" /\ stream.shown = Owed
  BY <1>4 DEF HandsOver, Mirrors
<1>6. /\ rec' = s /\ DOMAIN stream' = DOMAIN stream
      /\ stream'.registered = stream.registered
      /\ stream.registered => stream'.shown = s.open
      /\ ~stream.registered => stream' = stream
      /\ stream'.done => stream.done \/ Outcome(s)
  BY <1>3, Published
<1>7. Shrinks
  BY <1>2, <1>5, <1>6 DEF Shrinks
<1>8. Records' /\ HandsOver' /\ Mirrors'
  BY <1>2, <1>4, <1>5, <1>6 DEF Records, HandsOver, Mirrors
<1>9. Tops' /\ Calls' /\ Runs'
  BY <1>4, <1>5 DEF Tops, Calls, Runs
<1>10. Fetched'
  BY <1>4, <1>5, Silent DEF Fetched
<1>11. Ends'
  BY <1>2, <1>4, <1>5, <1>6 DEF Ends, HandsOver, Outcome
<1> QED
  BY <1>7, <1>8, <1>9, <1>10, <1>11

(* Steps that leave all lists alone and show nothing new.                  *)
LEMMA SameLists ==
  ASSUME OInv, UNCHANGED <<phase, hears, gap, own, rec, seen>>,
         DOMAIN stream' = DOMAIN stream, stream'.shown = stream.shown,
         stream'.registered => stream.registered
  PROVE  /\ own' \in LateFill /\ rec' \in LateFill /\ seen' \in [Waves -> LateFill]
         /\ \A u \in Waves : Over(u) => Over(u)'
         /\ \A v \in Waves : Current(v) => Current(v)'
         /\ Fetched' /\ Shrinks
BY DEF OInv, Records, Over, Current, Fetched, Shrinks

(* The chat thread tells how it goes on.                                   *)
LEMMA TellMoves ==
  ASSUME OInv, UNCHANGED <<phase, hears, gap, worker, own, rec, seen>>,
         DOMAIN stream' = DOMAIN stream, stream'.registered = stream.registered,
         stream'.shown = stream.shown, faults' \in 0 .. MaxFaults,
         stream'.done => stream.done \/ ~gap \/ faults' # MaxFaults,
         faults' = MaxFaults => faults = MaxFaults,
         chat # "ended", chat' \in {"handoff", "ended"}, chat' = "handoff" => chat = "complete"
  PROVE  OInv' /\ Shrinks
<1> USE DEF OInv
<1>1. Records' /\ Ends'
  BY DEF Records, Ends
<1>2. HandsOver' /\ Mirrors'
  BY DEF HandsOver, Mirrors
<1>3. Tops' /\ Calls' /\ Runs'
  BY SameLists DEF Tops, Calls, Runs
<1>4. Fetched' /\ Shrinks
  BY SameLists
<1> QED
  BY <1>1, <1>2, <1>3, <1>4

LEMMA CompleteOrder ==
  ASSUME CInv, OInv, Complete \/ ChatFails
  PROVE  OInv' /\ Shrinks
<1>1. Records /\ faults \in 0 .. MaxFaults
  BY DEF OInv, Records
<1>2. CASE Complete
  <2>1. /\ DOMAIN stream' = DOMAIN stream /\ stream'.registered = stream.registered
        /\ stream'.shown = stream.shown
        /\ stream'.done => stream.done \/ ~gap
    BY <1>1, <1>2, TellsOnly DEF Complete, EndsStream
  <2>2. /\ UNCHANGED <<phase, hears, gap, worker, own, rec, seen>>
        /\ chat = "complete" /\ chat' \in {"handoff", "ended"}
    BY <1>2 DEF Complete, waveVars
  <2>3. faults' = faults
    BY <1>2 DEF Complete
  <2>4. /\ chat # "ended"
        /\ faults' \in 0 .. MaxFaults
    BY <1>1, <2>1, <2>2, <2>3
  <2> QED
    BY <2>1, <2>2, <2>3, <2>4, TellMoves
<1>3. CASE ChatFails
  <2>1. /\ DOMAIN stream' = DOMAIN stream /\ stream'.registered = stream.registered
        /\ stream'.shown = stream.shown
    BY <1>1, <1>3, TellsOnly DEF ChatFails
  <2>2. faults' \in 0 .. MaxFaults /\ faults' # MaxFaults
    BY <1>1, <1>3, StreamsAssumption DEF ChatFails
  <2> QED
    BY <1>1, <1>3, <2>1, <2>2, TellMoves DEF ChatFails, waveVars
<1> QED
  BY <1>2, <1>3

LEMMA HandoffOrder ==
  ASSUME CInv, OInv, Handoff
  PROVE  OInv' /\ Shrinks
<1> USE DEF OInv
<1>1. /\ UNCHANGED <<phase, hears, gap, own, rec, seen, stream, faults>>
      /\ chat = "handoff" /\ chat' = "ended" /\ worker' = "start" /\ worker = "off"
  BY DEF Handoff, waveVars, HandsOver
<1>2. Records' /\ HandsOver' /\ Mirrors' /\ Shrinks
  BY <1>1 DEF Records, HandsOver, Mirrors, Shrinks
<1>3. Tops' /\ Calls' /\ Runs' /\ Fetched' /\ Ends'
  BY <1>1 DEF Tops, Calls, Runs, Fetched, Ends
<1> QED
  BY <1>2, <1>3

LEMMA ReaderOrder ==
  ASSUME CInv, OInv, ReaderLeaves \/ ReaderGone
  PROVE  OInv' /\ Shrinks
<1> USE DEF OInv
<1>1. /\ UNCHANGED <<phase, hears, chat, gap, worker, own, rec, seen, faults>>
      /\ stream' = [stream EXCEPT !.registered = FALSE]
  BY DEF ReaderLeaves, ReaderGone, waveVars
<1>2. /\ DOMAIN stream' = DOMAIN stream /\ ~stream'.registered
      /\ stream'.shown = stream.shown /\ stream'.done = stream.done
  BY <1>1 DEF Records
<1>3. Records' /\ HandsOver' /\ Mirrors' /\ Ends'
  BY <1>1, <1>2 DEF Records, HandsOver, Mirrors, Ends
<1>4. Tops' /\ Calls' /\ Runs'
  BY <1>1, <1>2, SameLists DEF Tops, Calls, Runs
<1>5. Fetched' /\ Shrinks
  BY <1>1, <1>2, SameLists
<1> QED
  BY <1>3, <1>4, <1>5

-----------------------------------------------------------------------------
(* The worker.                                                             *)

LEMMA StartOrder ==
  ASSUME CInv, OInv, Start
  PROVE  OInv' /\ Shrinks
<1> USE DEF OInv
<1>1. /\ UNCHANGED <<phase, hears, chat, gap, rec, seen, stream, faults>>
      /\ own' = [rec EXCEPT !.status = "running", !.reported = {}]
      /\ worker = "start" /\ worker' = "top"
  BY DEF Start, waveVars
<1>2. /\ own' \in LateFill /\ own'.open = rec.open /\ own'.failed = rec.failed
      /\ own'.reported = {} /\ own'.status = "running"
  BY <1>1 DEF Records, LateFill
<1>3. Records' /\ HandsOver' /\ Mirrors' /\ Shrinks
  BY <1>1, <1>2 DEF Records, HandsOver, Mirrors, Shrinks
<1>4. Tops' /\ Calls' /\ Runs'
  BY <1>1, <1>2 DEF Tops, Calls, Runs, HandsOver, Over
<1>5. Fetched' /\ Ends'
  BY <1>1 DEF Fetched, Ends
<1> QED
  BY <1>3, <1>4, <1>5

LEMMA StartWaveOrder ==
  ASSUME CInv, OInv, NEW v \in Waves, StartWave(v)
  PROVE  OInv' /\ Shrinks
<1> USE DEF OInv
<1>1. /\ worker = "top" /\ worker' = "wave" /\ Of(v) \subseteq own.open
      /\ phase[v] = "idle" /\ phase' = [phase EXCEPT ![v] = "prepare"]
      /\ Publish(own, "ui")
      /\ UNCHANGED <<hears, chat, gap, own, seen, faults>>
  BY DEF StartWave, Begin
<1>2. /\ own \in LateFill /\ own.open = rec.open /\ own.failed = rec.failed
      /\ own.reported = {} /\ own.status = "running"
  BY <1>1 DEF Records, Tops, Runs
<1>3. /\ rec' = own /\ DOMAIN stream' = DOMAIN stream
      /\ stream'.registered = stream.registered
      /\ stream.registered => stream'.shown = own.open
      /\ ~stream.registered => stream' = stream
      /\ stream'.done => stream.done \/ Outcome(own)
  BY <1>1, Published
<1>4. Shrinks
  BY <1>1, <1>2, <1>3 DEF Shrinks, Mirrors
<1>5. phase \in [Waves -> {"idle", "prepare", "execute", "returned"}]
  BY DEF CInv, WInv, Shape
<1>6. Records' /\ HandsOver' /\ Mirrors'
  BY <1>1, <1>2, <1>3 DEF Records, HandsOver, Mirrors
<1>7. Calls'
  <2>1. \A u \in Waves : u # v => Over(u)'
    BY <1>1, <1>5 DEF Tops, Over
  <2>2. phase'[v] # "idle"
    BY <1>1, <1>5
  <2>3. Current(v)'
    BY <1>1, <1>2, <1>3, <2>1, <2>2 DEF Current
  <2> QED
    BY <2>3 DEF Calls
<1>8. Tops' /\ Runs'
  BY <1>1, <1>2 DEF Tops, Runs
<1>9. Fetched'
  BY <1>1, Silent DEF Fetched
<1>10. Ends'
  BY <1>1, <1>2, <1>3 DEF Ends, Outcome
<1> QED
  BY <1>4, <1>6, <1>7, <1>8, <1>9, <1>10

(* What a step of the pool does to the wave it belongs to.                 *)
LEMMA PoolPhase ==
  ASSUME CInv, NEW v \in Waves, PoolStep(v)
  PROVE  /\ hears' = hears
         /\ phase' = phase \/ (/\ phase[v] \in {"prepare", "execute"}
                               /\ \E next \in {"execute", "returned"} :
                                    phase' = [phase EXCEPT ![v] = next])
<1>1. CASE Submit(v)
  BY <1>1 DEF Submit
<1>2. CASE Return(v)
  BY <1>2 DEF Return
<1>3. CASE Prepare(v) \/ Dequeue(v)
  BY <1>3 DEF Prepare, Dequeue
<1>4. ASSUME NEW b \in Branches, Run(v, b) \/ Finish(v, b) \/ Collect(v, b)
      PROVE  UNCHANGED <<phase, hears>>
  BY <1>4 DEF Run, Finish, Collect
<1> QED
  BY <1>1, <1>2, <1>3, <1>4 DEF PoolStep

LEMMA WaveStepOrder ==
  ASSUME CInv, OInv, NEW v \in Waves, WaveStep(v)
  PROVE  OInv' /\ Shrinks
<1> USE DEF OInv
<1>1. /\ UNCHANGED <<hears, chat, gap, worker, own, rec, seen, stream, faults>>
      /\ PoolStep(v)
  BY PoolPhase DEF WaveStep, streamVars
<1>2. CASE phase' = phase
  <2>1. Records' /\ HandsOver' /\ Mirrors' /\ Ends' /\ Runs'
    BY <1>1, <1>2 DEF Records, HandsOver, Mirrors, Ends, Runs
  <2>2. Tops' /\ Calls' /\ Fetched' /\ Shrinks
    BY <1>1, <1>2, SameLists DEF Tops, Calls
  <2> QED
    BY <2>1, <2>2
<1>3. ASSUME phase[v] \in {"prepare", "execute"}, NEW next \in {"execute", "returned"},
             phase' = [phase EXCEPT ![v] = next]
      PROVE  OInv' /\ Shrinks
  <2>1. phase \in [Waves -> {"idle", "prepare", "execute", "returned"}]
    BY DEF CInv, WInv, Shape
  <2>2. worker = "wave"
    BY <1>3 DEF HandsOver
  <2>3. PICK w \in Waves : Current(w)
    BY <2>2 DEF Calls
  <2>4. w = v
    BY <1>3, <2>3 DEF Current, Over
  <2>5. /\ phase'[v] # "idle"
        /\ \A u \in Waves : u # v => phase'[u] = phase[u]
    BY <1>3, <2>1
  <2>6. Current(v)'
    BY <1>1, <2>3, <2>4, <2>5 DEF Current, Over
  <2>7. Records' /\ HandsOver' /\ Mirrors' /\ Ends' /\ Runs'
    BY <1>1, <2>2 DEF Records, HandsOver, Mirrors, Ends, Runs
  <2>8. Tops' /\ Calls' /\ Fetched' /\ Shrinks
    BY <1>1, <2>2, <2>6 DEF Tops, Calls, Fetched, Shrinks
  <2> QED
    BY <2>7, <2>8
<1> QED
  BY <1>1, <1>2, <1>3, PoolPhase

LEMMA SettleOrder ==
  ASSUME CInv, OInv, NEW v \in Waves, Settle(v)
  PROVE  OInv' /\ Shrinks
<1> USE DEF OInv
<1> DEFINE left == [own EXCEPT !.open = @ \ Of(v),
                               !.failed = @ \cup {b \in Of(v) : outcome[b] = "bad"}]
           mine == IF left.open = {} THEN [left EXCEPT !.status = "terminal"] ELSE left
<1>1. /\ worker = "wave" /\ phase[v] = "returned" /\ Of(v) \subseteq own.open
      /\ worker' = IF mine.open = {} THEN "over" ELSE "top"
      /\ own' = mine /\ Publish(mine, View(mine))
      /\ UNCHANGED <<phase, hears, chat, gap, seen, faults>>
  BY DEF Settle, waveVars
<1>2. own.status = "running" /\ own \in LateFill /\ own.reported = {}
  BY <1>1 DEF Runs, Records
<1>3. /\ mine \in LateFill /\ mine.open = own.open \ Of(v) /\ own.failed \subseteq mine.failed
      /\ mine.reported = {}
      /\ mine.open # {} => mine.status = "running"
  BY <1>2 DEF LateFill, Of
<1> HIDE DEF mine
<1>4. PICK w \in Waves : Current(w)
  BY <1>1 DEF Calls
<1>5. w = v
  BY <1>1, <1>4, StreamsAssumption DEF Current, Over
<1>6. /\ rec' = mine /\ DOMAIN stream' = DOMAIN stream
      /\ stream'.registered = stream.registered
      /\ stream.registered => stream'.shown = mine.open
      /\ ~stream.registered => stream' = stream
      /\ stream'.done => stream.done \/ View(mine) = "ui"
  BY <1>1, Published
<1>7. mine.open \subseteq rec.open
  BY <1>3, <1>4, <1>5 DEF Current
<1>8. Shrinks
  BY <1>1, <1>6, <1>7 DEF Shrinks, Mirrors
<1>9. \A u \in Waves : Over(u)'
  BY <1>1, <1>3, <1>4, <1>5 DEF Current, Over
<1>10. Records' /\ HandsOver' /\ Mirrors'
  <2>1. \A u \in Waves : phase[u] \in {"idle", "returned"}
    BY <1>1, <1>4, <1>5 DEF Current, Over
  <2>2. Records'
    BY <1>1, <1>3, <1>6 DEF Records
  <2>3. chat = "ended" /\ worker' \in {"top", "over"}
    BY <1>1 DEF HandsOver
  <2>4. HandsOver'
    BY <1>1, <2>1, <2>3 DEF HandsOver
  <2>5. Mirrors'
    BY <1>1, <1>6, <2>3 DEF Mirrors
  <2> QED
    BY <2>2, <2>4, <2>5
<1>11. Tops' /\ Calls' /\ Runs'
  <2>1. own' = mine /\ rec' = mine /\ worker' # "wave"
    BY <1>1, <1>6
  <2>2. worker' = "top" => own'.status = "running"
    BY <1>1, <1>3
  <2> QED
    BY <1>9, <2>1, <2>2 DEF Tops, Calls, Runs
<1>12. Fetched'
  <2>1. \A u \in Waves : hears[u] = None
    BY <1>1, <1>4, <1>5, HearsExecuting DEF Current, Over
  <2> QED
    BY <1>1, <2>1 DEF Fetched
<1>13. Ends'
  <2>1. mine.open # {} => View(mine) # "ui"
    BY DEF View
  <2> QED
    BY <1>1, <1>3, <1>4, <1>6, <2>1 DEF Ends, Current
<1> QED
  BY <1>8, <1>10, <1>11, <1>12, <1>13

(* A callback begins: it reads the record. *)
LEMMA ReadOrder ==
  ASSUME CInv, OInv, NEW v \in Waves, ReadProgress(v)
  PROVE  OInv' /\ Shrinks
<1> USE DEF OInv
<1>1. /\ UNCHANGED <<phase, chat, gap, worker, own, rec, stream, faults>>
      /\ seen' = [seen EXCEPT ![v] = rec]
      /\ hears[v] = None /\ hears' = [hears EXCEPT ![v] = Head(told[v])]
  BY DEF ReadProgress, CallbackBegin
<1>2. hears \in [Waves -> Branches \cup {None}]
  BY DEF CInv, Progress, Typed
<1>3. Records' /\ HandsOver' /\ Mirrors' /\ Ends' /\ Shrinks
  BY <1>1 DEF Records, HandsOver, Mirrors, Ends, Shrinks
<1>4. \A u \in Waves : Over(u) => Over(u)'
  BY <1>1 DEF Over
<1>5. \A u \in Waves : Current(u) => Current(u)'
  BY <1>1, <1>4 DEF Current
<1>6. Tops' /\ Calls' /\ Runs'
  BY <1>1, <1>4, <1>5 DEF Tops, Calls, Runs
<1>7. Fetched'
  <2>1. seen'[v] = rec /\ \A u \in Waves \ {v} : seen'[u] = seen[u] /\ hears'[u] = hears[u]
    BY <1>1, <1>2 DEF Records
  <2> QED
    BY <1>1, <2>1 DEF Fetched
<1> QED
  BY <1>3, <1>6, <1>7

(* A callback ends: as it read the newest record, it only takes branches   *)
(* of its own wave out of it.                                              *)
LEMMA TouchOrder ==
  ASSUME CInv, OInv, NEW v \in Waves, TouchProgress(v)
  PROVE  OInv' /\ Shrinks
<1> USE DEF OInv
<1> DEFINE reported == seen[v].reported \cup {hears[v]}
           s == [seen[v] EXCEPT !.reported = reported, !.open = @ \ reported]
<1>1. /\ hears[v] # None /\ hears' = [hears EXCEPT ![v] = None]
      /\ Publish(s, "ui") /\ seen' = [seen EXCEPT ![v] = NoLateFill]
      /\ UNCHANGED <<phase, chat, gap, worker, own, faults>>
  BY DEF TouchProgress, CallbackEnd
<1>2. /\ seen[v] = rec /\ phase[v] = "execute" /\ hears[v] \in Of(v) /\ hears[v] \in Branches
  BY <1>1, HearsExecuting DEF Fetched, Of
<1>3. worker = "wave" /\ chat = "ended"
  BY <1>2 DEF HandsOver
<1>4. Current(v)
  BY <1>2, <1>3 DEF Calls, Current, Over
<1>5. rec \in LateFill
  BY DEF Records
<1>6. /\ s \in LateFill /\ s.status = rec.status /\ s.failed = rec.failed
      /\ s.open = rec.open \ reported /\ s.reported = reported
      /\ reported \subseteq Of(v)
  BY <1>2, <1>4, <1>5 DEF LateFill, Current
<1> HIDE DEF s, reported
<1>7. /\ rec' = s /\ DOMAIN stream' = DOMAIN stream
      /\ stream'.registered = stream.registered
      /\ stream.registered => stream'.shown = s.open
      /\ ~stream.registered => stream' = stream
      /\ stream'.done => stream.done \/ Outcome(s)
  BY <1>1, Published
<1>8. Shrinks
  BY <1>3, <1>6, <1>7 DEF Shrinks, Mirrors
<1>9. Records' /\ HandsOver' /\ Mirrors'
  <2>1. NoLateFill \in LateFill
    BY DEF NoLateFill, LateFill
  <2>2. Records'
    BY <1>1, <1>6, <1>7, <2>1 DEF Records
  <2>3. HandsOver'
    BY <1>1, <1>3 DEF HandsOver
  <2>4. Mirrors'
    BY <1>1, <1>3, <1>7 DEF Mirrors
  <2> QED
    BY <2>2, <2>3, <2>4
<1>10. \A u \in Waves : u # v => Over(u)'
  BY <1>1, <1>4 DEF Current, Over
<1>11. Calls'
  <2>1. own.open \ Of(v) \subseteq s.open /\ s.open \subseteq own.open
    BY <1>4, <1>6 DEF Current
  <2>2. Current(v)'
    BY <1>1, <1>4, <1>6, <1>7, <1>10, <2>1 DEF Current
  <2> QED
    BY <2>2 DEF Calls
<1>12. Tops' /\ Runs'
  BY <1>1, <1>3 DEF Tops, Runs
<1>13. Fetched'
  <2>1. \A u \in Waves : u # v => hears[u] = None
    BY <1>4, HearsExecuting DEF Current, Over
  <2>2. \A u \in Waves : hears'[u] = None
    BY <1>1, <2>1 DEF CInv, Progress, Typed
  <2> QED
    BY <2>2 DEF Fetched
<1>14. Ends'
  BY <1>1, <1>4, <1>6, <1>7 DEF Ends, Current, Outcome
<1> QED
  BY <1>8, <1>9, <1>11, <1>12, <1>13, <1>14

LEMMA WorkerFailsOrder ==
  ASSUME CInv, OInv, WorkerFails
  PROVE  OInv' /\ Shrinks
<1> USE DEF OInv
<1>1. PICK active \in SUBSET rec.open :
        Publish([rec EXCEPT !.status = "terminal", !.open = {}, !.failed = @ \cup active], "ui")
  BY DEF WorkerFails
<1> DEFINE s == [rec EXCEPT !.status = "terminal", !.open = {}, !.failed = @ \cup active]
<1>2. s \in LateFill /\ s.open = {}
  BY DEF Records, LateFill
<1>3. Publish(s, "ui")
  BY <1>1
<1> HIDE DEF s
<1>4. /\ rec' = s /\ DOMAIN stream' = DOMAIN stream
      /\ stream'.registered = stream.registered
      /\ stream.registered => stream'.shown = s.open
      /\ ~stream.registered => stream' = stream
  BY <1>3, Published
<1>5. /\ UNCHANGED <<phase, hears, chat, gap, own, seen>>
      /\ worker \in {"start", "top", "wave"} /\ worker' = "over"
      /\ \A v \in Waves : phase[v] \in {"idle", "returned"}
  BY DEF WorkerFails, waveVars
<1>6. faults' \in 0 .. MaxFaults /\ faults' # MaxFaults
  BY StreamsAssumption DEF WorkerFails, Records
<1>7. chat = "ended"
  BY <1>5 DEF HandsOver
<1>8. Shrinks
  BY <1>2, <1>4 DEF Shrinks
<1>9. Records'
  BY <1>2, <1>4, <1>5, <1>6 DEF Records
<1>10. HandsOver' /\ Mirrors'
  BY <1>4, <1>5, <1>7 DEF HandsOver, Mirrors
<1>11. Tops' /\ Calls' /\ Runs'
  BY <1>5 DEF Tops, Calls, Runs
<1>12. Fetched'
  BY <1>5, HearsExecuting DEF Fetched
<1>13. Ends'
  BY <1>6 DEF Ends
<1> QED
  BY <1>8, <1>9, <1>10, <1>11, <1>12, <1>13

LEMMA StutterOrder ==
  ASSUME OInv, UNCHANGED allVars
  PROVE  OInv' /\ Shrinks
<1> USE DEF OInv
<1>1. UNCHANGED <<phase, hears, chat, gap, worker, own, rec, seen, stream, faults>>
  BY DEF allVars, waveVars, streamVars
<1>2. Records' /\ HandsOver' /\ Mirrors' /\ Ends' /\ Runs'
  BY <1>1 DEF Records, HandsOver, Mirrors, Ends, Runs
<1>3. Tops' /\ Calls' /\ Fetched' /\ Shrinks
  BY <1>1, <1>2, SameLists DEF Tops, Calls, Records
<1> QED
  BY <1>2, <1>3

LEMMA NextOrder == CInv /\ OInv /\ [StreamsNext]_allVars => OInv' /\ Shrinks
<1> SUFFICES ASSUME CInv, OInv, [StreamsNext]_allVars PROVE OInv' /\ Shrinks
  OBVIOUS
<1>1. CASE UNCHANGED allVars \/ StreamsIdle
  BY <1>1, StutterOrder DEF StreamsIdle
<1>2. CASE Answer \/ Complete \/ Handoff \/ ChatFails
  BY <1>2, AnswerOrder, CompleteOrder, HandoffOrder
<1>3. CASE Start \/ WorkerFails \/ ReaderLeaves \/ ReaderGone
  BY <1>3, StartOrder, WorkerFailsOrder, ReaderOrder
<1>4. CASE \E v \in Waves : StartWave(v) \/ WaveStep(v) \/ Settle(v)
  BY <1>4, StartWaveOrder, WaveStepOrder, SettleOrder
<1>5. CASE \E v \in Waves : ReadProgress(v) \/ TouchProgress(v)
  BY <1>5, ReadOrder, TouchOrder
<1> QED
  BY <1>1, <1>2, <1>3, <1>4, <1>5 DEF StreamsNext, ThreadStep, WorkerStep

LEMMA OrderHolds == StreamsSpec => [](CInv /\ OInv)
<1>1. StreamsInit => CInv /\ OInv
  BY InitOrder, InitComplete DEF StreamsInit
<1>2. CInv /\ OInv /\ [StreamsNext]_allVars => (CInv /\ OInv)'
  BY WavesInside, NextComplete, NextOrder
<1> QED
  BY <1>1, <1>2, PTL DEF StreamsSpec

-----------------------------------------------------------------------------
(* No update reopens a branch that an earlier one showed as settled:       *)
(* publish_live_branch_progress may publish what it read some steps ago,   *)
(* because execute_materialization_branches drains the callbacks of a wave *)
(* before it returns and its caller publishes nothing in between.          *)
THEOREM UpdatesAreFinal == StreamsSpec => UpdatesNeverReopen
<1>1. CInv /\ OInv /\ [StreamsNext]_allVars => [stream'.shown \subseteq stream.shown]_stream
  BY NextOrder DEF Shrinks
<1> QED
  BY <1>1, OrderHolds, PTL DEF StreamsSpec, UpdatesNeverReopen

(* A stream that waits for Late Fill is not done before the worker is over *)
(* as long as nothing failed, also when the last callback of a wave has    *)
(* emptied the open lists of the record: no update of a response that is   *)
(* still running is taken for its outcome.                                 *)
THEOREM StreamsOutlast == StreamsSpec => []NoEarlyEnd
<1>1. OInv => NoEarlyEnd
  BY DEF OInv, Ends, NoEarlyEnd
<1> QED
  BY <1>1, OrderHolds, PTL

-----------------------------------------------------------------------------
(* Types.                                                                  *)

Kinds == {"text", "update", "outcome", "failed"}
StreamTyped == stream \in [registered : BOOLEAN, done : BOOLEAN, shown : SUBSET Branches,
                           kinds : SUBSET Kinds]
ThreadsTyped ==
    /\ chat \in {"answer", "complete", "handoff", "ended"} /\ gap \in BOOLEAN
    /\ worker \in {"off", "start", "top", "wave", "over"}
    /\ reader \in {"reading", "left", "gone"}

LEMMA InitStreams == StreamsInit => StreamTyped /\ ThreadsTyped
<1> SUFFICES ASSUME StreamsInit PROVE StreamTyped /\ ThreadsTyped
  OBVIOUS
<1>1. Owed \subseteq Branches
  BY DEF Owed, Of
<1> QED
  BY <1>1 DEF StreamsInit, StreamTyped, ThreadsTyped

LEMMA TellTyped ==
  ASSUME StreamTyped, NEW kinds \in SUBSET Kinds, NEW done \in BOOLEAN, Tell(kinds, done)
  PROVE  StreamTyped'
<1>1. CASE ~stream.registered
  BY <1>1 DEF Tell, StreamTyped
<1>2. CASE stream.registered
  <2>1. stream' = [stream EXCEPT !.kinds = @ \cup kinds, !.done = @ \/ done]
    BY <1>2 DEF Tell
  <2>2. (stream.done \/ done) \in BOOLEAN /\ stream.kinds \cup kinds \in SUBSET Kinds
    BY DEF StreamTyped
  <2> QED
    BY <2>1, <2>2 DEF StreamTyped
<1> QED
  BY <1>1, <1>2

LEMMA PublishTyped ==
  ASSUME StreamTyped, NEW s \in LateFill, NEW view, Publish(s, view)
  PROVE  StreamTyped'
<1>1. CASE ~stream.registered
  BY <1>1 DEF Publish, StreamTyped
<1>2. CASE stream.registered
  <2> DEFINE ends == view = "ui" /\ Outcome(s)
             kinds == stream.kinds \cup {"update"} \cup (IF ends THEN {"outcome"} ELSE {})
             done == stream.done \/ ends
  <2>1. stream' = [stream EXCEPT !.kinds = kinds, !.done = done, !.shown = s.open]
    BY <1>2 DEF Publish
  <2>2. kinds \in SUBSET Kinds
    BY DEF StreamTyped, Kinds
  <2>3. done \in BOOLEAN
    OBVIOUS
  <2>4. s.open \in SUBSET Branches
    BY DEF LateFill
  <2> HIDE DEF kinds, done
  <2> QED
    BY <2>1, <2>2, <2>3, <2>4 DEF StreamTyped
<1> QED
  BY <1>1, <1>2

(* Whatever a step publishes is the new record, which is typed.            *)
LEMMA NextStreams ==
  ASSUME StreamTyped, ThreadsTyped, OInv, OInv', [StreamsNext]_allVars
  PROVE  StreamTyped' /\ ThreadsTyped'
<1>1. rec' \in LateFill
  BY DEF OInv, Records
<1>2. ASSUME NEW s, NEW view, Publish(s, view) PROVE StreamTyped'
  <2>1. s \in LateFill
    BY <1>1, <1>2 DEF Publish
  <2> QED
    BY <1>2, <2>1, PublishTyped
<1>3. CASE UNCHANGED allVars \/ StreamsIdle
  BY <1>3 DEF StreamsIdle, allVars, streamVars, StreamTyped, ThreadsTyped
<1>4. CASE Answer
  <2>1. StreamTyped'
    BY <1>2, <1>4 DEF Answer
  <2> QED
    BY <1>4, <2>1 DEF Answer, ThreadsTyped
<1>5. CASE Complete
  <2>1. Tell({"text"} \cup (IF gap THEN {} ELSE {"outcome"}), ~gap)
    BY <1>5 DEF Complete, EndsStream
  <2>2. {"text"} \cup (IF gap THEN {} ELSE {"outcome"}) \in SUBSET Kinds
    BY DEF Kinds
  <2>3. (~gap) \in BOOLEAN
    OBVIOUS
  <2>4. StreamTyped'
    BY <2>1, <2>2, <2>3, TellTyped
  <2> QED
    BY <1>5, <2>4 DEF Complete, ThreadsTyped
<1>6. CASE ChatFails
  <2>1. Tell({"failed"}, TRUE) /\ {"failed"} \in SUBSET Kinds
    BY <1>6 DEF ChatFails, Kinds
  <2>2. StreamTyped'
    BY <2>1, TellTyped
  <2> QED
    BY <1>6, <2>2 DEF ChatFails, ThreadsTyped
<1>7. CASE Handoff \/ Start
  BY <1>7 DEF Handoff, Start, StreamTyped, ThreadsTyped
<1>8. CASE ReaderLeaves \/ ReaderGone
  <2>1. stream' = [stream EXCEPT !.registered = FALSE]
    BY <1>8 DEF ReaderLeaves, ReaderGone
  <2>2. StreamTyped'
    BY <2>1 DEF StreamTyped
  <2> QED
    BY <1>8, <2>2 DEF ReaderLeaves, ReaderGone, ThreadsTyped
<1>9. CASE WorkerFails
  <2>1. StreamTyped'
    BY <1>2, <1>9 DEF WorkerFails
  <2> QED
    BY <1>9, <2>1 DEF WorkerFails, ThreadsTyped
<1>10. ASSUME NEW v \in Waves, StartWave(v) PROVE StreamTyped' /\ ThreadsTyped'
  BY <1>2, <1>10 DEF StartWave, ThreadsTyped
<1>11. ASSUME NEW v \in Waves, WaveStep(v) \/ ReadProgress(v)
       PROVE  StreamTyped' /\ ThreadsTyped'
  BY <1>11 DEF WaveStep, ReadProgress, streamVars, StreamTyped, ThreadsTyped
<1>12. ASSUME NEW v \in Waves, Settle(v) PROVE StreamTyped' /\ ThreadsTyped'
  <2>1. StreamTyped'
    BY <1>2, <1>12 DEF Settle
  <2>2. worker' \in {"over", "top"} /\ UNCHANGED <<chat, gap, reader>>
    BY <1>12 DEF Settle
  <2> QED
    BY <2>1, <2>2 DEF ThreadsTyped
<1>13. ASSUME NEW v \in Waves, TouchProgress(v) PROVE StreamTyped' /\ ThreadsTyped'
  <2>1. StreamTyped'
    BY <1>2, <1>13 DEF TouchProgress
  <2> QED
    BY <1>13, <2>1 DEF TouchProgress, ThreadsTyped
<1> QED
  BY <1>3, <1>4, <1>5, <1>6, <1>7, <1>8, <1>9, <1>10, <1>11, <1>12, <1>13
     DEF StreamsNext, ThreadStep, WorkerStep

(* The threads around a wave only call it and wait for it: to its callers  *)
(* every behaviour of a stream is one of execute_materialization_branches, *)
(* so what holds of the waves alone holds of them here.                    *)
THEOREM StreamsRunWaves == StreamsSpec => WavesSpec
<1>1. StreamsInit => WavesInit
  BY DEF StreamsInit
<1> QED
  BY <1>1, WavesInside, PTL DEF StreamsSpec, WavesSpec

(* The types of all variables of a stream and its waves; a mutex is held   *)
(* by a branch that runs on its instance.                                  *)
THEOREM StreamsTyped == StreamsSpec => []StreamsTypeOK
<1>1. WavesSpec => []WavesTypeOK
  <2>1. TInv => WavesTypeOK
    BY DEF TInv
  <2> QED
    BY <2>1, InitTyped, NextTyped, PTL DEF WavesSpec
<1>2. StreamTyped /\ ThreadsTyped /\ OInv /\ OInv' /\ [StreamsNext]_allVars
        => (StreamTyped /\ ThreadsTyped)'
  BY NextStreams
<1>3. StreamsInit => StreamTyped /\ ThreadsTyped
  BY InitStreams
<1>4. OInv /\ StreamTyped /\ ThreadsTyped /\ WavesTypeOK => StreamsTypeOK
  BY DEF OInv, Records, StreamTyped, Kinds, ThreadsTyped, StreamsTypeOK
<1>5. StreamsSpec => [](StreamTyped /\ ThreadsTyped)
  BY <1>2, <1>3, OrderHolds, PTL DEF StreamsSpec
<1> QED
  BY <1>1, <1>4, <1>5, OrderHolds, StreamsRunWaves, PTL
=============================================================================
