----------------------- MODULE ResponseStreamsProofs -----------------------
(***************************************************************************)
(* What a reader has seen when it leaves, for any number of waves,         *)
(* branches and faults.                                                    *)
(***************************************************************************)
EXTENDS ResponseStreams, TLAPS

Ending(kinds) == "outcome" \in kinds \/ "failed" \in kinds

(* A stream that is done has announced how the response ended, and a       *)
(* reader leaves only a stream that is done.                               *)
EndIsTold ==
    /\ DOMAIN stream = {"registered", "done", "kinds", "shown"}
    /\ stream.done => Ending(stream.kinds)
    /\ reader = "left" => Ending(stream.kinds)

LEMMA InitEndIsTold == StreamsInit => EndIsTold
BY DEF StreamsInit, EndIsTold

LEMMA TellKeeps ==
  ASSUME EndIsTold, NEW kinds, NEW done, Tell(kinds, done), reader' = reader,
         done => Ending(kinds)
  PROVE  EndIsTold'
<1>1. CASE ~stream.registered
  BY <1>1 DEF Tell, EndIsTold
<1>2. CASE stream.registered
  <2>1. stream' = [stream EXCEPT !.kinds = @ \cup kinds, !.done = @ \/ done]
    BY <1>2 DEF Tell
  <2>2. /\ DOMAIN stream' = DOMAIN stream
        /\ stream'.kinds = stream.kinds \cup kinds
        /\ stream'.done <=> stream.done \/ done
    BY <2>1 DEF EndIsTold
  <2> QED
    BY <2>2 DEF EndIsTold, Ending
<1> QED
  BY <1>1, <1>2

LEMMA PublishKeeps ==
  ASSUME EndIsTold, NEW s, NEW view, Publish(s, view), reader' = reader
  PROVE  EndIsTold'
<1>1. CASE ~stream.registered
  BY <1>1 DEF Publish, EndIsTold
<1>2. CASE stream.registered
  <2> DEFINE ends == view = "ui" /\ Outcome(s)
             kinds == {"update"} \cup (IF ends THEN {"outcome"} ELSE {})
  <2>1. stream' = [stream EXCEPT !.kinds = @ \cup {"update"}
                                             \cup (IF ends THEN {"outcome"} ELSE {}),
                                 !.done = @ \/ ends, !.shown = s.open]
    BY <1>2 DEF Publish
  <2>2. ends => "outcome" \in kinds
    OBVIOUS
  <2> HIDE DEF ends
  <2>3. /\ DOMAIN stream' = DOMAIN stream
        /\ stream'.kinds = stream.kinds \cup kinds
        /\ stream'.done <=> stream.done \/ ends
    BY <2>1 DEF EndIsTold
  <2> HIDE DEF kinds
  <2> QED
    BY <2>2, <2>3 DEF EndIsTold, Ending
<1> QED
  BY <1>1, <1>2

(* Steps that reach neither the stream nor the reader. *)
LEMMA Elsewhere ==
  ASSUME EndIsTold, UNCHANGED <<stream, reader>>
  PROVE  EndIsTold'
BY DEF EndIsTold

LEMMA ReaderKeeps ==
  ASSUME EndIsTold, ReaderLeaves \/ ReaderGone
  PROVE  EndIsTold'
<1>1. /\ DOMAIN stream' = DOMAIN stream
      /\ stream'.kinds = stream.kinds /\ stream'.done = stream.done
  BY DEF ReaderLeaves, ReaderGone, EndIsTold
<1>2. reader' = "left" => stream.done
  BY DEF ReaderLeaves, ReaderGone
<1> QED
  BY <1>1, <1>2 DEF EndIsTold

LEMMA ChatKeeps ==
  ASSUME EndIsTold, Answer \/ Complete \/ Handoff \/ ChatFails
  PROVE  EndIsTold'
<1>1. CASE Answer
  <2>1. PICK s : Publish(s, "ui")
    BY <1>1 DEF Answer
  <2> QED
    BY <1>1, <2>1, PublishKeeps DEF Answer
<1>2. CASE Complete
  <2>1. EndsStream => Ending({"text"} \cup (IF gap THEN {} ELSE {"outcome"}))
    BY DEF EndsStream, Ending
  <2> QED
    BY <1>2, <2>1, TellKeeps DEF Complete
<1>3. CASE Handoff
  BY <1>3, Elsewhere DEF Handoff
<1>4. CASE ChatFails
  <2>1. Ending({"failed"})
    BY DEF Ending
  <2> QED
    BY <1>4, <2>1, TellKeeps DEF ChatFails
<1> QED
  BY <1>1, <1>2, <1>3, <1>4

LEMMA WorkerKeeps ==
  ASSUME EndIsTold, WorkerStep \/ WorkerFails
         \/ \E v \in Waves : ReadProgress(v) \/ TouchProgress(v)
  PROVE  EndIsTold'
<1>1. CASE Start
  BY <1>1, Elsewhere DEF Start
<1>2. ASSUME NEW v \in Waves, StartWave(v) PROVE EndIsTold'
  BY <1>2, PublishKeeps DEF StartWave
<1>3. ASSUME NEW v \in Waves, WaveStep(v) PROVE EndIsTold'
  BY <1>3, Elsewhere DEF WaveStep, streamVars
<1>4. ASSUME NEW v \in Waves, Settle(v) PROVE EndIsTold'
  <2>1. PICK s : Publish(s, View(s))
    BY <1>4 DEF Settle
  <2> QED
    BY <1>4, <2>1, PublishKeeps DEF Settle
<1>5. ASSUME NEW v \in Waves, ReadProgress(v) PROVE EndIsTold'
  BY <1>5, Elsewhere DEF ReadProgress
<1>6. ASSUME NEW v \in Waves, TouchProgress(v) PROVE EndIsTold'
  <2>1. PICK s : Publish(s, "ui")
    BY <1>6 DEF TouchProgress
  <2> QED
    BY <1>6, <2>1, PublishKeeps DEF TouchProgress
<1>7. CASE WorkerFails
  <2>1. PICK s : Publish(s, "ui")
    BY <1>7 DEF WorkerFails
  <2> QED
    BY <1>7, <2>1, PublishKeeps DEF WorkerFails
<1> QED
  BY <1>1, <1>2, <1>3, <1>4, <1>5, <1>6, <1>7 DEF WorkerStep

LEMMA NextEndIsTold == EndIsTold /\ [StreamsNext]_allVars => EndIsTold'
<1> SUFFICES ASSUME EndIsTold, [StreamsNext]_allVars PROVE EndIsTold'
  OBVIOUS
<1>1. CASE StreamsIdle \/ UNCHANGED allVars
  BY <1>1, Elsewhere DEF StreamsIdle, allVars, streamVars
<1> QED
  BY <1>1, ReaderKeeps, ChatKeeps, WorkerKeeps DEF StreamsNext, ThreadStep

\* The generator of a stream never ends an answer without having yielded
\* its outcome or its failure, whichever threads publish in which order and
\* whatever raises.
THEOREM ReadersAreTold == StreamsSpec => []LeavesInformed
<1>1. StreamsSpec => []EndIsTold
  BY InitEndIsTold, NextEndIsTold, PTL DEF StreamsSpec
<1>2. EndIsTold => LeavesInformed
  BY DEF EndIsTold, Ending, LeavesInformed
<1> QED
  BY <1>1, <1>2, PTL
=============================================================================
