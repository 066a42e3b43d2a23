-------------------------- MODULE BranchWavesProofs --------------------------
(***************************************************************************)
(* The mutexes of a wave, for any number of waves, branches and instances  *)
(* and a pool of any size.                                                 *)
(***************************************************************************)
EXTENDS BranchWaves, FiniteSetTheorems, TLAPS

(* What the provers need of the types. *)
Shape ==
    /\ phase \in [Waves -> {"idle", "prepare", "execute", "returned"}]
    /\ at \in [Branches -> {"listed", "ready", "queued", "waiting", "running",
                            "done", "collected", "refused"}]
    /\ lock \in [Waves -> [Instances -> Branches \cup {None}]]
    /\ plan \in [Branches -> Instances \cup {None}]

(* A branch that runs on an instance holds its mutex. *)
RunnersHoldLock ==
    \A b \in Branches :
        at[b] = "running" /\ plan[b] # None => lock[WaveOf[b]][plan[b]] = b

(* Nothing runs while the branches are still being prepared, so no plan of *)
(* a running branch changes.                                               *)
PreparedFirst ==
    \A b \in Branches : phase[WaveOf[b]] \in {"idle", "prepare"} =>
        at[b] \in {"listed", "ready", "refused"}

WInv == Shape /\ RunnersHoldLock /\ PreparedFirst

LEMMA WInvHolds == WavesInit => WInv
BY WavesAssumption DEF WavesInit, WInv, Shape, RunnersHoldLock, PreparedFirst

LEMMA MutexWorks == WInv => OneCallPerWave
<1> SUFFICES ASSUME WInv, NEW v \in Waves, NEW b \in Of(v), NEW c \in Of(v),
                    at[b] = "running", at[c] = "running", plan[b] # None, plan[b] = plan[c]
             PROVE  b = c
  BY DEF OneCallPerWave
<1>1. WaveOf[b] = v /\ WaveOf[c] = v /\ b \in Branches /\ c \in Branches
  BY DEF Of
<1>2. lock[v][plan[b]] = b /\ lock[v][plan[c]] = c
  BY <1>1 DEF WInv, RunnersHoldLock
<1> QED
  BY <1>2

(* A step that leaves the plans and mutexes alone, starts no run, and      *)
(* leaves the branches of a wave that is prepared where they may be.       *)
LEMMA NoRunStarts ==
  ASSUME WInv, Shape', UNCHANGED <<plan, lock>>,
         \A b \in Branches : at'[b] = "running" => at[b] = "running",
         PreparedFirst'
  PROVE  WInv'
BY DEF WInv, RunnersHoldLock

(* One branch moves, not into a run and not back. *)
LEMMA Moves ==
  ASSUME WInv, NEW b \in Branches, at' = [at EXCEPT ![b] = "waiting"]
               \/ at' = [at EXCEPT ![b] = "done"] \/ at' = [at EXCEPT ![b] = "collected"],
         at[b] \notin {"listed", "ready", "refused"}, phase' = phase
  PROVE  /\ at' \in [Branches -> {"listed", "ready", "queued", "waiting", "running",
                                  "done", "collected", "refused"}]
         /\ \A c \in Branches : at'[c] = "running" => at[c] = "running" /\ c # b
         /\ PreparedFirst'
BY DEF WInv, Shape, PreparedFirst

LEMMA PrepareKeeps ==
  ASSUME WInv, NEW v \in Waves, Prepare(v)
  PROVE  WInv'
<1>1. PICK b \in Of(v) : /\ phase[v] = "prepare" /\ at[b] = "listed"
                         /\ \/ at' = [at EXCEPT ![b] = "ready"]
                            \/ at' = [at EXCEPT ![b] = "refused"]
                         /\ \/ plan' = plan
                            \/ \E i \in Offered(v, b) : plan' = [plan EXCEPT ![b] = i]
                         /\ UNCHANGED <<phase, lock>>
  BY Zenon DEF Prepare, IsNext
<1>2. b \in Branches /\ WaveOf[b] = v
  BY DEF Of
<1>3. Offered(v, b) \subseteq Instances
  BY <1>2, WavesAssumption DEF Offered, Fitting
<1>4. plan' \in [Branches -> Instances \cup {None}]
  BY <1>1, <1>3 DEF WInv, Shape
<1>5. \A c \in Branches : c # b => at'[c] = at[c] /\ plan'[c] = plan[c]
  BY <1>1 DEF WInv, Shape
<1>6. at'[b] \in {"ready", "refused"}
  BY <1>1, <1>2 DEF WInv, Shape
<1>7. Shape'
  BY <1>1, <1>4 DEF WInv, Shape
<1>8. PreparedFirst'
  BY <1>1, <1>5, <1>6 DEF WInv, PreparedFirst
<1>9. RunnersHoldLock'
  BY <1>1, <1>5, <1>6 DEF WInv, RunnersHoldLock
<1> QED
  BY <1>7, <1>8, <1>9 DEF WInv

LEMMA SubmitKeeps ==
  ASSUME WInv, NEW v \in Waves, Submit(v)
  PROVE  WInv'
<1>1. Shape'
  BY DEF Submit, WInv, Shape
<1>2. \A b \in Branches : at'[b] = at[b] \/ (at[b] = "ready" /\ at'[b] = "queued" /\ WaveOf[b] = v)
  BY DEF Submit, Of
<1>3. phase'[v] \in {"returned", "execute"} /\ \A u \in Waves \ {v} : phase'[u] = phase[u]
  BY DEF Submit, WInv, Shape
<1>4. PreparedFirst'
  BY <1>2, <1>3, WavesAssumption DEF WInv, PreparedFirst
<1> QED
  BY <1>1, <1>2, <1>4, NoRunStarts DEF Submit

LEMMA DequeueKeeps ==
  ASSUME WInv, NEW v \in Waves, Dequeue(v)
  PROVE  WInv'
<1>1. PICK b \in Of(v) : /\ at[b] = "queued" /\ at' = [at EXCEPT ![b] = "waiting"]
                         /\ UNCHANGED <<phase, plan, lock>>
  BY Zenon DEF Dequeue
<1>2. b \in Branches
  BY DEF Of
<1>3. Shape'
  BY <1>1, <1>2, Moves DEF WInv, Shape
<1> QED
  BY <1>1, <1>2, <1>3, Moves, NoRunStarts

LEMMA RunKeeps ==
  ASSUME WInv, NEW v \in Waves, NEW b \in Branches, Run(v, b)
  PROVE  WInv'
<1>1. /\ at[b] = "waiting" /\ at' = [at EXCEPT ![b] = "running"] /\ WaveOf[b] = v
      /\ plan[b] # None => lock[v][plan[b]] = None
      /\ UNCHANGED <<phase, plan>>
  BY DEF Run, MayRun, Of
<1>2. /\ at'[b] = "running" /\ \A c \in Branches : c # b => at'[c] = at[c]
      /\ at' \in [Branches -> {"listed", "ready", "queued", "waiting", "running",
                                  "done", "collected", "refused"}]
  BY <1>1 DEF WInv, Shape
<1>3. PreparedFirst'
  BY <1>1, <1>2 DEF WInv, PreparedFirst
<1>4. CASE plan[b] = None
  <2>1. lock' = lock
    BY <1>4 DEF Run
  <2>2. Shape' /\ RunnersHoldLock'
    BY <1>1, <1>2, <1>4, <2>1 DEF WInv, Shape, RunnersHoldLock
  <2> QED
    BY <2>2, <1>3 DEF WInv
<1>5. CASE plan[b] # None
  <2>1. lock' = [lock EXCEPT ![v][plan[b]] = b] /\ plan[b] \in Instances
    BY <1>5 DEF Run, WInv, Shape
  <2>2. /\ lock' \in [Waves -> [Instances -> Branches \cup {None}]]
        /\ lock'[v][plan[b]] = b
        /\ \A u \in Waves, i \in Instances : u # v \/ i # plan[b] => lock'[u][i] = lock[u][i]
    BY <2>1 DEF WInv, Shape
  <2>3. ASSUME NEW c \in Branches, at'[c] = "running", plan'[c] # None
        PROVE  lock'[WaveOf[c]][plan'[c]] = c
    <3>1. CASE c = b
      BY <3>1, <1>1, <2>2
    <3>2. CASE c # b
      <4>1. /\ lock[WaveOf[c]][plan[c]] = c /\ plan'[c] = plan[c]
            /\ plan[c] \in Instances /\ WaveOf[c] \in Waves
        BY <3>2, <1>1, <1>2, <2>3, WavesAssumption DEF WInv, Shape, RunnersHoldLock
      <4>2. WaveOf[c] # v \/ plan[c] # plan[b]
        BY <4>1, <1>1, <1>5, WavesAssumption
      <4> QED
        BY <4>1, <4>2, <2>2
    <3> QED
      BY <3>1, <3>2
  <2>4. RunnersHoldLock'
    BY <2>3 DEF RunnersHoldLock
  <2>5. Shape'
    BY <1>1, <1>2, <2>2 DEF WInv, Shape
  <2> QED
    BY <2>4, <2>5, <1>3 DEF WInv
<1> QED
  BY <1>4, <1>5

LEMMA FinishKeeps ==
  ASSUME WInv, NEW v \in Waves, NEW b \in Branches, Finish(v, b)
  PROVE  WInv'
<1>1. /\ at[b] = "running" /\ at' = [at EXCEPT ![b] = "done"] /\ WaveOf[b] = v
      /\ lock' = IF plan[b] = None THEN lock ELSE [lock EXCEPT ![v][plan[b]] = None]
      /\ UNCHANGED <<phase, plan>>
  BY DEF Finish, Unlock, Of
<1>2. /\ at' \in [Branches -> {"listed", "ready", "queued", "waiting", "running",
                                  "done", "collected", "refused"}]
      /\ \A c \in Branches : at'[c] = "running" => at[c] = "running" /\ c # b
      /\ PreparedFirst'
  BY <1>1, Moves
<1>3. Shape'
  BY <1>1, <1>2, WavesAssumption DEF WInv, Shape
<1>4. ASSUME NEW c \in Branches, at'[c] = "running", plan'[c] # None
      PROVE  lock'[WaveOf[c]][plan'[c]] = c
  <2>1. /\ lock[WaveOf[c]][plan[c]] = c /\ c # b
        /\ plan[c] \in Instances /\ WaveOf[c] \in Waves
    BY <1>1, <1>2, <1>4, WavesAssumption DEF WInv, Shape, RunnersHoldLock
  <2>2. plan[b] # None => lock[v][plan[b]] = b
    BY <1>1 DEF WInv, RunnersHoldLock
  <2>3. plan[b] # None => WaveOf[c] # v \/ plan[c] # plan[b]
    BY <2>1, <2>2
  <2>4. lock'[WaveOf[c]][plan[c]] = lock[WaveOf[c]][plan[c]]
    BY <1>1, <2>1, <2>3 DEF WInv, Shape
  <2> QED
    BY <1>1, <2>1, <2>4
<1> QED
  BY <1>2, <1>3, <1>4 DEF WInv, RunnersHoldLock

LEMMA CollectKeeps ==
  ASSUME WInv, NEW v \in Waves, NEW b \in Branches, Collect(v, b)
  PROVE  WInv'
<1>1. /\ at[b] = "done" /\ at' = [at EXCEPT ![b] = "collected"]
      /\ UNCHANGED <<phase, plan, lock>>
  BY DEF Collect
<1>2. Shape'
  BY <1>1, Moves DEF WInv, Shape
<1> QED
  BY <1>1, <1>2, Moves, NoRunStarts

LEMMA NextKeeps == WInv /\ [WavesNext]_waveVars => WInv'
<1> SUFFICES ASSUME WInv, [WavesNext]_waveVars PROVE WInv'
  OBVIOUS
<1>1. ASSUME NEW v \in Waves, Begin(v) PROVE WInv'
  BY <1>1, WavesAssumption DEF Begin, WInv, Shape, RunnersHoldLock, PreparedFirst
<1>2. ASSUME NEW v \in Waves, Return(v) PROVE WInv'
  BY <1>2, WavesAssumption DEF Return, WInv, Shape, RunnersHoldLock, PreparedFirst
<1>3. ASSUME NEW v \in Waves, CallbackBegin(v) \/ CallbackEnd(v) PROVE WInv'
  BY <1>3 DEF CallbackBegin, CallbackEnd, WInv, Shape, RunnersHoldLock, PreparedFirst
<1>4. CASE UNCHANGED waveVars
  BY <1>4 DEF waveVars, WInv, Shape, RunnersHoldLock, PreparedFirst
<1>5. ASSUME NEW v \in Waves, PoolStep(v) PROVE WInv'
  BY <1>5, <1>2, PrepareKeeps, SubmitKeeps, DequeueKeeps, RunKeeps, FinishKeeps, CollectKeeps
     DEF PoolStep
<1> QED
  BY <1>1, <1>3, <1>4, <1>5 DEF WavesNext

(* execute_plan under the mutexes of its wave: whatever the size of the    *)
(* pool, two branches of one wave never call the same instance at a time.  *)
THEOREM WaveMutex == WavesSpec => []OneCallPerWave
<1>1. WavesSpec => []WInv
  BY WInvHolds, NextKeeps, PTL DEF WavesSpec
<1> QED
  BY <1>1, MutexWorks, PTL

-----------------------------------------------------------------------------
(* Results and progress.                                                   *)

Places == {"listed", "ready", "queued", "waiting", "running", "done", "collected", "refused"}

Typed ==
    /\ told \in [Waves -> Seq(Branches)] /\ hears \in [Waves -> Branches \cup {None}]
    /\ calls \in [Branches -> Nat] /\ DOMAIN outcome = Branches

(* An event that waits, or is being told, is the first of a collected      *)
(* branch of the wave.                                                     *)
Fresh(v, b) == WaveOf[b] = v /\ at[b] = "collected" /\ calls[b] = 0
Still(v, b) == WaveOf[b] = v /\ at'[b] = "collected" /\ calls'[b] = 0

Waiting ==
    \A v \in Waves : \A k \in 1 .. Len(told[v]) :
        /\ Fresh(v, told[v][k]) /\ hears[v] # told[v][k]
        /\ \A l \in 1 .. Len(told[v]) : told[v][k] = told[v][l] => k = l

Hearing == \A v \in Waves : hears[v] # None => Fresh(v, hears[v])

InTold(b) == \E k \in 1 .. Len(told[WaveOf[b]]) : told[WaveOf[b]][k] = b

(* Whoever is collected was told, is being told or waits to be told.       *)
ToldOnce ==
    \A b \in Branches :
        /\ at[b] # "collected" => calls[b] = 0
        /\ at[b] = "collected" => calls[b] = 1 \/ hears[WaveOf[b]] = b \/ InTold(b)

Judged == \A b \in Branches : at[b] \in {"done", "collected", "refused"} => outcome[b] # "none"

(* A submitted wave has every branch prepared; one that returned has every *)
(* branch collected and nothing left to tell.                              *)
Submitted ==
    \A b \in Branches :
        /\ phase[WaveOf[b]] \in {"execute", "returned"} => at[b] \notin {"listed", "ready"}
        /\ phase[WaveOf[b]] = "returned" => at[b] \in {"collected", "refused"}
Drains == \A v \in Waves : phase[v] = "returned" => Told(v)

Progress == Typed /\ Waiting /\ Hearing /\ ToldOnce
CInv == WInv /\ Progress /\ Judged /\ Submitted /\ Drains

LEMMA InitComplete == WavesInit => CInv
BY WInvHolds, WavesAssumption
   DEF WavesInit, CInv, Progress, Typed, Waiting, Hearing, ToldOnce, Judged, Submitted, Drains

(* Steps that tell nothing and collect nothing.                            *)
LEMMA NothingTold ==
  ASSUME CInv, UNCHANGED <<told, hears, calls>>, DOMAIN outcome' = Branches,
         \A b \in Branches : at'[b] = "collected" <=> at[b] = "collected"
  PROVE  Progress'
<1>1. Typed'
  BY DEF CInv, Progress, Typed
<1>2. \A v \in Waves : \A b \in Branches : Fresh(v, b) => Fresh(v, b)'
  BY DEF Fresh
<1>3. Waiting'
  <2> SUFFICES ASSUME NEW v \in Waves, NEW k \in 1 .. Len(told[v])
               PROVE  /\ Fresh(v, told[v][k])' /\ hears[v] # told[v][k]
                      /\ \A l \in 1 .. Len(told[v]) : told[v][k] = told[v][l] => k = l
    BY DEF Waiting
  <2>1. told[v][k] \in Branches
    BY DEF CInv, Progress, Typed
  <2>2. Fresh(v, told[v][k])'
    BY <1>2, <2>1 DEF CInv, Progress, Waiting, Fresh
  <2> QED
    BY <2>2 DEF CInv, Progress, Waiting
<1>4. Hearing'
  BY <1>2 DEF CInv, Progress, Typed, Hearing, Fresh
<1>5. ToldOnce'
  BY DEF CInv, Progress, ToldOnce, InTold
<1> QED
  BY <1>1, <1>3, <1>4, <1>5 DEF Progress

(* A wave that is prepared has nothing to tell.                            *)
LEMMA NothingYet ==
  ASSUME CInv, NEW v \in Waves, phase[v] = "prepare"
  PROVE  Told(v)
<1>1. \A b \in Branches : ~Fresh(v, b)
  BY DEF CInv, WInv, PreparedFirst, Fresh
<1>2. hears[v] = None
  BY <1>1 DEF CInv, Progress, Typed, Hearing
<1>3. \A k \in 1 .. Len(told[v]) : FALSE
  BY <1>1 DEF CInv, Progress, Typed, Waiting
<1>4. told[v] \in Seq(Branches)
  BY DEF CInv, Progress, Typed
<1>5. Len(told[v]) = 0
  BY <1>3, <1>4
<1> QED
  BY <1>2, <1>4, <1>5 DEF Told

LEMMA PrepareComplete ==
  ASSUME CInv, NEW v \in Waves, Prepare(v)
  PROVE  CInv'
<1>1. PICK b \in Of(v) : /\ phase[v] = "prepare" /\ at[b] = "listed"
                         /\ \/ at' = [at EXCEPT ![b] = "ready"] /\ outcome' = outcome
                            \/ /\ at' = [at EXCEPT ![b] = "refused"]
                               /\ outcome' = [outcome EXCEPT ![b] = "bad"]
                         /\ UNCHANGED <<phase, told, hears, calls>>
  BY Zenon DEF Prepare, IsNext
<1>2. b \in Branches /\ WaveOf[b] = v
  BY DEF Of
<1>3. /\ at'[b] \in {"ready", "refused"} /\ (at'[b] = "refused" => outcome'[b] # "none")
      /\ \A c \in Branches : c # b => at'[c] = at[c] /\ outcome'[c] = outcome[c]
      /\ DOMAIN outcome' = Branches
  BY <1>1, <1>2 DEF CInv, WInv, Shape, Progress, Typed
<1>4. WInv'
  BY PrepareKeeps DEF CInv
<1>5. Progress'
  BY <1>1, <1>3, NothingTold
<1>6. Judged'
  BY <1>3 DEF CInv, Judged
<1>7. Submitted'
  BY <1>1, <1>2, <1>3 DEF CInv, Submitted
<1>8. Drains'
  BY <1>1 DEF CInv, Drains, Told
<1> QED
  BY <1>4, <1>5, <1>6, <1>7, <1>8 DEF CInv

LEMMA SubmitComplete ==
  ASSUME CInv, NEW v \in Waves, Submit(v)
  PROVE  CInv'
<1>1. /\ phase[v] = "prepare" /\ (\A b \in Of(v) : at[b] # "listed")
      /\ UNCHANGED <<outcome, told, hears, calls>>
      /\ at' = [b \in Branches |-> IF b \in Of(v) /\ at[b] = "ready" THEN "queued" ELSE at[b]]
      /\ phase' = [phase EXCEPT ![v] = IF \A b \in Of(v) : at[b] = "refused"
                                       THEN "returned" ELSE "execute"]
  BY DEF Submit
<1>2. WInv'
  BY SubmitKeeps DEF CInv
<1>3. \A b \in Branches : IF WaveOf[b] = v /\ at[b] = "ready" THEN at'[b] = "queued" ELSE at'[b] = at[b]
  BY <1>1 DEF Of
<1>4. Progress'
  <2>1. DOMAIN outcome' = Branches
    BY <1>1 DEF CInv, Progress, Typed
  <2>2. \A b \in Branches : at'[b] = "collected" <=> at[b] = "collected"
    BY <1>3
  <2> QED
    BY <1>1, <2>1, <2>2, NothingTold
<1>5. Judged'
  BY <1>1, <1>3 DEF CInv, Judged
<1>6. /\ \A u \in Waves : u # v => phase'[u] = phase[u]
      /\ phase'[v] = "returned" => \A b \in Branches : WaveOf[b] = v => at[b] = "refused"
  BY <1>1 DEF CInv, WInv, Shape, Of
<1>7. Submitted'
  <2> SUFFICES ASSUME NEW b \in Branches
               PROVE  /\ phase'[WaveOf[b]] \in {"execute", "returned"} => at'[b] \notin {"listed", "ready"}
                      /\ phase'[WaveOf[b]] = "returned" => at'[b] \in {"collected", "refused"}
    BY DEF Submitted
  <2>1. WaveOf[b] \in Waves
    BY WavesAssumption
  <2>2. CASE WaveOf[b] = v
    BY <1>1, <1>3, <1>6, <2>2 DEF Of
  <2>3. CASE WaveOf[b] # v
    BY <1>3, <1>6, <2>1, <2>3 DEF CInv, Submitted
  <2> QED
    BY <2>2, <2>3
<1>8. Drains'
  <2>1. Told(v)
    BY <1>1, NothingYet
  <2> QED
    BY <1>1, <1>6, <2>1 DEF CInv, Drains, Told
<1> QED
  BY <1>2, <1>4, <1>5, <1>7, <1>8 DEF CInv

(* One branch goes on, up to the end of its call.                          *)
LEMMA GoesOnComplete ==
  ASSUME CInv, WInv', NEW b \in Branches, NEW where \in {"waiting", "running", "done"},
         at' = [at EXCEPT ![b] = where], at[b] \in {"queued", "waiting", "running"},
         UNCHANGED <<phase, told, hears, calls>>,
         \/ where # "done" /\ outcome' = outcome
         \/ \E result \in {"ok", "bad"} : outcome' = [outcome EXCEPT ![b] = result]
  PROVE  CInv'
<1>1. /\ at'[b] = where /\ \A c \in Branches : c # b => at'[c] = at[c]
      /\ DOMAIN outcome' = Branches
      /\ \A c \in Branches : c # b => outcome'[c] = outcome[c]
      /\ where = "done" => outcome'[b] # "none"
  BY DEF CInv, WInv, Shape, Progress, Typed
<1>2. Progress'
  BY <1>1, NothingTold
<1>3. Judged'
  BY <1>1 DEF CInv, Judged
<1>4. Submitted'
  BY <1>1 DEF CInv, Submitted
<1>5. Drains'
  BY DEF CInv, Drains, Told
<1> QED
  BY <1>2, <1>3, <1>4, <1>5 DEF CInv

LEMMA ExecuteComplete ==
  ASSUME CInv, NEW v \in Waves, Dequeue(v) \/ \E b \in Branches : Run(v, b) \/ Finish(v, b)
  PROVE  CInv'
<1>1. WInv'
  BY DequeueKeeps, RunKeeps, FinishKeeps DEF CInv
<1>2. CASE Dequeue(v)
  <2>1. PICK b \in Of(v) : /\ at[b] = "queued" /\ at' = [at EXCEPT ![b] = "waiting"]
                           /\ UNCHANGED <<phase, outcome, told, hears, calls>>
    BY <1>2, Zenon DEF Dequeue
  <2> QED
    BY <1>1, <2>1, GoesOnComplete DEF Of
<1>3. ASSUME NEW b \in Branches, Run(v, b) PROVE CInv'
  BY <1>1, <1>3, GoesOnComplete DEF Run
<1>4. ASSUME NEW b \in Branches, Finish(v, b) PROVE CInv'
  <2>1. PICK result \in {"ok", "bad"} : outcome' = [outcome EXCEPT ![b] = result]
    BY <1>4 DEF Finish
  <2> QED
    BY <1>1, <1>4, <2>1, GoesOnComplete DEF Finish
<1> QED
  BY <1>2, <1>3, <1>4

LEMMA CollectComplete ==
  ASSUME CInv, NEW v \in Waves, NEW b \in Branches, Collect(v, b)
  PROVE  CInv'
<1>1. /\ at[b] = "done" /\ at' = [at EXCEPT ![b] = "collected"] /\ WaveOf[b] = v
      /\ told' = [told EXCEPT ![v] = Append(@, b)] /\ UNCHANGED <<phase, outcome, hears, calls>>
  BY DEF Collect, Of
<1>2. WInv'
  BY CollectKeeps DEF CInv
<1>3. at'[b] = "collected" /\ \A c \in Branches : c # b => at'[c] = at[c]
  BY <1>1 DEF CInv, WInv, Shape
<1>4. /\ told[v] \in Seq(Branches) /\ told' \in [Waves -> Seq(Branches)]
      /\ told'[v] = Append(told[v], b) /\ \A u \in Waves : u # v => told'[u] = told[u]
  BY <1>1 DEF CInv, Progress, Typed
<1>5. /\ Len(told'[v]) = Len(told[v]) + 1 /\ told'[v][Len(told[v]) + 1] = b
      /\ \A k \in 1 .. Len(told[v]) : told'[v][k] = told[v][k]
  BY <1>4
<1>6. /\ calls[b] = 0 /\ hears[v] # b
      /\ \A k \in 1 .. Len(told[v]) : told[v][k] # b /\ told[v][k] \in Branches
  <2>1. \A u \in Waves : ~Fresh(u, b)
    BY <1>1 DEF Fresh
  <2>2. b # None
    BY WavesAssumption
  <2> QED
    BY <1>1, <1>4, <2>1, <2>2 DEF CInv, Progress, Waiting, Hearing, ToldOnce
<1>7. \A u \in Waves : \A c \in Branches : Fresh(u, c) => Still(u, c)
  BY <1>1, <1>3 DEF Fresh, Still
<1>8. Still(v, b)
  BY <1>1, <1>3, <1>6 DEF Still
<1>9. Waiting'
  <2> SUFFICES ASSUME NEW u \in Waves, NEW k \in 1 .. Len(told'[u])
               PROVE  /\ Still(u, told'[u][k]) /\ hears[u] # told'[u][k]
                      /\ \A l \in 1 .. Len(told'[u]) : told'[u][k] = told'[u][l] => k = l
    BY <1>1 DEF Waiting, Fresh, Still
  <2>1. CASE u # v
    <3>1. told'[u] = told[u] /\ told[u][k] \in Branches
      BY <1>4, <2>1 DEF CInv, Progress, Typed
    <3>2. Still(u, told[u][k])
      BY <1>7, <3>1 DEF CInv, Progress, Waiting
    <3> QED
      BY <3>1, <3>2 DEF CInv, Progress, Waiting
  <2>2. CASE u = v /\ k \in 1 .. Len(told[v])
    <3>1. told'[u][k] = told[v][k] /\ told[v][k] \in Branches /\ told[v][k] # b
      BY <1>5, <1>6, <2>2
    <3>2. Fresh(v, told[v][k]) /\ hears[v] # told[v][k]
      BY <2>2 DEF CInv, Progress, Waiting
    <3>3. Still(v, told[v][k])
      BY <1>7, <3>1, <3>2
    <3>4. \A l \in 1 .. Len(told[v]) : told[v][k] = told[v][l] => k = l
      BY <2>2 DEF CInv, Progress, Waiting
    <3>5. ASSUME NEW l \in 1 .. Len(told'[u]), told'[u][k] = told'[u][l] PROVE k = l
      <4>1. l \in 1 .. Len(told[v]) \/ l = Len(told[v]) + 1
        BY <1>4, <1>5, <2>2
      <4> QED
        BY <1>5, <2>2, <3>1, <3>4, <3>5, <4>1
    <3> QED
      BY <2>2, <3>1, <3>2, <3>3, <3>5
  <2>3. CASE u = v /\ k = Len(told[v]) + 1
    <3>1. told'[u][k] = b
      BY <1>5, <2>3
    <3>2. ASSUME NEW l \in 1 .. Len(told'[u]), b = told'[u][l] PROVE k = l
      <4>1. l \in 1 .. Len(told[v]) \/ l = Len(told[v]) + 1
        BY <1>4, <1>5, <2>3
      <4> QED
        BY <1>5, <1>6, <2>3, <3>2, <4>1
    <3> QED
      BY <1>6, <1>8, <2>3, <3>1, <3>2
  <2> QED
    BY <1>4, <1>5, <2>1, <2>2, <2>3
<1>10. Hearing'
  BY <1>1, <1>7 DEF CInv, Progress, Typed, Hearing, Fresh, Still
<1>11. InTold(b)'
  <2>1. Len(told[v]) + 1 \in 1 .. Len(told'[v])
    BY <1>4, <1>5
  <2> QED
    BY <1>1, <1>5, <2>1 DEF InTold
<1>12. \A c \in Branches : InTold(c) => InTold(c)'
  <2> SUFFICES ASSUME NEW c \in Branches, InTold(c) PROVE InTold(c)'
    OBVIOUS
  <2>1. PICK k \in 1 .. Len(told[WaveOf[c]]) : told[WaveOf[c]][k] = c
    BY DEF InTold
  <2>2. WaveOf[c] \in Waves
    BY WavesAssumption
  <2>3. k \in 1 .. Len(told'[WaveOf[c]]) /\ told'[WaveOf[c]][k] = c
    <3>1. CASE WaveOf[c] = v
      <4>1. Len(told[v]) \in Nat
        BY <1>4
      <4> QED
        BY <1>5, <2>1, <3>1, <4>1
    <3>2. CASE WaveOf[c] # v
      BY <1>4, <2>1, <2>2, <3>2
    <3> QED
      BY <3>1, <3>2
  <2> QED
    BY <2>3 DEF InTold
<1>13. ToldOnce'
  BY <1>1, <1>3, <1>11, <1>12 DEF CInv, Progress, ToldOnce
<1>14. Typed'
  BY <1>1, <1>4 DEF CInv, Progress, Typed
<1>15. Judged'
  BY <1>1, <1>3 DEF CInv, Judged
<1>16. Submitted'
  BY <1>1, <1>3 DEF CInv, Submitted
<1>17. Drains'
  <2>1. phase[v] # "returned"
    BY <1>1 DEF CInv, Submitted
  <2> QED
    BY <1>1, <1>4, <2>1 DEF CInv, Drains, Told
<1> QED
  BY <1>2, <1>9, <1>10, <1>13, <1>14, <1>15, <1>16, <1>17 DEF CInv, Progress

LEMMA CallbackBeginComplete ==
  ASSUME CInv, NEW v \in Waves, CallbackBegin(v)
  PROVE  CInv'
<1>1. /\ told[v] # <<>> /\ hears[v] = None
      /\ hears' = [hears EXCEPT ![v] = Head(told[v])]
      /\ told' = [told EXCEPT ![v] = Tail(@)]
      /\ UNCHANGED <<phase, reserved, plan, at, outcome, lock, calls>>
  BY DEF CallbackBegin
<1>2. WInv'
  BY <1>1 DEF CInv, WInv, Shape, RunnersHoldLock, PreparedFirst
<1>3. told[v] \in Seq(Branches) /\ Len(told[v]) \in Nat \ {0}
  BY <1>1 DEF CInv, Progress, Typed
<1>4. /\ told' \in [Waves -> Seq(Branches)] /\ told'[v] = Tail(told[v])
      /\ hears' \in [Waves -> Branches \cup {None}] /\ hears'[v] = told[v][1]
      /\ \A u \in Waves : u # v => told'[u] = told[u] /\ hears'[u] = hears[u]
  BY <1>1, <1>3 DEF CInv, Progress, Typed
<1>5. /\ Len(told'[v]) = Len(told[v]) - 1
      /\ \A k \in 1 .. Len(told'[v]) : k + 1 \in 1 .. Len(told[v]) /\ told'[v][k] = told[v][k + 1]
  BY <1>3, <1>4
<1>6. 1 \in 1 .. Len(told[v])
  BY <1>3
<1>7. \A u \in Waves : \A c \in Branches : Fresh(u, c) => Still(u, c)
  BY <1>1 DEF Fresh, Still
<1>8. Waiting'
  <2> SUFFICES ASSUME NEW u \in Waves, NEW k \in 1 .. Len(told'[u])
               PROVE  /\ Still(u, told'[u][k]) /\ hears'[u] # told'[u][k]
                      /\ \A l \in 1 .. Len(told'[u]) : told'[u][k] = told'[u][l] => k = l
    BY DEF Waiting, Fresh, Still
  <2>1. CASE u # v
    <3>1. told'[u] = told[u] /\ hears'[u] = hears[u] /\ told[u][k] \in Branches
      BY <1>4, <2>1 DEF CInv, Progress, Typed
    <3>2. /\ Fresh(u, told[u][k]) /\ hears[u] # told[u][k]
          /\ \A l \in 1 .. Len(told[u]) : told[u][k] = told[u][l] => k = l
      BY <3>1 DEF CInv, Progress, Waiting
    <3> QED
      BY <1>7, <3>1, <3>2
  <2>2. CASE u = v
    <3>0. k + 1 \in 1 .. Len(told[v]) /\ k + 1 # 1 /\ told[v][k + 1] \in Branches
      BY <1>3, <1>5, <2>2
    <3>1. Still(v, told[v][k + 1]) /\ told[v][1] # told[v][k + 1]
      BY <1>6, <1>7, <3>0 DEF CInv, Progress, Waiting
    <3>2. ASSUME NEW l \in 1 .. Len(told'[v]), told'[v][k] = told'[v][l] PROVE k = l
      <4>1. told[v][k + 1] = told[v][l + 1] /\ l + 1 \in 1 .. Len(told[v])
        BY <1>5, <2>2, <3>2
      <4>2. k + 1 = l + 1
        BY <3>0, <4>1 DEF CInv, Progress, Waiting
      <4> QED
        BY <2>2, <4>2
    <3> QED
      BY <1>4, <1>5, <2>2, <3>1, <3>2
  <2> QED
    BY <2>1, <2>2
<1>9. Hearing'
  <2>1. Fresh(v, hears'[v])
    BY <1>4, <1>6 DEF CInv, Progress, Waiting
  <2> QED
    BY <1>1, <1>4, <2>1 DEF CInv, Progress, Hearing, Fresh
<1>10. ASSUME NEW b \in Branches, InTold(b)
      PROVE  hears'[WaveOf[b]] = b \/ InTold(b)'
  <2>1. PICK k \in 1 .. Len(told[WaveOf[b]]) : told[WaveOf[b]][k] = b
    BY <1>10 DEF InTold
  <2>2. WaveOf[b] \in Waves
    BY WavesAssumption
  <2>3. CASE WaveOf[b] # v
    BY <1>4, <2>1, <2>2, <2>3 DEF InTold
  <2>4. CASE WaveOf[b] = v /\ k = 1
    BY <1>4, <2>1, <2>4
  <2>5. CASE WaveOf[b] = v /\ k # 1
    <3>1. k - 1 \in 1 .. Len(told'[v]) /\ told'[v][k - 1] = told[v][k]
      BY <1>3, <1>5, <2>1, <2>5
    <3> QED
      BY <1>1, <2>1, <2>5, <3>1 DEF InTold
  <2> QED
    BY <2>3, <2>4, <2>5
<1>11. ToldOnce'
  <2> SUFFICES ASSUME NEW b \in Branches, at[b] = "collected", calls[b] # 1
               PROVE  hears'[WaveOf[b]] = b \/ InTold(b)'
    BY <1>1 DEF CInv, Progress, ToldOnce
  <2>1. CASE InTold(b)
    BY <1>10, <2>1
  <2>2. CASE hears[WaveOf[b]] = b
    <3>1. WaveOf[b] \in Waves /\ b # None
      BY WavesAssumption
    <3> QED
      BY <1>1, <1>4, <2>2, <3>1
  <2> QED
    BY <2>1, <2>2 DEF CInv, Progress, ToldOnce
<1>12. Typed'
  BY <1>1, <1>4 DEF CInv, Progress, Typed
<1>13. Judged' /\ Submitted'
  BY <1>1 DEF CInv, Judged, Submitted
<1>14. Drains'
  <2>1. phase[v] # "returned"
    BY <1>1 DEF CInv, Drains, Told
  <2> QED
    BY <1>1, <1>4, <2>1 DEF CInv, Drains, Told
<1> QED
  BY <1>2, <1>8, <1>9, <1>11, <1>12, <1>13, <1>14 DEF CInv, Progress

LEMMA CallbackEndComplete ==
  ASSUME CInv, NEW v \in Waves, CallbackEnd(v)
  PROVE  CInv'
<1>1. PICK b \in Branches : hears[v] = b
  BY DEF CallbackEnd, CInv, Progress, Typed
<1>2. /\ calls' = [calls EXCEPT ![b] = @ + 1] /\ hears' = [hears EXCEPT ![v] = None]
      /\ UNCHANGED <<phase, reserved, plan, at, outcome, lock, told>>
  BY <1>1 DEF CallbackEnd
<1>3. WInv'
  BY <1>2 DEF CInv, WInv, Shape, RunnersHoldLock, PreparedFirst
<1>4. WaveOf[b] = v /\ at[b] = "collected" /\ calls[b] = 0 /\ b # None
  BY <1>1, WavesAssumption DEF CInv, Progress, Hearing, Fresh
<1>5. /\ calls' \in [Branches -> Nat] /\ calls'[b] = 1
      /\ \A c \in Branches : c # b => calls'[c] = calls[c]
      /\ hears' \in [Waves -> Branches \cup {None}] /\ hears'[v] = None
      /\ \A u \in Waves : u # v => hears'[u] = hears[u]
  BY <1>2, <1>4 DEF CInv, Progress, Typed
<1>6. Typed'
  BY <1>2, <1>5 DEF CInv, Progress, Typed
<1>7. Waiting'
  <2> SUFFICES ASSUME NEW u \in Waves, NEW k \in 1 .. Len(told[u])
               PROVE  /\ Still(u, told[u][k]) /\ hears'[u] # told[u][k]
                      /\ \A l \in 1 .. Len(told[u]) : told[u][k] = told[u][l] => k = l
    BY <1>2 DEF Waiting, Fresh, Still
  <2>1. /\ Fresh(u, told[u][k]) /\ hears[u] # told[u][k] /\ told[u][k] \in Branches
        /\ \A l \in 1 .. Len(told[u]) : told[u][k] = told[u][l] => k = l
    BY DEF CInv, Progress, Typed, Waiting
  <2>2. told[u][k] # b
    BY <1>1, <1>4, <2>1 DEF Fresh
  <2>3. Still(u, told[u][k])
    BY <1>2, <1>5, <2>1, <2>2 DEF Fresh, Still
  <2>4. hears'[u] # told[u][k]
    BY <1>5, <2>1, WavesAssumption
  <2> QED
    BY <2>1, <2>3, <2>4
<1>8. Hearing'
  <2> SUFFICES ASSUME NEW u \in Waves, hears'[u] # None PROVE Still(u, hears'[u])
    BY DEF Hearing, Fresh, Still
  <2>1. u # v /\ hears'[u] = hears[u]
    BY <1>5
  <2>2. Fresh(u, hears[u]) /\ hears[u] # b /\ hears[u] \in Branches
    BY <1>4, <2>1 DEF CInv, Progress, Typed, Hearing, Fresh
  <2> QED
    BY <1>2, <1>5, <2>1, <2>2 DEF Fresh, Still
<1>9. ToldOnce'
  <2>1. \A c \in Branches : InTold(c)' <=> InTold(c)
    BY <1>2 DEF InTold
  <2>2. \A c \in Branches : c # b /\ hears[WaveOf[c]] = c => hears'[WaveOf[c]] = c
    BY <1>1, <1>5, WavesAssumption
  <2> QED
    BY <1>2, <1>4, <1>5, <2>1, <2>2 DEF CInv, Progress, ToldOnce
<1>10. Judged' /\ Submitted'
  BY <1>2 DEF CInv, Judged, Submitted
<1>11. Drains'
  BY <1>2, <1>5 DEF CInv, Drains, Told
<1> QED
  BY <1>3, <1>6, <1>7, <1>8, <1>9, <1>10, <1>11 DEF CInv, Progress

LEMMA CallComplete ==
  ASSUME CInv, NEW v \in Waves, Begin(v) \/ Return(v)
  PROVE  CInv'
<1>1. /\ UNCHANGED <<reserved, plan, at, outcome, lock, told, hears, calls>>
      /\ \/ phase[v] = "idle" /\ phase' = [phase EXCEPT ![v] = "prepare"]
         \/ /\ phase[v] = "execute" /\ phase' = [phase EXCEPT ![v] = "returned"]
            /\ Told(v) /\ \A b \in Prepared(v) : at[b] = "collected"
  BY DEF Begin, Return, Drained
<1>2. /\ \A u \in Waves : u # v => phase'[u] = phase[u]
      /\ \/ phase[v] = "idle" /\ phase'[v] = "prepare"
         \/ /\ phase[v] = "execute" /\ phase'[v] = "returned"
            /\ Told(v) /\ \A b \in Prepared(v) : at[b] = "collected"
      /\ phase' \in [Waves -> {"idle", "prepare", "execute", "returned"}]
  BY <1>1 DEF CInv, WInv, Shape
<1>3. WInv'
  BY <1>1, <1>2, WavesAssumption DEF CInv, WInv, Shape, RunnersHoldLock, PreparedFirst
<1>4. Progress'
  <2>1. DOMAIN outcome' = Branches
    BY <1>1 DEF CInv, Progress, Typed
  <2> QED
    BY <1>1, <2>1, NothingTold
<1>5. Judged'
  BY <1>1 DEF CInv, Judged
<1>6. Submitted'
  <2> SUFFICES ASSUME NEW b \in Branches
               PROVE  /\ phase'[WaveOf[b]] \in {"execute", "returned"} => at[b] \notin {"listed", "ready"}
                      /\ phase'[WaveOf[b]] = "returned" => at[b] \in {"collected", "refused"}
    BY <1>1 DEF Submitted
  <2>1. WaveOf[b] \in Waves
    BY WavesAssumption
  <2>2. CASE WaveOf[b] = v
    BY <1>2, <2>2 DEF CInv, Submitted, Prepared, Of
  <2>3. CASE WaveOf[b] # v
    BY <1>2, <2>1, <2>3 DEF CInv, Submitted
  <2> QED
    BY <2>2, <2>3
<1>7. Drains'
  BY <1>1, <1>2 DEF CInv, Drains, Told
<1> QED
  BY <1>3, <1>4, <1>5, <1>6, <1>7 DEF CInv

LEMMA NextComplete == CInv /\ [WavesNext]_waveVars => CInv'
<1> SUFFICES ASSUME CInv, [WavesNext]_waveVars PROVE CInv'
  OBVIOUS
<1>1. CASE UNCHANGED waveVars
  <2>1. UNCHANGED <<phase, reserved, plan, at, outcome, lock, told, hears, calls>>
    BY <1>1 DEF waveVars
  <2>2. WInv'
    BY <2>1 DEF CInv, WInv, Shape, RunnersHoldLock, PreparedFirst
  <2>3. Progress'
    <3>1. DOMAIN outcome' = Branches
      BY <2>1 DEF CInv, Progress, Typed
    <3> QED
      BY <2>1, <3>1, NothingTold
  <2>4. Judged' /\ Submitted' /\ Drains'
    BY <2>1 DEF CInv, Judged, Submitted, Drains, Told
  <2> QED
    BY <2>2, <2>3, <2>4 DEF CInv
<1>2. ASSUME NEW v \in Waves, PoolStep(v) PROVE CInv'
  BY <1>2, PrepareComplete, SubmitComplete, ExecuteComplete, CollectComplete, CallComplete
     DEF PoolStep
<1> QED
  BY <1>1, <1>2, CallComplete, CallbackBeginComplete, CallbackEndComplete DEF WavesNext

LEMMA ReturnsComplete == CInv => ReturnIsComplete
<1> SUFFICES ASSUME CInv, NEW v \in Waves, phase[v] = "returned", NEW b \in Of(v)
             PROVE  /\ outcome[b] # "none"
                    /\ calls[b] = IF at[b] = "refused" THEN 0 ELSE 1
  BY DEF ReturnIsComplete
<1>1. b \in Branches /\ WaveOf[b] = v
  BY DEF Of
<1>2. at[b] \in {"collected", "refused"} /\ Told(v)
  BY <1>1 DEF CInv, Submitted, Drains
<1>3. ~InTold(b) /\ hears[v] # b
  BY <1>1, <1>2, WavesAssumption DEF Told, InTold
<1> QED
  BY <1>1, <1>2, <1>3 DEF CInv, Judged, Progress, ToldOnce

(* A wave that returned has an outcome for every branch, and its caller    *)
(* heard of each executed one exactly once, with nothing left to come.     *)
THEOREM WavesComplete == WavesSpec => []ReturnIsComplete
<1>1. WavesSpec => []CInv
  BY InitComplete, NextComplete, PTL DEF WavesSpec
<1> QED
  BY <1>1, ReturnsComplete, PTL
-----------------------------------------------------------------------------
(* Types, and the wave of a branch that holds a mutex.                     *)

Held == \A v \in Waves : \A i \in Instances : lock[v][i] # None => WaveOf[lock[v][i]] = v
TInv == WavesTypeOK /\ Held

(* What the mutexes say of their holders, of both invariants at once.      *)
Holds(v, i, b) == lock[v][i] = b /\ b # None
Rightly(v, i, b) == at[b] = "running" /\ plan[b] = i /\ WaveOf[b] = v
LEMMA Holding == TInv =>
    \A v \in Waves : \A i \in Instances : \A b : Holds(v, i, b) => Rightly(v, i, b) /\ b \in Branches
BY DEF TInv, WavesTypeOK, Held, Holds, Rightly

(* The types alone, for the provers. *)
Types ==
    /\ phase \in [Waves -> {"idle", "prepare", "execute", "returned"}]
    /\ reserved \in [Waves -> [Groups -> SUBSET Instances]]
    /\ plan \in [Branches -> Instances \cup {None}]
    /\ at \in [Branches -> Places]
    /\ outcome \in [Branches -> {"none", "ok", "bad"}]
    /\ lock \in [Waves -> [Instances -> Branches \cup {None}]]
    /\ told \in [Waves -> Seq(Branches)]
    /\ hears \in [Waves -> Branches \cup {None}]
    /\ calls \in [Branches -> Nat]

LEMMA TypesOf ==
    /\ WavesTypeOK => Types
    /\ (Types /\ \A v \in Waves : \A i \in Instances :
           lock[v][i] # None => at[lock[v][i]] = "running" /\ plan[lock[v][i]] = i) => WavesTypeOK
BY DEF WavesTypeOK, Types, Places

LEMMA InitTyped == WavesInit => TInv
BY WavesAssumption DEF WavesInit, TInv, WavesTypeOK, Held

(* Who holds a mutex keeps it, or holds it newly and rightly.              *)
LEMMA LocksTyped ==
  ASSUME Types',
         \A v \in Waves, i \in Instances, b \in Branches : lock'[v][i] = b =>
             at'[b] = "running" /\ plan'[b] = i /\ WaveOf[b] = v
  PROVE  TInv'
<1>0. \A v \in Waves, i \in Instances : lock'[v][i] \in Branches \cup {None}
  BY DEF Types
<1>1. /\ \A v \in Waves : \A i \in Instances :
            lock'[v][i] # None => at'[lock'[v][i]] = "running" /\ plan'[lock'[v][i]] = i
      /\ Held'
  BY <1>0 DEF Held
<1>2. WavesTypeOK'
  BY <1>1 DEF WavesTypeOK, Types, Places
<1> QED
  BY <1>1, <1>2 DEF TInv

LEMMA PrepareTyped ==
  ASSUME TInv, NEW v \in Waves, Prepare(v)
  PROVE  TInv'
<1>0. Types
  BY TypesOf DEF TInv
<1>1. PICK b \in Of(v) : /\ at[b] = "listed"
                         /\ \/ at' = [at EXCEPT ![b] = "ready"]
                            \/ at' = [at EXCEPT ![b] = "refused"]
                         /\ \/ plan' = plan
                            \/ \E i \in Offered(v, b) : plan' = [plan EXCEPT ![b] = i]
                         /\ \/ reserved' = reserved
                            \/ reserved' = [reserved EXCEPT ![v][Group[b]] = Kept(v, b)]
                            \/ \E i \in Offered(v, b) :
                                 reserved' = [reserved EXCEPT ![v][Group[b]] = Kept(v, b) \cup {i}]
                         /\ outcome' \in {outcome, [outcome EXCEPT ![b] = "bad"]}
                         /\ UNCHANGED <<phase, lock, told, hears, calls>>
  BY Zenon DEF Prepare, IsNext
<1>2. b \in Branches /\ WaveOf[b] = v /\ Group[b] \in Groups
  BY DEF Of, Groups
<1>3. Offered(v, b) \subseteq Instances /\ Kept(v, b) \subseteq Instances
  BY <1>0, <1>2, WavesAssumption DEF Offered, Fitting, Kept, Types, Places
<1>4. plan' \in [Branches -> Instances \cup {None}]
  <2>1. ASSUME NEW i \in Offered(v, b), plan' = [plan EXCEPT ![b] = i]
        PROVE  plan' \in [Branches -> Instances \cup {None}]
    BY <1>0, <1>3, <2>1 DEF Types
  <2> QED
    BY <1>0, <1>1, <2>1 DEF Types
<1>5. reserved' \in [Waves -> [Groups -> SUBSET Instances]]
  <2>1. ASSUME NEW r \in SUBSET Instances, reserved' = [reserved EXCEPT ![v][Group[b]] = r]
        PROVE  reserved' \in [Waves -> [Groups -> SUBSET Instances]]
    BY <1>0, <2>1 DEF Types
  <2>2. CASE reserved' = [reserved EXCEPT ![v][Group[b]] = Kept(v, b)]
    BY <1>3, <2>1, <2>2
  <2>3. ASSUME NEW i \in Offered(v, b),
               reserved' = [reserved EXCEPT ![v][Group[b]] = Kept(v, b) \cup {i}]
        PROVE  reserved' \in [Waves -> [Groups -> SUBSET Instances]]
    <3>1. Kept(v, b) \cup {i} \in SUBSET Instances
      BY <1>3
    <3> QED
      BY <2>1, <2>3, <3>1
  <2> QED
    BY <1>0, <1>1, <2>2, <2>3 DEF Types
<1>6. /\ at' \in [Branches -> Places]
      /\ outcome' \in [Branches -> {"none", "ok", "bad"}]
  BY <1>0, <1>1, <1>2 DEF Types, Places
<1>7. \A c \in Branches : at[c] = "running" => at'[c] = at[c] /\ plan'[c] = plan[c]
  BY <1>0, <1>1, <1>2 DEF Types, Places
<1>8. \A u \in Waves, i \in Instances, c \in Branches : lock'[u][i] = c =>
        at'[c] = "running" /\ plan'[c] = i /\ WaveOf[c] = u
  <2> SUFFICES ASSUME NEW u \in Waves, NEW i \in Instances, NEW c \in Branches, lock'[u][i] = c
               PROVE  at'[c] = "running" /\ plan'[c] = i /\ WaveOf[c] = u
    OBVIOUS
  <2>1. Holds(u, i, c)
    BY <1>1, WavesAssumption DEF Holds
  <2>2. Rightly(u, i, c)
    BY <2>1, Holding
  <2> QED
    BY <1>7, <2>2 DEF Rightly
<1>9. lock' \in [Waves -> [Instances -> Branches \cup {None}]]
  BY <1>0, <1>1 DEF Types, Places
<1> QED
  BY <1>0, <1>1, <1>4, <1>5, <1>6, <1>8, <1>9, LocksTyped DEF Types, Places

(* Steps that move branches, none that runs, and touch no mutex.           *)
LEMMA MovesTyped ==
  ASSUME TInv, Types', UNCHANGED <<plan, lock>>,
         \A b \in Branches : at[b] = "running" => at'[b] = "running"
  PROVE  TInv'
<1>1. \A v \in Waves, i \in Instances, b \in Branches : lock'[v][i] = b =>
        at'[b] = "running" /\ plan'[b] = i /\ WaveOf[b] = v
  BY Holding, WavesAssumption DEF Holds, Rightly
<1> QED
  BY <1>1, LocksTyped

LEMMA RunTyped ==
  ASSUME TInv, NEW v \in Waves, NEW b \in Branches, Run(v, b)
  PROVE  TInv'
<1>0. Types
  BY TypesOf DEF TInv
<1>1. /\ at[b] = "waiting" /\ at' = [at EXCEPT ![b] = "running"] /\ WaveOf[b] = v
      /\ lock' = IF plan[b] = None THEN lock ELSE [lock EXCEPT ![v][plan[b]] = b]
      /\ UNCHANGED <<phase, reserved, plan, outcome, told, hears, calls>>
  BY DEF Run, Of
<1>2. at' \in [Branches -> Places]
  BY <1>0, <1>1 DEF Types, Places
<1>3. /\ lock' \in [Waves -> [Instances -> Branches \cup {None}]]
      /\ \A u \in Waves, i \in Instances : lock'[u][i] = lock[u][i]
                                           \/ (u = v /\ i = plan[b] /\ lock'[u][i] = b)
  BY <1>0, <1>1 DEF Types, Places
<1>4. \A u \in Waves, i \in Instances, c \in Branches : lock'[u][i] = c =>
        at'[c] = "running" /\ plan'[c] = i /\ WaveOf[c] = u
  BY <1>0, <1>1, <1>3, Holding, WavesAssumption DEF Holds, Rightly, Types
<1> QED
  BY <1>0, <1>1, <1>2, <1>3, <1>4, LocksTyped DEF Types, Places

LEMMA FinishTyped ==
  ASSUME TInv, NEW v \in Waves, NEW b \in Branches, Finish(v, b)
  PROVE  TInv'
<1>0. Types
  BY TypesOf DEF TInv
<1>1. /\ at[b] = "running" /\ at' = [at EXCEPT ![b] = "done"] /\ WaveOf[b] = v
      /\ lock' = IF plan[b] = None THEN lock ELSE [lock EXCEPT ![v][plan[b]] = None]
      /\ \E result \in {"ok", "bad"} : outcome' = [outcome EXCEPT ![b] = result]
      /\ UNCHANGED <<phase, reserved, plan, told, hears, calls>>
  BY DEF Finish, Unlock, Of
<1>2. /\ at' \in [Branches -> Places]
      /\ outcome' \in [Branches -> {"none", "ok", "bad"}]
  BY <1>0, <1>1 DEF Types, Places
<1>3. /\ lock' \in [Waves -> [Instances -> Branches \cup {None}]]
      /\ \A u \in Waves, i \in Instances :
           lock'[u][i] = lock[u][i] \/ lock'[u][i] = None
      /\ plan[b] # None => lock'[v][plan[b]] = None
  BY <1>0, <1>1 DEF Types, Places
<1>4. ASSUME NEW u \in Waves, NEW i \in Instances, NEW c \in Branches, lock'[u][i] = c
      PROVE  at'[c] = "running" /\ plan'[c] = i /\ WaveOf[c] = u
  <2>1. lock[u][i] = c /\ c # None
    BY <1>3, <1>4, WavesAssumption
  <2>2. at[c] = "running" /\ plan[c] = i /\ WaveOf[c] = u
    BY <1>4, <2>1, Holding DEF Holds, Rightly
  <2>3. c # b
    BY <1>0, <1>1, <1>3, <1>4, <2>1, <2>2, WavesAssumption DEF Types, Places
  <2> QED
    BY <1>0, <1>1, <2>2, <2>3 DEF Types, Places
<1> QED
  BY <1>0, <1>1, <1>2, <1>3, <1>4, LocksTyped DEF Types, Places

LEMMA TellingTyped ==
  ASSUME TInv, NEW v \in Waves, CallbackBegin(v) \/ CallbackEnd(v)
  PROVE  TInv'
<1>0. Types
  BY TypesOf DEF TInv
<1>1. CASE CallbackBegin(v)
  <2>1. Head(told[v]) \in Branches /\ Tail(told[v]) \in Seq(Branches)
    BY <1>0, <1>1 DEF CallbackBegin, Types, Places
  <2> QED
    BY <1>0, <1>1, <2>1, MovesTyped DEF CallbackBegin, Types, Places
<1>2. CASE CallbackEnd(v)
  <2>1. calls' \in [Branches -> Nat] /\ hears' \in [Waves -> Branches \cup {None}]
    BY <1>0, <1>2 DEF CallbackEnd, Types, Places
  <2> QED
    BY <1>0, <1>2, <2>1, MovesTyped DEF CallbackEnd, Types, Places
<1> QED
  BY <1>0, <1>1, <1>2 DEF Types, Places

LEMMA NextTyped == TInv /\ [WavesNext]_waveVars => TInv'
<1> SUFFICES ASSUME TInv, [WavesNext]_waveVars PROVE TInv'
  OBVIOUS
<1>0. Types
  BY TypesOf DEF TInv
<1>1. ASSUME NEW v \in Waves, Begin(v) \/ Return(v) PROVE TInv'
  BY <1>0, <1>1, MovesTyped DEF Begin, Return, Types, Places
<1>2. ASSUME NEW v \in Waves, Submit(v) PROVE TInv'
  <2>1. /\ at' \in [Branches -> Places]
        /\ \A b \in Branches : at[b] = "running" => at'[b] = "running"
    BY <1>0, <1>2 DEF Submit, Types, Places
  <2> QED
    BY <1>0, <1>2, <2>1, MovesTyped DEF Submit, Types, Places
<1>3. ASSUME NEW v \in Waves, Dequeue(v) PROVE TInv'
  <2>1. PICK b \in Of(v) : at[b] = "queued" /\ at' = [at EXCEPT ![b] = "waiting"]
    BY <1>0, <1>3 DEF Dequeue, Types, Places
  <2>2. UNCHANGED <<phase, reserved, plan, outcome, lock, told, hears, calls>>
    BY <1>0, <1>3 DEF Dequeue, Types, Places
  <2> QED
    BY <1>0, <2>1, <2>2, MovesTyped DEF Of, Types, Places
<1>4. ASSUME NEW v \in Waves, NEW b \in Branches, Collect(v, b) PROVE TInv'
  <2>1. told' \in [Waves -> Seq(Branches)]
    BY <1>0, <1>4 DEF Collect, Types, Places
  <2> QED
    BY <1>0, <1>4, <2>1, MovesTyped DEF Collect, Types, Places
<1>5. CASE UNCHANGED waveVars
  BY <1>0, <1>5, MovesTyped DEF waveVars, Types, Places
<1>6. ASSUME NEW v \in Waves, PoolStep(v) PROVE TInv'
  BY <1>1, <1>2, <1>3, <1>4, <1>6, PrepareTyped, RunTyped, FinishTyped DEF PoolStep
<1> QED
  BY <1>1, <1>5, <1>6, TellingTyped DEF WavesNext

-----------------------------------------------------------------------------
(* How the branches of a group are spread.                                 *)

Holders(v, g, i) == {b \in Of(v) : Group[b] = g /\ plan[b] = i}

(* Every usable instance has n branches of the group, and those that are   *)
(* reserved have one more.                                                 *)
LevelOf(v, g, b, n) ==
    /\ reserved[v][g] \subseteq Fitting(b, {})
    /\ \A i \in Fitting(b, {}) :
         /\ IsFiniteSet(Holders(v, g, i))
         /\ Cardinality(Holders(v, g, i)) = IF i \in reserved[v][g] THEN n + 1 ELSE n
Level(v, g, n) == \A b \in Of(v) : Group[b] = g => LevelOf(v, g, b, n)
Levels == \A v \in Waves : \A g \in Groups : Even(v, g) => \E n \in Nat : Level(v, g, n)

(* Who is not yet prepared counts for no instance. *)
Unplanned == \A b \in Branches : at[b] = "listed" => plan[b] = None

LInv == TInv /\ Unplanned /\ Levels

LEMMA InitLevel == WavesInit => LInv
<1> SUFFICES ASSUME WavesInit PROVE LInv
  OBVIOUS
<1>1. ASSUME NEW v \in Waves, NEW g \in Groups PROVE Level(v, g, 0)
  <2> SUFFICES ASSUME NEW b \in Of(v), Group[b] = g PROVE LevelOf(v, g, b, 0)
    BY DEF Level
  <2>1. reserved[v][g] = {}
    BY DEF WavesInit
  <2>2. ASSUME NEW i \in Fitting(b, {}) PROVE Holders(v, g, i) = {}
    BY WavesAssumption DEF WavesInit, Holders, Fitting, Of
  <2> QED
    BY <2>1, <2>2, FS_EmptySet DEF LevelOf
<1>2. Unplanned
  BY DEF WavesInit, Unplanned
<1> QED
  BY <1>1, <1>2, InitTyped DEF LInv, Levels

LEMMA LevelIsEven == LInv => LoadIsEven
<1> SUFFICES ASSUME LInv, NEW v \in Waves, NEW b \in Of(v), Even(v, Group[b]),
                    NEW i \in Fitting(b, {}), NEW j \in Fitting(b, {})
             PROVE  Load(v, Group[b], i) <= Load(v, Group[b], j) + 1
  BY DEF LoadIsEven
<1>1. Group[b] \in Groups
  BY DEF Groups, Of
<1>2. PICK n \in Nat : LevelOf(v, Group[b], b, n)
  BY <1>1 DEF LInv, Levels, Level
<1>3. \A k \in Fitting(b, {}) : Load(v, Group[b], k) \in {n, n + 1}
  BY <1>2 DEF LevelOf, Holders, Load
<1> QED
  BY <1>3

(* A wave and group whose plans and reservations stay.                     *)
LEMMA LevelStays ==
  ASSUME NEW v \in Waves, NEW g \in Groups, NEW n \in Nat, Level(v, g, n),
         reserved'[v][g] = reserved[v][g],
         \A b \in Of(v) : Group[b] = g => plan'[b] = plan[b]
  PROVE  Level(v, g, n)'
<1>1. \A i : Holders(v, g, i)' = Holders(v, g, i)
  BY DEF Holders, Of
<1> SUFFICES ASSUME NEW b \in Of(v), Group[b] = g PROVE LevelOf(v, g, b, n)'
  BY DEF Level, Of
<1>2. LevelOf(v, g, b, n)
  BY DEF Level
<1> QED
  BY <1>1, <1>2 DEF LevelOf, Fitting

(* The reservations of a group are dropped when all its instances have     *)
(* them: the same numbers are one level up.                                *)
LEMMA LevelUp ==
  ASSUME NEW v \in Waves, NEW b \in Of(v), LInv, Even(v, Group[b]), NEW n \in Nat,
         Level(v, Group[b], n)
  PROVE  \E m \in Nat :
           /\ Kept(v, b) \subseteq Fitting(b, {})
           /\ Offered(v, b) \subseteq Fitting(b, {}) \ Kept(v, b)
           /\ \A i \in Fitting(b, {}) :
                /\ IsFiniteSet(Holders(v, Group[b], i))
                /\ Cardinality(Holders(v, Group[b], i)) = IF i \in Kept(v, b) THEN m + 1 ELSE m
<1> DEFINE g == Group[b]
           F == Fitting(b, {})
           r == reserved[v][g]
<1>1. b \notin Pinned
  BY DEF Even, Of
<1>2. Taken(v, b) = r
  BY <1>1 DEF Taken
<1>3. /\ r \subseteq F
      /\ \A i \in F : /\ IsFiniteSet(Holders(v, g, i))
                      /\ Cardinality(Holders(v, g, i)) = IF i \in r THEN n + 1 ELSE n
  BY DEF Level, LevelOf
<1>4. Fitting(b, r) = F \ r
  BY DEF Fitting
<1>5. CASE AllReserved(v, b)
  <2>1. Kept(v, b) = {} /\ Offered(v, b) = F /\ F \subseteq r
    BY <1>2, <1>4, <1>5 DEF Kept, Offered, AllReserved
  <2> QED
    BY <1>3, <2>1
<1>6. CASE ~AllReserved(v, b)
  <2>1. Kept(v, b) = r /\ Offered(v, b) = F \ r
    BY <1>2, <1>4, <1>6 DEF Kept, Offered
  <2> QED
    BY <1>3, <2>1
<1> QED
  BY <1>5, <1>6

(* Another branch is prepared: it counts for the instance it selected, and *)
(* that one was not reserved.                                              *)
LEMMA PrepareLevel ==
  ASSUME LInv, NEW v \in Waves, Prepare(v)
  PROVE  LInv'
<1>1. PICK b \in Of(v) : /\ at[b] = "listed"
                         /\ \/ at' = [at EXCEPT ![b] = "ready"]
                            \/ at' = [at EXCEPT ![b] = "refused"]
                         /\ \/ plan' = plan /\ reserved' = reserved
                            \/ /\ plan' = plan
                               /\ reserved' = [reserved EXCEPT ![v][Group[b]] = Kept(v, b)]
                            \/ \E i \in Offered(v, b) :
                                 /\ plan' = [plan EXCEPT ![b] = i]
                                 /\ reserved' = [reserved EXCEPT ![v][Group[b]] =
                                                                   Kept(v, b) \cup {i}]
  BY Zenon DEF Prepare, IsNext
<1> DEFINE g == Group[b]
           F == Fitting(b, {})
<1>2. /\ b \in Branches /\ WaveOf[b] = v /\ g \in Groups /\ plan[b] = None
      /\ plan \in [Branches -> Instances \cup {None}]
      /\ reserved \in [Waves -> [Groups -> SUBSET Instances]]
      /\ at \in [Branches -> {"listed", "ready", "queued", "waiting", "running",
                              "done", "collected", "refused"}]
  BY <1>1 DEF Of, Groups, LInv, Unplanned, TInv, WavesTypeOK
<1>3. TInv'
  BY PrepareTyped DEF LInv
<1>4. \A c \in Branches : c # b => at'[c] = at[c] /\ plan'[c] = plan[c]
  BY <1>1, <1>2
<1>5. Unplanned'
  BY <1>1, <1>2, <1>4 DEF LInv, Unplanned
<1>6. \A u \in Waves, h \in Groups : u # v \/ h # g => reserved'[u][h] = reserved[u][h]
  BY <1>1, <1>2
<1>7. ASSUME NEW u \in Waves, NEW h \in Groups, Even(u, h), u # v \/ h # g
      PROVE  \E n \in Nat : Level(u, h, n)'
  <2>1. PICK n \in Nat : Level(u, h, n)
    BY <1>7 DEF LInv, Levels
  <2>2. \A c \in Of(u) : Group[c] = h => plan'[c] = plan[c]
    BY <1>2, <1>4, <1>7 DEF Of
  <2>3. Level(u, h, n)'
    BY <1>6, <1>7, <2>1, <2>2, LevelStays
  <2> QED
    BY <2>3
<1>8. ASSUME Even(v, g) PROVE \E n \in Nat : Level(v, g, n)'
  <2>1. PICK n \in Nat : Level(v, g, n)
    BY <1>2, <1>8 DEF LInv, Levels
  <2>2. PICK m \in Nat :
           /\ Kept(v, b) \subseteq F
           /\ Offered(v, b) \subseteq F \ Kept(v, b)
           /\ \A i \in F :
                /\ IsFiniteSet(Holders(v, g, i))
                /\ Cardinality(Holders(v, g, i)) = IF i \in Kept(v, b) THEN m + 1 ELSE m
    BY <1>8, <2>1, LevelUp
  <2>3. F \subseteq Instances /\ None \notin F
    BY <1>2, WavesAssumption DEF Fitting
  <2>4. \A c \in Of(v) : Group[c] = g => Fitting(c, {}) = F
    BY <1>8 DEF Even
  <2>5. CASE plan' = plan /\ reserved' = reserved
    <3>1. Level(v, g, n)'
      BY <1>2, <2>1, <2>5, LevelStays
    <3> QED
      BY <3>1
  <2>6. CASE plan' = plan /\ reserved' = [reserved EXCEPT ![v][g] = Kept(v, b)]
    <3>1. reserved'[v][g] = Kept(v, b)
      BY <1>2, <2>6
    <3>2. \A i : Holders(v, g, i)' = Holders(v, g, i)
      BY <2>6 DEF Holders, Of
    <3>3. ASSUME NEW c \in Of(v), Group[c] = g PROVE LevelOf(v, g, c, m)'
      <4>1. Fitting(c, {}) = F
        BY <2>4, <3>3
      <4> HIDE DEF F, g
      <4> QED
        BY <4>1, <2>2, <3>1, <3>2 DEF LevelOf
    <3>4. Level(v, g, m)'
      BY <3>3 DEF Level, Of
    <3> QED
      BY <3>4
  <2>7. ASSUME NEW i \in Offered(v, b), plan' = [plan EXCEPT ![b] = i],
               reserved' = [reserved EXCEPT ![v][g] = Kept(v, b) \cup {i}]
        PROVE  \E k \in Nat : Level(v, g, k)'
    <3>1. reserved'[v][g] = Kept(v, b) \cup {i} /\ i \in F /\ i \notin Kept(v, b)
      BY <1>2, <2>2, <2>7
    <3>2. \A j \in F : j # i => Holders(v, g, j)' = Holders(v, g, j)
      BY <1>2, <1>4, <2>3, <2>7 DEF Holders, Of
    <3>3. Holders(v, g, i)' = Holders(v, g, i) \cup {b} /\ b \notin Holders(v, g, i)
      BY <1>2, <1>4, <2>3, <2>7, <3>1 DEF Holders, Of
    <3>4. /\ IsFiniteSet(Holders(v, g, i)')
          /\ Cardinality(Holders(v, g, i)') = m + 1
      BY <2>2, <3>1, <3>3, FS_AddElement
    <3>5. \A j \in F :
            /\ IsFiniteSet(Holders(v, g, j)')
            /\ Cardinality(Holders(v, g, j)') = IF j \in reserved'[v][g] THEN m + 1 ELSE m
      BY <2>2, <3>1, <3>2, <3>4
    <3>6. ASSUME NEW c \in Of(v), Group[c] = g PROVE LevelOf(v, g, c, m)'
      <4>1. Fitting(c, {}) = F
        BY <2>4, <3>6
      <4>2. reserved'[v][g] \subseteq F
        BY <2>2, <3>1
      <4> HIDE DEF F, g
      <4> QED
        BY <4>1, <4>2, <3>5 DEF LevelOf
    <3>7. Level(v, g, m)'
      BY <3>6 DEF Level, Of
    <3> QED
      BY <3>7
  <2> QED
    BY <1>1, <2>5, <2>6, <2>7
<1>9. ASSUME NEW u \in Waves, NEW h \in Groups, Even(u, h)
      PROVE  \E n \in Nat : Level(u, h, n)'
  BY <1>7, <1>8, <1>9
<1>10. Levels'
  BY <1>9 DEF Levels, Even, Fitting, Of
<1> QED
  BY <1>3, <1>5, <1>10 DEF LInv

(* Nobody else plans or reserves, and nobody is listed again.              *)
LEMMA NextLevel == LInv /\ [WavesNext]_waveVars => LInv'
<1> SUFFICES ASSUME LInv, [WavesNext]_waveVars PROVE LInv'
  OBVIOUS
<1>1. TInv'
  BY NextTyped DEF LInv
<1>2. ASSUME UNCHANGED <<plan, reserved>>, \A b \in Branches : at'[b] = "listed" => at[b] = "listed"
      PROVE  LInv'
  <2>1. Unplanned'
    BY <1>2 DEF LInv, Unplanned
  <2>2. ASSUME NEW v \in Waves, NEW g \in Groups, Even(v, g)
        PROVE  \E n \in Nat : Level(v, g, n)'
    <3>1. PICK n \in Nat : Level(v, g, n)
      BY <2>2 DEF LInv, Levels
    <3>2. Level(v, g, n)'
      BY <1>2, <3>1, LevelStays
    <3> QED
      BY <3>2
  <2>3. Levels'
    BY <2>2 DEF Levels, Even, Fitting, Of
  <2> QED
    BY <1>1, <2>1, <2>3 DEF LInv
<1>3. at \in [Branches -> {"listed", "ready", "queued", "waiting", "running",
                           "done", "collected", "refused"}]
  BY DEF LInv, TInv, WavesTypeOK
<1>4. CASE UNCHANGED waveVars
  BY <1>2, <1>4 DEF waveVars
<1>5. ASSUME NEW v \in Waves, Begin(v) \/ Return(v) \/ CallbackBegin(v) \/ CallbackEnd(v)
      PROVE  LInv'
  BY <1>2, <1>5 DEF Begin, Return, CallbackBegin, CallbackEnd
<1>6. ASSUME NEW v \in Waves, Submit(v) PROVE LInv'
  BY <1>2, <1>6 DEF Submit
<1>7. ASSUME NEW v \in Waves, Dequeue(v) PROVE LInv'
  BY <1>2, <1>3, <1>7 DEF Dequeue
<1>8. ASSUME NEW v \in Waves, NEW b \in Branches, Run(v, b) \/ Finish(v, b) \/ Collect(v, b)
      PROVE  LInv'
  BY <1>2, <1>3, <1>8 DEF Run, Finish, Collect
<1> QED
  BY <1>4, <1>5, <1>6, <1>7, <1>8, PrepareLevel DEF WavesNext, PoolStep

(* prepare_branches with its reservations: however the preparation fails,  *)
(* whatever was reserved before and however often the reservations are     *)
(* dropped, no usable instance of a group that shares its choice gets two  *)
(* branches more than another.                                             *)
THEOREM ReservationsSpread == WavesSpec => []LoadIsEven
<1>1. WavesSpec => []LInv
  BY InitLevel, NextLevel, PTL DEF WavesSpec
<1> QED
  BY <1>1, LevelIsEven, PTL
=============================================================================
