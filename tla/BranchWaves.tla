----------------------------- MODULE BranchWaves -----------------------------
(***************************************************************************)
(* execute_materialization_branches: one call is one wave.  Its caller     *)
(* prepares the branches one after the other, spreading the branches of a  *)
(* reservation group over instances, submits the prepared ones to a thread *)
(* pool, collects the futures as they complete and lets one more thread    *)
(* tell the progress.  Waves of different responses run at the same time.  *)
(*                                                                         *)
(* A plan is the instance it selected.  A branch of Local is executed by   *)
(* the server itself and its plan has no instance.                         *)
(***************************************************************************)
EXTENDS Naturals, FiniteSets, Sequences

CONSTANTS
    None,
    Waves, Branches, Instances,
    WaveOf,      \* WaveOf[b]: the wave that is called with branch b
    Rank,        \* Rank[b]: its place in the list of that call
    Usable,      \* Usable[b]: running instances compatible with branch b
    Barred,      \* Barred[b]: excluded_instance_ids of the caller
    Pinned,      \* branches with a forced_instance_id: their one usable instance
    Local,       \* branches without an instance
    FastLane,    \* text-io repair branches, which are submitted first
    Group,       \* Group[b]: reservation group of b
    MaxParallel, \* max_parallel_workers
    Async        \* async_branch_progress

Groups == {Group[b] : b \in Branches}
Of(v) == {b \in Branches : WaveOf[b] = v}

ASSUME WavesAssumption ==
    /\ WaveOf \in [Branches -> Waves] /\ Rank \in [Branches -> Nat]
    /\ \A v \in Waves : \A b, c \in Of(v) : Rank[b] = Rank[c] => b = c
    /\ Usable \in [Branches -> SUBSET Instances] /\ Barred \in [Branches -> SUBSET Instances]
    /\ None \notin Branches \cup Instances
    /\ Local \subseteq Branches /\ FastLane \subseteq Branches /\ Pinned \subseteq Branches
    /\ Branches = DOMAIN Group /\ MaxParallel \in Nat \ {0} /\ Async \in BOOLEAN

VARIABLES
    phase,    \* phase[v]: idle, prepare, execute, returned
    reserved, \* reserved[v][g]: instances reserved in group g
    plan,     \* plan[b]: the instance it selected, or None
    at,       \* at[b]: listed, ready, queued, waiting, running, done, collected, refused
    outcome,  \* outcome[b]: none, ok, bad
    lock,     \* lock[v][i]: the branch that holds the wave's mutex of instance i
    told,     \* told[v]: progress events submitted and not yet dispatched
    hears,    \* hears[v]: the event whose callback is running, or None
    calls     \* calls[b]: callbacks that branch b got

waveVars == <<phase, reserved, plan, at, outcome, lock, told, hears, calls>>

WavesInit ==
    /\ phase = [v \in Waves |-> "idle"]
    /\ reserved = [v \in Waves |-> [g \in Groups |-> {}]]
    /\ plan = [b \in Branches |-> None]
    /\ at = [b \in Branches |-> "listed"]
    /\ outcome = [b \in Branches |-> "none"]
    /\ lock = [v \in Waves |-> [i \in Instances |-> None]]
    /\ told = [v \in Waves |-> <<>>]
    /\ hears = [v \in Waves |-> None]
    /\ calls = [b \in Branches |-> 0]

(* The call. *)
Begin(v) ==
    /\ phase[v] = "idle"
    /\ phase' = [phase EXCEPT ![v] = "prepare"]
    /\ UNCHANGED <<reserved, plan, at, outcome, lock, told, hears, calls>>

-----------------------------------------------------------------------------
(* Preparation. *)

(* Reservations bind a branch that is not pinned, or whose caller excludes *)
(* instances.                                                              *)
TakenByPin(v, b) == IF Barred[b] = {} THEN {} ELSE reserved[v][Group[b]]   \* Faulty
Taken(v, b) == IF b \in Pinned /\ Barred[b] = {} THEN {} ELSE reserved[v][Group[b]]
Fitting(b, taken) == Usable[b] \ (Barred[b] \cup taken)

AllReserved(v, b) ==
    /\ Fitting(b, Taken(v, b)) = {}
    /\ Taken(v, b) # {} /\ b \notin Pinned

(* What is left of the reservations when b is prepared: when no instance   *)
(* remains they are dropped, and the branch is prepared again without.     *)
Kept(v, b) == IF AllReserved(v, b) THEN {} ELSE reserved[v][Group[b]]
Offered(v, b) == Fitting(b, IF AllReserved(v, b) THEN {} ELSE Taken(v, b))

(* The branches are prepared in the order of the call. *)
IsNext(v, b) ==
    /\ at[b] = "listed"
    /\ \A c \in Of(v) : at[c] = "listed" => Rank[b] <= Rank[c]

Prepare(v) ==
  \E b \in Of(v) :
    /\ phase[v] = "prepare" /\ IsNext(v, b)
    /\ \/ /\ b \in Local
          /\ at' = [at EXCEPT ![b] = "ready"]
          /\ UNCHANGED <<reserved, plan, outcome>>
       \/ /\ b \notin Local
          /\ \E i \in Offered(v, b) :
               /\ plan' = [plan EXCEPT ![b] = i]
               /\ reserved' = [reserved EXCEPT ![v][Group[b]] = Kept(v, b) \cup {i}]
          /\ at' = [at EXCEPT ![b] = "ready"]
          /\ UNCHANGED outcome
       \/ /\ at' = [at EXCEPT ![b] = "refused"]
          /\ outcome' = [outcome EXCEPT ![b] = "bad"]
          /\ reserved' \in {reserved, [reserved EXCEPT ![v][Group[b]] = Kept(v, b)]}
          /\ UNCHANGED plan
    /\ UNCHANGED <<phase, lock, told, hears, calls>>

-----------------------------------------------------------------------------
(* Execution. *)

(* The executor gets every prepared plan at once. *)
Submit(v) ==
    /\ phase[v] = "prepare" /\ \A b \in Of(v) : at[b] # "listed"
    /\ phase' = [phase EXCEPT ![v] = IF \A b \in Of(v) : at[b] = "refused"
                                     THEN "returned" ELSE "execute"]
    /\ at' = [b \in Branches |-> IF b \in Of(v) /\ at[b] = "ready" THEN "queued" ELSE at[b]]
    /\ UNCHANGED <<reserved, plan, outcome, lock, told, hears, calls>>

Prepared(v) == {b \in Of(v) : at[b] \notin {"listed", "ready", "refused"}}
Least(m, n) == IF m < n THEN m ELSE n
Most(m, n) == IF m < n THEN n ELSE m

(* One worker per selected instance and local fast-lane branch.            *)
Workers(v) ==
    LET units == Cardinality({plan[b] : b \in Prepared(v)} \ {None})
                 + Cardinality(Prepared(v) \cap FastLane \cap Local)
    IN  Most(1, Least(Cardinality(Prepared(v)), Least(Most(units, 1), MaxParallel)))

Busy(v) == {b \in Of(v) : at[b] \in {"waiting", "running"}}
Told(v) == told[v] = <<>> /\ hears[v] = None

(* A lone worker is the calling thread: it collects a branch before it     *)
(* executes the next.                                                      *)
MayDequeue(v) ==
    /\ Cardinality(Busy(v)) < Workers(v)
    /\ Workers(v) = 1 => (\A b \in Of(v) : at[b] # "done") /\ (Async \/ Told(v))

(* The fast lane first, then the order of the call. *)
Before(b, c) ==
    IF (b \in FastLane) = (c \in FastLane) THEN Rank[b] <= Rank[c] ELSE b \in FastLane

Dequeue(v) ==
  \E b \in Of(v) :
    /\ phase[v] = "execute" /\ MayDequeue(v)
    /\ at[b] = "queued"
    /\ \A c \in Of(v) : at[c] = "queued" => Before(b, c)
    /\ at' = [at EXCEPT ![b] = "waiting"]
    /\ UNCHANGED <<phase, reserved, plan, outcome, lock, told, hears, calls>>

MayAlwaysRun(v, b) == TRUE                    \* Faulty as MayRun: no mutex
MayRun(v, b) == plan[b] # None => lock[v][plan[b]] = None

(* execute_plan: take the mutex of the selected instance and call it. *)
Run(v, b) ==
    /\ b \in Of(v) /\ at[b] = "waiting"
    /\ MayRun(v, b)
    /\ at' = [at EXCEPT ![b] = "running"]
    /\ lock' = IF plan[b] = None THEN lock ELSE [lock EXCEPT ![v][plan[b]] = b]
    /\ UNCHANGED <<phase, reserved, plan, outcome, told, hears, calls>>

\* Faulty as Unlock: an exception leaves the mutex locked
UnlockOnSuccess(v, b, result) ==
    IF plan[b] = None \/ result = "bad" THEN lock ELSE [lock EXCEPT ![v][plan[b]] = None]
Unlock(v, b, result) ==
    IF plan[b] = None THEN lock ELSE [lock EXCEPT ![v][plan[b]] = None]

Finish(v, b) ==
    /\ b \in Of(v) /\ at[b] = "running"
    /\ \E result \in {"ok", "bad"} :
         /\ outcome' = [outcome EXCEPT ![b] = result]
         /\ lock' = Unlock(v, b, result)
    /\ at' = [at EXCEPT ![b] = "done"]
    /\ UNCHANGED <<phase, reserved, plan, told, hears, calls>>

(* as_completed: the next finished future, in any order.  A synchronous    *)
(* callback is over before the next one is taken.                          *)
Collect(v, b) ==
    /\ b \in Of(v) /\ at[b] = "done"
    /\ Async \/ Told(v)
    /\ at' = [at EXCEPT ![b] = "collected"]
    /\ told' = [told EXCEPT ![v] = Append(@, b)]
    /\ UNCHANGED <<phase, reserved, plan, outcome, lock, hears, calls>>

(* dispatch_branch_progress, on the one thread that does it; an exception  *)
(* of the callback is swallowed.                                           *)
CallbackBegin(v) ==
    /\ told[v] # <<>> /\ hears[v] = None
    /\ hears' = [hears EXCEPT ![v] = Head(told[v])]
    /\ told' = [told EXCEPT ![v] = Tail(@)]
    /\ UNCHANGED <<phase, reserved, plan, at, outcome, lock, calls>>

CallbackEnd(v) ==
    /\ hears[v] # None
    /\ calls' = [calls EXCEPT ![hears[v]] = @ + 1]
    /\ hears' = [hears EXCEPT ![v] = None]
    /\ UNCHANGED <<phase, reserved, plan, at, outcome, lock, told>>

NotDrained(v) == TRUE                        \* Faulty as Drained
Drained(v) == Told(v)

(* The pool is shut down, the progress drained, and the call returns.      *)
Return(v) ==
    /\ phase[v] = "execute"
    /\ \A b \in Prepared(v) : at[b] = "collected"
    /\ Drained(v)
    /\ phase' = [phase EXCEPT ![v] = "returned"]
    /\ UNCHANGED <<reserved, plan, at, outcome, lock, told, hears, calls>>

PoolStep(v) ==
    \/ Prepare(v) \/ Submit(v) \/ Dequeue(v)
    \/ \E b \in Branches : Run(v, b) \/ Finish(v, b) \/ Collect(v, b)
    \/ Return(v)

WavesNext ==
    \/ \E v \in Waves : Begin(v) \/ PoolStep(v) \/ CallbackBegin(v) \/ CallbackEnd(v)
    \/ (\A v \in Waves : phase[v] = "returned" /\ Told(v)) /\ UNCHANGED waveVars

WavesSpec == WavesInit /\ [][WavesNext]_waveVars

-----------------------------------------------------------------------------
(* The types of the variables; a mutex is held by a branch that runs on    *)
(* its instance.                                                           *)
WavesTypeOK ==
    /\ phase \in [Waves -> {"idle", "prepare", "execute", "returned"}]
    /\ reserved \in [Waves -> [Groups -> SUBSET Instances]]
    /\ plan \in [Branches -> Instances \cup {None}]
    /\ at \in [Branches -> {"listed", "ready", "queued", "waiting", "running",
                            "done", "collected", "refused"}]
    /\ outcome \in [Branches -> {"none", "ok", "bad"}]
    /\ lock \in [Waves -> [Instances -> Branches \cup {None}]]
    /\ \A v \in Waves : \A i \in Instances :
         lock[v][i] # None => at[lock[v][i]] = "running" /\ plan[lock[v][i]] = i
    /\ told \in [Waves -> Seq(Branches)]
    /\ hears \in [Waves -> Branches \cup {None}]
    /\ calls \in [Branches -> Nat]

\* No two branches of the same wave call one instance at a time, however
\* large the pool is.
OneCallPerWave ==
    \A v \in Waves : \A b, c \in Of(v) :
        at[b] = "running" /\ at[c] = "running" /\ plan[b] # None /\ plan[b] = plan[c] => b = c

\* When a wave returns, every branch it was called with has a result or an
\* error, and its caller has heard of every executed one exactly once: no
\* progress comes later and overwrites what the caller publishes next.
ReturnIsComplete ==
    \A v \in Waves : phase[v] = "returned" =>
        \A b \in Of(v) : /\ outcome[b] # "none"
                         /\ calls[b] = IF at[b] = "refused" THEN 0 ELSE 1

(* Branches of one group whose choice is the same and free.                *)
Even(v, g) ==
    LET members == {b \in Of(v) : Group[b] = g}
    IN  /\ members \cap (Pinned \cup Local) = {}
        /\ \A b, c \in members : Fitting(b, {}) = Fitting(c, {})
Load(v, g, i) == Cardinality({b \in Of(v) : Group[b] = g /\ plan[b] = i})

\* Reserving, and starting over when everything is reserved, spreads the
\* branches of a group evenly: no usable instance gets two branches more than
\* another, however many times the reservations were dropped.
LoadIsEven ==
    \A v \in Waves : \A b \in Of(v) :
        Even(v, Group[b]) =>
            \A i, j \in Fitting(b, {}) : Load(v, Group[b], i) <= Load(v, Group[b], j) + 1
=============================================================================
