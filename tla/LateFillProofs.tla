--------------------------- MODULE LateFillProofs ---------------------------
(***************************************************************************)
(* Late Fill for any number of workers, requests, branches, faults, lost   *)
(* records, restarts and threads that do not start: mutual exclusion, the  *)
(* claim that always has a holder, types, what a lookup serves at rest,    *)
(* what a response keeps while nobody intervenes, and a single stop.       *)
(***************************************************************************)
EXTENDS LateFill, TLAPS

Working1(p, where) == p \in Workers /\ where \notin {"free", "handoff"}
Retrying1(p, where) == p \in Retries /\ where \in {"persist", "touch", "spawn"}

(* A worker or retry in a place where it holds the claim. *)
Holds(p, where) == Working1(p, where) \/ Retrying1(p, where)

(* What the flag guarantees: a holder only exists while the response is    *)
(* claimed, and it is the only one.                                        *)
Exclusive ==
    /\ DOMAIN pc = Actors /\ claimed \in BOOLEAN
    /\ \A p \in Actors : Holds(p, pc[p]) => claimed
    /\ \A p, q \in Actors : Holds(p, pc[p]) /\ Holds(q, pc[q]) => p = q

(* A step of one actor that keeps what it holds, or gives it up, and       *)
(* leaves the flag alone.                                                  *)
LEMMA Keeps ==
  ASSUME Exclusive, NEW p \in Actors, NEW where,
         pc' = [pc EXCEPT ![p] = where],
         Holds(p, where) => Holds(p, pc[p]), claimed' = claimed
  PROVE  Exclusive'
BY DEF Exclusive, Holds, Working1, Retrying1

(* A step that takes a free claim. *)
LEMMA Takes ==
  ASSUME Exclusive, NEW p \in Actors, NEW where,
         pc' = [pc EXCEPT ![p] = where], ~claimed, claimed' = TRUE
  PROVE  Exclusive'
BY DEF Exclusive, Holds, Working1, Retrying1

(* A step of the holder that releases. *)
LEMMA Releases ==
  ASSUME Exclusive, NEW p \in Actors, NEW where,
         pc' = [pc EXCEPT ![p] = where], Holds(p, pc[p]), ~Holds(p, where),
         claimed' = FALSE
  PROVE  Exclusive'
<1>1. \A q \in Actors : ~Holds(q, pc'[q])
  <2> SUFFICES ASSUME NEW q \in Actors PROVE ~Holds(q, pc'[q])
    OBVIOUS
  <2>1. CASE q = p
    <3>1. pc'[q] = where
      BY <2>1 DEF Exclusive
    <3> QED
      BY <2>1, <3>1
  <2>2. CASE q # p
    <3>1. pc'[q] = pc[q]
      BY <2>2 DEF Exclusive
    <3> QED
      BY <2>2, <3>1 DEF Exclusive
  <2> QED
    BY <2>1, <2>2
<1>2. DOMAIN pc' = Actors /\ claimed' \in BOOLEAN
  BY DEF Exclusive
<1> QED
  BY <1>1, <1>2 DEF Exclusive, Holds, Working1, Retrying1

LEMMA Disjoint ==
  /\ \A w \in Workers : w \in Actors /\ w \notin Controls /\ w \notin Retries
  /\ \A c \in Controls : c \in Actors /\ c \notin Workers /\ c \notin Retries
  /\ \A r \in Retries : r \in Actors /\ r \notin Workers /\ r \notin Controls
BY LateFillAssumption DEF Actors, Clients

LEMMA InitExclusive == Init => Exclusive
BY Disjoint DEF Init, Exclusive, Holds, Working1, Retrying1

(* Persisting and publishing move an actor from persist over touch to its  *)
(* goal.                                                                   *)
LEMMA SharedExclusive ==
  ASSUME Exclusive, NEW p \in Actors, Persist(p) \/ Unwritten(p) \/ Publish(p)
  PROVE  Exclusive'
<1>1. CASE Persist(p) \/ Unwritten(p)
  <2>1. Holds(p, "touch") => Holds(p, "persist")
    BY DEF Holds, Working1, Retrying1
  <2> QED
    BY <1>1, <2>1, Keeps DEF Persist, Unwritten, Goto
<1>2. CASE Publish(p)
  <2>1. Holds(p, goal[p]) => Holds(p, "touch")
    BY DEF Holds, Working1, Retrying1
  <2> QED
    BY <1>2, <2>1, Keeps DEF Publish, Goto
<1> QED
  BY <1>1, <1>2

(* A working thread goes on working whatever it does next.                 *)
LEMMA GoesOn ==
  ASSUME Exclusive, NEW w \in Workers, NEW where, Goto(w, where),
         pc[w] \notin {"free", "handoff"}, claimed' = claimed
  PROVE  Exclusive'
<1>1. Holds(w, pc[w])
  BY DEF Holds, Working1
<1> QED
  BY <1>1, Disjoint, Keeps DEF Goto

LEMMA WorkerExclusive ==
  ASSUME Exclusive, NEW w \in Workers, WorkerStep(w) \/ Wake(w) \/ StartFails(w) \/ Raise(w)
  PROVE  Exclusive'
<1>1. w \in Actors
  BY Disjoint
<1>2. CASE Schedule(w)
  <2>1. CASE claimed
    <3>1. Goto(w, "free") /\ claimed' = claimed
      BY <1>2, <2>1 DEF Schedule, MayClaim, Exclusive
    <3>2. ~Holds(w, "free")
      BY Disjoint DEF Holds, Working1, Retrying1
    <3> QED
      BY <1>1, <3>1, <3>2, Keeps DEF Goto
  <2>2. CASE ~claimed
    <3>1. Goto(w, "start") /\ claimed' = TRUE
      BY <1>2, <2>2 DEF Schedule, MayClaim
    <3> QED
      BY <1>1, <2>2, <3>1, Takes DEF Goto
  <2> QED
    BY <2>1, <2>2
<1>3. CASE StartFails(w)
  BY <1>1, <1>3, Takes DEF StartFails, MayClaim, Goto
<1>4. CASE Start(w)
  <2>1. PICK where : Goto(w, where)
    BY <1>4 DEF Start, Conclude, Prepare
  <2> QED
    BY <1>4, <2>1, GoesOn DEF Start
<1>5. CASE Top(w)
  <2>1. PICK where : Goto(w, where)
    BY <1>5 DEF Top, Conclude, Prepare
  <2> QED
    BY <1>5, <2>1, GoesOn DEF Top
<1>6. CASE StaleHandoff(w) \/ Run(w) \/ Sleep(w) \/ Preflight(w) \/ Audit(w)
  BY <1>6, GoesOn DEF StaleHandoff, Run, Sleep, Preflight, Audit
<1>7. CASE Report(w)
  BY <1>7, GoesOn DEF Report
<1>8. CASE Reported(w)
  BY <1>8, GoesOn DEF Reported
<1>9. CASE Collect(w)
  BY <1>9, GoesOn DEF Collect
<1>10. CASE Settle(w) \/ Wake(w)
  BY <1>10 DEF Settle, Wake, Exclusive
<1>11. CASE Wave(w)
  <2>1. PICK where : Goto(w, where)
    BY <1>11 DEF Wave, Conclude, Prepare
  <2> QED
    BY <1>11, <2>1, GoesOn DEF Wave
<1>12. CASE Succeed(w)
  <2>1. PICK where : Goto(w, where)
    BY <1>12 DEF Succeed, Prepare
  <2> QED
    BY <1>12, <2>1, GoesOn DEF Succeed
<1>13. CASE Except(w)
  BY <1>13, GoesOn DEF Except, Prepare
<1>14. CASE Raise(w)
  BY <1>14, GoesOn DEF Raise, InTry
<1>15. CASE Release(w)
  <2>1. PICK where \in {"free", "handoff"} : Goto(w, where)
    BY <1>15 DEF Release
  <2>2. Holds(w, pc[w]) /\ ~Holds(w, where)
    BY <1>15, Disjoint DEF Release, Holds, Working1, Retrying1
  <2> QED
    BY <1>1, <1>15, <2>1, <2>2, Releases DEF Release, Goto
<1>16. CASE Persist(w) \/ Publish(w)
  BY <1>1, <1>16, SharedExclusive
<1> QED
  BY <1>2, <1>3, <1>4, <1>5, <1>6, <1>7, <1>8, <1>9, <1>10, <1>11, <1>12, <1>13,
     <1>14, <1>15, <1>16 DEF WorkerStep

(* A control request never claims the response.                            *)
LEMMA ControlExclusive ==
  ASSUME Exclusive, NEW c \in Controls, ControlStep(c)
  PROVE  Exclusive'
<1>1. c \in Actors /\ \A where : ~Holds(c, where)
  BY Disjoint DEF Holds, Working1, Retrying1
<1>2. CASE Control(c)
  <2>1. PICK where : Goto(c, where)
    BY <1>2 DEF Control, Prepare
  <2> QED
    BY <1>1, <1>2, <2>1, Keeps DEF Control, Goto
<1>3. CASE Reply(c)
  BY <1>1, <1>3, Keeps DEF Reply, Goto
<1>4. CASE Persist(c) \/ Publish(c)
  BY <1>1, <1>4, SharedExclusive
<1> QED
  BY <1>2, <1>3, <1>4 DEF ControlStep

(* A retry request claims, and hands its claim to the worker it starts.    *)
LEMMA RetryExclusive ==
  ASSUME Exclusive, NEW r \in Retries, RetryStep(r) \/ Abort(r)
  PROVE  Exclusive'
<1>1. r \in Actors /\ ~Holds(r, "claim") /\ ~Holds(r, "done")
  BY Disjoint DEF Holds, Working1, Retrying1
<1>2. CASE Retry(r)
  <2>1. PICK where \in {"claim", "done"} : Goto(r, where)
    BY <1>2 DEF Retry
  <2> QED
    BY <1>1, <1>2, <2>1, Keeps DEF Retry, Goto
<1>3. CASE Claim(r)
  <2>1. CASE claimed
    <3>1. Goto(r, "done") /\ claimed' = claimed
      BY <1>3, <2>1 DEF Claim, MayClaim, Exclusive
    <3> QED
      BY <1>1, <3>1, Keeps DEF Goto
  <2>2. CASE ~claimed
    <3>1. Goto(r, "persist") /\ claimed' = TRUE
      BY <1>3, <2>2 DEF Claim, MayClaim, Prepare
    <3> QED
      BY <1>1, <2>2, <3>1, Takes DEF Goto
  <2> QED
    BY <2>1, <2>2
<1>4. CASE Spawn(r)
  <2>1. PICK w \in Workers : pc' = [pc EXCEPT ![r] = "done", ![w] = "start"]
    BY <1>4 DEF Spawn
  <2>2. pc[r] = "spawn" /\ claimed' = claimed
    BY <1>4 DEF Spawn
  <2>3. Holds(r, pc[r])
    BY <2>2 DEF Holds, Retrying1
  <2>4. w \in Actors /\ w # r
    BY Disjoint
  <2>5. \A p \in Actors : Holds(p, pc'[p]) => p = w
    <3> SUFFICES ASSUME NEW p \in Actors, p # w, Holds(p, pc'[p]) PROVE FALSE
      OBVIOUS
    <3>1. p # r
      BY <1>1, <2>1, <2>4 DEF Exclusive
    <3>2. Holds(p, pc[p])
      BY <2>1, <3>1 DEF Exclusive
    <3> QED
      BY <1>1, <2>3, <3>1, <3>2 DEF Exclusive
  <2>6. claimed' /\ claimed' \in BOOLEAN /\ DOMAIN pc' = Actors
    BY <1>1, <2>1, <2>2, <2>3 DEF Exclusive
  <2> QED
    BY <2>5, <2>6 DEF Exclusive, Holds, Working1, Retrying1
<1>5. CASE Abort(r)
  <2>1. Holds(r, pc[r])
    BY <1>5 DEF Abort, Holds, Retrying1
  <2> QED
    BY <1>1, <1>5, <2>1, Releases DEF Abort, Goto
<1>6. CASE Persist(r) \/ Publish(r)
  BY <1>1, <1>6, SharedExclusive
<1> QED
  BY <1>2, <1>3, <1>4, <1>5, <1>6 DEF RetryStep

LEMMA NextExclusive == Exclusive /\ [Next]_vars => Exclusive'
<1> SUFFICES ASSUME Exclusive, [Next]_vars PROVE Exclusive'
  OBVIOUS
<1>1. CASE \E w \in Workers : WorkerStep(w) \/ Wake(w) \/ StartFails(w) \/ Raise(w)
  BY <1>1, WorkerExclusive
<1>2. CASE \E c \in Controls : ControlStep(c)
  BY <1>2, ControlExclusive
<1>3. CASE \E r \in Retries : RetryStep(r) \/ Abort(r)
  BY <1>3, RetryExclusive
<1>4. CASE Poll
  BY <1>4 DEF Poll, Exclusive
<1>5. CASE Expire
  BY <1>5 DEF Expire, Exclusive
<1>6. CASE Restart
  <2>1. \A p \in Actors : ~Holds(p, pc'[p])
    BY <1>6, Disjoint DEF Restart, Holds, Working1, Retrying1
  <2>2. DOMAIN pc' = Actors /\ claimed' \in BOOLEAN
    BY <1>6 DEF Restart
  <2> QED
    BY <2>1, <2>2 DEF Exclusive, Holds, Working1, Retrying1
<1>7. CASE \E p \in Actors : Unwritten(p)
  BY <1>7, SharedExclusive
<1>8. CASE Idle \/ UNCHANGED vars
  BY <1>8 DEF Idle, vars, Exclusive
<1> QED
  BY <1>1, <1>2, <1>3, <1>4, <1>5, <1>6, <1>7, <1>8 DEF Next

LEMMA ExclusiveOneWorker == Exclusive => OneWorker
BY Disjoint DEF Exclusive, OneWorker, Working, Retrying, Holds, Working1, Retrying1

\* In every behaviour at most one worker or retry request executes and
\* rewrites the response (claim_response_late_fill and its callers).
THEOREM MutualExclusion == Spec => []OneWorker
<1>1. Spec => []Exclusive
  BY InitExclusive, NextExclusive, PTL DEF Spec
<1> QED
  BY <1>1, ExclusiveOneWorker, PTL

-----------------------------------------------------------------------------
(* The other direction: every thread that is started runs, so a claim is   *)
(* never left without a holder.                                            *)

Held == claimed => \E p \in Actors : Holds(p, pc[p])

(* Where a persisting worker or retry goes next, it still holds the claim. *)
KeepsClaim(p, where, next) ==
    /\ p \in Workers => next \in {"release", "reopen", "run", "succeed"}
    /\ p \in Retries /\ where \in {"persist", "touch"} => next = "spawn"

Goals == DOMAIN goal = Actors /\ \A p \in Actors : KeepsClaim(p, pc[p], goal[p])

AllStart == DOMAIN left = {"requeues", "faults", "losses", "starts", "appends"} /\ left["starts"] = 0

HeldInv == Exclusive /\ Held /\ Goals /\ AllStart

LEMMA HolderStays ==
  ASSUME HeldInv, NEW p \in Actors, NEW where,
         pc' = [pc EXCEPT ![p] = where],
         Holds(p, pc[p]) => Holds(p, where), claimed' = claimed
  PROVE  Held'
BY DEF HeldInv, Exclusive, Held, Holds, Working1, Retrying1

LEMMA HolderComes ==
  ASSUME HeldInv, NEW p \in Actors, NEW where,
         pc' = [pc EXCEPT ![p] = where], Holds(p, where)
  PROVE  Held'
<1>1. pc'[p] = where
  BY DEF HeldInv, Exclusive
<1>2. Holds(p, pc'[p])
  BY <1>1
<1> QED
  BY <1>2 DEF Held, Holds, Working1, Retrying1

LEMMA GoalsKept ==
  ASSUME HeldInv, NEW p \in Actors, NEW where,
         pc' = [pc EXCEPT ![p] = where], goal' = goal, KeepsClaim(p, where, goal[p])
  PROVE  Goals'
BY DEF HeldInv, Exclusive, Goals, KeepsClaim

LEMMA GoalsSet ==
  ASSUME HeldInv, NEW p \in Actors, NEW where, NEW next,
         pc' = [pc EXCEPT ![p] = where], goal' = [goal EXCEPT ![p] = next],
         KeepsClaim(p, where, next)
  PROVE  Goals'
BY DEF HeldInv, Exclusive, Goals, KeepsClaim

(* A thread or request whose locals are gone. *)
LEMMA GoalsGone ==
  ASSUME HeldInv, NEW p \in Actors, NEW where, Gone({p}),
         pc' = [pc EXCEPT ![p] = where], where \notin {"persist", "touch"}
  PROVE  Goals'
BY DEF HeldInv, Exclusive, Goals, KeepsClaim, Gone

LEMMA StartsSpent ==
  ASSUME AllStart,
         left' = left \/ \E what \in {"requeues", "faults", "losses", "appends"} :
                             left' = [left EXCEPT ![what] = @ - 1]
  PROVE  AllStart'
BY DEF AllStart

(* A worker that goes on, and may choose where it goes after publishing.   *)
LEMMA WorkerGoesOn ==
  ASSUME HeldInv, NEW w \in Workers, NEW where, where \notin {"free", "handoff"},
         Goto(w, where), claimed' = claimed,
         goal' = goal \/ \E next \in {"release", "reopen", "run", "succeed"} :
                             goal' = [goal EXCEPT ![w] = next]
  PROVE  Held' /\ Goals'
<1>1. w \in Actors /\ w \notin Retries /\ Holds(w, where)
  BY Disjoint DEF Holds, Working1
<1>2. Held'
  BY <1>1, HolderStays DEF Goto
<1>3. CASE goal' = goal
  BY <1>1, <1>2, <1>3, GoalsKept DEF Goto, KeepsClaim, HeldInv, Goals
<1>4. CASE \E next \in {"release", "reopen", "run", "succeed"} : goal' = [goal EXCEPT ![w] = next]
  BY <1>1, <1>2, <1>4, GoalsSet DEF Goto, KeepsClaim
<1> QED
  BY <1>2, <1>3, <1>4

(* Where a worker that ends goes on to. *)
LEMMA ConcludeGoes ==
  ASSUME NEW w, NEW s, Conclude(w, s)
  PROVE  \E next \in {"succeed", "reopen"} :
            Goto(w, "persist") /\ goal' = [goal EXCEPT ![w] = next]
<1>1. \E repairs, t : Prepare(w, t, IF repairs = {} THEN "succeed" ELSE "reopen")
  BY Zenon DEF Conclude
<1> QED
  BY <1>1 DEF Prepare

LEMMA SharedHeld ==
  ASSUME HeldInv, NEW p \in Actors, Persist(p) \/ Unwritten(p) \/ Publish(p)
  PROVE  Held' /\ Goals'
<1>1. KeepsClaim(p, pc[p], goal[p])
  BY DEF HeldInv, Goals
<1>2. CASE Persist(p) \/ Unwritten(p)
  <2>1. Holds(p, "persist") => Holds(p, "touch")
    BY DEF Holds, Working1, Retrying1
  <2>2. KeepsClaim(p, "touch", goal[p])
    BY <1>1, <1>2 DEF Persist, Unwritten, KeepsClaim
  <2> QED
    BY <1>2, <2>1, <2>2, HolderStays, GoalsKept DEF Persist, Unwritten, Goto
<1>3. CASE Publish(p)
  <2>1. Holds(p, "touch") => Holds(p, goal[p])
    BY <1>1, <1>3 DEF Publish, Holds, Working1, Retrying1, KeepsClaim
  <2>2. KeepsClaim(p, goal[p], "release")
    BY <1>1, <1>3, Disjoint DEF Publish, KeepsClaim
  <2> QED
    BY <1>3, <2>1, <2>2, HolderStays, GoalsSet DEF Publish, Goto
<1> QED
  BY <1>2, <1>3

LEMMA WorkerHeld ==
  ASSUME HeldInv, NEW w \in Workers, WorkerStep(w) \/ Wake(w) \/ StartFails(w) \/ Raise(w)
  PROVE  Held' /\ Goals' /\ AllStart'
<1>1. w \in Actors /\ w \notin Retries
  BY Disjoint
<1>2. CASE Schedule(w)
  <2>1. CASE claimed
    <3>1. Goto(w, "free") /\ claimed' = claimed /\ Gone({w}) /\ pc[w] = "handoff"
      BY <1>2, <2>1 DEF Schedule, MayClaim, HeldInv, Exclusive
    <3>2. ~Holds(w, "handoff")
      BY Disjoint DEF Holds, Working1, Retrying1
    <3> QED
      BY <1>1, <1>2, <3>1, <3>2, HolderStays, GoalsGone, StartsSpent DEF Goto, Schedule, HeldInv
  <2>2. CASE ~claimed
    <3>1. Goto(w, "start") /\ goal' = goal /\ left' = left
      BY <1>2, <2>2 DEF Schedule, MayClaim, local
    <3>2. Holds(w, "start") /\ KeepsClaim(w, "start", goal[w])
      BY <1>1 DEF Holds, Working1, KeepsClaim, HeldInv, Goals
    <3> QED
      BY <1>1, <3>1, <3>2, HolderComes, GoalsKept, StartsSpent DEF Goto, HeldInv
  <2> QED
    BY <2>1, <2>2
<1>3. CASE StartFails(w)
  BY <1>3 DEF StartFails, Spend, HeldInv, AllStart
<1>4. CASE Start(w)
  <2>1. \/ \E next \in {"succeed", "reopen"} :
             Goto(w, "persist") /\ goal' = [goal EXCEPT ![w] = next]
        \/ Goto(w, "top") /\ goal' = goal
    BY <1>4, ConcludeGoes DEF Start
  <2> QED
    BY <1>4, <2>1, WorkerGoesOn, StartsSpent DEF Start, HeldInv
<1>5. CASE Top(w)
  <2>1. \/ \E next \in {"succeed", "reopen", "run"} :
             Goto(w, "persist") /\ goal' = [goal EXCEPT ![w] = next]
        \/ Goto(w, "run") /\ goal' = goal
    BY <1>5, ConcludeGoes DEF Top, Prepare
  <2> QED
    BY <1>5, <2>1, WorkerGoesOn, StartsSpent DEF Top, HeldInv
<1>6. CASE StaleHandoff(w) \/ Run(w) \/ Sleep(w) \/ Preflight(w) \/ Audit(w)
  BY <1>6, WorkerGoesOn, StartsSpent DEF StaleHandoff, Run, Sleep, Preflight, Audit, local, HeldInv
<1>7. CASE Report(w)
  BY <1>7, WorkerGoesOn, StartsSpent DEF Report, HeldInv
<1>8. CASE Reported(w)
  BY <1>8, WorkerGoesOn, StartsSpent DEF Reported, HeldInv
<1>9. CASE Collect(w)
  BY <1>9, WorkerGoesOn, StartsSpent DEF Collect, HeldInv
<1>10. CASE Settle(w)
  <2>1. pc' = pc /\ claimed' = claimed /\ goal' = goal
    BY <1>10 DEF Settle
  <2>2. left' = left \/ left' = [left EXCEPT !["requeues"] = @ - 1]
    BY <1>10, Zenon DEF Settle, Spend
  <2> QED
    BY <2>1, <2>2, StartsSpent DEF HeldInv, Held, Goals, Holds, Working1, Retrying1
<1>11. CASE Wave(w)
  <2>1. \/ \E next \in {"succeed", "reopen"} :
             Goto(w, "persist") /\ goal' = [goal EXCEPT ![w] = next]
        \/ Goto(w, "top") /\ goal' = goal
    BY <1>11, ConcludeGoes DEF Wave
  <2> QED
    BY <1>11, <2>1, WorkerGoesOn, StartsSpent DEF Wave, HeldInv
<1>12. CASE Succeed(w)
  <2>1. \/ Goto(w, "persist") /\ goal' = [goal EXCEPT ![w] = "reopen"]
        \/ Goto(w, "release") /\ goal' = goal
    BY <1>12 DEF Succeed, Prepare
  <2> QED
    BY <1>12, <2>1, WorkerGoesOn, StartsSpent DEF Succeed, HeldInv
<1>13. CASE Except(w)
  BY <1>13, WorkerGoesOn, StartsSpent DEF Except, Prepare, HeldInv
<1>14. CASE Raise(w)
  BY <1>14, WorkerGoesOn, StartsSpent DEF Raise, Spend, local, HeldInv
<1>15. CASE Release(w)
  <2>1. claimed' = FALSE /\ left' = left
    BY <1>15 DEF Release
  <2>2. CASE pc[w] = "reopen"
    <3>1. Goto(w, "handoff") /\ goal' = goal
      BY <1>15, <2>2 DEF Release, local
    <3>2. KeepsClaim(w, "handoff", goal[w])
      BY <1>1 DEF KeepsClaim, HeldInv, Goals
    <3> QED
      BY <1>1, <2>1, <3>1, <3>2, GoalsKept, StartsSpent DEF Goto, HeldInv, Held
  <2>3. CASE pc[w] # "reopen"
    <3>1. Goto(w, "free") /\ Gone({w})
      BY <1>15, <2>3 DEF Release
    <3> QED
      BY <1>1, <2>1, <3>1, GoalsGone, StartsSpent DEF Goto, HeldInv, Held
  <2> QED
    BY <2>2, <2>3
<1>16. CASE Persist(w) \/ Publish(w)
  BY <1>1, <1>16, SharedHeld, StartsSpent DEF Persist, Publish, HeldInv
<1>17. CASE Wake(w)
  <2>1. UNCHANGED <<pc, claimed, goal, left>>
    BY <1>17 DEF Wake
  <2> QED
    BY <2>1, StartsSpent DEF HeldInv, Held, Goals, Holds, Working1, Retrying1
<1> QED
  BY <1>2, <1>3, <1>4, <1>5, <1>6, <1>7, <1>8, <1>9, <1>10, <1>11, <1>12, <1>13,
     <1>14, <1>15, <1>16, <1>17 DEF WorkerStep

LEMMA ControlHeld ==
  ASSUME HeldInv, NEW c \in Controls, ControlStep(c)
  PROVE  Held' /\ Goals' /\ AllStart'
<1>1. c \in Actors /\ (\A where : ~Holds(c, where)) /\ \A where, next : KeepsClaim(c, where, next)
  BY Disjoint DEF Holds, Working1, Retrying1, KeepsClaim
<1>2. CASE Control(c)
  <2>1. \/ Goto(c, "done") /\ goal' = goal
        \/ Goto(c, "persist") /\ goal' = [goal EXCEPT ![c] = "reply"]
    BY <1>2 DEF Control, Prepare
  <2>2. Held'
    BY <1>1, <1>2, <2>1, HolderStays DEF Control, Goto
  <2>3. Goals'
    BY <1>1, <2>1, GoalsKept, GoalsSet DEF Goto
  <2> QED
    BY <1>2, <2>2, <2>3, StartsSpent DEF Control, HeldInv
<1>3. CASE Reply(c)
  <2>1. Goto(c, "done") /\ claimed' = claimed /\ Gone({c}) /\ left' = left
    BY <1>3 DEF Reply
  <2>2. Held'
    BY <1>1, <2>1, HolderStays DEF Goto
  <2>3. Goals'
    BY <1>1, <2>1, "done" \notin {"persist", "touch"}, GoalsGone, Zenon DEF Goto
  <2> QED
    BY <2>1, <2>2, <2>3, StartsSpent DEF HeldInv
<1>4. CASE Persist(c) \/ Publish(c)
  BY <1>1, <1>4, SharedHeld, StartsSpent DEF Persist, Publish, HeldInv
<1> QED
  BY <1>2, <1>3, <1>4 DEF ControlStep

LEMMA RetryHeld ==
  ASSUME HeldInv, NEW r \in Retries, RetryStep(r) \/ Abort(r)
  PROVE  Held' /\ Goals' /\ AllStart'
<1>1. r \in Actors /\ r \notin Workers /\ ~Holds(r, "new") /\ ~Holds(r, "claim")
  BY Disjoint DEF Holds, Working1, Retrying1
<1>2. CASE Retry(r)
  <2>1. PICK where \in {"claim", "done"} : Goto(r, where)
    BY <1>2 DEF Retry
  <2>2. pc[r] = "new" /\ goal' = goal /\ claimed' = claimed /\ left' = left
    BY <1>2 DEF Retry
  <2>3. KeepsClaim(r, where, goal[r])
    BY <1>1 DEF KeepsClaim
  <2> QED
    BY <1>1, <2>1, <2>2, <2>3, HolderStays, GoalsKept, StartsSpent DEF Goto, HeldInv
<1>3. CASE Claim(r)
  <2>1. CASE claimed
    <3>1. Goto(r, "done") /\ claimed' = claimed /\ Gone({r}) /\ pc[r] = "claim" /\ left' = left
      BY <1>3, <2>1 DEF Claim, MayClaim, HeldInv, Exclusive
    <3>2. Held'
      BY <1>1, <3>1, HolderStays DEF Goto
    <3>3. Goals'
      BY <1>1, <3>1, "done" \notin {"persist", "touch"}, GoalsGone, Zenon DEF Goto
    <3> QED
      BY <3>1, <3>2, <3>3, StartsSpent DEF HeldInv
  <2>2. CASE ~claimed
    <3>1. Goto(r, "persist") /\ goal' = [goal EXCEPT ![r] = "spawn"] /\ left' = left
      BY <1>3, <2>2 DEF Claim, MayClaim, Prepare
    <3>2. Holds(r, "persist") /\ KeepsClaim(r, "persist", "spawn")
      BY <1>1 DEF Holds, Retrying1, KeepsClaim
    <3> QED
      BY <1>1, <3>1, <3>2, HolderComes, GoalsSet, StartsSpent DEF Goto, HeldInv
  <2> QED
    BY <2>1, <2>2
<1>4. CASE Spawn(r)
  <2>1. PICK w \in Workers : pc' = [pc EXCEPT ![r] = "done", ![w] = "start"]
    BY <1>4 DEF Spawn
  <2>2. w \in Actors /\ w # r
    BY Disjoint
  <2>3. /\ DOMAIN pc' = Actors /\ pc'[w] = "start" /\ pc'[r] = "done"
        /\ \A p \in Actors : p # w /\ p # r => pc'[p] = pc[p]
    BY <1>1, <2>1, <2>2 DEF HeldInv, Exclusive
  <2>4. Held'
    BY <2>2, <2>3 DEF Held, Holds, Working1
  <2>5. goal' = goal /\ left' = left
    BY <1>4 DEF Spawn
  <2>6. Goals'
    BY <2>3, <2>5, Disjoint DEF HeldInv, Goals, KeepsClaim
  <2> QED
    BY <2>4, <2>5, <2>6, StartsSpent DEF HeldInv
<1>5. CASE Abort(r)
  <2>1. Goto(r, "done") /\ Gone({r}) /\ claimed' = FALSE
    BY <1>5 DEF Abort
  <2>2. left' = [left EXCEPT !["faults"] = @ - 1]
    BY <1>5 DEF Abort, Spend
  <2>3. Goals'
    BY <1>1, <2>1, "done" \notin {"persist", "touch"}, GoalsGone, Zenon DEF Goto
  <2> QED
    BY <2>1, <2>2, <2>3, StartsSpent DEF HeldInv, Held
<1>6. CASE Persist(r) \/ Publish(r)
  BY <1>1, <1>6, SharedHeld, StartsSpent DEF Persist, Publish, HeldInv
<1> QED
  BY <1>2, <1>3, <1>4, <1>5, <1>6 DEF RetryStep

LEMMA NextHeld == HeldInv /\ [Next]_vars => HeldInv'
<1> SUFFICES ASSUME HeldInv, [Next]_vars PROVE HeldInv'
  OBVIOUS
<1>1. Exclusive'
  BY NextExclusive DEF HeldInv
<1>2. CASE \E w \in Workers : WorkerStep(w) \/ Wake(w) \/ StartFails(w) \/ Raise(w)
  BY <1>1, <1>2, WorkerHeld DEF HeldInv
<1>3. CASE \E c \in Controls : ControlStep(c)
  BY <1>1, <1>3, ControlHeld DEF HeldInv
<1>4. CASE \E r \in Retries : RetryStep(r) \/ Abort(r)
  BY <1>1, <1>4, RetryHeld DEF HeldInv
<1>5. CASE Poll
  BY <1>1, <1>5, StartsSpent DEF Poll, local, HeldInv, Held, Goals, Holds, Working1, Retrying1
<1>6. CASE Expire
  <2>1. left' = [left EXCEPT !["losses"] = @ - 1] /\ pc' = pc /\ goal' = goal /\ claimed' = claimed
    BY <1>6 DEF Expire, Spend, local
  <2> QED
    BY <1>1, <2>1, StartsSpent DEF HeldInv, Held, Goals, Holds, Working1, Retrying1
<1>7. CASE Restart
  <2>1. claimed' = FALSE /\ left' = [left EXCEPT !["losses"] = @ - 1]
    BY <1>7 DEF Restart, Spend
  <2>2. Goals'
    BY <1>7, Disjoint DEF Restart, Gone, Goals, KeepsClaim
  <2> QED
    BY <1>1, <2>1, <2>2, StartsSpent DEF HeldInv, Held
<1>8. CASE Idle \/ UNCHANGED vars
  <2>1. UNCHANGED <<pc, goal, claimed, left>>
    BY <1>8 DEF Idle, vars, local
  <2> QED
    BY <1>1, <2>1 DEF HeldInv, Held, Goals, AllStart, Holds, Working1, Retrying1
<1>9. CASE \E p \in Actors : Unwritten(p)
  <2>1. PICK p \in Actors : Unwritten(p)
    BY <1>9
  <2>2. left' = [left EXCEPT !["appends"] = @ - 1]
    BY <2>1 DEF Unwritten, Spend
  <2> QED
    BY <1>1, <2>1, <2>2, SharedHeld, StartsSpent DEF HeldInv
<1> QED
  BY <1>2, <1>3, <1>4, <1>5, <1>6, <1>7, <1>8, <1>9 DEF Next

LEMMA InitHeld ==
  ASSUME MaxStartFailures = 0
  PROVE  Init => HeldInv
BY InitExclusive DEF Init, HeldInv, Held, Goals, KeepsClaim, AllStart

LEMMA HeldHasHolder == HeldInv => ClaimHasHolder
BY DEF HeldInv, Held, ClaimHasHolder, Holds, Working1, Retrying1, Working, Retrying

\* If the interpreter can start its threads, a response that refuses further
\* workers always has one working on it, whatever raises, expires or restarts:
\* every exit of complete_response_late_fill and of the retry endpoint
\* releases the claim or hands it on.
THEOREM ClaimsAreHeld == MaxStartFailures = 0 => (Spec => []ClaimHasHolder)
<1> SUFFICES ASSUME MaxStartFailures = 0
             PROVE  Spec => []ClaimHasHolder
  OBVIOUS
<1>1. Init => HeldInv
  BY InitHeld
<1>2. Spec => []HeldInv
  BY <1>1, NextHeld, PTL DEF Spec
<1> QED
  BY <1>2, HeldHasHolder, PTL
-----------------------------------------------------------------------------
(* Types.  What the helpers of the actions do to the variables they set.   *)

LEMMA FirstTyped == First \in Payload
BY DEF First, Owed, Payload

LEMMA GotTyped ==
  ASSUME TypeOK
  PROVE  Got \in Payload /\ (Lookup => rec' \in Payload)
BY DEF TypeOK, Got, Recover, Lookup

LEMMA TouchTyped ==
  ASSUME TypeOK, NEW s \in Payload, Touch(s)
  PROVE  rec' \in Payload \cup {None}
BY DEF TypeOK, Touch

LEMMA ClosedTyped ==
  ASSUME NEW s \in Payload
  PROVE  Close(s) \in Payload /\ CloseIfSettled(s) \in Payload
BY DEF Close, CloseIfSettled, Payload

LEMMA OpenTyped ==
  ASSUME NEW s \in Payload
  PROVE  Open(s) \subseteq Branches /\ Listed(s) \subseteq Branches
BY DEF Open, Over, Listed, Payload

LEMMA GotoTyped ==
  ASSUME TypeOK, NEW p \in Actors, NEW where \in Places, Goto(p, where)
  PROVE  pc' \in [Actors -> Places]
BY DEF TypeOK, Goto

LEMMA PrepareTyped ==
  ASSUME TypeOK, NEW p \in Actors, NEW s \in Payload, NEW next \in Places, Prepare(p, s, next)
  PROVE  /\ pc' \in [Actors -> Places] /\ pay' \in [Actors -> Payload]
         /\ goal' \in [Actors -> Places]
<1>1. "persist" \in Places
  BY DEF Places
<1> QED
  BY <1>1 DEF TypeOK, Goto, Prepare

Locals ==
    /\ seed \in [Actors -> Payload] /\ own \in [Actors -> Payload]
    /\ pay \in [Actors -> Payload] /\ goal \in [Actors -> Places]
    /\ batch \in [Actors -> SUBSET Branches]
    /\ todo \in [Actors -> SUBSET Branches]
    /\ wait \in [Actors -> SUBSET Branches]
    /\ \A w \in Workers : todo[w] \subseteq batch[w]

LEMMA GoneTyped ==
  ASSUME TypeOK, NEW P, Gone(P)
  PROVE  Locals'
<1>1. "release" \in Places
  BY DEF Places
<1>2. \A w \in Workers : w \in Actors
  BY Disjoint
<1> QED
  BY <1>1, <1>2, FirstTyped DEF TypeOK, Gone, Locals

LEMMA LocalTyped ==
  ASSUME TypeOK, UNCHANGED local
  PROVE  Locals'
BY DEF TypeOK, local, Locals

LEMMA SpendTyped ==
  ASSUME TypeOK, NEW what \in {"requeues", "faults", "losses", "starts", "appends"}, Spend(what)
  PROVE  left' \in [{"requeues", "faults", "losses", "starts", "appends"} -> Nat]
BY DEF TypeOK, Spend

(* A worker that ends persists a payload, to succeed or to hand repairs on. *)
LEMMA ConcludeTyped ==
  ASSUME TypeOK, NEW w \in Workers, NEW s \in Payload, Conclude(w, s)
  PROVE  /\ pc' \in [Actors -> Places] /\ pay' \in [Actors -> Payload]
         /\ goal' \in [Actors -> Places] /\ demoted' \subseteq Branches
<1>0. w \in Actors /\ {"succeed", "reopen"} \subseteq Places
  BY Disjoint DEF Places
<1>1. PICK unmet \in SUBSET (s.comp \cap Inspected), repairs \in SUBSET (Repairs \ Listed(s)) :
        /\ demoted' = demoted \cup unmet
        /\ Prepare(w, [Close(s) EXCEPT !.comp = @ \ unmet,
                                       !.pend = IF repairs = {} THEN unmet ELSE repairs],
                   IF repairs = {} THEN "succeed" ELSE "reopen")
  BY DEF Conclude
<1>2. unmet \subseteq Branches /\ repairs \subseteq Branches /\ demoted \subseteq Branches
  BY LateFillAssumption DEF TypeOK
<1>3. [Close(s) EXCEPT !.comp = @ \ unmet,
                       !.pend = IF repairs = {} THEN unmet ELSE repairs] \in Payload
  BY <1>2, ClosedTyped DEF Payload
<1> QED
  BY <1>0, <1>1, <1>2, <1>3, PrepareTyped

LEMMA InitTyped == Init => TypeOK
<1> SUFFICES ASSUME Init PROVE TypeOK
  OBVIOUS
<1>1. pc \in [Actors -> Places]
  BY DEF Init, Places
<1>2. left \in [{"requeues", "faults", "losses", "starts", "appends"} -> Nat]
  BY LateFillAssumption DEF Init
<1>3. \A w \in Workers : w \in Actors
  BY Disjoint
<1>4. Locals
  BY <1>3, FirstTyped DEF Init, Locals, Places
<1> QED
  BY <1>1, <1>2, <1>4, FirstTyped DEF Init, TypeOK, Locals

LEMMA SharedTyped ==
  ASSUME TypeOK, NEW p \in Actors, Persist(p) \/ Unwritten(p) \/ Publish(p)
  PROVE  TypeOK'
<1>0. "touch" \in Places /\ "release" \in Places /\ \A w \in Workers : w \in Actors
  BY Disjoint DEF Places
<1>1. CASE Persist(p)
  <2>1. frame' \in Payload
    <3>1. pay[p] \in Payload /\ frame.seq + 1 \in Nat
      BY DEF TypeOK, Payload
    <3>2. \A n \in Nat : [pay[p] EXCEPT !.seq = n] \in Payload
      BY <3>1 DEF Payload
    <3> QED
      BY <1>1, <3>1, <3>2 DEF Persist
  <2>2. pc' \in [Actors -> Places]
    BY <1>0, <1>1, GotoTyped DEF Persist
  <2>3. pay' \in [Actors -> Payload]
    BY <1>1, <2>1 DEF Persist, TypeOK
  <2> QED
    BY <1>1, <2>1, <2>2, <2>3 DEF Persist, TypeOK, history
<1>2. CASE Publish(p)
  <2>1. pay[p] \in Payload /\ goal[p] \in Places
    BY DEF TypeOK
  <2>2. rec' \in Payload \cup {None}
    BY <1>2, <2>1, TouchTyped DEF Publish
  <2>3. pc' \in [Actors -> Places]
    BY <1>2, <2>1, GotoTyped DEF Publish
  <2>4. own' \in [Actors -> Payload]
    <3>1. [pay[p] EXCEPT !.act = {}] \in Payload
      BY <2>1 DEF Payload
    <3> QED
      BY <1>2, <3>1 DEF Publish, TypeOK
  <2>5. seed' \in [Actors -> Payload] /\ pay' \in [Actors -> Payload]
    BY <1>2, <2>1, FirstTyped DEF Publish, TypeOK
  <2>6. goal' \in [Actors -> Places]
    BY <1>0, <1>2 DEF Publish, TypeOK
  <2> QED
    BY <1>2, <2>2, <2>3, <2>4, <2>5, <2>6 DEF Publish, TypeOK, history
<1>3. CASE Unwritten(p)
  <2>1. PICK parent \in {frame.seq, pay[p].seq} :
           /\ pay' = [pay EXCEPT ![p] = [pay[p] EXCEPT !.seq = parent + 1]]
           /\ unsaved' = unsaved \cup {[pay[p] EXCEPT !.seq = parent + 1]}
    BY <1>3 DEF Unwritten
  <2>2. [pay[p] EXCEPT !.seq = parent + 1] \in Payload
    <3>1. pay[p] \in Payload /\ frame \in Payload
      BY DEF TypeOK
    <3>2. parent + 1 \in Nat
      BY <3>1 DEF Payload
    <3>3. \A n \in Nat : [pay[p] EXCEPT !.seq = n] \in Payload
      BY <3>1 DEF Payload
    <3> QED
      BY <3>2, <3>3
  <2>3. pay' \in [Actors -> Payload] /\ unsaved' \subseteq Payload
    BY <2>1, <2>2 DEF TypeOK
  <2>4. left' \in [{"requeues", "faults", "losses", "starts", "appends"} -> Nat]
    BY <1>3, SpendTyped DEF Unwritten, TypeOK
  <2>5. pc' \in [Actors -> Places]
    BY <1>0, <1>3, GotoTyped DEF Unwritten
  <2> QED
    BY <1>3, <2>3, <2>4, <2>5 DEF Unwritten, TypeOK
<1> QED
  BY <1>1, <1>2, <1>3

LEMMA StartTyped ==
  ASSUME TypeOK, NEW w \in Workers, Start(w)
  PROVE  TypeOK'
<1>0. w \in Actors /\ "top" \in Places
  BY Disjoint DEF Places
<1> DEFINE base == Base(w)
<1>1. base \in Payload
  BY <1>0, GotTyped DEF Base, TypeOK
<1>2. \A want \in Wanted(w) : want \subseteq Branches
  <2>1. seed[w].pend \subseteq Branches
    BY <1>0 DEF TypeOK, Payload
  <2>2. Extracted(base) \subseteq Branches
    BY <1>1, OpenTyped DEF Extracted, Graph, Owed, Payload
  <2> QED
    BY <2>1, <2>2 DEF Wanted
<1> DEFINE mine(p, f) == [base EXCEPT !.pend = p \ f,
                                      !.act = {},
                                      !.comp = (@ \ (base.fail \cup base.canc)) \cup f,
                                      !.again = (@ \cup seed[w].again) \cap p]
<1>3. PICK want \in Wanted(w) :
        \E found \in SUBSET ((want \ (base.comp \cup base.fail \cup base.canc)) \cap Present) :
           /\ own' = [own EXCEPT ![w] = mine(want \ (base.comp \cup base.fail \cup base.canc), found)]
           /\ \/ Conclude(w, mine(want \ (base.comp \cup base.fail \cup base.canc), found))
              \/ Goto(w, "top") /\ UNCHANGED <<pay, goal, demoted>>
  BY DEF Start
<1> DEFINE pending == want \ (base.comp \cup base.fail \cup base.canc)
<1>4. PICK found \in SUBSET (pending \cap Present) :
           /\ own' = [own EXCEPT ![w] = mine(pending, found)]
           /\ \/ Conclude(w, mine(pending, found))
              \/ Goto(w, "top") /\ UNCHANGED <<pay, goal, demoted>>
  BY <1>3
<1>5. pending \subseteq Branches
  BY <1>2
<1>6. mine(pending, found) \in Payload
  <2> HIDE DEF base, pending
  <2> QED
    BY <1>1, <1>5 DEF Payload
<1> HIDE DEF mine
<1>7. own' \in [Actors -> Payload]
  BY <1>4, <1>6 DEF TypeOK
<1>8. /\ pc' \in [Actors -> Places] /\ pay' \in [Actors -> Payload]
      /\ goal' \in [Actors -> Places] /\ demoted' \subseteq Branches
  BY <1>0, <1>4, <1>6, ConcludeTyped, GotoTyped DEF TypeOK
<1> QED
  BY <1>7, <1>8, GotTyped DEF Start, TypeOK

LEMMA TopTyped ==
  ASSUME TypeOK, NEW w \in Workers, Top(w)
  PROVE  TypeOK'
<1>0. w \in Actors /\ "run" \in Places
  BY Disjoint DEF Places
<1> DEFINE gated == own[w].pend \cap Got.canc
           mine == [own[w] EXCEPT !.seq = Got.seq, !.canc = Got.canc, !.pend = @ \ gated]
<1>1. mine \in Payload
  BY <1>0, GotTyped DEF TypeOK, Payload
<1>2. /\ own' = [own EXCEPT ![w] = mine]
      /\ \/ Goto(w, "run") /\ UNCHANGED <<pay, goal, demoted>>
         \/ Conclude(w, mine)
         \/ Prepare(w, mine, "run") /\ UNCHANGED demoted
  BY DEF Top
<1> HIDE DEF mine
<1>3. own' \in [Actors -> Payload]
  BY <1>1, <1>2 DEF TypeOK
<1>4. /\ pc' \in [Actors -> Places] /\ pay' \in [Actors -> Payload]
      /\ goal' \in [Actors -> Places] /\ demoted' \subseteq Branches
  BY <1>0, <1>1, <1>2, ConcludeTyped, PrepareTyped, GotoTyped DEF TypeOK
<1> QED
  BY <1>3, <1>4, GotTyped DEF Top, TypeOK

LEMMA BatchTyped ==
  ASSUME NEW s \in Payload, NEW now \in Batches(s)
  PROVE  now \subseteq s.pend /\ now \subseteq Branches
BY DEF Batches, Ready, Payload

LEMMA RunTyped ==
  ASSUME TypeOK, NEW w \in Workers, Run(w)
  PROVE  TypeOK'
<1>0. w \in Actors /\ "preflight" \in Places /\ own[w] \in Payload
  BY Disjoint DEF Places, TypeOK
<1>1. PICK now \in SUBSET Branches :
         /\ batch' = [batch EXCEPT ![w] = now]
         /\ todo' = [todo EXCEPT ![w] = now]
         /\ Touch([own[w] EXCEPT !.act = now])
  BY <1>0, BatchTyped DEF Run
<1>2. now \subseteq Branches
  BY <1>1
<1>3. [own[w] EXCEPT !.act = now] \in Payload
  BY <1>0, <1>2 DEF Payload
<1>4. rec' \in Payload \cup {None}
  BY <1>1, <1>3, TouchTyped
<1>5. /\ batch' \in [Actors -> SUBSET Branches] /\ todo' \in [Actors -> SUBSET Branches]
      /\ \A v \in Workers : todo'[v] \subseteq batch'[v]
  BY <1>0, <1>1, <1>2, Disjoint DEF TypeOK
<1>6. pc' \in [Actors -> Places]
  BY <1>0, GotoTyped DEF Run
<1> QED
  BY <1>4, <1>5, <1>6 DEF Run, TypeOK, history

LEMMA WaitTyped ==
  ASSUME TypeOK, NEW w \in Workers, StaleHandoff(w) \/ Sleep(w) \/ Wake(w)
  PROVE  TypeOK'
<1>0. w \in Actors /\ {"release", "top"} \subseteq Places
  BY Disjoint DEF Places
<1>1. CASE StaleHandoff(w) \/ Sleep(w)
  <2>1. pc' \in [Actors -> Places] /\ Locals' /\ rec' \in Payload \cup {None}
    BY <1>0, <1>1, GotoTyped, LocalTyped, GotTyped DEF StaleHandoff, Sleep, TypeOK
  <2> QED
    BY <1>1, <2>1 DEF StaleHandoff, Sleep, TypeOK, history, Locals
<1>2. CASE Wake(w)
  <2>1. PICK b \in wait[w] : wait' = [wait EXCEPT ![w] = @ \ {b}]
    BY <1>2 DEF Wake
  <2>2. wait' \in [Actors -> SUBSET Branches]
    BY <1>0, <2>1 DEF TypeOK
  <2> QED
    BY <1>2, <2>2 DEF Wake, TypeOK, history
<1> QED
  BY <1>1, <1>2

LEMMA PreflightTyped ==
  ASSUME TypeOK, NEW w \in Workers, Preflight(w)
  PROVE  TypeOK'
<1>0. w \in Actors /\ "execute" \in Places /\ own[w] \in Payload
  BY Disjoint DEF Places, TypeOK
<1>1. PICK found \in SUBSET (batch[w] \cap Present) :
         /\ own' = [own EXCEPT ![w].comp = @ \cup found, ![w].fail = @ \ found]
         /\ batch' = [batch EXCEPT ![w] = @ \ found]
         /\ todo' = [todo EXCEPT ![w] = @ \ found]
  BY DEF Preflight
<1> DEFINE mine == [own[w] EXCEPT !.comp = @ \cup found, !.fail = @ \ found]
<1>2. found \subseteq Branches
  BY <1>0, <1>1 DEF TypeOK
<1>3. mine \in Payload /\ own' = [own EXCEPT ![w] = mine]
  BY <1>0, <1>1, <1>2 DEF TypeOK, Payload
<1> HIDE DEF mine
<1>4. own' \in [Actors -> Payload]
  BY <1>3 DEF TypeOK
<1>5. /\ batch' \in [Actors -> SUBSET Branches] /\ todo' \in [Actors -> SUBSET Branches]
      /\ \A v \in Workers : todo'[v] \subseteq batch'[v]
  BY <1>0, <1>1, Disjoint DEF TypeOK
<1>6. pc' \in [Actors -> Places] /\ rec' \in Payload
  BY <1>0, GotoTyped, GotTyped DEF Preflight
<1> QED
  BY <1>4, <1>5, <1>6 DEF Preflight, TypeOK, history

LEMMA ReportTyped ==
  ASSUME TypeOK, NEW w \in Workers, Report(w) \/ Reported(w) \/ Collect(w)
  PROVE  TypeOK'
<1>0. w \in Actors /\ {"execute", "report", "settle"} \subseteq Places
  BY Disjoint DEF Places
<1>1. CASE Report(w)
  <2>1. PICK b \in todo[w] :
         /\ todo' = [todo EXCEPT ![w] = @ \ {b}]
         /\ pay' = [pay EXCEPT ![w] = [Got EXCEPT !.pend = @ \ {b}, !.act = @ \ {b}]]
    BY <1>1 DEF Report
  <2>2. [Got EXCEPT !.pend = @ \ {b}, !.act = @ \ {b}] \in Payload
    BY GotTyped DEF Payload
  <2>3. pay' \in [Actors -> Payload]
    BY <2>1, <2>2 DEF TypeOK
  <2>4. todo' \in [Actors -> SUBSET Branches] /\ \A v \in Workers : todo'[v] \subseteq batch[v]
    BY <1>0, <2>1, Disjoint DEF TypeOK
  <2>5. pc' \in [Actors -> Places]
    BY <1>0, <1>1, GotoTyped DEF Report
  <2> QED
    BY <1>1, <2>3, <2>4, <2>5, GotTyped DEF Report, TypeOK, history
<1>2. CASE Reported(w)
  <2>1. rec' \in Payload \cup {None}
    BY <1>0, <1>2, TouchTyped DEF Reported, TypeOK
  <2>2. pay' \in [Actors -> Payload]
    BY <1>2, FirstTyped DEF Reported, TypeOK
  <2>3. pc' \in [Actors -> Places]
    BY <1>0, <1>2, GotoTyped DEF Reported
  <2> QED
    BY <1>2, <2>1, <2>2, <2>3 DEF Reported, TypeOK, history
<1>3. CASE Collect(w)
  <2>1. todo' \in [Actors -> SUBSET Branches] /\ \A v \in Workers : todo'[v] \subseteq batch[v]
    BY <1>0, <1>3, Disjoint DEF Collect, ToSettle, TypeOK
  <2>2. pc' \in [Actors -> Places]
    BY <1>0, <1>3, GotoTyped DEF Collect
  <2>3. stale' \subseteq Branches
    BY <1>3 DEF Collect, TypeOK
  <2> QED
    BY <1>3, <2>1, <2>2, <2>3 DEF Collect, TypeOK
<1> QED
  BY <1>1, <1>2, <1>3

LEMMA SettleTyped ==
  ASSUME TypeOK, NEW w \in Workers, Settle(w)
  PROVE  TypeOK'
<1>0. w \in Actors /\ own[w] \in Payload /\ Got \in Payload
  BY Disjoint, GotTyped DEF TypeOK
<1> DEFINE mine == [own[w] EXCEPT !.canc = Got.canc]
<1>1. mine \in Payload
  BY <1>0 DEF Payload
<1>2. PICK b \in todo[w] :
        /\ todo' = [todo EXCEPT ![w] = @ \ {b}]
        /\ \/ own' = [own EXCEPT ![w] = mine] /\ left' = left
           \/ own' = [own EXCEPT ![w] = [mine EXCEPT !.comp = @ \cup {b}]] /\ left' = left
           \/ own' = [own EXCEPT ![w] = [mine EXCEPT !.fail = @ \cup {b}]] /\ left' = left
           \/ /\ Spend("requeues")
              /\ \E attempts \in {mine.again, mine.again \ {b}} :
                   own' = [own EXCEPT ![w] = [mine EXCEPT !.again = attempts]]
        /\ wait' = wait \/ wait' = [wait EXCEPT ![w] = @ \cup {b}]
  BY DEF Settle
<1> HIDE DEF mine
<1>3. b \in Branches
  BY <1>0 DEF TypeOK
<1>4. /\ [mine EXCEPT !.comp = @ \cup {b}] \in Payload
      /\ [mine EXCEPT !.fail = @ \cup {b}] \in Payload
      /\ \A attempts \in {mine.again, mine.again \ {b}} : [mine EXCEPT !.again = attempts] \in Payload
  BY <1>1, <1>3 DEF Payload
<1>5. \E t \in Payload : own' = [own EXCEPT ![w] = t]
  BY <1>1, <1>2, <1>4
<1>5a. own' \in [Actors -> Payload]
  BY <1>5 DEF TypeOK
<1>6. left' \in [{"requeues", "faults", "losses", "starts", "appends"} -> Nat]
  BY <1>2, SpendTyped DEF TypeOK
<1>7. todo' \in [Actors -> SUBSET Branches] /\ \A v \in Workers : todo'[v] \subseteq batch[v]
  BY <1>0, <1>2, Disjoint DEF TypeOK
<1>8. wait' \in [Actors -> SUBSET Branches]
  BY <1>0, <1>2, <1>3 DEF TypeOK
<1> QED
  BY <1>5a, <1>6, <1>7, <1>8, GotTyped DEF Settle, TypeOK, history

LEMMA WaveTyped ==
  ASSUME TypeOK, NEW w \in Workers, Wave(w)
  PROVE  TypeOK'
<1>0. w \in Actors /\ own[w] \in Payload /\ "top" \in Places
  BY Disjoint DEF TypeOK, Places
<1> DEFINE mine == [own[w] EXCEPT !.pend = Remaining(w)]
<1>1. mine \in Payload
  BY <1>0 DEF Payload, Remaining
<1>2. /\ own' = [own EXCEPT ![w] = mine] /\ batch' = [batch EXCEPT ![w] = {}] /\ todo[w] = {}
      /\ \/ Conclude(w, mine) /\ UNCHANGED rec
         \/ /\ \E next \in Batches(mine) : Touch([mine EXCEPT !.act = next \ wait[w]])
            /\ Goto(w, "top") /\ UNCHANGED <<pay, goal, demoted>>
  BY DEF Wave
<1> HIDE DEF mine
<1>3. own' \in [Actors -> Payload]
  BY <1>1, <1>2 DEF TypeOK
<1>4. /\ pc' \in [Actors -> Places] /\ pay' \in [Actors -> Payload]
      /\ goal' \in [Actors -> Places] /\ demoted' \subseteq Branches
  BY <1>0, <1>1, <1>2, ConcludeTyped, GotoTyped DEF TypeOK
<1>5. \A next \in Batches(mine) : [mine EXCEPT !.act = next \ wait[w]] \in Payload
  BY <1>1, BatchTyped DEF Payload
<1>6. rec' \in Payload \cup {None}
  BY <1>2, <1>5, TouchTyped DEF TypeOK
<1>7. batch' \in [Actors -> SUBSET Branches] /\ \A v \in Workers : todo[v] \subseteq batch'[v]
  BY <1>0, <1>2, Disjoint DEF TypeOK
<1> QED
  BY <1>3, <1>4, <1>6, <1>7 DEF Wave, TypeOK

LEMMA SucceedTyped ==
  ASSUME TypeOK, NEW w \in Workers, Succeed(w) \/ Audit(w) \/ Except(w)
  PROVE  TypeOK'
<1>0. w \in Actors /\ own[w] \in Payload /\ {"release", "reopen", "touch"} \subseteq Places
  BY Disjoint DEF TypeOK, Places
<1>1. CASE Succeed(w)
  <2>1. [own[w] EXCEPT !.pend = Later] \in Payload
    BY <1>0, LateFillAssumption DEF Payload
  <2>2. \/ Prepare(w, [own[w] EXCEPT !.pend = Later], "reopen")
        \/ Goto(w, "release") /\ UNCHANGED <<pay, goal>>
    BY <1>1 DEF Succeed
  <2>3. /\ pc' \in [Actors -> Places] /\ pay' \in [Actors -> Payload]
        /\ goal' \in [Actors -> Places]
    BY <1>0, <2>1, <2>2, PrepareTyped, GotoTyped DEF TypeOK
  <2> QED
    BY <1>1, <2>3, GotTyped DEF Succeed, TypeOK, history
<1>2. CASE Except(w)
  <2>1. Salvage(w) \in Payload
    <3>1. [Got EXCEPT !.fail = @ \cup Got.act] \in Payload
      BY GotTyped DEF Payload
    <3> QED
      BY <3>1, ClosedTyped DEF Salvage
  <2>2. /\ pc' \in [Actors -> Places] /\ pay' \in [Actors -> Payload]
        /\ goal' \in [Actors -> Places]
    BY <1>0, <1>2, <2>1, PrepareTyped DEF Except
  <2> QED
    BY <1>2, <2>2, GotTyped DEF Except, TypeOK, history
<1>3. CASE Audit(w)
  <2>1. frame' \in Payload
    BY <1>0, <1>3 DEF Audit, Payload
  <2>2. /\ pc' \in [Actors -> Places] /\ pay' \in [Actors -> Payload]
        /\ goal' \in [Actors -> Places]
    BY <1>0, <1>3, <2>1, GotoTyped DEF Audit, TypeOK
  <2> QED
    BY <1>3, <2>1, <2>2 DEF Audit, TypeOK, history
<1> QED
  BY <1>1, <1>2, <1>3

LEMMA WorkerTyped ==
  ASSUME TypeOK, NEW w \in Workers, WorkerStep(w) \/ Wake(w) \/ StartFails(w) \/ Raise(w)
  PROVE  TypeOK'
<1>0. w \in Actors /\ {"start", "free", "handoff", "except"} \subseteq Places
  BY Disjoint DEF Places
<1>1. CASE Schedule(w)
  <2>1. pc' \in [Actors -> Places]
    BY <1>0, <1>1, GotoTyped DEF Schedule
  <2>2. Locals'
    BY <1>1, GoneTyped, LocalTyped DEF Schedule
  <2> QED
    BY <1>1, <2>1, <2>2 DEF Schedule, TypeOK, history, Locals
<1>2. CASE StartFails(w)
  <2>1. pc' \in [Actors -> Places]
    BY <1>0, <1>2, GotoTyped DEF StartFails
  <2>2. Locals' /\ left' \in [{"requeues", "faults", "losses", "starts", "appends"} -> Nat]
    BY <1>2, GoneTyped, SpendTyped DEF StartFails
  <2> QED
    BY <1>2, <2>1, <2>2 DEF StartFails, TypeOK, history, Locals
<1>3. CASE Release(w)
  <2>1. pc' \in [Actors -> Places]
    BY <1>0, <1>3, GotoTyped DEF Release
  <2>2. Locals'
    BY <1>3, GoneTyped, LocalTyped DEF Release
  <2> QED
    BY <1>3, <2>1, <2>2 DEF Release, TypeOK, history, Locals
<1>4. CASE Raise(w)
  <2>1. pc' \in [Actors -> Places]
    BY <1>0, <1>4, GotoTyped DEF Raise
  <2>2. Locals' /\ left' \in [{"requeues", "faults", "losses", "starts", "appends"} -> Nat]
    BY <1>4, LocalTyped, SpendTyped DEF Raise
  <2> QED
    BY <1>4, <2>1, <2>2 DEF Raise, TypeOK, history, Locals
<1> QED
  BY <1>0, <1>1, <1>2, <1>3, <1>4, StartTyped, TopTyped, RunTyped, WaitTyped, PreflightTyped,
     ReportTyped, SettleTyped, WaveTyped, SucceedTyped, SharedTyped DEF WorkerStep

LEMMA ControlTyped ==
  ASSUME TypeOK, NEW c \in Controls, ControlStep(c)
  PROVE  TypeOK'
<1>0. c \in Actors /\ c \notin Workers /\ {"done", "reply"} \subseteq Places
  BY Disjoint DEF Places
<1>1. CASE Control(c)
  <2>1. CASE Goto(c, "done") /\ UNCHANGED <<batch, pay, goal>>
    <3>1. pc' \in [Actors -> Places]
      BY <1>0, <2>1, GotoTyped
    <3> QED
      BY <1>1, <2>1, <3>1, GotTyped DEF Control, TypeOK, history
  <2>2. CASE \E stop \in Scopes(Got) :
              /\ batch' = [batch EXCEPT ![c] = stop]
              /\ Prepare(c, CloseIfSettled([Got EXCEPT !.pend = @ \ stop,
                                                       !.act = @ \ stop,
                                                       !.canc = @ \cup stop]), "reply")
    <3>1. PICK stop \in Scopes(Got) :
              /\ batch' = [batch EXCEPT ![c] = stop]
              /\ Prepare(c, CloseIfSettled([Got EXCEPT !.pend = @ \ stop,
                                                       !.act = @ \ stop,
                                                       !.canc = @ \cup stop]), "reply")
      BY <2>2
    <3>2. stop \subseteq Branches
      BY GotTyped DEF Scopes, Open, Payload
    <3>3. [Got EXCEPT !.pend = @ \ stop, !.act = @ \ stop, !.canc = @ \cup stop] \in Payload
      BY <3>2, GotTyped DEF Payload
    <3>4. /\ pc' \in [Actors -> Places] /\ pay' \in [Actors -> Payload]
          /\ goal' \in [Actors -> Places]
      BY <1>0, <3>1, <3>3, ClosedTyped, PrepareTyped
    <3>5. batch' \in [Actors -> SUBSET Branches] /\ \A v \in Workers : todo[v] \subseteq batch'[v]
      BY <1>0, <3>1, <3>2 DEF TypeOK
    <3> QED
      BY <1>1, <3>4, <3>5, GotTyped DEF Control, TypeOK, history
  <2> QED
    BY <1>1, <2>1, <2>2 DEF Control
<1>2. CASE Reply(c)
  <2>1. pc' \in [Actors -> Places] /\ Locals'
    BY <1>0, <1>2, GotoTyped, GoneTyped DEF Reply
  <2>2. stopped' \subseteq Branches
    BY <1>0, <1>2 DEF Reply, TypeOK
  <2> QED
    BY <1>2, <2>1, <2>2 DEF Reply, TypeOK, Locals
<1> QED
  BY <1>0, <1>1, <1>2, SharedTyped DEF ControlStep

LEMMA ProjectedTyped ==
  ASSUME NEW s \in Payload
  PROVE  Projected(s) \in Payload
BY DEF Projected, Payload, Open

LEMMA RetryTyped ==
  ASSUME TypeOK, NEW r \in Retries, RetryStep(r) \/ Abort(r)
  PROVE  TypeOK'
<1>0. r \in Actors /\ {"done", "claim", "spawn", "start"} \subseteq Places
  BY Disjoint DEF Places
<1>1. CASE Retry(r)
  <2> DEFINE s == Projected(Got)
  <2>1. s \in Payload
    BY GotTyped, ProjectedTyped
  <2>2. CASE Goto(r, "done") /\ UNCHANGED pay
    <3>1. pc' \in [Actors -> Places]
      BY <1>0, <2>2, GotoTyped
    <3> QED
      BY <1>1, <2>2, <3>1, GotTyped DEF Retry, TypeOK, history
  <2>3. CASE /\ \E target \in s.fail :
                  \E siblings \in SUBSET (Graph(s) \ (s.comp \cup s.canc)) :
                    pay' = [pay EXCEPT ![r] = [s EXCEPT !.pend = @ \cup ({target} \cup siblings),
                                                        !.act = {target},
                                                        !.fail = @ \ ({target} \cup siblings),
                                                        !.again = @ \cup ({target} \cup siblings)]]
             /\ Goto(r, "claim")
    <3> HIDE DEF s
    <3>1. PICK target \in s.fail, siblings \in SUBSET (Graph(s) \ (s.comp \cup s.canc)) :
                    pay' = [pay EXCEPT ![r] = [s EXCEPT !.pend = @ \cup ({target} \cup siblings),
                                                        !.act = {target},
                                                        !.fail = @ \ ({target} \cup siblings),
                                                        !.again = @ \cup ({target} \cup siblings)]]
      BY <2>3
    <3>2. target \in Branches /\ siblings \subseteq Branches
      BY <2>1, <3>1, OpenTyped DEF Graph, Owed, Payload
    <3>3. [s EXCEPT !.pend = @ \cup ({target} \cup siblings),
                    !.act = {target},
                    !.fail = @ \ ({target} \cup siblings),
                    !.again = @ \cup ({target} \cup siblings)] \in Payload
      BY <2>1, <3>2 DEF Payload
    <3>4. pay' \in [Actors -> Payload]
      BY <3>1, <3>3 DEF TypeOK
    <3>5. pc' \in [Actors -> Places]
      BY <1>0, <2>3, GotoTyped
    <3> QED
      BY <1>1, <3>4, <3>5, GotTyped DEF Retry, TypeOK, history
  <2> QED
    BY <1>1, <2>2, <2>3 DEF Retry
<1>2. CASE Claim(r)
  <2>1. claimed' \in BOOLEAN
    BY <1>2 DEF Claim
  <2>2. CASE Prepare(r, pay[r], "spawn") /\ UNCHANGED <<seed, own, batch, todo, wait>>
    <3>1. /\ pc' \in [Actors -> Places] /\ pay' \in [Actors -> Payload]
          /\ goal' \in [Actors -> Places]
      BY <1>0, <2>2, PrepareTyped DEF TypeOK
    <3> QED
      BY <1>2, <2>1, <2>2, <3>1 DEF Claim, TypeOK, history
  <2>3. CASE Goto(r, "done") /\ Gone({r})
    <3>1. pc' \in [Actors -> Places] /\ Locals'
      BY <1>0, <2>3, GotoTyped, GoneTyped
    <3> QED
      BY <1>2, <2>1, <3>1 DEF Claim, TypeOK, history, Locals
  <2> QED
    BY <1>2, <2>2, <2>3 DEF Claim
<1>3. CASE Spawn(r)
  <2>1. PICK w \in Workers : /\ seed' = [seed EXCEPT ![w] = pay[r]]
                             /\ pc' = [pc EXCEPT ![r] = "done", ![w] = "start"]
    BY <1>3 DEF Spawn
  <2>2. seed' \in [Actors -> Payload] /\ pc' \in [Actors -> Places]
    BY <1>0, <2>1 DEF TypeOK
  <2>3. pay' \in [Actors -> Payload]
    BY <1>3, FirstTyped DEF Spawn, TypeOK
  <2> QED
    BY <1>3, <2>2, <2>3 DEF Spawn, TypeOK, history
<1>4. CASE Abort(r)
  <2>1. /\ pc' \in [Actors -> Places] /\ Locals'
        /\ left' \in [{"requeues", "faults", "losses", "starts", "appends"} -> Nat]
    BY <1>0, <1>4, GotoTyped, GoneTyped, SpendTyped DEF Abort
  <2> QED
    BY <1>4, <2>1 DEF Abort, TypeOK, history, Locals
<1> QED
  BY <1>0, <1>1, <1>2, <1>3, <1>4, SharedTyped DEF RetryStep

LEMMA NextTyped == TypeOK /\ [Next]_vars => TypeOK'
<1> SUFFICES ASSUME TypeOK, [Next]_vars PROVE TypeOK'
  OBVIOUS
<1>1. CASE \E w \in Workers : WorkerStep(w) \/ Wake(w) \/ StartFails(w) \/ Raise(w)
  BY <1>1, WorkerTyped
<1>2. CASE \E c \in Controls : ControlStep(c)
  BY <1>2, ControlTyped
<1>3. CASE \E r \in Retries : RetryStep(r) \/ Abort(r)
  BY <1>3, RetryTyped
<1>4. CASE Poll
  BY <1>4, GotTyped DEF Poll, TypeOK, local, history
<1>5. CASE Expire
  <2>1. left' \in [{"requeues", "faults", "losses", "starts", "appends"} -> Nat]
    BY <1>5, SpendTyped DEF Expire
  <2> QED
    BY <1>5, <2>1 DEF Expire, TypeOK, local, history
<1>6. CASE Restart
  <2>1. Locals' /\ left' \in [{"requeues", "faults", "losses", "starts", "appends"} -> Nat]
    BY <1>6, GoneTyped, SpendTyped DEF Restart
  <2>2. pc' \in [Actors -> Places]
    BY <1>6 DEF Restart, Places
  <2> QED
    BY <1>6, <2>1, <2>2 DEF Restart, TypeOK, history, Locals
<1>7. CASE Idle \/ UNCHANGED vars
  BY <1>7 DEF Idle, vars, TypeOK, local, history
<1>8. CASE \E p \in Actors : Unwritten(p)
  BY <1>8, SharedTyped
<1> QED
  BY <1>1, <1>2, <1>3, <1>4, <1>5, <1>6, <1>7, <1>8 DEF Next

\* Every payload, list and place stays what it is declared to be, and a
\* worker waits for and settles only branches of the batch it started
\* (complete_response_late_fill's active_branches).
THEOREM PayloadsTyped == Spec => []TypeOK
BY InitTyped, NextTyped, PTL DEF Spec

-----------------------------------------------------------------------------
(* What a lookup serves.  A record that is not older than the newest frame *)
(* and neither that frame nor a payload whose append failed was touched    *)
(* without a frame of its own, and the worker that did so has yet to       *)
(* publish another one.                                                    *)

(* Nothing is newer than the newest frame as long as every append succeeds. *)
Within(s) == unsaved = {} => s.seq <= frame.seq

SeqBounded ==
    /\ rec # None => Within(rec)
    /\ \A p \in Actors : Within(pay[p]) /\ Within(own[p]) /\ Within(seed[p])

(* What is about to be published is the frame it was persisted as, older   *)
(* than the newest one, or could not be appended.                          *)
Final(s) == s \in unsaved \/ (s.seq <= frame.seq /\ (s.seq = frame.seq => s = frame))
PublishesFrames == \A p \in Actors : pc[p] = "touch" => Final(pay[p])

(* A payload being published leads on to a further place. *)
GoesElsewhere == \A p \in Actors : goal[p] \notin {"touch", "new"}

(* Places from which a worker reaches a rest only by publishing. *)
Unpublished == {"top", "run", "preflight", "execute", "report", "settle", "except", "persist", "touch"}

Settled == Got = frame \/ Got \in unsaved
ViewOwed == Settled \/ \E w \in Workers : pc[w] \in Unpublished

ViewInv ==
    TypeOK /\ frame.seq >= 1 /\ SeqBounded /\ PublishesFrames /\ GoesElsewhere /\ ViewOwed

LEMMA SeqTyped == TypeOK => /\ frame.seq \in Nat /\ Got.seq \in Nat
                            /\ rec # None => rec.seq \in Nat
                            /\ \A p \in Actors : /\ pay[p].seq \in Nat
                                                 /\ own[p].seq \in Nat
                                                 /\ seed[p].seq \in Nat
BY GotTyped DEF TypeOK, Payload

USE DEF Within, history

LEMMA GotBounded == ViewInv => Within(Got)
BY SeqTyped DEF ViewInv, SeqBounded, Got, Recover

(* Reading the record leaves what a lookup serves. *)
LEMMA Rereads ==
  ASSUME Lookup \/ rec' = rec, frame' = frame
  PROVE  Got' = Got
BY DEF Lookup, Got, Recover

(* A step of one actor that publishes nothing and at most reads. *)
LEMMA ReadsOn ==
  ASSUME ViewInv, TypeOK', NEW p \in Actors, NEW where \in Places \ {"touch"},
         pc' = [pc EXCEPT ![p] = where], frame' = frame, unsaved' = unsaved,
         Lookup \/ rec' = rec,
         p \in Workers /\ pc[p] \in Unpublished => where \in Unpublished,
         \A q \in Actors \ {p} : pay'[q] = pay[q] /\ own'[q] = own[q] /\ seed'[q] = seed[q],
         Within(pay'[p]), Within(own'[p]), Within(seed'[p]),
         \A q \in Actors : goal'[q] = goal[q] \/ goal'[q] \notin {"touch", "new"}
  PROVE  ViewInv'
<1>1. SeqBounded'
  <2>1. rec' # None => Within(rec')
    BY GotBounded DEF ViewInv, SeqBounded, Lookup
  <2>2. ASSUME NEW q \in Actors
        PROVE  Within(pay'[q]) /\ Within(own'[q]) /\ Within(seed'[q])
    BY DEF ViewInv, SeqBounded
  <2> QED
    BY <2>1, <2>2 DEF SeqBounded
<1>2. PublishesFrames'
  BY DEF ViewInv, TypeOK, PublishesFrames, Final
<1>3. ViewOwed'
  BY Rereads, Disjoint DEF ViewInv, TypeOK, ViewOwed, Settled
<1>4. GoesElsewhere'
  BY DEF ViewInv, GoesElsewhere
<1> QED
  BY <1>1, <1>2, <1>3, <1>4 DEF ViewInv

(* A step of a worker that has yet to publish and touches the record. *)
LEMMA TouchesOn ==
  ASSUME ViewInv, TypeOK', NEW w \in Workers, NEW where \in Unpublished \ {"touch"},
         NEW s \in Payload, pc' = [pc EXCEPT ![w] = where], frame' = frame,
         unsaved' = unsaved, Touch(s), Within(s),
         \A q \in Actors \ {w} : pay'[q] = pay[q], Within(pay'[w]),
         \A q \in Actors \ {w} : own'[q] = own[q], Within(own'[w]),
         seed' = seed, \A q \in Actors : goal'[q] = goal[q] \/ goal'[q] \notin {"touch", "new"}
  PROVE  ViewInv'
<1>1. SeqBounded'
  <2>1. rec' # None => Within(rec')
    BY DEF ViewInv, SeqBounded, Touch
  <2>2. ASSUME NEW q \in Actors
        PROVE  Within(pay'[q]) /\ Within(own'[q]) /\ Within(seed'[q])
    BY DEF ViewInv, SeqBounded
  <2> QED
    BY <2>1, <2>2 DEF SeqBounded
<1>2. PublishesFrames'
  BY Disjoint DEF ViewInv, TypeOK, PublishesFrames, Final
<1>3. ViewOwed'
  BY Disjoint DEF ViewInv, TypeOK, ViewOwed
<1>4. GoesElsewhere'
  BY DEF ViewInv, GoesElsewhere
<1> QED
  BY <1>1, <1>2, <1>3, <1>4 DEF ViewInv

LEMMA FirstBounded == ViewInv => Within(First)
BY DEF ViewInv, First

LEMMA InitView == Init => ViewInv
<1> SUFFICES ASSUME Init PROVE ViewInv
  OBVIOUS
<1>1. First.seq = 1
  BY DEF First
<1>2. SeqBounded
  BY <1>1 DEF Init, SeqBounded
<1>3. PublishesFrames
  BY DEF Init, PublishesFrames
<1>4. ViewOwed
  BY DEF Init, ViewOwed, Settled, Got, Recover
<1> QED
  BY <1>1, <1>2, <1>3, <1>4, InitTyped DEF Init, ViewInv, GoesElsewhere

LEMMA SharedView ==
  ASSUME ViewInv, TypeOK', NEW p \in Actors, Persist(p) \/ Unwritten(p) \/ Publish(p)
  PROVE  ViewInv'
<1> USE SeqTyped DEF ViewInv
<1>1. CASE Persist(p)
  <2>1. frame' = [pay[p] EXCEPT !.seq = frame.seq + 1] /\ pay[p] \in Payload
    BY <1>1 DEF Persist, TypeOK
  <2>2. frame'.seq = frame.seq + 1
    BY <2>1 DEF Payload
  <2>3. /\ rec' = rec /\ own' = own /\ seed' = seed /\ pay' = [pay EXCEPT ![p] = frame']
        /\ pc' = [pc EXCEPT ![p] = "touch"] /\ unsaved' = unsaved
    BY <1>1 DEF Persist, Goto
  <2>4. /\ pay'[p] = frame' /\ pc'[p] = "touch"
        /\ \A q \in Actors \ {p} : pay'[q] = pay[q] /\ pc'[q] = pc[q]
    BY <2>3 DEF TypeOK
  <2>5. SeqBounded'
    <3>1. \A q \in Actors : Within(pay[q]) /\ Within(own[q]) /\ Within(seed[q])
      BY DEF SeqBounded
    <3>2. \A q \in Actors : Within(pay[q])'
      BY <2>2, <2>3, <2>4, <3>1
    <3>3. \A q \in Actors : Within(own[q])' /\ Within(seed[q])'
      BY <2>2, <2>3, <3>1
    <3>4. rec' # None => Within(rec)'
      BY <2>2, <2>3 DEF SeqBounded
    <3> QED
      BY <3>2, <3>3, <3>4 DEF SeqBounded
  <2>6. PublishesFrames'
    <3> SUFFICES ASSUME NEW q \in Actors, pc'[q] = "touch"
                 PROVE  Final(pay[q])'
      BY DEF PublishesFrames
    <3>1. CASE q = p
      BY <2>2, <2>4, <3>1 DEF Final
    <3>2. CASE q # p
      <4>1. Final(pay[q]) /\ pay'[q] = pay[q]
        BY <2>4, <3>2 DEF PublishesFrames
      <4> QED
        BY <2>2, <2>3, <4>1 DEF Final
    <3> QED
      BY <3>1, <3>2
  <2>7. ViewOwed'
    <3>1. CASE p \in Workers
      BY <2>4, <3>1 DEF ViewOwed, Unpublished
    <3>2. CASE p \notin Workers
      <4>1. \A w \in Workers : pc'[w] = pc[w]
        BY <2>4, <3>2, Disjoint
      <4>2. Settled => Settled'
        <5>1. Got' = frame' \/ (Got' = rec /\ rec # None /\ frame.seq < rec.seq)
          BY <2>2, <2>3 DEF Got, Recover
        <5>2. CASE Got' = rec /\ rec # None /\ frame.seq < rec.seq
          <6>1. Got = rec /\ Got # frame
            BY <5>2 DEF Got, Recover
          <6> QED
            BY <2>3, <5>2, <6>1 DEF Settled
        <5> QED
          BY <5>1, <5>2 DEF Settled
      <4> QED
        BY <4>1, <4>2 DEF ViewOwed
    <3> QED
      BY <3>1, <3>2
  <2>8. GoesElsewhere'
    BY <1>1 DEF Persist, GoesElsewhere
  <2> QED
    BY <2>2, <2>5, <2>6, <2>7, <2>8
<1>2. CASE Unwritten(p)
  <2>1. /\ frame' = frame /\ rec' = rec /\ own' = own /\ seed' = seed /\ goal' = goal
        /\ pc' = [pc EXCEPT ![p] = "touch"]
    BY <1>2 DEF Unwritten, Goto
  <2>2. PICK lost : pay' = [pay EXCEPT ![p] = lost] /\ unsaved' = unsaved \cup {lost}
    BY <1>2, Zenon DEF Unwritten
  <2>3. pay'[p] = lost /\ \A q \in Actors \ {p} : pay'[q] = pay[q] /\ pc'[q] = pc[q]
    BY <2>1, <2>2 DEF TypeOK
  <2>4. SeqBounded'
    BY <2>2 DEF SeqBounded
  <2>5. PublishesFrames'
    BY <2>1, <2>2, <2>3 DEF PublishesFrames, Final
  <2>6. ViewOwed'
    <3>1. Got' = Got
      BY <2>1, Rereads
    <3>2. \A w \in Workers : pc[w] \in Unpublished => pc'[w] \in Unpublished
      BY <2>1, Disjoint DEF TypeOK, Unpublished
    <3> QED
      BY <2>1, <2>2, <3>1, <3>2 DEF ViewOwed, Settled
  <2> QED
    BY <2>1, <2>4, <2>5, <2>6 DEF GoesElsewhere
<1>3. CASE Publish(p)
  <2>1. /\ frame' = frame /\ Touch(pay[p]) /\ pc' = [pc EXCEPT ![p] = goal[p]] /\ pc[p] = "touch"
        /\ unsaved' = unsaved
    BY <1>3 DEF Publish, Goto
  <2>2. Final(pay[p])
    BY <2>1 DEF PublishesFrames
  <2>3. Settled'
    BY <2>1, <2>2 DEF Got, Recover, Touch, Final, Settled
  <2>4. \A q \in Actors : pay'[q] = pay[q] \/ pay'[q] = First
    BY <1>3 DEF Publish, TypeOK
  <2>5. \A q \in Actors : own'[q] = own[q] \/ own'[q] = [pay[p] EXCEPT !.act = {}]
    BY <1>3 DEF Publish, TypeOK
  <2>6. \A q \in Actors : seed'[q] = seed[q] \/ seed'[q] = pay[p]
    BY <1>3 DEF Publish, TypeOK
  <2>7. [pay[p] EXCEPT !.act = {}].seq = pay[p].seq
    BY DEF TypeOK, Payload
  <2>8. SeqBounded'
    <3>1. \A q \in Actors : Within(pay'[q])
      BY <2>1, <2>4, FirstBounded DEF SeqBounded
    <3>2. \A q \in Actors : Within(own'[q])
      BY <2>1, <2>5, <2>7 DEF SeqBounded
    <3>3. \A q \in Actors : Within(seed'[q])
      BY <2>1, <2>6 DEF SeqBounded
    <3>4. rec' # None => Within(rec')
      BY <2>1 DEF SeqBounded, Touch
    <3> QED
      BY <2>1, <3>1, <3>2, <3>3, <3>4 DEF SeqBounded
  <2>9. PublishesFrames'
    <3> SUFFICES ASSUME NEW q \in Actors, pc'[q] = "touch"
                 PROVE  Final(pay'[q])
      BY <2>1 DEF PublishesFrames, Final
    <3>1. q # p /\ pc[q] = "touch"
      BY <2>1 DEF GoesElsewhere, TypeOK
    <3>2. pay'[q] = pay[q]
      BY <1>3, <3>1 DEF Publish, TypeOK
    <3> QED
      BY <3>1, <3>2 DEF PublishesFrames
  <2>10. GoesElsewhere'
    BY <1>3 DEF Publish, GoesElsewhere, TypeOK
  <2> QED
    BY <2>1, <2>3, <2>8, <2>9, <2>10 DEF ViewOwed
<1> QED
  BY <1>1, <1>2, <1>3

(* Locals that are gone hold the first payload, which no frame is older    *)
(* than.                                                                   *)
LEMMA GoneReads ==
  ASSUME ViewInv, TypeOK', NEW p \in Actors, NEW where \in Places \ {"touch"}, Gone({p}),
         pc' = [pc EXCEPT ![p] = where], frame' = frame, rec' = rec, unsaved' = unsaved,
         p \in Workers /\ pc[p] \in Unpublished => where \in Unpublished
  PROVE  ViewInv'
<1>1. \A q \in Actors \ {p} : pay'[q] = pay[q] /\ own'[q] = own[q] /\ seed'[q] = seed[q]
  BY DEF Gone
<1>2. Within(pay'[p]) /\ Within(own'[p]) /\ Within(seed'[p])
  BY FirstBounded DEF Gone
<1>3. \A q \in Actors : goal'[q] = goal[q] \/ goal'[q] \notin {"touch", "new"}
  BY DEF Gone
<1> QED
  BY <1>1, <1>2, <1>3, ReadsOn

(* A step that leaves the locals alone. *)
LEMMA GotoReads ==
  ASSUME ViewInv, TypeOK', NEW p \in Actors, NEW where \in Places \ {"touch"}, UNCHANGED local,
         pc' = [pc EXCEPT ![p] = where], frame' = frame, unsaved' = unsaved,
         Lookup \/ rec' = rec, p \in Workers /\ pc[p] \in Unpublished => where \in Unpublished
  PROVE  ViewInv'
<1>1. Within(pay'[p]) /\ Within(own'[p]) /\ Within(seed'[p])
  BY DEF ViewInv, SeqBounded, local
<1> QED
  BY <1>1, ReadsOn DEF local

(* A step that prepares a payload, none newer than the newest frame. *)
LEMMA PrepareReads ==
  ASSUME ViewInv, TypeOK', NEW p \in Actors, NEW s \in Payload, Within(s),
         NEW next \in Places \ {"touch", "new"}, Prepare(p, s, next),
         frame' = frame, unsaved' = unsaved, Lookup \/ rec' = rec, own' = own, seed' = seed
  PROVE  ViewInv'
<1>1. "persist" \in Places \ {"touch"} /\ "persist" \in Unpublished
  BY DEF Places, Unpublished
<1>2. Within(pay'[p]) /\ \A q \in Actors \ {p} : pay'[q] = pay[q]
  BY DEF Prepare, ViewInv, TypeOK
<1>3. \A q \in Actors : goal'[q] = goal[q] \/ goal'[q] \notin {"touch", "new"}
  BY DEF Prepare, ViewInv, TypeOK
<1>4. Within(own'[p]) /\ Within(seed'[p])
  BY DEF ViewInv, SeqBounded
<1> QED
  BY <1>1, <1>2, <1>3, <1>4, ReadsOn DEF Prepare, Goto

(* A worker that ends prepares a payload of the sequence it holds. *)
LEMMA ConcludePays ==
  ASSUME ViewInv, NEW w \in Workers, NEW s \in Payload, Conclude(w, s)
  PROVE  /\ pay'[w].seq = s.seq /\ \A q \in Actors \ {w} : pay'[q] = pay[q]
         /\ \A q \in Actors : goal'[q] = goal[q] \/ goal'[q] \notin {"touch", "new"}
         /\ pc' = [pc EXCEPT ![w] = "persist"]
<1>0. w \in Actors /\ DOMAIN pay = Actors /\ DOMAIN goal = Actors
  BY Disjoint DEF ViewInv, TypeOK
<1>1. PICK unmet, pend :
        \E repairs : Prepare(w, [Close(s) EXCEPT !.comp = @ \ unmet, !.pend = pend],
                             IF repairs = {} THEN "succeed" ELSE "reopen")
  BY Zenon DEF Conclude
<1>2. [Close(s) EXCEPT !.comp = @ \ unmet, !.pend = pend].seq = s.seq
  BY DEF Close, Payload
<1> QED
  BY <1>0, <1>1, <1>2 DEF Prepare, Goto

LEMMA ClosedSeq ==
  ASSUME NEW s \in Payload
  PROVE  Close(s).seq = s.seq /\ CloseIfSettled(s).seq = s.seq
BY DEF Close, CloseIfSettled, Payload

(* The worker's reads.                                                     *)
LEMMA StartView ==
  ASSUME ViewInv, TypeOK', NEW w \in Workers, Start(w)
  PROVE  ViewInv'
<1>0. w \in Actors
  BY Disjoint
<1> DEFINE base == Base(w)
<1>1. base \in Payload /\ Within(base)
  BY <1>0, GotTyped, GotBounded DEF Base, ViewInv, TypeOK, SeqBounded
<1>2. PICK mine :
        /\ \E pending, found : mine = [base EXCEPT !.pend = pending \ found,
                                      !.act = {},
                                      !.comp = (@ \ (base.fail \cup base.canc)) \cup found,
                                      !.again = (@ \cup seed[w].again) \cap pending]
        /\ own' = [own EXCEPT ![w] = mine]
        /\ \/ Conclude(w, mine)
           \/ Goto(w, "top") /\ UNCHANGED <<pay, goal>>
  BY DEF Start
<1>3. mine.seq = base.seq
  <2> HIDE DEF base
  <2> QED
    BY <1>1, <1>2 DEF Payload
<1>4. own'[w] = mine /\ mine \in Payload
  BY <1>0, <1>2 DEF ViewInv, TypeOK
<1> HIDE DEF base
<1>5. PICK where \in {"persist", "top"} : pc' = [pc EXCEPT ![w] = where]
  BY <1>2, <1>4, ConcludePays DEF Goto
<1>6. Within(pay'[w])
  BY <1>0, <1>1, <1>2, <1>3, <1>4, ConcludePays DEF ViewInv, SeqBounded
<1>7. Within(own'[w]) /\ Within(seed'[w])
  BY <1>0, <1>1, <1>3, <1>4 DEF Start, ViewInv, SeqBounded
<1>8. \A q \in Actors \ {w} : pay'[q] = pay[q] /\ own'[q] = own[q] /\ seed'[q] = seed[q]
  <2>1. seed' = seed
    BY DEF Start
  <2> QED
    BY <1>2, <1>4, <2>1, ConcludePays DEF ViewInv, TypeOK
<1>9. \A q \in Actors : goal'[q] = goal[q] \/ goal'[q] \notin {"touch", "new"}
  BY <1>2, <1>4, ConcludePays
<1> QED
  BY <1>0, <1>5, <1>6, <1>7, <1>8, <1>9, ReadsOn DEF Start, Unpublished, Places

LEMMA TopView ==
  ASSUME ViewInv, TypeOK', NEW w \in Workers, Top(w)
  PROVE  ViewInv'
<1>0. w \in Actors
  BY Disjoint
<1>1. PICK mine :
        /\ \E pend : mine = [own[w] EXCEPT !.seq = Got.seq, !.canc = Got.canc, !.pend = pend]
        /\ own' = [own EXCEPT ![w] = mine]
        /\ \/ Goto(w, "run") /\ UNCHANGED <<pay, goal>>
           \/ Conclude(w, mine)
           \/ Prepare(w, mine, "run")
  BY DEF Top
<1>2. mine.seq = Got.seq
  BY <1>0, <1>1 DEF ViewInv, TypeOK, Payload
<1>3. own'[w] = mine /\ mine \in Payload
  BY <1>0, <1>1 DEF ViewInv, TypeOK
<1>4. PICK where \in {"persist", "run"} : pc' = [pc EXCEPT ![w] = where]
  BY <1>1, <1>3, ConcludePays DEF Prepare, Goto
<1>5. Within(pay'[w])
  BY <1>0, <1>1, <1>2, <1>3, GotBounded, ConcludePays DEF Prepare, ViewInv, TypeOK, SeqBounded
<1>6. Within(own'[w]) /\ Within(seed'[w])
  BY <1>0, <1>2, <1>3, GotBounded DEF Top, ViewInv, SeqBounded
<1>7. \A q \in Actors \ {w} : pay'[q] = pay[q] /\ own'[q] = own[q] /\ seed'[q] = seed[q]
  <2>1. seed' = seed
    BY DEF Top
  <2> QED
    BY <1>1, <1>3, <2>1, ConcludePays DEF Prepare, ViewInv, TypeOK
<1>8. \A q \in Actors : goal'[q] = goal[q] \/ goal'[q] \notin {"touch", "new"}
  BY <1>1, <1>3, ConcludePays DEF Prepare, ViewInv, TypeOK
<1> QED
  BY <1>0, <1>4, <1>5, <1>6, <1>7, <1>8, ReadsOn DEF Top, Unpublished, Places

LEMMA RunView ==
  ASSUME ViewInv, TypeOK', NEW w \in Workers, Run(w) \/ Reported(w)
  PROVE  ViewInv'
<1>0. /\ w \in Actors /\ {"preflight", "execute"} \subseteq Unpublished \ {"touch"}
      /\ own[w] \in Payload /\ pay[w] \in Payload
  BY Disjoint DEF Unpublished, ViewInv, TypeOK
<1>1. Within(own[w]) /\ Within(pay[w])
  BY <1>0 DEF ViewInv, SeqBounded
<1>2. CASE Run(w)
  <2>1. PICK now \in SUBSET Branches : Touch([own[w] EXCEPT !.act = now])
    BY <1>0, <1>2, BatchTyped DEF Run
  <2>2. [own[w] EXCEPT !.act = now].seq = own[w].seq
    BY <1>0 DEF Payload
  <2>3. [own[w] EXCEPT !.act = now] \in Payload
    BY <1>0, <2>1 DEF Payload
  <2> QED
    BY <1>0, <1>1, <1>2, <2>1, <2>2, <2>3, TouchesOn DEF Run, Goto
<1>3. CASE Reported(w)
  <2>1. \A q \in Actors \ {w} : pay'[q] = pay[q]
    BY <1>3 DEF Reported, ViewInv, TypeOK
  <2>2. Within(pay'[w])
    BY <1>0, <1>3, FirstBounded DEF Reported, ViewInv, TypeOK
  <2> QED
    BY <1>0, <1>1, <1>3, <2>1, <2>2, TouchesOn DEF Reported, Goto
<1> QED
  BY <1>2, <1>3

LEMMA PreflightView ==
  ASSUME ViewInv, TypeOK', NEW w \in Workers, Preflight(w)
  PROVE  ViewInv'
<1>0. w \in Actors /\ "execute" \in Unpublished \cap (Places \ {"touch"})
  BY Disjoint DEF Unpublished, Places
<1>1. Within(own[w]) /\ Within(pay[w]) /\ Within(seed[w])
  BY <1>0 DEF ViewInv, SeqBounded
<1>2. PICK found : own' = [own EXCEPT ![w].comp = @ \cup found, ![w].fail = @ \ found]
  BY DEF Preflight
<1>3. own'[w].seq = own[w].seq /\ \A q \in Actors \ {w} : own'[q] = own[q]
  BY <1>0, <1>2 DEF ViewInv, TypeOK, Payload
<1> QED
  BY <1>0, <1>1, <1>3, ReadsOn DEF Preflight, Goto

LEMMA ReportView ==
  ASSUME ViewInv, TypeOK', NEW w \in Workers, Report(w) \/ Collect(w) \/ Settle(w)
  PROVE  ViewInv'
<1>0. w \in Actors /\ {"report", "settle"} \subseteq Unpublished \cap (Places \ {"touch"})
  BY Disjoint DEF Unpublished, Places
<1>1. Within(own[w]) /\ Within(pay[w]) /\ Within(seed[w])
  BY <1>0 DEF ViewInv, SeqBounded
<1>2. CASE Report(w)
  <2>1. PICK b : pay' = [pay EXCEPT ![w] = [Got EXCEPT !.pend = @ \ {b}, !.act = @ \ {b}]]
    BY <1>2 DEF Report
  <2>2. [Got EXCEPT !.pend = @ \ {b}, !.act = @ \ {b}].seq = Got.seq
    BY GotTyped DEF ViewInv, Payload
  <2>3. Within(pay'[w]) /\ \A q \in Actors \ {w} : pay'[q] = pay[q]
    BY <1>0, <2>1, <2>2, GotBounded DEF ViewInv, TypeOK
  <2> QED
    BY <1>0, <1>1, <1>2, <2>3, ReadsOn DEF Report, Goto
<1>3. CASE Collect(w)
  BY <1>0, <1>1, <1>3, ReadsOn DEF Collect, Goto
<1>4. CASE Settle(w)
  <2>1. PICK mine : own' = [own EXCEPT ![w] = mine] /\ mine.seq = own[w].seq
    <3> DEFINE m == [own[w] EXCEPT !.canc = Got.canc]
    <3>1. m \in Payload /\ m.seq = own[w].seq
      BY <1>0, GotTyped DEF ViewInv, TypeOK, Payload
    <3>2. \E b : \/ own' = [own EXCEPT ![w] = m]
                 \/ own' = [own EXCEPT ![w] = [m EXCEPT !.comp = @ \cup {b}]]
                 \/ own' = [own EXCEPT ![w] = [m EXCEPT !.fail = @ \cup {b}]]
                 \/ \E attempts : own' = [own EXCEPT ![w] = [m EXCEPT !.again = attempts]]
      BY <1>4 DEF Settle
    <3> HIDE DEF m
    <3> QED
      BY <3>1, <3>2 DEF Payload
  <2>2. Within(own'[w]) /\ \A q \in Actors \ {w} : own'[q] = own[q]
    BY <1>0, <1>1, <2>1 DEF ViewInv, TypeOK
  <2>3. pc' = [pc EXCEPT ![w] = "settle"]
    BY <1>4 DEF Settle, ViewInv, TypeOK
  <2> QED
    BY <1>0, <1>1, <1>4, <2>2, <2>3, ReadsOn DEF Settle
<1> QED
  BY <1>2, <1>3, <1>4

LEMMA WaveView ==
  ASSUME ViewInv, TypeOK', NEW w \in Workers, Wave(w)
  PROVE  ViewInv'
<1>0. w \in Actors /\ own[w] \in Payload
  BY Disjoint DEF ViewInv, TypeOK
<1> DEFINE mine == [own[w] EXCEPT !.pend = Remaining(w)]
<1>1. mine \in Payload /\ mine.seq = own[w].seq
  BY <1>0 DEF Payload, Remaining
<1>2. /\ own' = [own EXCEPT ![w] = mine]
      /\ \/ Conclude(w, mine) /\ rec' = rec
         \/ /\ \E next \in Batches(mine) : Touch([mine EXCEPT !.act = next \ wait[w]])
            /\ Goto(w, "top") /\ UNCHANGED <<pay, goal>>
  BY DEF Wave
<1> HIDE DEF mine
<1>3. Within(own'[w]) /\ \A q \in Actors \ {w} : own'[q] = own[q]
  BY <1>0, <1>1, <1>2 DEF ViewInv, TypeOK, SeqBounded
<1>4. Within(pay[w]) /\ Within(seed[w]) /\ Within(own[w])
  BY <1>0 DEF ViewInv, SeqBounded
<1>5. CASE Conclude(w, mine) /\ rec' = rec
  <2>1. /\ pay'[w].seq = mine.seq /\ \A q \in Actors \ {w} : pay'[q] = pay[q]
        /\ \A q \in Actors : goal'[q] = goal[q] \/ goal'[q] \notin {"touch", "new"}
        /\ pc' = [pc EXCEPT ![w] = "persist"]
    BY <1>1, <1>5, ConcludePays
  <2>2. "persist" \in Places \ {"touch"} /\ "persist" \in Unpublished
    BY DEF Places, Unpublished
  <2>3. seed' = seed /\ frame' = frame /\ unsaved' = unsaved
    BY DEF Wave
  <2> QED
    BY <1>0, <1>1, <1>3, <1>4, <1>5, <2>1, <2>2, <2>3, ReadsOn
<1>6. CASE /\ \E next \in Batches(mine) : Touch([mine EXCEPT !.act = next \ wait[w]])
           /\ Goto(w, "top") /\ UNCHANGED <<pay, goal>>
  <2>1. PICK next \in Batches(mine) : Touch([mine EXCEPT !.act = next \ wait[w]])
    BY <1>6
  <2>2. /\ [mine EXCEPT !.act = next \ wait[w]] \in Payload
        /\ [mine EXCEPT !.act = next \ wait[w]].seq = mine.seq
    BY <1>1, <2>1, BatchTyped DEF Payload
  <2>3. "top" \in Unpublished \ {"touch"}
    BY DEF Unpublished
  <2> QED
    BY <1>0, <1>1, <1>3, <1>4, <1>6, <2>1, <2>2, <2>3, TouchesOn DEF Wave, Goto
<1> QED
  BY <1>2, <1>5, <1>6

(* An audit frame: like persisting, the frame is what will be published.   *)
LEMMA AuditView ==
  ASSUME ViewInv, TypeOK', NEW w \in Workers, Audit(w)
  PROVE  ViewInv'
<1> USE SeqTyped DEF ViewInv
<1>0. w \in Actors /\ own[w] \in Payload
  BY Disjoint DEF TypeOK
<1>1. frame' = [own[w] EXCEPT !.seq = @ + 1] /\ own[w].seq = frame.seq
  BY DEF Audit
<1>2. frame'.seq = frame.seq + 1
  BY <1>0, <1>1 DEF Payload
<1>3. /\ rec' = rec /\ own' = own /\ seed' = seed /\ pay' = [pay EXCEPT ![w] = frame']
      /\ pc' = [pc EXCEPT ![w] = "touch"] /\ unsaved' = unsaved
      /\ goal' = [goal EXCEPT ![w] = "release"]
  BY DEF Audit, Goto
<1>4. /\ pay'[w] = frame' /\ pc'[w] = "touch"
      /\ \A q \in Actors \ {w} : pay'[q] = pay[q] /\ pc'[q] = pc[q]
  BY <1>0, <1>3 DEF TypeOK
<1>5. SeqBounded'
  <2>1. \A q \in Actors : Within(pay[q]) /\ Within(own[q]) /\ Within(seed[q])
    BY DEF SeqBounded
  <2>2. \A q \in Actors : Within(pay[q])'
    BY <1>2, <1>3, <1>4, <2>1
  <2>3. \A q \in Actors : Within(own[q])' /\ Within(seed[q])'
    BY <1>2, <1>3, <2>1
  <2>4. rec' # None => Within(rec)'
    BY <1>2, <1>3 DEF SeqBounded
  <2> QED
    BY <2>2, <2>3, <2>4 DEF SeqBounded
<1>6. PublishesFrames'
  <2> SUFFICES ASSUME NEW q \in Actors, pc'[q] = "touch"
               PROVE  Final(pay[q])'
    BY DEF PublishesFrames
  <2>1. CASE q = w
    BY <1>2, <1>4, <2>1 DEF Final
  <2>2. CASE q # w
    <3>1. Final(pay[q]) /\ pay'[q] = pay[q]
      BY <1>4, <2>2 DEF PublishesFrames
    <3> QED
      BY <1>2, <1>3, <3>1 DEF Final
  <2> QED
    BY <2>1, <2>2
<1>7. ViewOwed'
  BY <1>4 DEF ViewOwed, Unpublished
<1>8. GoesElsewhere'
  BY <1>0, <1>3 DEF GoesElsewhere, TypeOK
<1> QED
  BY <1>2, <1>5, <1>6, <1>7, <1>8

LEMMA SucceedView ==
  ASSUME ViewInv, TypeOK', NEW w \in Workers, Succeed(w) \/ Except(w)
  PROVE  ViewInv'
<1>0. w \in Actors /\ own[w] \in Payload /\ {"reopen", "release"} \subseteq Places \ {"touch", "new"}
  BY Disjoint DEF ViewInv, TypeOK, Places
<1>1. Within(own[w])
  BY <1>0 DEF ViewInv, SeqBounded
<1>2. CASE Succeed(w)
  <2>1. CASE Goto(w, "release") /\ UNCHANGED <<pay, goal>>
    BY <1>0, <1>2, <2>1, GotoReads DEF Succeed, Goto, local, Unpublished
  <2>2. CASE Prepare(w, [own[w] EXCEPT !.pend = Later], "reopen")
    <3>1. [own[w] EXCEPT !.pend = Later] \in Payload
      BY <1>0, LateFillAssumption DEF Payload
    <3>2. [own[w] EXCEPT !.pend = Later].seq = own[w].seq
      BY <1>0 DEF Payload
    <3> QED
      BY <1>0, <1>1, <1>2, <2>2, <3>1, <3>2, PrepareReads DEF Succeed
  <2> QED
    BY <1>2, <2>1, <2>2 DEF Succeed
<1>3. CASE Except(w)
  <2> DEFINE s == [Got EXCEPT !.fail = @ \cup Got.act]
  <2>1. s \in Payload /\ s.seq = Got.seq
    BY GotTyped DEF ViewInv, Payload
  <2>2. Prepare(w, Close(s), "release")
    BY <1>3 DEF Except, Salvage
  <2> HIDE DEF s
  <2>3. Close(s) \in Payload /\ Within(Close(s))
    BY <2>1, GotBounded, ClosedSeq, ClosedTyped
  <2> QED
    BY <1>0, <1>3, <2>2, <2>3, PrepareReads DEF Except
<1> QED
  BY <1>2, <1>3

LEMMA WorkerView ==
  ASSUME ViewInv, TypeOK', NEW w \in Workers, WorkerStep(w) \/ Wake(w) \/ StartFails(w) \/ Raise(w)
  PROVE  ViewInv'
<1>0. /\ w \in Actors
      /\ {"start", "free", "handoff", "except", "release", "top"} \subseteq Places \ {"touch"}
  BY Disjoint DEF Places
<1>1. CASE Schedule(w)
  <2>1. pc[w] \notin Unpublished /\ frame' = frame /\ rec' = rec /\ unsaved' = unsaved
    BY <1>1 DEF Schedule, Unpublished
  <2>2. CASE Gone({w}) /\ Goto(w, "free")
    BY <1>0, <2>1, <2>2, GoneReads DEF Goto
  <2>3. CASE UNCHANGED local /\ Goto(w, "start")
    BY <1>0, <2>1, <2>3, GotoReads DEF Goto
  <2> QED
    BY <1>1, <2>2, <2>3 DEF Schedule
<1>2. CASE StartFails(w)
  BY <1>0, <1>2, GoneReads DEF StartFails, Goto, Unpublished
<1>3. CASE Release(w)
  <2>1. pc[w] \notin Unpublished /\ frame' = frame /\ rec' = rec /\ unsaved' = unsaved
    BY <1>3 DEF Release, Unpublished
  <2>2. CASE Gone({w}) /\ Goto(w, "free")
    BY <1>0, <2>1, <2>2, GoneReads DEF Goto
  <2>3. CASE UNCHANGED local /\ Goto(w, "handoff")
    BY <1>0, <2>1, <2>3, GotoReads DEF Goto
  <2> QED
    BY <1>3, <2>2, <2>3 DEF Release
<1>4. CASE Raise(w)
  BY <1>0, <1>4, GotoReads DEF Raise, Goto, Unpublished
<1>5. CASE StaleHandoff(w) \/ Sleep(w)
  BY <1>0, <1>5, GotoReads DEF StaleHandoff, Sleep, Goto, Unpublished
<1>6. CASE Wake(w)
  <2>1. UNCHANGED <<frame, rec, pc, pay, own, seed, goal, unsaved>>
    BY <1>6 DEF Wake
  <2>2. Got' = Got
    BY <2>1, Rereads
  <2> QED
    BY <2>1, <2>2 DEF ViewInv, SeqBounded, PublishesFrames, Final, GoesElsewhere, ViewOwed, Settled
<1> QED
  BY <1>0, <1>1, <1>2, <1>3, <1>4, <1>5, <1>6, StartView, TopView, RunView, PreflightView,
     ReportView, WaveView, AuditView, SucceedView, SharedView DEF WorkerStep

LEMMA ControlView ==
  ASSUME ViewInv, TypeOK', NEW c \in Controls, ControlStep(c)
  PROVE  ViewInv'
<1>0. c \in Actors /\ c \notin Workers /\ {"done", "reply", "persist"} \subseteq Places \ {"touch", "new"}
  BY Disjoint DEF Places
<1>1. CASE Control(c)
  <2>1. CASE Goto(c, "done") /\ UNCHANGED <<batch, pay, goal>>
    BY <1>0, <1>1, <2>1, GotoReads DEF Control, Goto, local
  <2>2. CASE \E stop \in Scopes(Got) :
              Prepare(c, CloseIfSettled([Got EXCEPT !.pend = @ \ stop,
                                                    !.act = @ \ stop,
                                                    !.canc = @ \cup stop]), "reply")
    <3>1. PICK stop \in Scopes(Got) :
            Prepare(c, CloseIfSettled([Got EXCEPT !.pend = @ \ stop,
                                                  !.act = @ \ stop,
                                                  !.canc = @ \cup stop]), "reply")
      BY <2>2
    <3>2. stop \subseteq Branches
      BY GotTyped DEF ViewInv, Scopes, Open, Payload
    <3> DEFINE s == [Got EXCEPT !.pend = @ \ stop, !.act = @ \ stop, !.canc = @ \cup stop]
    <3>3. s \in Payload /\ s.seq = Got.seq
      BY <3>2, GotTyped DEF ViewInv, Payload
    <3>4. Prepare(c, CloseIfSettled(s), "reply")
      BY <3>1
    <3> HIDE DEF s
    <3>5. CloseIfSettled(s) \in Payload /\ Within(CloseIfSettled(s))
      BY <3>3, GotBounded, ClosedSeq, ClosedTyped
    <3> QED
      BY <1>0, <1>1, <3>4, <3>5, PrepareReads DEF Control
  <2> QED
    BY <1>1, <2>1, <2>2 DEF Control
<1>2. CASE Reply(c)
  BY <1>0, <1>2, GoneReads DEF Reply, Goto
<1> QED
  BY <1>0, <1>1, <1>2, SharedView DEF ControlStep

LEMMA RetryView ==
  ASSUME ViewInv, TypeOK', NEW r \in Retries, RetryStep(r) \/ Abort(r)
  PROVE  ViewInv'
<1>0. /\ r \in Actors /\ r \notin Workers
      /\ {"done", "claim", "persist"} \subseteq Places \ {"touch"}
  BY Disjoint DEF Places
<1>1. Within(own[r]) /\ Within(pay[r]) /\ Within(seed[r])
  BY <1>0 DEF ViewInv, SeqBounded
<1>2. CASE Retry(r)
  <2> DEFINE s == Projected(Got)
  <2>1. s \in Payload /\ s.seq = Got.seq
    BY GotTyped, ProjectedTyped DEF ViewInv, Projected, Payload
  <2>2. CASE Goto(r, "done") /\ UNCHANGED pay
    BY <1>0, <1>2, <2>2, GotoReads DEF Retry, Goto, local
  <2>3. CASE /\ \E requeued, target :
                  pay' = [pay EXCEPT ![r] = [s EXCEPT !.pend = @ \cup requeued,
                                                      !.act = {target},
                                                      !.fail = @ \ requeued,
                                                      !.again = @ \cup requeued]]
             /\ Goto(r, "claim")
    <3> HIDE DEF s
    <3>1. PICK requeued, target :
                  pay' = [pay EXCEPT ![r] = [s EXCEPT !.pend = @ \cup requeued,
                                                      !.act = {target},
                                                      !.fail = @ \ requeued,
                                                      !.again = @ \cup requeued]]
      BY <2>3
    <3>2. [s EXCEPT !.pend = @ \cup requeued, !.act = {target}, !.fail = @ \ requeued,
                    !.again = @ \cup requeued].seq = Got.seq
      BY <2>1 DEF Payload
    <3>3. Within(pay'[r]) /\ \A q \in Actors \ {r} : pay'[q] = pay[q]
      BY <1>0, <3>1, <3>2, GotBounded DEF ViewInv, TypeOK
    <3> QED
      BY <1>0, <1>1, <1>2, <2>3, <3>3, ReadsOn DEF Retry, Goto
  <2> QED
    BY <1>2, <2>2, <2>3 DEF Retry
<1>3. CASE Claim(r)
  <2>1. CASE Prepare(r, pay[r], "spawn") /\ UNCHANGED <<seed, own, batch, todo, wait>>
    <3>1. \A q \in Actors : pay'[q] = pay[q]
      BY <2>1 DEF Prepare, ViewInv, TypeOK
    <3>2. \A q \in Actors : goal'[q] = goal[q] \/ goal'[q] \notin {"touch", "new"}
      BY <2>1 DEF Prepare, ViewInv, TypeOK
    <3> QED
      BY <1>0, <1>1, <1>3, <2>1, <3>1, <3>2, ReadsOn DEF Claim, Prepare, Goto
  <2>2. CASE Goto(r, "done") /\ Gone({r})
    BY <1>0, <1>3, <2>2, GoneReads DEF Claim, Goto
  <2> QED
    BY <1>3, <2>1, <2>2 DEF Claim
<1>4. CASE Spawn(r)
  <2>1. PICK w \in Workers : /\ pc[w] = "free" /\ seed' = [seed EXCEPT ![w] = pay[r]]
                             /\ pc' = [pc EXCEPT ![r] = "done", ![w] = "start"]
    BY <1>4 DEF Spawn
  <2>0. frame' = frame /\ rec' = rec /\ own' = own /\ goal' = goal /\ unsaved' = unsaved
    BY <1>4 DEF Spawn
  <2>2. pay' = [pay EXCEPT ![r] = First]
    BY <1>4 DEF Spawn
  <2>9. \A q \in Actors : q # r => pay'[q] = pay[q]
    BY <2>2 DEF ViewInv, TypeOK
  <2>10. pay'[r] = First
    BY <1>0, <2>2 DEF ViewInv, TypeOK
  <2>3. \A q \in Actors : seed'[q] = seed[q] \/ seed'[q] = pay[r]
    BY <2>1 DEF ViewInv, TypeOK
  <2>4. SeqBounded'
    <3>1. \A q \in Actors : Within(pay'[q])
      BY <2>0, <2>9, <2>10, FirstBounded DEF ViewInv, SeqBounded
    <3>2. \A q \in Actors : Within(seed'[q])
      BY <1>0, <2>3 DEF ViewInv, SeqBounded
    <3> QED
      BY <2>0, <2>9, <2>10, <3>1, <3>2 DEF ViewInv, SeqBounded
  <2>5. \A q \in Actors : q # r => pc'[q] = pc[q] \/ pc[q] = "free"
    <3>1. \A q \in Actors : q # r /\ q # w => pc'[q] = pc[q]
      BY <2>1 DEF ViewInv, TypeOK
    <3> QED
      BY <2>1, <3>1
  <2>6. PublishesFrames'
    <3> SUFFICES ASSUME NEW q \in Actors, pc'[q] = "touch"
                 PROVE  Final(pay[q])'
      BY DEF PublishesFrames
    <3>1. q # r /\ pc[q] = "touch"
      BY <2>1 DEF ViewInv, TypeOK
    <3> QED
      BY <2>0, <2>9, <2>10, <3>1 DEF ViewInv, PublishesFrames, Final
  <2>7. ViewOwed'
    <3>1. \A v \in Workers : pc[v] \in Unpublished => pc'[v] \in Unpublished
      BY <1>0, <2>5, Disjoint DEF Unpublished
    <3> QED
      BY <2>0, <3>1, Rereads DEF ViewInv, ViewOwed, Settled
  <2>8. GoesElsewhere'
    BY <2>0, <2>9, <2>10 DEF ViewInv, GoesElsewhere
  <2> QED
    BY <2>0, <2>9, <2>10, <2>4, <2>6, <2>7, <2>8 DEF ViewInv
<1>5. CASE Abort(r)
  BY <1>0, <1>5, GoneReads DEF Abort, Goto
<1> QED
  BY <1>0, <1>2, <1>3, <1>4, <1>5, SharedView DEF RetryStep

LEMMA NextView == ViewInv /\ [Next]_vars => ViewInv'
<1> SUFFICES ASSUME ViewInv, [Next]_vars PROVE ViewInv'
  OBVIOUS
<1>0. TypeOK'
  BY NextTyped DEF ViewInv
<1>1. CASE \E w \in Workers : WorkerStep(w) \/ Wake(w) \/ StartFails(w) \/ Raise(w)
  BY <1>0, <1>1, WorkerView
<1>2. CASE \E c \in Controls : ControlStep(c)
  BY <1>0, <1>2, ControlView
<1>3. CASE \E r \in Retries : RetryStep(r) \/ Abort(r)
  BY <1>0, <1>3, RetryView
<1>4. CASE Poll
  <2>1. rec' = frame /\ frame' = frame /\ pc' = pc /\ UNCHANGED local /\ unsaved' = unsaved
    BY <1>4 DEF Poll
  <2>2. SeqBounded'
    BY <2>1, SeqTyped DEF ViewInv, SeqBounded, local
  <2>3. PublishesFrames' /\ GoesElsewhere'
    BY <2>1 DEF ViewInv, PublishesFrames, Final, GoesElsewhere, local
  <2>4. ViewOwed'
    BY <2>1 DEF ViewOwed, Settled, Got
  <2> QED
    BY <1>0, <2>1, <2>2, <2>3, <2>4 DEF ViewInv
<1>5. CASE Expire
  <2>1. rec' = None /\ frame' = frame /\ UNCHANGED local /\ pc' = pc /\ unsaved' = unsaved
    BY <1>5 DEF Expire
  <2>2. SeqBounded' /\ PublishesFrames' /\ GoesElsewhere'
    BY <2>1 DEF ViewInv, SeqBounded, PublishesFrames, Final, GoesElsewhere, local
  <2>3. Got' = frame'
    BY <2>1 DEF Got, Recover
  <2> QED
    BY <1>0, <2>1, <2>2, <2>3 DEF ViewInv, ViewOwed, Settled
<1>6. CASE Restart
  <2>1. rec' = None /\ frame' = frame /\ Gone(Actors) /\ unsaved' = unsaved
    BY <1>6 DEF Restart
  <2>2. SeqBounded'
    BY <2>1, FirstBounded DEF ViewInv, SeqBounded, Gone
  <2>3. \A p \in Actors : pc'[p] # "touch"
    BY <1>6 DEF Restart
  <2>4. PublishesFrames' /\ GoesElsewhere'
    BY <2>1, <2>3 DEF ViewInv, PublishesFrames, GoesElsewhere, Gone
  <2>5. Got' = frame'
    BY <2>1 DEF Got, Recover
  <2> QED
    BY <1>0, <2>1, <2>2, <2>4, <2>5 DEF ViewInv, ViewOwed, Settled
<1>7. CASE Idle \/ UNCHANGED vars
  <2>1. frame' = frame /\ rec' = rec /\ pc' = pc /\ UNCHANGED local /\ unsaved' = unsaved
    BY <1>7 DEF Idle, vars, local
  <2>2. SeqBounded' /\ PublishesFrames' /\ GoesElsewhere'
    BY <2>1 DEF ViewInv, SeqBounded, PublishesFrames, Final, GoesElsewhere, local
  <2>3. ViewOwed'
    BY <2>1, Rereads DEF ViewInv, ViewOwed, Settled
  <2> QED
    BY <1>0, <2>1, <2>2, <2>3 DEF ViewInv
<1>8. CASE \E p \in Actors : Unwritten(p)
  BY <1>0, <1>8, SharedView
<1> QED
  BY <1>1, <1>2, <1>3, <1>4, <1>5, <1>6, <1>7, <1>8 DEF Next

LEMMA ViewQuiet == ViewInv => QuietViewIsFinal
BY Disjoint DEF ViewInv, ViewOwed, Settled, QuietViewIsFinal, Quiet, Unpublished

\* Whatever raises, expires, restarts, races or fails to be appended, once
\* nobody works on the response a lookup serves the newest durable frame or a
\* finalized payload whose append failed: every touch without a frame of its
\* own (the lightweight and the live-progress publications of
\* complete_response_late_fill) is followed by the publication of a finalized
\* payload before its worker leaves.
THEOREM RestingViewIsFinal == Spec => []QuietViewIsFinal
<1>1. Spec => []ViewInv
  BY InitView, NextView, PTL DEF Spec
<1> QED
  BY <1>1, ViewQuiet, PTL

HIDE DEF Within, history
-----------------------------------------------------------------------------
(* The course of a response no client intervenes in: one worker at a time  *)
(* carries what the newest frame says from the handoff to the next frame.  *)

Alone == \A v, w \in Workers : pc[v] # "free" /\ pc[w] # "free" => v = w

WorkerGoals == \A w \in Workers : goal[w] \in {"release", "reopen", "run", "succeed"}

(* Nothing is cancelled, and no branch is in two of the other lists. *)
Tidy(s) == s.canc = {} /\ s.comp \cap s.fail = {} /\ Open(s) \cap (s.comp \cup s.fail) = {}

(* A payload that takes no fulfilled branch of frame f back, but for those *)
(* whose saved file broke the contract.                                    *)
Retains(s, f) == f.comp \subseteq s.comp \cup demoted
Follows(s, f) == Tidy(s) /\ Retains(s, f)

(* What a worker holds, place by place. *)
OnCourse(w) ==
    /\ pc[w] \in {"reopen", "handoff", "start"} => seed[w] = frame
    /\ pc[w] \in {"top", "run", "preflight"} => Follows(own[w], frame) /\ own[w].act = {}
    /\ pc[w] = "preflight" => batch[w] \subseteq own[w].pend
    /\ pc[w] \in {"execute", "report", "settle"} =>
         /\ own[w].canc = {} /\ own[w].act = {}
         /\ own[w].comp \cap own[w].fail = {} /\ Retains(own[w], frame)
    /\ pc[w] \in {"execute", "report"} => batch[w] \cap (own[w].comp \cup own[w].fail) = {}
    /\ pc[w] = "settle" => todo[w] \cap (own[w].comp \cup own[w].fail) = {}
    /\ pc[w] = "persist" => Follows(pay[w], frame) /\ pay[w].act = {}
    /\ pc[w] = "report" => Follows(pay[w], frame)
    /\ pc[w] = "touch" => pay[w] = frame
    /\ pc[w] = "succeed" => own[w] = frame

(* What the newest frame and the record hold then. *)
Served ==
    /\ Tidy(frame) /\ frame.act = {}
    /\ rec # None => Tidy(rec)
    /\ Follows(Got, frame)

CourseInv ==
    /\ ViewInv /\ WorkerGoals
    /\ Undisturbed => Alone /\ Served /\ \A w \in Workers : OnCourse(w)

LEMMA GoalsOn ==
  ASSUME ViewInv, WorkerGoals, [Next]_vars
  PROVE  WorkerGoals'
<1> DEFINE G == {"release", "reopen", "run", "succeed"}
<1> USE Disjoint
<1>0. DOMAIN goal = Actors
  BY DEF ViewInv, TypeOK
<1>1. ASSUME NEW P, Gone(P)
      PROVE  WorkerGoals'
  BY <1>1 DEF Gone, WorkerGoals
<1>2. ASSUME goal' = goal
      PROVE  WorkerGoals'
  BY <1>2 DEF WorkerGoals
<1>3. ASSUME NEW p \in Actors, NEW next, goal' = [goal EXCEPT ![p] = next],
             p \in Workers => next \in G
      PROVE  WorkerGoals'
  BY <1>0, <1>3 DEF WorkerGoals
<1>4. ASSUME NEW p \in Actors, Persist(p) \/ Unwritten(p) \/ Publish(p)
      PROVE  WorkerGoals'
  BY <1>0, <1>4 DEF Persist, Unwritten, Publish, WorkerGoals
<1>5. CASE \E w \in Workers : WorkerStep(w) \/ Wake(w) \/ StartFails(w) \/ Raise(w)
  <2>1. PICK w \in Workers : WorkerStep(w) \/ Wake(w) \/ StartFails(w) \/ Raise(w)
    BY <1>5
  <2>2. w \in Actors
    OBVIOUS
  <2>3. CASE Schedule(w) \/ StartFails(w) \/ Raise(w) \/ Release(w)
    BY <1>1, <1>2, <2>3 DEF Schedule, StartFails, Raise, Release, local
  <2>4. CASE Run(w) \/ Preflight(w) \/ Report(w) \/ Reported(w) \/ Collect(w) \/ Settle(w)
    BY <1>2, <2>4 DEF Run, Preflight, Report, Reported, Collect, Settle
  <2>5. CASE StaleHandoff(w) \/ Sleep(w) \/ Wake(w)
    BY <1>2, <2>5 DEF StaleHandoff, Sleep, Wake, local
  <2>6. ASSUME NEW s, Conclude(w, s)
        PROVE  WorkerGoals'
    BY <1>3, <2>2, <2>6, ConcludeGoes
  <2>7. CASE Start(w)
    <3>1. goal' = goal \/ \E s : Conclude(w, s)
      BY <2>7 DEF Start
    <3> QED
      BY <1>2, <2>6, <3>1
  <2>8. CASE Top(w)
    <3>1. goal' = goal \/ (\E s : Conclude(w, s)) \/ goal' = [goal EXCEPT ![w] = "run"]
      BY <2>8 DEF Top, Prepare
    <3> QED
      BY <1>2, <1>3, <2>2, <2>6, <3>1
  <2>9. CASE Wave(w)
    <3>1. goal' = goal \/ \E s : Conclude(w, s)
      BY <2>9 DEF Wave
    <3> QED
      BY <1>2, <2>6, <3>1
  <2>10. CASE Succeed(w)
    <3>1. goal' = goal \/ goal' = [goal EXCEPT ![w] = "reopen"]
      BY <2>10 DEF Succeed, Prepare
    <3> QED
      BY <1>2, <1>3, <2>2, <3>1
  <2>11. CASE Except(w) \/ Audit(w)
    BY <1>3, <2>2, <2>11 DEF Except, Audit, Prepare
  <2> QED
    BY <1>4, <2>1, <2>2, <2>3, <2>4, <2>5, <2>7, <2>8, <2>9, <2>10, <2>11 DEF WorkerStep
<1>6. CASE \E c \in Controls : ControlStep(c)
  <2>1. PICK c \in Controls : ControlStep(c)
    BY <1>6
  <2>2. CASE Control(c)
    <3>1. goal' = goal \/ goal' = [goal EXCEPT ![c] = "reply"]
      BY <2>2 DEF Control, Prepare
    <3> QED
      BY <1>2, <1>3, <3>1
  <2> QED
    BY <1>1, <1>4, <2>1, <2>2 DEF ControlStep, Reply
<1>7. CASE \E r \in Retries : RetryStep(r) \/ Abort(r)
  <2>1. PICK r \in Retries : RetryStep(r) \/ Abort(r)
    BY <1>7
  <2>2. CASE Retry(r) \/ Spawn(r)
    BY <1>2, <2>2 DEF Retry, Spawn
  <2>3. CASE Claim(r) \/ Abort(r)
    BY <1>1, <1>3, <2>3 DEF Claim, Abort, Prepare
  <2> QED
    BY <1>4, <2>1, <2>2, <2>3 DEF RetryStep
<1>8. CASE Poll \/ Expire \/ Restart \/ Idle \/ UNCHANGED vars
  BY <1>1, <1>2, <1>8 DEF Poll, Expire, Restart, Idle, vars, local
<1>9. CASE \E p \in Actors : Unwritten(p)
  BY <1>4, <1>9
<1> QED
  BY <1>5, <1>6, <1>7, <1>8, <1>9 DEF Next

(* What could not be appended, and what broke its contract, stays known. *)
LEMMA KnownStays ==
  ASSUME [Next]_vars
  PROVE  unsaved \subseteq unsaved' /\ demoted \subseteq demoted'
<1> USE DEF history
<1>1. ASSUME NEW w, NEW s, Conclude(w, s)
      PROVE  demoted \subseteq demoted'
  BY <1>1 DEF Conclude
<1>2. ASSUME NEW p, Persist(p) \/ Unwritten(p) \/ Publish(p)
      PROVE  unsaved \subseteq unsaved' /\ demoted \subseteq demoted'
  BY <1>2 DEF Persist, Unwritten, Publish
<1>3. CASE \E w \in Workers : WorkerStep(w) \/ Wake(w) \/ StartFails(w) \/ Raise(w)
  <2>1. PICK w \in Workers : WorkerStep(w) \/ Wake(w) \/ StartFails(w) \/ Raise(w)
    BY <1>3
  <2>2. CASE Start(w) \/ Top(w) \/ Wave(w)
    <3>1. demoted' = demoted \/ \E s : Conclude(w, s)
      BY <2>2 DEF Start, Top, Wave
    <3>2. unsaved' = unsaved
      BY <2>2 DEF Start, Top, Wave
    <3> QED
      BY <1>1, <3>1, <3>2
  <2> QED
    BY <1>2, <2>1, <2>2 DEF WorkerStep, Schedule, StaleHandoff, Run, Sleep, Preflight, Report,
       Reported, Collect, Settle, Succeed, Audit, Release, Except, Wake, StartFails, Raise
<1>4. CASE \E c \in Controls : ControlStep(c)
  BY <1>2, <1>4 DEF ControlStep, Control, Reply
<1>5. CASE \E r \in Retries : RetryStep(r) \/ Abort(r)
  BY <1>2, <1>5 DEF RetryStep, Retry, Claim, Spawn, Abort
<1>6. CASE Poll \/ Expire \/ Restart \/ Idle \/ UNCHANGED vars
  BY <1>6 DEF Poll, Expire, Restart, Idle, vars
<1> QED
  BY <1>2, <1>3, <1>4, <1>5, <1>6 DEF Next

(* A request that was sent stays sent. *)
LEMMA SentStaysSent ==
  ASSUME ViewInv, [Next]_vars, NEW c \in Clients, pc[c] # "new"
  PROVE  pc'[c] # "new"
<1> USE Disjoint
<1>0. DOMAIN pc = Actors /\ c \in Actors /\ c \notin Workers /\ goal[c] # "new"
  BY DEF ViewInv, TypeOK, Actors, Clients, GoesElsewhere
<1>1. ASSUME NEW p \in Actors, NEW where, Goto(p, where), where # "new" \/ p # c
      PROVE  pc'[c] # "new"
  BY <1>0, <1>1 DEF Goto
<1>2. ASSUME NEW p \in Actors, Persist(p) \/ Unwritten(p) \/ Publish(p)
      PROVE  pc'[c] # "new"
  <2>1. goal[p] # "new"
    BY DEF ViewInv, GoesElsewhere
  <2> QED
    BY <1>1, <1>2, <2>1 DEF Persist, Unwritten, Publish
<1>3. CASE \E w \in Workers : WorkerStep(w) \/ Wake(w) \/ StartFails(w) \/ Raise(w)
  <2>1. PICK w \in Workers : WorkerStep(w) \/ Wake(w) \/ StartFails(w) \/ Raise(w)
    BY <1>3
  <2>2. CASE Settle(w) \/ Wake(w)
    BY <2>2 DEF Settle, Wake
  <2>3. CASE Schedule(w) \/ StartFails(w) \/ Raise(w) \/ Release(w)
    <3>1. \E where : Goto(w, where)
      BY <2>3 DEF Schedule, StartFails, Raise, Release
    <3> QED
      BY <1>0, <1>1, <3>1
  <2>4. CASE \/ Run(w) \/ Preflight(w) \/ Report(w) \/ Reported(w) \/ Collect(w)
             \/ StaleHandoff(w) \/ Sleep(w)
    <3>1. \E where : Goto(w, where)
      BY <2>4 DEF Run, Preflight, Report, Reported, Collect, StaleHandoff, Sleep
    <3> QED
      BY <1>0, <1>1, <3>1
  <2>5. CASE Start(w) \/ Top(w) \/ Wave(w)
    <3>1. (\E where : Goto(w, where)) \/ \E s : Conclude(w, s)
      BY <2>5 DEF Start, Top, Wave, Prepare
    <3>2. \E where : Goto(w, where)
      BY <3>1, ConcludeGoes
    <3> QED
      BY <1>0, <1>1, <3>2
  <2>6. CASE Succeed(w) \/ Audit(w) \/ Except(w)
    <3>1. \E where : Goto(w, where)
      BY <2>6 DEF Succeed, Audit, Except, Prepare
    <3> QED
      BY <1>0, <1>1, <3>1
  <2> QED
    BY <1>2, <2>1, <2>2, <2>3, <2>4, <2>5, <2>6 DEF WorkerStep
<1>4. CASE \E d \in Controls : ControlStep(d)
  <2>1. PICK d \in Controls : ControlStep(d)
    BY <1>4
  <2>2. CASE Control(d) \/ Reply(d)
    <3>1. Goto(d, "done") \/ Goto(d, "persist")
      BY <2>2 DEF Control, Reply, Prepare
    <3> QED
      BY <1>1, <3>1
  <2> QED
    BY <1>2, <2>1, <2>2 DEF ControlStep
<1>5. CASE \E r \in Retries : RetryStep(r) \/ Abort(r)
  <2>1. PICK r \in Retries : RetryStep(r) \/ Abort(r)
    BY <1>5
  <2>2. CASE Retry(r) \/ Claim(r) \/ Abort(r)
    <3>1. \E where \in {"done", "claim", "persist"} : Goto(r, where)
      BY <2>2 DEF Retry, Claim, Abort, Prepare
    <3> QED
      BY <1>1, <3>1
  <2>3. CASE Spawn(r)
    BY <1>0, <2>3 DEF Spawn
  <2> QED
    BY <1>2, <2>1, <2>2, <2>3 DEF RetryStep
<1>6. CASE Restart
  BY <1>0, <1>6 DEF Restart
<1>7. CASE Poll \/ Expire \/ Idle \/ UNCHANGED vars
  BY <1>7 DEF Poll, Expire, Idle, vars
<1>8. CASE \E p \in Actors : Unwritten(p)
  BY <1>2, <1>8
<1> QED
  BY <1>3, <1>4, <1>5, <1>6, <1>7, <1>8 DEF Next

LEMMA DisturbedStays ==
  ASSUME ViewInv, [Next]_vars, Undisturbed'
  PROVE  Undisturbed
BY KnownStays, SentStaysSent DEF Undisturbed

(* A step of a client is its first or one of a client that was sent; an    *)
(* append that fails is known from then on.                                *)
LEMMA ClientsDisturb ==
  ASSUME ViewInv, [Next]_vars,
         \/ \E c \in Controls : ControlStep(c)
         \/ \E r \in Retries : RetryStep(r) \/ Abort(r)
         \/ \E p \in Actors : Unwritten(p)
  PROVE  ~Undisturbed'
<1>1. CASE \E c \in Controls : Control(c)
  <2>1. PICK c \in Controls : Control(c)
    BY <1>1
  <2>2. Goto(c, "done") \/ Goto(c, "persist")
    BY <2>1 DEF Control, Prepare
  <2>3. pc'[c] # "new"
    BY <2>2, Disjoint DEF Goto, ViewInv, TypeOK
  <2> QED
    BY <2>3 DEF Undisturbed, Clients
<1>2. CASE \E r \in Retries : Retry(r)
  <2>1. PICK r \in Retries : Retry(r)
    BY <1>2
  <2>2. Goto(r, "done") \/ Goto(r, "claim")
    BY <2>1 DEF Retry
  <2>3. pc'[r] # "new"
    BY <2>2, Disjoint DEF Goto, ViewInv, TypeOK
  <2> QED
    BY <2>3 DEF Undisturbed, Clients
<1>3. CASE \E c \in Clients : pc[c] # "new"
  BY <1>3, SentStaysSent DEF Undisturbed
<1>4. ASSUME NEW c \in Controls, ControlStep(c), ~Control(c)
      PROVE  pc[c] # "new"
  BY <1>4 DEF ControlStep, Persist, Publish, Reply
<1>5. ASSUME NEW r \in Retries, RetryStep(r) \/ Abort(r), ~Retry(r)
      PROVE  pc[r] # "new"
  BY <1>5 DEF RetryStep, Persist, Publish, Claim, Spawn, Abort
<1>6. CASE \E p \in Actors : Unwritten(p)
  <2>1. unsaved' # {}
    BY <1>6 DEF Unwritten
  <2> QED
    BY <2>1 DEF Undisturbed
<1> QED
  BY <1>1, <1>2, <1>3, <1>4, <1>5, <1>6 DEF Clients

(* Reading leaves what is served; touching with a payload that follows the *)
(* newest frame keeps it in order.                                         *)
LEMMA ServedOn ==
  ASSUME TypeOK, Served, Lookup \/ rec' = rec \/ rec' = None \/ rec' = frame, frame' = frame,
         demoted \subseteq demoted'
  PROVE  Served'
<1>1. Got' = Got \/ Got' = frame
  BY DEF Lookup, Got, Recover
<1>2. rec' # None => Tidy(rec')
  BY DEF Lookup, Served, Follows
<1>3. Follows(frame, frame)
  BY DEF Served, Follows, Retains
<1> QED
  BY <1>1, <1>2, <1>3 DEF Served, Follows, Retains

LEMMA ServedTouch ==
  ASSUME TypeOK, Served, NEW s, Touch(s), Follows(s, frame), frame' = frame, demoted' = demoted
  PROVE  Served'
<1>1. Got' = s \/ Got' = frame
  BY DEF Touch, Got, Recover
<1>2. rec' # None => Tidy(rec')
  BY DEF Touch, Served, Follows
<1>3. Follows(frame, frame)
  BY DEF Served, Follows, Retains
<1> QED
  BY <1>1, <1>2, <1>3 DEF Served, Follows, Retains

LEMMA GotFollows == Served => Follows(Got, frame) /\ Got.canc = {}
BY DEF Served, Follows, Tidy

(* All it takes, while nobody intervenes, for a step of the one worker     *)
(* that is not free.                                                       *)
LEMMA CourseStep ==
  ASSUME CourseInv, Undisturbed, ViewInv', WorkerGoals', NEW w \in Workers, pc[w] # "free",
         NEW where, pc' = [pc EXCEPT ![w] = where], Served', OnCourse(w)'
  PROVE  CourseInv'
<1>0. DOMAIN pc = Actors /\ \A v \in Workers : v \in Actors
  BY Disjoint DEF CourseInv, ViewInv, TypeOK
<1>1. \A v \in Workers : v # w => pc[v] = "free" /\ pc'[v] = "free"
  BY <1>0 DEF CourseInv, Alone
<1>2. Alone'
  BY <1>1 DEF Alone
<1>3. \A v \in Workers : v # w => OnCourse(v)'
  BY <1>1 DEF OnCourse
<1> QED
  BY <1>2, <1>3 DEF CourseInv

(* What a worker persists at its end: the payload it holds, without what   *)
(* broke its contract, and with the repairs that replace it.               *)
LEMMA ConcludeMakes ==
  ASSUME TypeOK, NEW w \in Workers, NEW s \in Payload, Conclude(w, s)
  PROVE  \E unmet \in SUBSET (s.comp \cap Inspected), repairs \in SUBSET Branches :
           /\ repairs \cap Listed(s) = {} /\ demoted' = demoted \cup unmet
           /\ pay'[w].act = {} /\ pay'[w].canc = s.canc /\ pay'[w].fail = s.fail
           /\ pay'[w].comp = s.comp \ unmet
           /\ pay'[w].pend = (IF repairs = {} THEN unmet ELSE repairs)
           /\ goal'[w] = (IF repairs = {} THEN "succeed" ELSE "reopen")
           /\ pc' = [pc EXCEPT ![w] = "persist"] /\ pc'[w] = "persist"
<1>0. w \in Actors
  BY Disjoint
<1>1. PICK unmet \in SUBSET (s.comp \cap Inspected), repairs \in SUBSET (Repairs \ Listed(s)) :
        /\ demoted' = demoted \cup unmet
        /\ Prepare(w, [Close(s) EXCEPT !.comp = @ \ unmet,
                                       !.pend = IF repairs = {} THEN unmet ELSE repairs],
                   IF repairs = {} THEN "succeed" ELSE "reopen")
  BY DEF Conclude
<1> DEFINE pend == IF repairs = {} THEN unmet ELSE repairs
           t == [Close(s) EXCEPT !.comp = @ \ unmet, !.pend = pend]
<1>2. Prepare(w, t, IF repairs = {} THEN "succeed" ELSE "reopen")
  BY <1>1
<1>3. t.act = {} /\ t.canc = s.canc /\ t.fail = s.fail /\ t.comp = s.comp \ unmet /\ t.pend = pend
  <2> HIDE DEF pend
  <2> QED
    BY DEF Close, Payload
<1> HIDE DEF t
<1>4. /\ pay'[w] = t /\ goal'[w] = (IF repairs = {} THEN "succeed" ELSE "reopen")
      /\ pc' = [pc EXCEPT ![w] = "persist"] /\ pc'[w] = "persist"
  BY <1>0, <1>2 DEF Prepare, Goto, TypeOK
<1>5. repairs \in SUBSET Branches /\ repairs \cap Listed(s) = {}
  BY <1>1, LateFillAssumption
<1> QED
  BY <1>1, <1>3, <1>4, <1>5

LEMMA ConcludeCourse ==
  ASSUME CourseInv, Undisturbed, ViewInv', WorkerGoals', NEW w \in Workers, pc[w] # "free",
         NEW s \in Payload, Conclude(w, s), Follows(s, frame), frame' = frame,
         Lookup \/ rec' = rec
  PROVE  CourseInv'
<1>0. w \in Actors /\ Served /\ TypeOK
  BY Disjoint DEF CourseInv, ViewInv
<1>1. PICK unmet \in SUBSET (s.comp \cap Inspected), repairs \in SUBSET Branches :
           /\ repairs \cap Listed(s) = {} /\ demoted' = demoted \cup unmet
           /\ pay'[w].act = {} /\ pay'[w].canc = s.canc /\ pay'[w].fail = s.fail
           /\ pay'[w].comp = s.comp \ unmet
           /\ pay'[w].pend = (IF repairs = {} THEN unmet ELSE repairs)
           /\ goal'[w] = (IF repairs = {} THEN "succeed" ELSE "reopen")
           /\ pc' = [pc EXCEPT ![w] = "persist"] /\ pc'[w] = "persist"
  BY <1>0, ConcludeMakes
<1>2. Tidy(pay'[w]) /\ frame.comp \subseteq pay'[w].comp \cup demoted'
  BY <1>1 DEF Follows, Retains, Tidy, Open, Listed, Over
<1>3. Served'
  BY <1>0, <1>1, ServedOn
<1>4. OnCourse(w)'
  BY <1>1, <1>2 DEF OnCourse, Follows, Retains
<1> QED
  BY <1>1, <1>3, <1>4, CourseStep

LEMMA StartCourse ==
  ASSUME CourseInv, Undisturbed, ViewInv', WorkerGoals', NEW w \in Workers, Start(w)
  PROVE  CourseInv'
<1>0. /\ w \in Actors /\ pc[w] = "start" /\ seed[w] = frame /\ Served
      /\ frame \in Payload /\ Tidy(frame) /\ TypeOK
  BY Disjoint DEF Start, CourseInv, OnCourse, ViewInv, TypeOK, Served
<1>1. Got = frame
  BY <1>0 DEF CourseInv, Alone, ViewInv, ViewOwed, Settled, Unpublished, Undisturbed
<1>2. Base(w) = frame
  BY <1>0, <1>1 DEF Base
<1>3. PICK pending, found :
        /\ pending \cap (frame.comp \cup frame.fail \cup frame.canc) = {} /\ found \subseteq pending
        /\ LET mine == [frame EXCEPT !.pend = pending \ found,
                                     !.act = {},
                                     !.comp = (@ \ (frame.fail \cup frame.canc)) \cup found,
                                     !.again = (@ \cup seed[w].again) \cap pending]
           IN /\ own' = [own EXCEPT ![w] = mine]
              /\ IF mine.pend = {}
                 THEN Conclude(w, mine)
                 ELSE Goto(w, "top") /\ UNCHANGED <<pay, goal, demoted>>
  <2> DEFINE base == Base(w)
             rest(want) == want \ (base.comp \cup base.fail \cup base.canc)
             own1(p, f) == [base EXCEPT !.pend = p \ f,
                                        !.act = {},
                                        !.comp = (@ \ (base.fail \cup base.canc)) \cup f,
                                        !.again = (@ \cup seed[w].again) \cap p]
  <2>1. PICK want \in Wanted(w) :
          \E found \in SUBSET (rest(want) \cap Present) :
            /\ own' = [own EXCEPT ![w] = own1(rest(want), found)]
            /\ IF own1(rest(want), found).pend = {}
               THEN Conclude(w, own1(rest(want), found))
               ELSE Goto(w, "top") /\ UNCHANGED <<pay, goal, demoted>>
    BY DEF Start
  <2>2. PICK found \in SUBSET (rest(want) \cap Present) :
            /\ own' = [own EXCEPT ![w] = own1(rest(want), found)]
            /\ IF own1(rest(want), found).pend = {}
               THEN Conclude(w, own1(rest(want), found))
               ELSE Goto(w, "top") /\ UNCHANGED <<pay, goal, demoted>>
    BY <2>1
  <2>3. /\ rest(want) \cap (frame.comp \cup frame.fail \cup frame.canc) = {}
        /\ found \subseteq rest(want)
    BY <1>2
  <2> HIDE DEF rest
  <2> QED
    BY <1>2, <2>2, <2>3
<1> DEFINE mine == [frame EXCEPT !.pend = pending \ found,
                                 !.act = {},
                                 !.comp = (@ \ (frame.fail \cup frame.canc)) \cup found,
                                 !.again = (@ \cup seed[w].again) \cap pending]
<1>4. /\ mine.act = {} /\ mine.canc = frame.canc /\ mine.fail = frame.fail
      /\ mine.pend = pending \ found
      /\ mine.comp = (frame.comp \ (frame.fail \cup frame.canc)) \cup found
  BY <1>0 DEF Payload
<1>5. own' = [own EXCEPT ![w] = mine] /\ own'[w] = mine /\ mine \in Payload
  BY <1>0, <1>3 DEF TypeOK, CourseInv, ViewInv
<1>6. \/ Conclude(w, mine)
      \/ Goto(w, "top") /\ UNCHANGED <<pay, goal, demoted>>
  BY <1>3
<1> HIDE DEF mine
<1>7. Follows(mine, frame)
  BY <1>0, <1>3, <1>4 DEF Follows, Retains, Tidy, Open
<1>8. frame' = frame /\ Lookup
  BY DEF Start
<1>9. CASE Conclude(w, mine)
  BY <1>0, <1>5, <1>7, <1>8, <1>9, ConcludeCourse
<1>10. CASE Goto(w, "top") /\ UNCHANGED <<pay, goal, demoted>>
  <2>1. pc'[w] = "top" /\ pc' = [pc EXCEPT ![w] = "top"]
    BY <1>0, <1>10 DEF Goto, TypeOK
  <2>2. OnCourse(w)'
    BY <1>4, <1>5, <1>7, <1>8, <1>10, <2>1 DEF OnCourse, Follows, Retains
  <2>3. Served'
    BY <1>0, <1>8, <1>10, ServedOn
  <2> QED
    BY <1>0, <2>1, <2>2, <2>3, CourseStep
<1> QED
  BY <1>6, <1>9, <1>10

LEMMA TopCourse ==
  ASSUME CourseInv, Undisturbed, ViewInv', WorkerGoals', NEW w \in Workers, Top(w)
  PROVE  CourseInv'
<1>0. /\ w \in Actors /\ pc[w] = "top" /\ Served /\ TypeOK /\ own[w] \in Payload
      /\ Follows(own[w], frame) /\ own[w].act = {} /\ Got.canc = {}
  BY Disjoint, GotFollows DEF Top, CourseInv, OnCourse, ViewInv, TypeOK
<1> DEFINE mine == [own[w] EXCEPT !.seq = Got.seq, !.canc = Got.canc, !.pend = @ \ (own[w].pend \cap Got.canc)]
<1>1. own' = [own EXCEPT ![w] = mine] /\ Goto(w, "run") /\ demoted' = demoted
  BY <1>0 DEF Top
<1>2. /\ mine.canc = {} /\ mine.pend = own[w].pend /\ mine.act = {}
      /\ mine.comp = own[w].comp /\ mine.fail = own[w].fail
  BY <1>0 DEF Payload
<1> HIDE DEF mine
<1>3. Served' /\ frame' = frame
  BY <1>0, <1>1, ServedOn DEF Top
<1>4. own'[w] = mine /\ pc'[w] = "run" /\ pc' = [pc EXCEPT ![w] = "run"]
  BY <1>0, <1>1 DEF TypeOK, Goto
<1>5. Follows(mine, frame)
  BY <1>0, <1>2 DEF Follows, Retains, Tidy, Open
<1>6. OnCourse(w)'
  BY <1>1, <1>2, <1>3, <1>4, <1>5 DEF OnCourse, Follows, Retains
<1> QED
  BY <1>0, <1>3, <1>4, <1>6, CourseStep

(* Taking a batch, or waiting for one. *)
LEMMA RunCourse ==
  ASSUME CourseInv, Undisturbed, ViewInv', WorkerGoals', NEW w \in Workers, Run(w) \/ Sleep(w)
  PROVE  CourseInv'
<1>0. /\ w \in Actors /\ pc[w] = "run" /\ Served /\ TypeOK /\ own[w] \in Payload
      /\ Follows(own[w], frame) /\ own[w].act = {} /\ demoted' = demoted
  BY Disjoint DEF Run, Sleep, CourseInv, OnCourse, ViewInv, TypeOK, history
<1>1. CASE Run(w)
  <2>1. PICK now \in Batches(own[w]) :
           /\ batch' = [batch EXCEPT ![w] = now \ wait[w]]
           /\ Touch([own[w] EXCEPT !.act = now \ wait[w]])
    BY <1>1 DEF Run
  <2>2. now \ wait[w] \subseteq own[w].pend
    BY <1>0, <2>1, BatchTyped
  <2>3. Follows([own[w] EXCEPT !.act = now \ wait[w]], frame)
    BY <1>0, <2>2 DEF Follows, Retains, Tidy, Open, Payload
  <2>4. Served' /\ frame' = frame
    BY <1>0, <1>1, <2>1, <2>3, ServedTouch DEF Run
  <2>5. /\ pc'[w] = "preflight" /\ pc' = [pc EXCEPT ![w] = "preflight"]
        /\ own' = own /\ batch'[w] = now \ wait[w]
    BY <1>0, <1>1, <2>1 DEF Run, Goto, TypeOK
  <2>6. OnCourse(w)'
    BY <1>0, <2>2, <2>4, <2>5 DEF OnCourse, Follows, Retains
  <2> QED
    BY <1>0, <2>4, <2>5, <2>6, CourseStep
<1>2. CASE Sleep(w)
  <2>1. Served' /\ frame' = frame
    BY <1>0, <1>2, ServedOn DEF Sleep
  <2>2. pc'[w] = "top" /\ pc' = [pc EXCEPT ![w] = "top"] /\ own' = own
    BY <1>0, <1>2 DEF Sleep, Goto, TypeOK, local
  <2>3. OnCourse(w)'
    BY <1>0, <2>1, <2>2 DEF OnCourse, Follows, Retains
  <2> QED
    BY <1>0, <2>1, <2>2, <2>3, CourseStep
<1> QED
  BY <1>1, <1>2

LEMMA PreflightCourse ==
  ASSUME CourseInv, Undisturbed, ViewInv', WorkerGoals', NEW w \in Workers, Preflight(w)
  PROVE  CourseInv'
<1>0. /\ w \in Actors /\ pc[w] = "preflight" /\ Served /\ TypeOK /\ own[w] \in Payload
      /\ Follows(own[w], frame) /\ own[w].act = {} /\ batch[w] \subseteq own[w].pend
      /\ demoted' = demoted
  BY Disjoint DEF Preflight, CourseInv, OnCourse, ViewInv, TypeOK, history
<1>1. PICK found \in SUBSET (batch[w] \cap Present) :
         /\ own' = [own EXCEPT ![w].comp = @ \cup found, ![w].fail = @ \ found]
         /\ batch' = [batch EXCEPT ![w] = @ \ found]
  BY DEF Preflight
<1>2. /\ own'[w].comp = own[w].comp \cup found /\ own'[w].fail = own[w].fail \ found
      /\ own'[w].canc = own[w].canc /\ own'[w].act = own[w].act
      /\ batch'[w] = batch[w] \ found
  BY <1>0, <1>1 DEF TypeOK, Payload
<1>3. Served' /\ frame' = frame
  BY <1>0, ServedOn DEF Preflight
<1>4. pc'[w] = "execute" /\ pc' = [pc EXCEPT ![w] = "execute"]
  BY <1>0 DEF Preflight, Goto, TypeOK
<1>5. /\ own'[w].canc = {} /\ own'[w].act = {} /\ own'[w].comp \cap own'[w].fail = {}
      /\ batch'[w] \cap (own'[w].comp \cup own'[w].fail) = {}
      /\ frame.comp \subseteq own'[w].comp \cup demoted
  BY <1>0, <1>2 DEF Follows, Retains, Tidy, Open
<1>6. OnCourse(w)'
  BY <1>0, <1>3, <1>4, <1>5 DEF OnCourse, Retains
<1> QED
  BY <1>0, <1>3, <1>4, <1>6, CourseStep

LEMMA ReportCourse ==
  ASSUME CourseInv, Undisturbed, ViewInv', WorkerGoals', NEW w \in Workers,
         Report(w) \/ Reported(w) \/ Collect(w)
  PROVE  CourseInv'
<1>00. w \in Actors /\ pc[w] \in {"execute", "report"} /\ demoted' = demoted
  BY Disjoint DEF Report, Reported, Collect, history
<1>01. Served /\ TypeOK /\ OnCourse(w)
  BY DEF CourseInv, ViewInv
<1>0. /\ w \in Actors /\ pc[w] \in {"execute", "report"} /\ Served /\ TypeOK
      /\ own[w].canc = {} /\ own[w].act = {} /\ own[w].comp \cap own[w].fail = {}
      /\ Retains(own[w], frame) /\ batch[w] \cap (own[w].comp \cup own[w].fail) = {}
  BY <1>00, <1>01 DEF OnCourse
<1>1. CASE Report(w)
  <2>1. PICK b : pay' = [pay EXCEPT ![w] = [Got EXCEPT !.pend = @ \ {b}, !.act = @ \ {b}]]
    BY <1>1 DEF Report
  <2>2. Follows([Got EXCEPT !.pend = @ \ {b}, !.act = @ \ {b}], frame)
    BY <1>0, GotFollows, GotTyped DEF Follows, Retains, Tidy, Open, Payload
  <2>3. pay'[w] = [Got EXCEPT !.pend = @ \ {b}, !.act = @ \ {b}]
    BY <1>0, <2>1 DEF TypeOK
  <2>4. Served' /\ frame' = frame
    BY <1>00, <1>0, <1>1, ServedOn DEF Report
  <2>5. /\ pc'[w] = "report" /\ pc' = [pc EXCEPT ![w] = "report"]
        /\ own' = own /\ batch' = batch
    BY <1>0, <1>1 DEF Report, Goto, TypeOK
  <2>6. OnCourse(w)'
    BY <1>00, <1>0, <2>2, <2>3, <2>4, <2>5 DEF OnCourse, Follows, Retains
  <2> QED
    BY <1>0, <2>4, <2>5, <2>6, CourseStep
<1>2. CASE Reported(w)
  <2>1. Follows(pay[w], frame)
    BY <1>01, <1>2 DEF Reported, OnCourse
  <2>2. Served' /\ frame' = frame
    BY <1>00, <1>0, <1>2, <2>1, ServedTouch DEF Reported
  <2>3. /\ pc'[w] = "execute" /\ pc' = [pc EXCEPT ![w] = "execute"]
        /\ own' = own /\ batch' = batch
    BY <1>0, <1>2 DEF Reported, Goto, TypeOK
  <2>4. OnCourse(w)'
    BY <1>00, <1>0, <2>2, <2>3 DEF OnCourse, Retains
  <2> QED
    BY <1>0, <2>2, <2>3, <2>4, CourseStep
<1>3. CASE Collect(w)
  <2>1. Served' /\ frame' = frame
    BY <1>00, <1>0, <1>3, ServedOn DEF Collect
  <2>2. /\ pc'[w] = "settle" /\ pc' = [pc EXCEPT ![w] = "settle"]
        /\ own' = own /\ todo'[w] = batch[w]
    BY <1>0, <1>3 DEF Collect, ToSettle, Goto, TypeOK
  <2>3. OnCourse(w)'
    BY <1>00, <1>0, <2>1, <2>2 DEF OnCourse, Retains
  <2> QED
    BY <1>0, <2>1, <2>2, <2>3, CourseStep
<1> QED
  BY <1>1, <1>2, <1>3

LEMMA SettleCourse ==
  ASSUME CourseInv, Undisturbed, ViewInv', WorkerGoals', NEW w \in Workers, Settle(w)
  PROVE  CourseInv'
<1>00. w \in Actors /\ pc[w] = "settle" /\ Served /\ TypeOK /\ OnCourse(w) /\ demoted' = demoted
  BY Disjoint DEF Settle, CourseInv, ViewInv, history
<1>0. /\ own[w] \in Payload /\ own[w].canc = {} /\ own[w].act = {}
      /\ own[w].comp \cap own[w].fail = {} /\ Retains(own[w], frame)
      /\ todo[w] \cap (own[w].comp \cup own[w].fail) = {}
  BY <1>00 DEF OnCourse, TypeOK
<1> DEFINE mine == [own[w] EXCEPT !.canc = Got.canc]
<1>1. /\ mine \in Payload /\ mine.canc = {} /\ mine.act = {}
      /\ mine.comp = own[w].comp /\ mine.fail = own[w].fail
  BY <1>00, <1>0, GotTyped, GotFollows DEF Payload
<1>2. PICK b \in todo[w] :
        /\ todo' = [todo EXCEPT ![w] = @ \ {b}]
        /\ \/ own' = [own EXCEPT ![w] = mine]
           \/ own' = [own EXCEPT ![w] = [mine EXCEPT !.comp = @ \cup {b}]]
           \/ own' = [own EXCEPT ![w] = [mine EXCEPT !.fail = @ \cup {b}]]
           \/ \E attempts \in {mine.again, mine.again \ {b}} :
                own' = [own EXCEPT ![w] = [mine EXCEPT !.again = attempts]]
  BY DEF Settle
<1> HIDE DEF mine
<1>10. \/ own'[w] = mine \/ own'[w] = [mine EXCEPT !.comp = @ \cup {b}]
       \/ own'[w] = [mine EXCEPT !.fail = @ \cup {b}]
       \/ \E attempts : own'[w] = [mine EXCEPT !.again = attempts]
  BY <1>00, <1>2 DEF TypeOK
<1>3. own'[w].canc = {} /\ own'[w].act = {}
  BY <1>1, <1>10 DEF Payload
<1>4. \/ own'[w].comp = own[w].comp /\ own'[w].fail = own[w].fail
      \/ own'[w].comp = own[w].comp \cup {b} /\ own'[w].fail = own[w].fail
      \/ own'[w].comp = own[w].comp /\ own'[w].fail = own[w].fail \cup {b}
  BY <1>1, <1>10 DEF Payload
<1>5. todo'[w] = todo[w] \ {b}
  BY <1>00, <1>2 DEF TypeOK
<1>6. Served' /\ frame' = frame
  BY <1>00, ServedOn DEF Settle
<1>7. pc' = [pc EXCEPT ![w] = "settle"] /\ pc'[w] = "settle"
  BY <1>00 DEF Settle, TypeOK
<1>8. /\ own'[w].comp \cap own'[w].fail = {} /\ frame.comp \subseteq own'[w].comp \cup demoted
      /\ todo'[w] \cap (own'[w].comp \cup own'[w].fail) = {}
  BY <1>0, <1>2, <1>4, <1>5 DEF Retains
<1>9. OnCourse(w)'
  BY <1>00, <1>3, <1>6, <1>7, <1>8 DEF OnCourse, Retains
<1> QED
  BY <1>00, <1>6, <1>7, <1>9, CourseStep

LEMMA WaveCourse ==
  ASSUME CourseInv, Undisturbed, ViewInv', WorkerGoals', NEW w \in Workers, Wave(w)
  PROVE  CourseInv'
<1>00. w \in Actors /\ pc[w] = "settle"
  BY Disjoint DEF Wave
<1>01. Served /\ TypeOK /\ OnCourse(w)
  BY DEF CourseInv, ViewInv
<1>0. /\ w \in Actors /\ pc[w] = "settle" /\ Served /\ TypeOK /\ own[w] \in Payload
      /\ own[w].canc = {} /\ own[w].act = {} /\ own[w].comp \cap own[w].fail = {}
      /\ Retains(own[w], frame)
  BY <1>00, <1>01 DEF OnCourse, TypeOK
<1> DEFINE mine == [own[w] EXCEPT !.pend = Remaining(w)]
<1>1. /\ mine \in Payload /\ mine.canc = {} /\ mine.act = {}
      /\ mine.comp = own[w].comp /\ mine.fail = own[w].fail
      /\ mine.pend = own[w].pend \ (own[w].comp \cup own[w].fail \cup own[w].canc)
  BY <1>0 DEF Payload, Remaining
<1>2. /\ own' = [own EXCEPT ![w] = mine]
      /\ \/ Conclude(w, mine) /\ UNCHANGED rec
         \/ /\ \E next \in Batches(mine) : Touch([mine EXCEPT !.act = next \ wait[w]])
            /\ Goto(w, "top") /\ UNCHANGED <<pay, goal, demoted>>
  BY DEF Wave
<1> HIDE DEF mine
<1>3. own'[w] = mine /\ frame' = frame
  BY <1>0, <1>2 DEF TypeOK, Wave
<1>4. Follows(mine, frame)
  BY <1>0, <1>1 DEF Follows, Retains, Tidy, Open
<1>5. CASE Conclude(w, mine) /\ UNCHANGED rec
  BY <1>0, <1>1, <1>3, <1>4, <1>5, ConcludeCourse
<1>6. CASE /\ \E next \in Batches(mine) : Touch([mine EXCEPT !.act = next \ wait[w]])
           /\ Goto(w, "top") /\ UNCHANGED demoted
  <2>1. PICK next \in Batches(mine) : Touch([mine EXCEPT !.act = next \ wait[w]])
    BY <1>6
  <2>2. next \subseteq mine.pend
    BY <1>1, <2>1, BatchTyped
  <2>3. Follows([mine EXCEPT !.act = next \ wait[w]], frame)
    BY <1>1, <1>4, <2>2 DEF Follows, Retains, Tidy, Open, Payload
  <2>4. Served'
    BY <1>0, <1>3, <1>6, <2>1, <2>3, ServedTouch
  <2>5. pc'[w] = "top" /\ pc' = [pc EXCEPT ![w] = "top"]
    BY <1>0, <1>6 DEF Goto, TypeOK
  <2>6. OnCourse(w)'
    BY <1>1, <1>3, <1>4, <1>6, <2>5 DEF OnCourse, Follows, Retains
  <2> QED
    BY <1>0, <2>4, <2>5, <2>6, CourseStep
<1> QED
  BY <1>2, <1>5, <1>6

LEMMA SucceedCourse ==
  ASSUME CourseInv, Undisturbed, ViewInv', WorkerGoals', NEW w \in Workers,
         Succeed(w) \/ Except(w)
  PROVE  CourseInv'
<1>0. w \in Actors /\ pc[w] \in {"succeed", "except"} /\ Served /\ TypeOK /\ OnCourse(w)
      /\ frame \in Payload /\ Got \in Payload
  BY Disjoint, GotTyped DEF Succeed, Except, CourseInv, ViewInv, TypeOK
<1>1. frame' = frame /\ demoted' = demoted
  BY DEF Succeed, Except, history
<1>10. Served'
  BY <1>0, <1>1, ServedOn DEF Succeed, Except
<1>2. CASE Succeed(w)
  <2>0. own[w] = frame /\ Tidy(frame) /\ frame.act = {}
    BY <1>0, <1>2 DEF Succeed, OnCourse, Served
  <2>1. CASE Goto(w, "release")
    <3>1. pc'[w] = "release" /\ pc' = [pc EXCEPT ![w] = "release"]
      BY <1>0, <2>1 DEF Goto, TypeOK
    <3>2. OnCourse(w)'
      BY <3>1 DEF OnCourse
    <3> QED
      BY <1>0, <1>10, <3>1, <3>2, CourseStep
  <2>2. CASE Later \cap Listed(own[w]) = {} /\ Prepare(w, [own[w] EXCEPT !.pend = Later], "reopen")
    <3> DEFINE s == [frame EXCEPT !.pend = Later]
    <3>1. Follows(s, frame) /\ s.act = {}
      BY <1>0, <2>0, <2>2 DEF Follows, Retains, Tidy, Open, Listed, Over, Payload
    <3>2. pay'[w] = s /\ pc'[w] = "persist" /\ pc' = [pc EXCEPT ![w] = "persist"]
      BY <1>0, <2>0, <2>2 DEF Prepare, Goto, TypeOK
    <3> HIDE DEF s
    <3>3. OnCourse(w)'
      BY <1>1, <3>1, <3>2 DEF OnCourse, Follows, Retains
    <3> QED
      BY <1>0, <1>10, <3>2, <3>3, CourseStep
  <2> QED
    BY <1>2, <2>1, <2>2 DEF Succeed
<1>3. CASE Except(w)
  <2> DEFINE s == [Got EXCEPT !.fail = @ \cup Got.act]
  <2>1. /\ s \in Payload /\ s.comp = Got.comp /\ s.fail = Got.fail \cup Got.act /\ s.canc = {}
    BY <1>0, GotFollows DEF Payload
  <2>2. s.comp \cap s.fail = {} /\ frame.comp \subseteq s.comp \cup demoted
    BY <1>0, <2>1, GotFollows DEF Follows, Retains, Tidy, Open
  <2>3. Prepare(w, Close(s), "release")
    BY <1>3 DEF Except, Salvage
  <2> HIDE DEF s
  <2>4. Follows(Close(s), frame) /\ Close(s).act = {}
    BY <2>1, <2>2 DEF Close, Follows, Retains, Tidy, Open, Payload
  <2>5. pay'[w] = Close(s) /\ pc'[w] = "persist" /\ pc' = [pc EXCEPT ![w] = "persist"]
    BY <1>0, <2>3 DEF Prepare, Goto, TypeOK
  <2>6. OnCourse(w)'
    BY <1>1, <2>4, <2>5 DEF OnCourse, Follows, Retains
  <2> QED
    BY <1>0, <1>10, <2>5, <2>6, CourseStep
<1> QED
  BY <1>2, <1>3

LEMMA PersistCourse ==
  ASSUME CourseInv, Undisturbed, ViewInv', WorkerGoals', NEW w \in Workers, Persist(w)
  PROVE  CourseInv' /\ Retains(frame', frame)
<1>0. /\ w \in Actors /\ pc[w] = "persist" /\ Served /\ TypeOK /\ OnCourse(w)
      /\ pay[w] \in Payload /\ Follows(pay[w], frame) /\ pay[w].act = {} /\ demoted' = demoted
  BY Disjoint DEF Persist, CourseInv, OnCourse, ViewInv, TypeOK, history
<1>1. frame' = [pay[w] EXCEPT !.seq = frame.seq + 1]
  BY DEF Persist
<1>2. /\ frame'.canc = pay[w].canc /\ frame'.comp = pay[w].comp /\ frame'.fail = pay[w].fail
      /\ frame'.act = {} /\ frame'.pend = pay[w].pend /\ frame'.seq = frame.seq + 1
  BY <1>0, <1>1 DEF Payload
<1>3. Tidy(frame') /\ Retains(frame', frame)
  BY <1>0, <1>2 DEF Follows, Retains, Tidy, Open
<1>4. rec' = rec /\ (rec # None => rec.seq <= frame.seq /\ rec.seq \in Nat) /\ frame.seq \in Nat
  BY SeqTyped DEF Persist, CourseInv, ViewInv, SeqBounded, Within, Undisturbed
<1>5. Got' = frame'
  BY <1>2, <1>4 DEF Got, Recover
<1>6. Served'
  BY <1>0, <1>2, <1>3, <1>4, <1>5 DEF Served, Follows, Retains
<1>7. pay' = [pay EXCEPT ![w] = frame'] /\ Goto(w, "touch")
  BY DEF Persist
<1>8. pay'[w] = frame' /\ pc'[w] = "touch" /\ pc' = [pc EXCEPT ![w] = "touch"]
  BY <1>0, <1>7 DEF Goto, TypeOK
<1>9. OnCourse(w)'
  BY <1>8 DEF OnCourse
<1> QED
  BY <1>0, <1>3, <1>6, <1>8, <1>9, CourseStep

LEMMA AuditCourse ==
  ASSUME CourseInv, Undisturbed, ViewInv', WorkerGoals', NEW w \in Workers, Audit(w)
  PROVE  CourseInv' /\ Retains(frame', frame)
<1>0. /\ w \in Actors /\ pc[w] = "succeed" /\ Served /\ TypeOK /\ own[w] = frame
      /\ frame \in Payload /\ demoted' = demoted
  BY Disjoint DEF Audit, CourseInv, OnCourse, ViewInv, TypeOK, history
<1>1. frame' = [frame EXCEPT !.seq = @ + 1]
  BY <1>0 DEF Audit
<1>2. /\ frame'.canc = frame.canc /\ frame'.comp = frame.comp /\ frame'.fail = frame.fail
      /\ frame'.act = frame.act /\ frame'.pend = frame.pend /\ frame'.seq = frame.seq + 1
  BY <1>0, <1>1 DEF Payload
<1>3. Tidy(frame') /\ Retains(frame', frame)
  BY <1>0, <1>2 DEF Served, Retains, Tidy, Open
<1>4. rec' = rec /\ (rec # None => rec.seq <= frame.seq /\ rec.seq \in Nat) /\ frame.seq \in Nat
  BY SeqTyped DEF Audit, CourseInv, ViewInv, SeqBounded, Within, Undisturbed
<1>5. Got' = frame'
  BY <1>2, <1>4 DEF Got, Recover
<1>6. Served'
  BY <1>0, <1>2, <1>3, <1>4, <1>5 DEF Served, Follows, Retains
<1>7. pay' = [pay EXCEPT ![w] = frame'] /\ Goto(w, "touch")
  BY DEF Audit
<1>8. pay'[w] = frame' /\ pc'[w] = "touch" /\ pc' = [pc EXCEPT ![w] = "touch"]
  BY <1>0, <1>7 DEF Goto, TypeOK
<1>9. OnCourse(w)'
  BY <1>8 DEF OnCourse
<1> QED
  BY <1>0, <1>3, <1>6, <1>8, <1>9, CourseStep

LEMMA PublishCourse ==
  ASSUME CourseInv, Undisturbed, ViewInv', WorkerGoals', NEW w \in Workers, Publish(w)
  PROVE  CourseInv'
<1>0. /\ w \in Actors /\ pc[w] = "touch" /\ Served /\ TypeOK /\ OnCourse(w)
      /\ frame \in Payload /\ frame.act = {} /\ Tidy(frame) /\ pay[w] = frame
      /\ demoted' = demoted
  BY Disjoint DEF Publish, CourseInv, OnCourse, ViewInv, TypeOK, Served, history
<1>1. goal[w] \in {"release", "reopen", "run", "succeed"}
  BY DEF CourseInv, WorkerGoals
<1>2. [frame EXCEPT !.act = {}] = frame
  BY <1>0 DEF Payload
<1>3. own'[w] = frame
  BY <1>0, <1>2 DEF Publish, TypeOK
<1>4. goal[w] = "reopen" => seed'[w] = frame
  BY <1>0 DEF Publish, TypeOK
<1>5. pc'[w] = goal[w] /\ pc' = [pc EXCEPT ![w] = goal[w]] /\ frame' = frame
  BY <1>0 DEF Publish, Goto, TypeOK
<1>6. Served'
  BY <1>0, <1>5, ServedTouch DEF Publish, Follows, Retains
<1>7. OnCourse(w)'
  BY <1>0, <1>1, <1>3, <1>4, <1>5 DEF OnCourse, Follows, Retains
<1> QED
  BY <1>0, <1>5, <1>6, <1>7, CourseStep

(* Steps that only go elsewhere, or wait no longer. *)
LEMMA LeaveCourse ==
  ASSUME CourseInv, Undisturbed, ViewInv', WorkerGoals', NEW w \in Workers,
         \/ Schedule(w) \/ StartFails(w) \/ Release(w) \/ Raise(w)
         \/ StaleHandoff(w) \/ Wake(w)
  PROVE  CourseInv'
<1>0. w \in Actors /\ pc[w] # "free" /\ Served /\ TypeOK /\ OnCourse(w)
  BY Disjoint DEF Schedule, StartFails, Release, Raise, InTry, StaleHandoff, Wake,
     CourseInv, ViewInv, TypeOK
<1>1. frame' = frame /\ (Lookup \/ rec' = rec) /\ demoted' = demoted
  BY DEF Schedule, StartFails, Release, Raise, StaleHandoff, Wake, history
<1>2. Served'
  BY <1>0, <1>1, ServedOn
<1>3. CASE Wake(w)
  <2>1. pc' = [pc EXCEPT ![w] = pc[w]] /\ pc'[w] = pc[w]
    BY <1>0, <1>3 DEF Wake, TypeOK
  <2>2. seed' = seed /\ own' = own /\ batch' = batch /\ todo' = todo /\ pay' = pay
    BY <1>3 DEF Wake
  <2>3. OnCourse(w)'
    BY <1>0, <1>1, <2>1, <2>2 DEF OnCourse, Follows, Retains
  <2> QED
    BY <1>0, <1>2, <2>1, <2>3, CourseStep
<1>4. CASE Schedule(w) \/ StartFails(w) \/ Release(w) \/ Raise(w) \/ StaleHandoff(w)
  <2>1. \/ Goto(w, "free") \/ Goto(w, "except") \/ Goto(w, "release")
        \/ Goto(w, "start") /\ pc[w] = "handoff" /\ seed' = seed
        \/ Goto(w, "handoff") /\ pc[w] = "reopen" /\ seed' = seed
    <3>1. CASE Schedule(w)
      BY <3>1 DEF Schedule, local
    <3>2. CASE StartFails(w) \/ Raise(w) \/ StaleHandoff(w)
      BY <3>2 DEF StartFails, Raise, StaleHandoff
    <3>3. CASE Release(w)
      BY <3>3 DEF Release, local
    <3> QED
      BY <1>4, <3>1, <3>2, <3>3
  <2>2. PICK where : /\ \/ where \in {"free", "except", "release"}
                        \/ where \in {"start", "handoff"} /\ pc[w] \in {"handoff", "reopen"} /\ seed' = seed
                     /\ Goto(w, where)
    BY <2>1
  <2>3. pc'[w] = where /\ pc' = [pc EXCEPT ![w] = where]
    BY <1>0, <2>2 DEF Goto, TypeOK
  <2>4. OnCourse(w)'
    BY <1>0, <1>1, <2>2, <2>3 DEF OnCourse
  <2> QED
    BY <1>0, <1>2, <2>3, <2>4, CourseStep
<1> QED
  BY <1>3, <1>4

LEMMA NextCourse == CourseInv /\ [Next]_vars => CourseInv'
<1> SUFFICES ASSUME CourseInv, [Next]_vars PROVE CourseInv'
  OBVIOUS
<1>0. ViewInv' /\ WorkerGoals' /\ TypeOK
  BY NextView, GoalsOn DEF CourseInv, ViewInv
<1>1. CASE ~Undisturbed'
  BY <1>0, <1>1 DEF CourseInv
<1>2. CASE Undisturbed'
  <2>1. Undisturbed
    BY <1>2, DisturbedStays DEF CourseInv
  <2>2. Served /\ Alone /\ \A w \in Workers : OnCourse(w)
    BY <2>1 DEF CourseInv
  <2>3. CASE \E w \in Workers : WorkerStep(w) \/ Wake(w) \/ StartFails(w) \/ Raise(w)
    BY <1>0, <2>1, <2>3, StartCourse, TopCourse, RunCourse, PreflightCourse, ReportCourse,
       SettleCourse, WaveCourse, SucceedCourse, PersistCourse, AuditCourse, PublishCourse,
       LeaveCourse DEF WorkerStep
  <2>4. CASE Poll \/ Expire
    <3>1. /\ frame' = frame /\ pc' = pc /\ UNCHANGED local /\ demoted' = demoted
          /\ rec' = frame \/ rec' = None
      BY <2>4 DEF Poll, Expire, history
    <3>2. Served'
      BY <1>0, <2>2, <3>1, ServedOn
    <3>3. Alone' /\ \A w \in Workers : OnCourse(w)'
      BY <2>2, <3>1 DEF Alone, OnCourse, Follows, Retains, local
    <3> QED
      BY <1>0, <3>2, <3>3 DEF CourseInv
  <2>5. CASE Restart
    <3>1. /\ frame' = frame /\ rec' = None /\ demoted' = demoted
          /\ \A w \in Workers : pc'[w] = "free"
      BY <2>5, Disjoint DEF Restart, history
    <3>2. Served'
      BY <1>0, <2>2, <3>1, ServedOn
    <3>3. Alone' /\ \A w \in Workers : OnCourse(w)'
      BY <3>1 DEF Alone, OnCourse
    <3> QED
      BY <1>0, <3>2, <3>3 DEF CourseInv
  <2>6. CASE Idle \/ UNCHANGED vars
    <3>1. frame' = frame /\ pc' = pc /\ UNCHANGED local /\ rec' = rec /\ demoted' = demoted
      BY <2>6 DEF Idle, vars, local, history
    <3>2. Served'
      BY <1>0, <2>2, <3>1, ServedOn
    <3>3. Alone' /\ \A w \in Workers : OnCourse(w)'
      BY <2>2, <3>1 DEF Alone, OnCourse, Follows, Retains, local
    <3> QED
      BY <1>0, <3>2, <3>3 DEF CourseInv
  <2> QED
    BY <1>2, <2>3, <2>4, <2>5, <2>6, ClientsDisturb DEF Next, CourseInv
<1> QED
  BY <1>1, <1>2

LEMMA InitCourse == Init => CourseInv
<1> SUFFICES ASSUME Init PROVE CourseInv
  OBVIOUS
<1>1. PICK w \in Workers :
        pc = [p \in Actors |-> IF p = w THEN "handoff" ELSE IF p \in Workers THEN "free" ELSE "new"]
  BY DEF Init
<1>2. pc[w] = "handoff" /\ \A v \in Workers : v # w => pc[v] = "free"
  BY <1>1, Disjoint
<1>3. Alone
  BY <1>2 DEF Alone
<1>4. Tidy(First) /\ First.act = {}
  BY DEF Tidy, Open, First
<1>5. Got = First
  BY DEF Init, Got, Recover
<1>6. Served
  BY <1>4, <1>5 DEF Init, Served, Follows, Retains
<1>7. seed[w] = frame
  BY Disjoint DEF Init
<1>8. \A v \in Workers : OnCourse(v)
  BY <1>2, <1>7 DEF OnCourse
<1>9. WorkerGoals
  BY Disjoint DEF Init, WorkerGoals
<1> QED
  BY <1>3, <1>6, <1>8, <1>9, InitView DEF CourseInv

(* Only two kinds of steps write a frame. *)
LEMMA FrameWritten ==
  ASSUME [Next]_vars
  PROVE  frame' = frame \/ (\E p \in Actors : Persist(p)) \/ \E w \in Workers : Audit(w)
<1>1. CASE \E w \in Workers : WorkerStep(w) \/ Wake(w) \/ StartFails(w) \/ Raise(w)
  <2>1. PICK w \in Workers : WorkerStep(w) \/ Wake(w) \/ StartFails(w) \/ Raise(w)
    BY <1>1
  <2>2. CASE Persist(w) \/ Audit(w)
    BY <2>2, Disjoint
  <2>3. CASE Schedule(w) \/ Start(w) \/ StaleHandoff(w) \/ Top(w)
    BY <2>3 DEF Schedule, Start, StaleHandoff, Top
  <2>4. CASE Run(w) \/ Sleep(w) \/ Preflight(w) \/ Report(w) \/ Reported(w)
    BY <2>4 DEF Run, Sleep, Preflight, Report, Reported
  <2>5. CASE Collect(w) \/ Settle(w) \/ Wave(w) \/ Publish(w)
    BY <2>5 DEF Collect, Settle, Wave, Publish
  <2>6. CASE Succeed(w) \/ Release(w) \/ Except(w)
    BY <2>6 DEF Succeed, Release, Except
  <2>7. CASE Wake(w) \/ StartFails(w) \/ Raise(w)
    BY <2>7 DEF Wake, StartFails, Raise
  <2> QED
    BY <2>1, <2>2, <2>3, <2>4, <2>5, <2>6, <2>7 DEF WorkerStep
<1>2. CASE \E c \in Controls : ControlStep(c)
  BY <1>2, Disjoint DEF ControlStep, Control, Publish, Reply
<1>3. CASE \E r \in Retries : RetryStep(r) \/ Abort(r)
  BY <1>3, Disjoint DEF RetryStep, Abort, Retry, Claim, Publish, Spawn
<1>4. CASE Poll \/ Expire \/ Restart \/ Idle \/ UNCHANGED vars
  BY <1>4 DEF Poll, Expire, Restart, Idle, vars
<1>5. CASE \E p \in Actors : Unwritten(p)
  BY <1>5 DEF Unwritten
<1> QED
  BY <1>1, <1>2, <1>3, <1>4, <1>5 DEF Next

LEMMA FrameFollows ==
  ASSUME CourseInv, [Next]_vars, Undisturbed
  PROVE  frame.comp \subseteq frame'.comp \cup demoted'
<1>0. ViewInv' /\ WorkerGoals' /\ demoted \subseteq demoted'
  BY NextView, GoalsOn, KnownStays DEF CourseInv
<1>1. CASE frame' = frame
  BY <1>1
<1>2. CASE \E w \in Workers : Persist(w)
  BY <1>0, <1>2, PersistCourse DEF Retains
<1>3. CASE \E w \in Workers : Audit(w)
  BY <1>0, <1>3, AuditCourse DEF Retains
<1>4. \A p \in Clients : ~Persist(p)
  BY DEF Persist, Undisturbed
<1> QED
  BY <1>1, <1>2, <1>3, <1>4, FrameWritten DEF Actors

\* Unless a client intervenes or an append fails, no frame takes a fulfilled
\* branch back that keeps its contract, not even one that a worker or its
\* exception handler writes after a lost record or a restart
\* (complete_response_late_fill, its except block, and the reads of
\* get_response_lookup_record they start from).
THEOREM FulfilledIsKept == Spec => FulfilledStays
<1>1. Spec => []CourseInv
  BY InitCourse, NextCourse, PTL DEF Spec
<1>2. CourseInv /\ [Next]_vars
        => [Undisturbed => frame.comp \subseteq frame'.comp \cup demoted']_vars
  BY FrameFollows
<1> QED
  BY <1>1, <1>2, PTL DEF Spec, FulfilledStays

-----------------------------------------------------------------------------
(* What the request owes stays in the lists, or broke its contract.        *)

Owes(s) == Owed \subseteq Listed(s) \cup demoted

CarriesOwed(w) ==
    /\ pc[w] # "except"
    /\ pc[w] \in {"top", "run", "preflight", "execute", "report", "settle"} => Owes(own[w])
    /\ pc[w] = "persist" => Owes(pay[w])
    /\ pc[w] \in {"persist", "touch"} /\ goal[w] = "succeed" => pay[w].pend \subseteq demoted
    /\ pc[w] = "succeed" => own[w].pend \subseteq demoted

AllOwed == Owes(frame) /\ \A w \in Workers : CarriesOwed(w)

OwedInv == CourseInv /\ left["faults"] <= MaxFaults /\ (Untouched => AllOwed)

LEMMA OwedStep ==
  ASSUME CourseInv, Undisturbed, AllOwed, NEW w \in Workers, pc[w] # "free",
         NEW where, pc' = [pc EXCEPT ![w] = where], Owes(frame)', CarriesOwed(w)'
  PROVE  AllOwed'
<1>1. DOMAIN pc = Actors /\ \A v \in Workers : v \in Actors
  BY Disjoint DEF CourseInv, ViewInv, TypeOK
<1>2. \A v \in Workers : v # w => pc[v] = "free" /\ pc'[v] = "free"
  BY <1>1 DEF CourseInv, Alone
<1>3. \A v \in Workers : v # w => CarriesOwed(v)'
  BY <1>2 DEF CarriesOwed
<1> QED
  BY <1>3 DEF AllOwed

LEMMA ConcludeOwed ==
  ASSUME CourseInv, Undisturbed, AllOwed, NEW w \in Workers, pc[w] # "free",
         NEW s \in Payload, Conclude(w, s), Open(s) = {}, Owes(s), frame' = frame
  PROVE  AllOwed'
<1>0. TypeOK /\ Owes(frame)
  BY DEF CourseInv, ViewInv, AllOwed
<1>1. PICK unmet \in SUBSET (s.comp \cap Inspected), repairs \in SUBSET Branches :
           /\ repairs \cap Listed(s) = {} /\ demoted' = demoted \cup unmet
           /\ pay'[w].act = {} /\ pay'[w].canc = s.canc /\ pay'[w].fail = s.fail
           /\ pay'[w].comp = s.comp \ unmet
           /\ pay'[w].pend = (IF repairs = {} THEN unmet ELSE repairs)
           /\ goal'[w] = (IF repairs = {} THEN "succeed" ELSE "reopen")
           /\ pc' = [pc EXCEPT ![w] = "persist"] /\ pc'[w] = "persist"
  BY <1>0, ConcludeMakes
<1>2. Owed \subseteq Listed(pay'[w]) \cup demoted'
  BY <1>1 DEF Owes, Listed, Over
<1>3. goal'[w] = "succeed" => pay'[w].pend \subseteq demoted'
  BY <1>1
<1>4. Owes(frame)'
  BY <1>0, <1>1 DEF Owes
<1>5. CarriesOwed(w)'
  BY <1>1, <1>2, <1>3 DEF CarriesOwed, Owes
<1> QED
  BY <1>1, <1>4, <1>5, OwedStep

LEMMA StartOwed ==
  ASSUME CourseInv, Undisturbed, AllOwed, NEW w \in Workers, Start(w)
  PROVE  AllOwed'
<1>0. /\ w \in Actors /\ pc[w] = "start" /\ seed[w] = frame /\ TypeOK
      /\ frame \in Payload /\ Tidy(frame) /\ frame.act = {} /\ Owes(frame)
  BY Disjoint DEF Start, CourseInv, OnCourse, ViewInv, TypeOK, Served, AllOwed
<1>1. Got = frame
  BY <1>0 DEF CourseInv, Alone, ViewInv, ViewOwed, Settled, Unpublished, Undisturbed
<1>2. Base(w) = frame
  BY <1>0, <1>1 DEF Base
<1>3. \A want \in Wanted(w) : Owed \subseteq want \cup frame.comp \cup frame.fail \cup demoted
  <2>1. Owed \subseteq frame.pend \cup frame.comp \cup frame.fail \cup demoted
    BY <1>0 DEF Owes, Listed, Open, Over, Tidy
  <2>2. Owed \subseteq Extracted(frame) \cup frame.comp \cup frame.fail \cup demoted
    BY <2>1 DEF Extracted, Graph
  <2> QED
    BY <1>0, <1>2, <2>1, <2>2 DEF Wanted
<1> DEFINE base == Base(w)
           rest(want) == want \ (base.comp \cup base.fail \cup base.canc)
           own1(p, f) == [base EXCEPT !.pend = p \ f,
                                      !.act = {},
                                      !.comp = (@ \ (base.fail \cup base.canc)) \cup f,
                                      !.again = (@ \cup seed[w].again) \cap p]
<1>4. PICK want \in Wanted(w) :
        \E found \in SUBSET (rest(want) \cap Present) :
          /\ own' = [own EXCEPT ![w] = own1(rest(want), found)]
          /\ IF own1(rest(want), found).pend = {}
             THEN Conclude(w, own1(rest(want), found))
             ELSE Goto(w, "top") /\ UNCHANGED <<pay, goal, demoted>>
  BY DEF Start
<1>5. PICK found \in SUBSET (rest(want) \cap Present) :
          /\ own' = [own EXCEPT ![w] = own1(rest(want), found)]
          /\ IF own1(rest(want), found).pend = {}
             THEN Conclude(w, own1(rest(want), found))
             ELSE Goto(w, "top") /\ UNCHANGED <<pay, goal, demoted>>
  BY <1>4
<1> DEFINE mine == own1(rest(want), found)
<1>6. /\ mine.pend = rest(want) \ found /\ mine.fail = frame.fail /\ mine.act = {}
      /\ mine.comp = (frame.comp \ (frame.fail \cup frame.canc)) \cup found
      /\ mine.canc = frame.canc
  <2> HIDE DEF rest
  <2> QED
    BY <1>0, <1>2 DEF Payload
<1>7. rest(want) = want \ (frame.comp \cup frame.fail \cup frame.canc)
  BY <1>2
<1>8. /\ own' = [own EXCEPT ![w] = mine]
      /\ \/ mine.pend = {} /\ Conclude(w, mine)
         \/ Goto(w, "top") /\ UNCHANGED <<pay, goal, demoted>>
  BY <1>5
<1>9. Owed \subseteq want \cup frame.comp \cup frame.fail \cup demoted
  BY <1>3
<1>10. mine \in Payload
  BY <1>0, <1>8, NextTyped DEF Next, WorkerStep, TypeOK
<1> HIDE DEF mine, rest
<1>11. Owes(mine)
  BY <1>0, <1>6, <1>7, <1>9 DEF Owes, Listed, Open, Over, Tidy
<1>12. own'[w] = mine /\ frame' = frame
  BY <1>0, <1>8 DEF TypeOK, Start
<1>13. CASE mine.pend = {} /\ Conclude(w, mine)
  <2>1. Open(mine) = {}
    BY <1>6, <1>13 DEF Open
  <2> QED
    BY <1>0, <1>10, <1>11, <1>12, <1>13, <2>1, ConcludeOwed
<1>14. CASE Goto(w, "top") /\ UNCHANGED <<pay, goal, demoted>>
  <2>1. pc'[w] = "top" /\ pc' = [pc EXCEPT ![w] = "top"]
    BY <1>0, <1>14 DEF Goto, TypeOK
  <2>2. CarriesOwed(w)' /\ Owes(frame)'
    BY <1>0, <1>11, <1>12, <1>14, <2>1 DEF CarriesOwed, Owes
  <2> QED
    BY <1>0, <2>1, <2>2, OwedStep
<1> QED
  BY <1>8, <1>13, <1>14

LEMMA LoopOwed ==
  ASSUME CourseInv, Undisturbed, AllOwed, NEW w \in Workers,
         \/ Top(w) \/ Run(w) \/ Sleep(w) \/ Preflight(w)
         \/ Report(w) \/ Reported(w) \/ Collect(w)
  PROVE  AllOwed'
<1>0. w \in Actors /\ pc[w] \in {"top", "run", "preflight", "execute", "report"}
  BY Disjoint DEF Top, Run, Sleep, Preflight, Report, Reported, Collect
<1>1. Served /\ TypeOK /\ OnCourse(w) /\ Owes(own[w]) /\ Owes(frame)
  BY <1>0 DEF CourseInv, ViewInv, AllOwed, CarriesOwed
<1>2. own[w] \in Payload /\ Got.canc = {} /\ own[w].canc = {}
  BY <1>0, <1>1, GotFollows DEF OnCourse, TypeOK, Follows, Tidy
<1>3. frame' = frame
  BY DEF Top, Run, Sleep, Preflight, Report, Reported, Collect
<1>4. CASE Top(w)
  <2> DEFINE mine == [own[w] EXCEPT !.seq = Got.seq, !.canc = Got.canc, !.pend = @ \ (own[w].pend \cap Got.canc)]
  <2>1. own' = [own EXCEPT ![w] = mine] /\ Goto(w, "run") /\ demoted' = demoted
    BY <1>2, <1>4 DEF Top
  <2>2. /\ mine.pend = own[w].pend /\ mine.act = own[w].act /\ mine.canc = own[w].canc
        /\ mine.comp = own[w].comp /\ mine.fail = own[w].fail
    BY <1>2 DEF Payload
  <2> HIDE DEF mine
  <2>3. Owes(mine)
    BY <1>1, <2>2 DEF Owes, Listed, Open, Over
  <2>4. own'[w] = mine /\ pc'[w] = "run" /\ pc' = [pc EXCEPT ![w] = "run"]
    BY <1>0, <1>1, <2>1 DEF TypeOK, Goto
  <2>5. CarriesOwed(w)' /\ Owes(frame)'
    BY <1>1, <1>3, <2>1, <2>3, <2>4 DEF CarriesOwed, Owes
  <2> QED
    BY <1>0, <2>4, <2>5, OwedStep
<1>5. CASE Preflight(w)
  <2>1. PICK found : /\ own' = [own EXCEPT ![w].comp = @ \cup found, ![w].fail = @ \ found]
                     /\ Goto(w, "execute") /\ demoted' = demoted
    BY <1>5 DEF Preflight, history
  <2>2. /\ own'[w].comp = own[w].comp \cup found /\ own'[w].fail = own[w].fail \ found
        /\ own'[w].canc = own[w].canc /\ own'[w].act = own[w].act /\ own'[w].pend = own[w].pend
    BY <1>0, <1>1, <1>2, <2>1 DEF TypeOK, Payload
  <2>3. Owed \subseteq Listed(own'[w]) \cup demoted'
    BY <1>1, <2>1, <2>2 DEF Owes, Listed, Open, Over
  <2>4. pc'[w] = "execute" /\ pc' = [pc EXCEPT ![w] = "execute"]
    BY <1>0, <1>1, <2>1 DEF TypeOK, Goto
  <2>5. CarriesOwed(w)' /\ Owes(frame)'
    BY <1>1, <1>3, <2>1, <2>3, <2>4 DEF CarriesOwed, Owes
  <2> QED
    BY <1>0, <2>4, <2>5, OwedStep
<1>6. CASE Run(w) \/ Sleep(w) \/ Report(w) \/ Reported(w) \/ Collect(w)
  <2>1. PICK where \in {"top", "preflight", "execute", "report", "settle"} :
          pc' = [pc EXCEPT ![w] = where]
    BY <1>6 DEF Run, Sleep, Report, Reported, Collect, Goto
  <2>2. own' = own /\ pc'[w] = where /\ demoted' = demoted
    BY <1>0, <1>1, <1>6, <2>1 DEF Run, Sleep, Report, Reported, Collect, TypeOK, local, history
  <2>3. CarriesOwed(w)' /\ Owes(frame)'
    BY <1>1, <1>3, <2>2 DEF CarriesOwed, Owes
  <2> QED
    BY <1>0, <2>1, <2>3, OwedStep
<1> QED
  BY <1>4, <1>5, <1>6

LEMMA SettleOwed ==
  ASSUME CourseInv, Undisturbed, AllOwed, NEW w \in Workers, Settle(w) \/ Wave(w)
  PROVE  AllOwed'
<1>0. w \in Actors /\ pc[w] = "settle"
  BY Disjoint DEF Settle, Wave
<1>1. Served /\ TypeOK /\ OnCourse(w) /\ Owes(own[w]) /\ Owes(frame)
  BY <1>0 DEF CourseInv, ViewInv, AllOwed, CarriesOwed
<1>2. own[w] \in Payload /\ Got.canc = {} /\ own[w].canc = {} /\ own[w].act = {}
  BY <1>0, <1>1, GotFollows DEF OnCourse, TypeOK
<1>3. frame' = frame
  BY DEF Settle, Wave
<1>4. CASE Settle(w)
  <2> DEFINE mine == [own[w] EXCEPT !.canc = Got.canc]
  <2>1. /\ mine \in Payload /\ mine.canc = {} /\ mine.act = {} /\ mine.pend = own[w].pend
        /\ mine.comp = own[w].comp /\ mine.fail = own[w].fail
    BY <1>1, <1>2, GotTyped DEF Payload
  <2>2. PICK b : \/ own' = [own EXCEPT ![w] = mine]
                 \/ own' = [own EXCEPT ![w] = [mine EXCEPT !.comp = @ \cup {b}]]
                 \/ own' = [own EXCEPT ![w] = [mine EXCEPT !.fail = @ \cup {b}]]
                 \/ \E attempts \in {mine.again, mine.again \ {b}} :
                      own' = [own EXCEPT ![w] = [mine EXCEPT !.again = attempts]]
    BY <1>4 DEF Settle
  <2> HIDE DEF mine
  <2>3. \/ own'[w] = mine \/ own'[w] = [mine EXCEPT !.comp = @ \cup {b}]
        \/ own'[w] = [mine EXCEPT !.fail = @ \cup {b}]
        \/ \E attempts : own'[w] = [mine EXCEPT !.again = attempts]
    BY <1>0, <1>1, <2>2 DEF TypeOK
  <2>4. /\ own'[w].pend = own[w].pend /\ own[w].comp \subseteq own'[w].comp
        /\ own[w].fail \subseteq own'[w].fail
    BY <2>1, <2>3 DEF Payload
  <2>5. Owed \subseteq Listed(own'[w]) \cup demoted
    <3>1. Listed(own[w]) = own[w].pend \cup own[w].comp \cup own[w].fail
      BY <1>2 DEF Listed, Open, Over
    <3>2. Listed(own[w]) \subseteq Listed(own'[w])
      BY <2>4, <3>1 DEF Listed, Open, Over
    <3> QED
      BY <1>1, <3>2 DEF Owes
  <2>60. pc' = pc /\ demoted' = demoted
    BY <1>4 DEF Settle, history
  <2>6. pc' = [pc EXCEPT ![w] = "settle"] /\ pc'[w] = "settle" /\ demoted' = demoted
    BY <1>0, <1>1, <2>60 DEF TypeOK
  <2>7. CarriesOwed(w)' /\ Owes(frame)'
    BY <1>1, <1>3, <2>5, <2>6 DEF CarriesOwed, Owes
  <2> QED
    BY <1>0, <2>6, <2>7, OwedStep
<1>5. CASE Wave(w)
  <2> DEFINE mine == [own[w] EXCEPT !.pend = Remaining(w)]
  <2>1. /\ mine \in Payload /\ mine.canc = {} /\ mine.act = {}
        /\ mine.comp = own[w].comp /\ mine.fail = own[w].fail
        /\ mine.pend = own[w].pend \ (own[w].comp \cup own[w].fail \cup own[w].canc)
    BY <1>2 DEF Payload, Remaining
  <2>2. /\ own' = [own EXCEPT ![w] = mine]
        /\ \/ mine.pend = {} /\ Conclude(w, mine)
           \/ Goto(w, "top") /\ UNCHANGED <<pay, goal, demoted>>
    BY <1>5 DEF Wave
  <2> HIDE DEF mine
  <2>3. Owes(mine) /\ own'[w] = mine
    BY <1>0, <1>1, <1>2, <2>1, <2>2 DEF Owes, Listed, Open, Over, TypeOK
  <2>4. CASE mine.pend = {} /\ Conclude(w, mine)
    <3>1. Open(mine) = {}
      BY <2>1, <2>4 DEF Open
    <3> QED
      BY <1>0, <1>3, <2>1, <2>3, <2>4, <3>1, ConcludeOwed
  <2>5. CASE Goto(w, "top") /\ UNCHANGED <<pay, goal, demoted>>
    <3>1. pc'[w] = "top" /\ pc' = [pc EXCEPT ![w] = "top"]
      BY <1>0, <1>1, <2>5 DEF Goto, TypeOK
    <3>2. CarriesOwed(w)' /\ Owes(frame)'
      BY <1>1, <1>3, <2>3, <2>5, <3>1 DEF CarriesOwed, Owes
    <3> QED
      BY <1>0, <3>1, <3>2, OwedStep
  <2> QED
    BY <2>2, <2>4, <2>5
<1> QED
  BY <1>4, <1>5

LEMMA PersistOwed ==
  ASSUME CourseInv, Undisturbed, AllOwed, NEW w \in Workers,
         Persist(w) \/ Publish(w) \/ Audit(w)
  PROVE  AllOwed'
<1>0. w \in Actors /\ pc[w] \in {"persist", "touch", "succeed"} /\ demoted' = demoted
  BY Disjoint DEF Persist, Publish, Audit, history
<1>1. Served /\ TypeOK /\ OnCourse(w) /\ CarriesOwed(w) /\ Owes(frame) /\ WorkerGoals
  BY <1>0 DEF CourseInv, ViewInv, AllOwed
<1>2. frame \in Payload /\ pay[w] \in Payload /\ own[w] \in Payload /\ frame.act = {}
  BY <1>0, <1>1 DEF TypeOK, Served
<1>3. CASE Persist(w)
  <2>1. frame' = [pay[w] EXCEPT !.seq = frame.seq + 1] /\ Owes(pay[w])
    BY <1>1, <1>3 DEF Persist, CarriesOwed
  <2>2. Owes(frame)' /\ frame'.pend = pay[w].pend
    BY <1>0, <1>2, <2>1 DEF Owes, Listed, Open, Over, Payload
  <2>3. /\ pc'[w] = "touch" /\ pc' = [pc EXCEPT ![w] = "touch"]
        /\ pay'[w] = frame' /\ goal' = goal
    BY <1>0, <1>1, <1>3 DEF Persist, Goto, TypeOK
  <2>4. goal[w] = "succeed" => pay[w].pend \subseteq demoted
    BY <1>1, <1>3 DEF Persist, CarriesOwed
  <2>5. CarriesOwed(w)'
    BY <1>0, <2>2, <2>3, <2>4 DEF CarriesOwed
  <2> QED
    BY <1>0, <2>2, <2>3, <2>5, OwedStep
<1>4. CASE Publish(w)
  <2>1. goal[w] \in {"release", "reopen", "run", "succeed"}
    BY <1>1 DEF WorkerGoals
  <2>2. pay[w] = frame /\ [frame EXCEPT !.act = {}] = frame
    BY <1>1, <1>2, <1>4 DEF Publish, OnCourse, Payload
  <2>3. own'[w] = frame /\ frame' = frame
    BY <1>0, <1>1, <1>4, <2>2 DEF Publish, TypeOK
  <2>4. pc'[w] = goal[w] /\ pc' = [pc EXCEPT ![w] = goal[w]]
    BY <1>0, <1>1, <1>4 DEF Publish, Goto, TypeOK
  <2>5. goal[w] = "succeed" => frame.pend \subseteq demoted
    BY <1>1, <1>4, <2>2 DEF Publish, CarriesOwed
  <2>6. CarriesOwed(w)' /\ Owes(frame)'
    BY <1>0, <1>1, <2>1, <2>3, <2>4, <2>5 DEF CarriesOwed, Owes
  <2> QED
    BY <1>0, <1>1, <2>4, <2>6, OwedStep
<1>5. CASE Audit(w)
  <2>1. own[w] = frame
    BY <1>1, <1>5 DEF Audit, OnCourse
  <2>2. frame' = [frame EXCEPT !.seq = @ + 1]
    BY <1>5, <2>1 DEF Audit
  <2>3. Owes(frame)'
    BY <1>0, <1>1, <1>2, <2>2 DEF Owes, Listed, Open, Over, Payload
  <2>4. pc'[w] = "touch" /\ pc' = [pc EXCEPT ![w] = "touch"] /\ goal'[w] = "release"
    BY <1>0, <1>1, <1>5 DEF Audit, Goto, TypeOK
  <2>5. CarriesOwed(w)'
    BY <2>4 DEF CarriesOwed
  <2> QED
    BY <1>0, <1>5, <2>3, <2>4, <2>5, OwedStep DEF Audit
<1> QED
  BY <1>3, <1>4, <1>5

LEMMA LeaveOwed ==
  ASSUME CourseInv, Undisturbed, AllOwed, NEW w \in Workers,
         \/ Succeed(w) \/ Schedule(w) \/ StartFails(w) \/ Release(w) \/ StaleHandoff(w) \/ Wake(w)
  PROVE  AllOwed'
<1>0. /\ w \in Actors /\ pc[w] \in {"succeed", "handoff", "release", "reopen", "start", "top", "run", "settle"}
      /\ demoted' = demoted /\ frame' = frame
  BY Disjoint DEF Succeed, Schedule, StartFails, Release, StaleHandoff, Wake, history
<1>1. Served /\ TypeOK /\ OnCourse(w) /\ CarriesOwed(w) /\ Owes(frame)
  BY <1>0 DEF CourseInv, ViewInv, AllOwed
<1>2. frame \in Payload /\ own[w] \in Payload /\ Owes(frame)'
  BY <1>0, <1>1 DEF TypeOK, Owes
<1>3. CASE Succeed(w)
  <2>1. own[w] = frame /\ frame.pend \subseteq demoted
    BY <1>1, <1>3 DEF Succeed, OnCourse, CarriesOwed
  <2>2. CASE Goto(w, "release")
    <3>1. pc'[w] = "release" /\ pc' = [pc EXCEPT ![w] = "release"]
      BY <1>0, <1>1, <2>2 DEF Goto, TypeOK
    <3>2. CarriesOwed(w)'
      BY <3>1 DEF CarriesOwed
    <3> QED
      BY <1>0, <1>2, <3>1, <3>2, OwedStep
  <2>3. CASE Prepare(w, [own[w] EXCEPT !.pend = Later], "reopen")
    <3> DEFINE s == [frame EXCEPT !.pend = Later]
    <3>1. Owed \subseteq Listed(s) \cup demoted
      BY <1>1, <1>2, <2>1 DEF Owes, Listed, Open, Over, Payload
    <3>2. /\ pay'[w] = s /\ pc'[w] = "persist" /\ goal'[w] = "reopen"
          /\ pc' = [pc EXCEPT ![w] = "persist"]
      BY <1>0, <1>1, <2>1, <2>3 DEF Prepare, Goto, TypeOK
    <3> HIDE DEF s
    <3>3. CarriesOwed(w)'
      BY <1>0, <3>1, <3>2 DEF CarriesOwed, Owes
    <3> QED
      BY <1>0, <1>2, <3>2, <3>3, OwedStep
  <2> QED
    BY <1>3, <2>2, <2>3 DEF Succeed
<1>4. CASE Schedule(w) \/ StartFails(w) \/ Release(w) \/ StaleHandoff(w)
  <2>1. PICK where \in {"free", "start", "handoff", "release"} : pc' = [pc EXCEPT ![w] = where]
    BY <1>4 DEF Schedule, StartFails, Release, StaleHandoff, Goto
  <2>2. pc'[w] = where /\ pc[w] # "free"
    BY <1>0, <1>1, <2>1 DEF TypeOK
  <2>3. CarriesOwed(w)'
    BY <2>2 DEF CarriesOwed
  <2> QED
    BY <1>2, <2>1, <2>2, <2>3, OwedStep
<1>5. CASE Wake(w)
  <2>1. pc' = [pc EXCEPT ![w] = pc[w]] /\ pc'[w] = pc[w] /\ own' = own
    BY <1>0, <1>1, <1>5 DEF Wake, TypeOK
  <2>2. CarriesOwed(w)'
    BY <1>0, <1>1, <1>5, <2>1 DEF CarriesOwed, Owes, Wake
  <2> QED
    BY <1>0, <1>2, <2>1, <2>2, OwedStep
<1> QED
  BY <1>3, <1>4, <1>5

(* Faults are only ever spent, and Raise spends one. *)
LEMMA FaultsSpent ==
  ASSUME TypeOK, [Next]_vars
  PROVE  /\ left'["faults"] \in {left["faults"], left["faults"] - 1}
         /\ (\E w \in Workers : Raise(w)) => left'["faults"] = left["faults"] - 1
         /\ left["faults"] \in Nat
<1>0. left \in [{"requeues", "faults", "losses", "starts", "appends"} -> Nat]
  BY DEF TypeOK
<1>1. ASSUME NEW what \in {"requeues", "faults", "losses", "starts", "appends"}, Spend(what)
      PROVE  left'["faults"] = IF what = "faults" THEN left["faults"] - 1 ELSE left["faults"]
  BY <1>0, <1>1 DEF Spend
<1>2. (\E v \in Workers : Raise(v)) => Spend("faults")
  BY DEF Raise
<1>3. CASE \E w \in Workers : WorkerStep(w) \/ Wake(w) \/ StartFails(w) \/ Raise(w)
  <2>1. PICK w \in Workers : WorkerStep(w) \/ Wake(w) \/ StartFails(w) \/ Raise(w)
    BY <1>3
  <2>2. left' = left \/ Spend("requeues") \/ Spend("starts") \/ Spend("faults")
    BY <2>1 DEF WorkerStep, Wake, StartFails, Raise, Schedule, Start, StaleHandoff, Top, Run, Sleep,
       Preflight, Report, Reported, Collect, Settle, Wave, Publish, Persist, Succeed, Audit, Release,
       Except
  <2> QED
    BY <1>0, <1>1, <1>2, <2>2
<1>4. CASE \E c \in Controls : ControlStep(c)
  <2>1. left' = left
    BY <1>4 DEF ControlStep, Control, Publish, Persist, Reply
  <2> QED
    BY <1>0, <1>1, <1>2, <2>1
<1>5. CASE \E r \in Retries : RetryStep(r) \/ Abort(r)
  <2>1. left' = left \/ Spend("faults")
    BY <1>5 DEF RetryStep, Abort, Retry, Claim, Publish, Persist, Spawn
  <2> QED
    BY <1>0, <1>1, <1>2, <2>1
<1>6. CASE (\E p \in Actors : Unwritten(p)) \/ Poll \/ Expire \/ Restart \/ Idle \/ UNCHANGED vars
  <2>1. left' = left \/ Spend("losses") \/ Spend("appends")
    BY <1>6 DEF Unwritten, Poll, Expire, Restart, Idle, vars
  <2> QED
    BY <1>0, <1>1, <1>2, <2>1
<1> QED
  BY <1>3, <1>4, <1>5, <1>6 DEF Next

LEMMA NextOwed == OwedInv /\ [Next]_vars => OwedInv'
<1> SUFFICES ASSUME OwedInv, [Next]_vars PROVE OwedInv'
  OBVIOUS
<1>0. CourseInv /\ CourseInv' /\ TypeOK /\ MaxFaults \in Nat
  BY NextCourse, LateFillAssumption DEF OwedInv, CourseInv, ViewInv
<1>1. left'["faults"] <= MaxFaults
  BY <1>0, FaultsSpent DEF OwedInv
<1>2. CASE ~Untouched'
  BY <1>0, <1>1, <1>2 DEF OwedInv
<1>3. CASE Untouched'
  <2>1. Undisturbed' /\ Undisturbed
    BY <1>0, <1>3, DisturbedStays DEF Untouched, CourseInv
  <2>2. left'["faults"] = MaxFaults /\ left["faults"] = MaxFaults
    BY <1>0, <1>3, FaultsSpent DEF OwedInv, Untouched
  <2>3. AllOwed
    BY <2>1, <2>2 DEF OwedInv, Untouched
  <2>4. ~ \E w \in Workers : Raise(w)
    BY <1>0, <2>2, FaultsSpent
  <2>5. ~ \E w \in Workers : Except(w)
    BY <2>3 DEF Except, AllOwed, CarriesOwed
  <2>6. CASE \E w \in Workers : WorkerStep(w) \/ Wake(w) \/ StartFails(w) \/ Raise(w)
    <3>1. AllOwed'
      BY <1>0, <2>1, <2>3, <2>4, <2>5, <2>6, StartOwed, LoopOwed, SettleOwed, PersistOwed,
         LeaveOwed DEF WorkerStep
    <3> QED
      BY <1>0, <1>1, <3>1 DEF OwedInv
  <2>7. CASE Poll \/ Expire \/ Idle \/ UNCHANGED vars
    <3>1. frame' = frame /\ pc' = pc /\ UNCHANGED local /\ demoted' = demoted
      BY <2>7 DEF Poll, Expire, Idle, vars, local, history
    <3>2. AllOwed'
      BY <2>3, <3>1 DEF AllOwed, CarriesOwed, Owes, local
    <3> QED
      BY <1>0, <1>1, <3>2 DEF OwedInv
  <2>8. CASE Restart
    <3>1. frame' = frame /\ demoted' = demoted /\ \A w \in Workers : pc'[w] = "free"
      BY <2>8, Disjoint DEF Restart, history
    <3>2. AllOwed'
      BY <2>3, <3>1 DEF AllOwed, CarriesOwed, Owes
    <3> QED
      BY <1>0, <1>1, <3>2 DEF OwedInv
  <2> QED
    BY <1>0, <2>1, <2>6, <2>7, <2>8, ClientsDisturb DEF Next, CourseInv
<1> QED
  BY <1>2, <1>3

LEMMA InitOwed == Init => OwedInv
<1> SUFFICES ASSUME Init PROVE OwedInv
  OBVIOUS
<1>1. Owes(frame)
  BY DEF Init, Owes, Listed, Open, First
<1>2. \A w \in Workers : pc[w] \in {"free", "handoff"}
  BY Disjoint DEF Init
<1>3. AllOwed
  BY <1>1, <1>2 DEF AllOwed, CarriesOwed
<1>4. left["faults"] <= MaxFaults
  BY LateFillAssumption DEF Init
<1> QED
  BY <1>3, <1>4, InitCourse DEF OwedInv

LEMMA OwedListed == OwedInv => NothingForgotten
BY DEF OwedInv, AllOwed, Owes, NothingForgotten

\* As long as nothing failed and no client intervened, every branch the
\* request owes is in one of the lists of the newest frame, or broke its
\* contract, across waves, requeues, waits, successor and repair frames, lost
\* records and restarts (the list updates of complete_response_late_fill).
THEOREM OwedIsListed == Spec => []NothingForgotten
<1>1. Spec => []OwedInv
  BY InitOwed, NextOwed, PTL DEF Spec
<1> QED
  BY <1>1, OwedListed, PTL
-----------------------------------------------------------------------------
(* A single stop request: c is the only request to an endpoint, and there  *)
(* is no retry.  With a second one the property below is false.  No append *)
(* has failed so far, and no saved file has broken its contract, by which  *)
(* a closed branch would be open again.                                    *)

Unspoiled == unsaved = {} /\ demoted = {}

(* A branch that is closed and accounted for; one whose result is refused. *)
Closed(s, b) == b \notin Open(s) /\ b \in Over(s)
Refused(s, b) == b \in s.canc /\ b \notin s.comp

(* No branch is both open and fulfilled. *)
Apart(s) == Open(s) \cap s.comp = {}

Planning == {"top", "run", "preflight"}
Loop == Planning \cup {"execute", "report", "settle"}
Waiting == {"reopen", "handoff", "start"}
Publishing == {"persist", "touch"}

(* The stop has not reached the ledger. *)
Early(c) == pc[c] \in {"new", "persist"}

(* The branches c stops, and those it could still be asked to stop. *)
Stops(c) == stopped \cup batch[c]
Watched(c) == Stops(c) \cup IF pc[c] = "new" THEN Open(Got) \cup Open(frame) ELSE {}

Going(w) == pc[w] \notin {"free", "release", "except"} /\ (pc[w] \in Publishing => goal[w] # "release")

(* How the lists of a worker hang together. *)
Shape(w) ==
    /\ pc[w] \in Loop \cup {"succeed"} => own[w].act = {}
    /\ pc[w] \in Planning => Apart(own[w])
    /\ pc[w] \in {"run", "preflight"} => own[w].pend \cap own[w].canc = {}
    /\ pc[w] \in {"preflight", "execute", "report"} => batch[w] \subseteq own[w].pend
    /\ pc[w] \in {"execute", "report"} => batch[w] \cap own[w].comp = {}
    /\ pc[w] = "report" => Apart(pay[w])
    /\ pc[w] \in Publishing => pay[w].act = {} /\ Apart(pay[w])
    /\ pc[w] \in Publishing /\ goal[w] = "succeed" => pay[w].pend = {}
    /\ pc[w] \in Publishing /\ goal[w] = "run" => pay[w].pend \cap pay[w].canc = {}
    /\ pc[w] \in Waiting => seed[w].act = {}

(* What a worker holds is no further than the newest frame in what it      *)
(* cancels, and level with it if it carries its sequence.                  *)
Level(s) == s.canc \subseteq frame.canc /\ (s.seq = frame.seq => s.canc = frame.canc)

Cancels(w) ==
    /\ pc[w] \in Loop => /\ Level(own[w])
                         /\ own[w].seq = frame.seq => own[w].pend \cap frame.canc = {}
    /\ pc[w] \in Waiting => Level(seed[w])
    /\ pc[w] = "touch" => pay[w].canc \subseteq frame.canc
    /\ pc[w] = "report" => (pay[w].seq = frame.seq => pay[w].canc = frame.canc)
    /\ pc[w] = "succeed" => (own[w].seq = frame.seq => own[w] = frame)

(* Before the stop is in the ledger, nothing is cancelled anywhere. *)
Uncancelled(w) ==
    /\ pc[w] \in Loop \cup {"succeed"} => own[w].canc = {}
    /\ pc[w] = "persist" => pay[w].canc = {}
    /\ pc[w] = "touch" => pay[w] = frame
    /\ pc[w] \in Publishing => goal[w] # "run"
    /\ pc[w] \in Waiting => seed[w] = frame /\ Got = frame

(* Whatever can be stopped is in the lists of the worker. *)
Remembers(c, w) ==
    /\ \A b \in Watched(c) :
         /\ pc[w] \in Loop => b \in Listed(own[w])
         /\ pc[w] \in Waiting => b \in Listed(seed[w])
         /\ pc[w] = "succeed" => Closed(own[w], b)
         /\ pc[w] = "persist" /\ goal[w] # "release" => Closed(pay[w], b)
         /\ pc[w] = "touch" /\ goal[w] = "reopen" => b \in Listed(pay[w])
         /\ pc[w] = "touch" /\ goal[w] \in {"succeed", "run"} => Closed(pay[w], b)
    /\ pc[c] = "new" /\ pc[w] = "report" => Open(pay[w]) \subseteq Listed(own[w])

(* Once the stop is in the ledger, what it stops is open nowhere but in    *)
(* the lists of a worker that the ledger and the record will correct.      *)
Corrected(b) == Refused(frame, b) /\ Refused(Got, b)

Heeds(c, w) == \A b \in Stops(c) :
    /\ Closed(frame, b) /\ Closed(Got, b)
    /\ pc[w] \in Loop /\ b \in own[w].pend => Corrected(b)
    /\ pc[w] \in Waiting => Corrected(b) \/ Closed(seed[w], b)
    /\ pc[w] = "touch" /\ goal[w] = "reopen" => Corrected(b) \/ Closed(pay[w], b)
    /\ pc[w] = "report" /\ pay[w].seq = frame.seq =>
         Closed(pay[w], b) /\ (b \in own[w].pend => Refused(pay[w], b))

(* A result that came too late is nowhere fulfilled. *)
Ignores(w) == \A b \in stale :
    /\ pc[w] \in (Loop \ {"settle"}) \cup {"succeed"} => Refused(own[w], b)
    /\ pc[w] = "settle" => /\ b \notin own[w].comp
                           /\ b \in own[w].canc \/ (todo[w] = batch[w] /\ b \in todo[w])
    /\ pc[w] \in Publishing \cup {"report"} => Refused(pay[w], b)
    /\ pc[w] \in Waiting => Refused(seed[w], b)

Honest(c, w) ==
    /\ Shape(w) /\ Cancels(w) /\ Ignores(w) /\ Remembers(c, w)
    /\ Early(c) => Uncancelled(w)
    /\ ~Early(c) /\ Going(w) => Heeds(c, w)

Stopping(c) ==
    /\ pc[c] \in {"new", "persist", "touch", "reply", "done"}
    /\ pc[c] = "new" => batch[c] = {}
    /\ pc[c] \in Publishing => goal[c] = "reply" /\ Apart(pay[c])
    /\ pc[c] = "persist" => \A b \in batch[c] : Closed(pay[c], b) /\ Refused(pay[c], b)

Stored(c) ==
    /\ Apart(frame) /\ (rec # None => Apart(rec))
    /\ Got.canc = frame.canc
    /\ Early(c) => frame.canc = {} /\ stopped = {}
    /\ stale \subseteq stopped
    /\ \A b \in stale : Corrected(b)

StopInv(c) ==
    /\ Controls = {c} /\ Retries = {}
    /\ ViewInv /\ WorkerGoals /\ Alone /\ Unspoiled
    /\ Stopping(c) /\ Stored(c)
    /\ \A w \in Workers : Honest(c, w)

LEMMA Scene ==
  ASSUME NEW c, StopInv(c), NEW w \in Workers
  PROVE  /\ w \in Actors /\ c \in Actors /\ c # w /\ c \notin Workers /\ Actors = Workers \cup {c}
         /\ TypeOK /\ Stored(c) /\ Stopping(c) /\ Honest(c, w)
         /\ frame \in Payload /\ Got \in Payload /\ Apart(Got)
         /\ own[w] \in Payload /\ pay[w] \in Payload /\ seed[w] \in Payload
<1>1. TypeOK /\ Controls = {c} /\ Retries = {}
  BY DEF StopInv, ViewInv
<1>2. w \in Actors /\ c \in Actors /\ c # w /\ c \notin Workers /\ Actors = Workers \cup {c}
  BY <1>1, LateFillAssumption DEF Actors, Clients
<1>3. Stored(c) /\ Stopping(c) /\ Honest(c, w)
  BY DEF StopInv
<1>4. Apart(Got)
  BY <1>3 DEF Stored, Got, Recover
<1> QED
  BY <1>1, <1>2, <1>3, <1>4, GotTyped DEF TypeOK

(* Reading changes nothing that a lookup serves, losing a record makes it  *)
(* the newest frame.                                                       *)
LEMMA ServesOn ==
  ASSUME Lookup \/ rec' = rec \/ rec' = None \/ rec' = frame, frame' = frame
  PROVE  (Got' = Got \/ Got' = frame) /\ (Lookup \/ rec' = rec => Got' = Got)
BY DEF Lookup, Got, Recover

LEMMA ReadsStop ==
  ASSUME NEW c, StopInv(c), NEW w \in Workers, Lookup \/ rec' = rec, frame' = frame,
         pc'[c] = pc[c], batch'[c] = batch[c], stopped' = stopped, stale' = stale
  PROVE  /\ Stored(c)' /\ Got' = Got
         /\ Watched(c)' = Watched(c) /\ Stops(c)' = Stops(c) /\ Early(c)' = Early(c)
<1>1. Got' = Got
  BY ServesOn
<1>2. Stored(c) /\ Apart(Got)
  BY Scene
<1>3. rec' # None => Apart(rec')
  BY <1>2 DEF Lookup, Stored
<1>4. Watched(c)' = Watched(c) /\ Stops(c)' = Stops(c) /\ Early(c)' = Early(c)
  BY <1>1 DEF Watched, Stops, Early
<1>5. \A b \in stale' : Corrected(b)'
  BY <1>1, <1>2 DEF Stored, Corrected
<1> QED
  BY <1>1, <1>2, <1>3, <1>4, <1>5 DEF Stored

LEMMA TouchesStop ==
  ASSUME NEW c, StopInv(c), NEW w \in Workers, NEW s \in Payload, Touch(s), frame' = frame,
         pc'[c] = pc[c], batch'[c] = batch[c], stopped' = stopped, stale' = stale,
         s.seq <= frame.seq, Apart(s), s.seq = frame.seq => s.canc = frame.canc,
         \A b \in stale : Refused(s, b)
  PROVE  /\ Stored(c)'
         /\ Got' = frame \/ (Got' = s /\ s.seq = frame.seq)
         /\ Watched(c)' \subseteq Watched(c) \cup IF pc[c] = "new" THEN Open(s) ELSE {}
         /\ Stops(c)' = Stops(c) /\ Early(c)' = Early(c)
<1>0. s.seq \in Nat /\ frame.seq \in Nat
  BY Scene DEF Payload
<1>1. Got' = frame \/ (Got' = s /\ s.seq = frame.seq)
  BY <1>0 DEF Touch, Got, Recover
<1>2. Stored(c)
  BY Scene
<1>3. rec' # None => Apart(rec')
  BY <1>2 DEF Touch, Stored
<1>4. Stops(c)' = Stops(c) /\ Early(c)' = Early(c)
  BY DEF Stops, Early
<1>5. Watched(c)' \subseteq Watched(c) \cup IF pc[c] = "new" THEN Open(s) ELSE {}
  BY <1>1, <1>4 DEF Watched
<1>6. \A b \in stale' : Corrected(b)'
  BY <1>1, <1>2 DEF Stored, Corrected
<1> QED
  BY <1>1, <1>2, <1>3, <1>4, <1>5, <1>6 DEF Stored

(* All it takes for a step of the one worker that is not free. *)
LEMMA StopStep ==
  ASSUME NEW c, StopInv(c), ViewInv', WorkerGoals', Unspoiled', NEW w \in Workers, pc[w] # "free",
         NEW where, pc' = [pc EXCEPT ![w] = where],
         batch'[c] = batch[c], pay'[c] = pay[c], goal'[c] = goal[c],
         Stored(c)', Honest(c, w)'
  PROVE  StopInv(c)'
<1>0. /\ DOMAIN pc = Actors /\ \A v \in Workers : v \in Actors
      /\ c \notin Workers /\ pc'[c] = pc[c]
  BY Scene DEF TypeOK
<1>1. \A v \in Workers : v # w => pc[v] = "free" /\ pc'[v] = "free"
  BY <1>0 DEF StopInv, Alone
<1>2. Alone'
  BY <1>1 DEF Alone
<1>3. ASSUME NEW v \in Workers, v # w
      PROVE  Honest(c, v)'
  <2>1. pc'[v] = "free"
    BY <1>1, <1>3
  <2>2. Shape(v)' /\ Cancels(v)' /\ Ignores(v)' /\ Uncancelled(v)'
    BY <2>1 DEF Shape, Cancels, Ignores, Uncancelled, Loop, Planning, Waiting, Publishing
  <2>3. Remembers(c, v)'
    BY <2>1 DEF Remembers, Loop, Planning, Waiting
  <2>4. ~Going(v)'
    BY <2>1 DEF Going
  <2> QED
    BY <2>2, <2>3, <2>4 DEF Honest
<1>4. Stopping(c)'
  BY <1>0 DEF StopInv, Stopping
<1>5. \A v \in Workers : Honest(c, v)'
  BY <1>3
<1> QED
  BY <1>2, <1>4, <1>5 DEF StopInv

(* How a worker ends, with nothing pending: what could be stopped is closed *)
(* in the payload it persists.                                             *)
LEMMA ConcludeStop ==
  ASSUME NEW c, StopInv(c), ViewInv', WorkerGoals', Unspoiled', NEW w \in Workers, pc[w] # "free",
         NEW mine \in Payload, Conclude(w, mine), Lookup \/ rec' = rec, frame' = frame,
         UNCHANGED <<stopped, stale>>, batch'[c] = batch[c], mine.pend = {}, mine.act = {},
         \A b \in stale : Refused(mine, b), \A b \in Watched(c) : b \in Listed(mine),
         Early(c) => mine.canc = {},
         ~Early(c) => \A b \in Stops(c) : Closed(frame, b) /\ Closed(Got, b)
  PROVE  StopInv(c)'
<1>0. w \in Actors /\ c \in Actors /\ c # w /\ TypeOK
  BY Scene
<1>1. PICK unmet \in SUBSET (mine.comp \cap Inspected), repairs \in SUBSET Branches :
        /\ repairs \cap Listed(mine) = {} /\ demoted' = demoted \cup unmet
        /\ pay'[w].act = {} /\ pay'[w].canc = mine.canc /\ pay'[w].fail = mine.fail
        /\ pay'[w].comp = mine.comp \ unmet
        /\ pay'[w].pend = (IF repairs = {} THEN unmet ELSE repairs)
        /\ goal'[w] = (IF repairs = {} THEN "succeed" ELSE "reopen")
        /\ pc' = [pc EXCEPT ![w] = "persist"] /\ pc'[w] = "persist"
  BY <1>0, ConcludeMakes
<1>2. unmet = {}
  BY <1>1 DEF Unspoiled
<1>3. pc'[c] = pc[c] /\ pay'[c] = pay[c] /\ goal'[c] = goal[c]
  BY <1>0, <1>1 DEF Conclude, Prepare, TypeOK
<1> DEFINE s == pay'[w]
<1>4. /\ s.act = {} /\ s.canc = mine.canc /\ s.fail = mine.fail /\ s.comp = mine.comp
      /\ s.pend = repairs /\ (goal'[w] = "succeed" => s.pend = {})
      /\ goal'[w] \in {"succeed", "reopen"}
  BY <1>1, <1>2
<1> HIDE DEF s
<1>5. Apart(s) /\ \A b \in Watched(c) : Closed(s, b)
  BY <1>1, <1>4 DEF Apart, Open, Closed, Over, Listed
<1>6. /\ Stored(c)' /\ Got' = Got
      /\ Watched(c)' = Watched(c) /\ Stops(c)' = Stops(c) /\ Early(c)' = Early(c)
  BY <1>3, ReadsStop
<1>7. pay'[w] = s
  BY DEF s
<1>8. Shape(w)'
  BY <1>1, <1>4, <1>5, <1>7 DEF Shape, Loop, Planning, Publishing, Waiting
<1>9. Cancels(w)'
  BY <1>1 DEF Cancels, Loop, Planning, Waiting
<1>10. Ignores(w)'
  BY <1>1, <1>4, <1>7 DEF Ignores, Loop, Planning, Publishing, Waiting, Refused
<1>11. Remembers(c, w)'
  BY <1>1, <1>5, <1>6, <1>7 DEF Remembers, Loop, Planning, Waiting
<1>12. Early(c)' => Uncancelled(w)'
  BY <1>1, <1>4, <1>6, <1>7 DEF Uncancelled, Loop, Planning, Waiting, Publishing
<1>13. ~Early(c)' => Heeds(c, w)'
  BY <1>1, <1>6 DEF Heeds, Loop, Planning, Waiting
<1>14. Honest(c, w)'
  BY <1>8, <1>9, <1>10, <1>11, <1>12, <1>13 DEF Honest
<1> QED
  BY <1>1, <1>3, <1>6, <1>14, StopStep

LEMMA TopStop ==
  ASSUME NEW c, StopInv(c), ViewInv', WorkerGoals', Unspoiled', NEW w \in Workers, Top(w)
  PROVE  StopInv(c)'
<1> DEFINE gated == own[w].pend \cap Got.canc
           mine == [own[w] EXCEPT !.seq = Got.seq, !.canc = Got.canc, !.pend = @ \ gated]
<1>0. /\ w \in Actors /\ c \in Actors /\ c # w /\ TypeOK /\ pc[w] = "top"
      /\ Stored(c) /\ Honest(c, w) /\ Got \in Payload /\ own[w] \in Payload
  BY Scene DEF Top
<1>1. /\ own' = [own EXCEPT ![w] = mine] /\ frame' = frame /\ Lookup
      /\ UNCHANGED <<batch, stopped, stale, seed, todo>>
      /\ \/ gated = {} /\ Goto(w, "run") /\ UNCHANGED <<pay, goal>>
         \/ gated # {} /\ mine.pend # {} /\ Prepare(w, mine, "run")
         \/ mine.pend = {} /\ Conclude(w, mine)
  BY DEF Top, history
<1>2. /\ mine \in Payload /\ mine.seq = Got.seq /\ mine.canc = Got.canc /\ mine.act = own[w].act
      /\ mine.pend = own[w].pend \ gated /\ mine.comp = own[w].comp /\ mine.fail = own[w].fail
  BY <1>0 DEF Payload
<1> HIDE DEF mine
<1>3. own'[w] = mine
  BY <1>0, <1>1 DEF TypeOK
<1>4. batch'[c] = batch[c] /\ mine \in Payload
  BY <1>1, <1>2
<1>7. /\ own[w].act = {} /\ Apart(own[w]) /\ Got.canc = frame.canc
      /\ own[w].canc \subseteq Got.canc
  BY <1>0 DEF Honest, Shape, Cancels, Level, Loop, Planning, Stored
<1>8. Apart(mine) /\ mine.act = {} /\ mine.pend \cap mine.canc = {}
  BY <1>2, <1>7 DEF Apart, Open
<1>9. \A b \in Watched(c) : b \in Listed(mine)
  BY <1>0, <1>2, <1>7 DEF Honest, Remembers, Loop, Planning, Listed, Open, Over
<1>10. \A b \in stale : Refused(mine, b)
  BY <1>0, <1>2 DEF Honest, Ignores, Loop, Planning, Stored, Corrected, Refused
<1>11. Early(c) => mine.canc = {} /\ gated = {}
  BY <1>0, <1>2, <1>7 DEF Stored
<1>12. ~Early(c) => \A b \in Stops(c) : Closed(frame, b) /\ Closed(Got, b) /\ b \notin mine.pend
  BY <1>0, <1>2 DEF Honest, Going, Publishing, Heeds, Loop, Planning, Corrected, Refused
<1>13. CASE mine.pend = {} /\ Conclude(w, mine)
  BY <1>0, <1>1, <1>4, <1>8, <1>9, <1>10, <1>11, <1>12, <1>13, ConcludeStop
<1>14. CASE gated = {} /\ Goto(w, "run") /\ UNCHANGED <<pay, goal>>
  <2>0. /\ pc' = [pc EXCEPT ![w] = "run"] /\ pc'[w] = "run" /\ pc'[c] = pc[c]
        /\ pay'[c] = pay[c] /\ goal'[c] = goal[c]
    BY <1>0, <1>14 DEF Goto, TypeOK
  <2>00. /\ Stored(c)' /\ Got' = Got
         /\ Watched(c)' = Watched(c) /\ Stops(c)' = Stops(c) /\ Early(c)' = Early(c)
    BY <1>1, <1>4, <2>0, ReadsStop
  <2>1. Shape(w)'
    BY <1>3, <1>8, <2>0 DEF Shape, Loop, Planning, Publishing, Waiting
  <2>2. Cancels(w)'
    BY <1>1, <1>2, <1>3, <1>7, <1>8, <2>0 DEF Cancels, Level, Loop, Planning, Waiting
  <2>3. Ignores(w)'
    BY <1>1, <1>3, <1>10, <2>0 DEF Ignores, Loop, Planning, Publishing, Waiting
  <2>4. Remembers(c, w)'
    BY <1>3, <1>9, <2>0, <2>00 DEF Remembers, Loop, Planning, Waiting
  <2>5. Early(c)' => Uncancelled(w)'
    BY <1>3, <1>11, <2>0, <2>00 DEF Uncancelled, Loop, Planning, Waiting, Publishing
  <2>6. ~Early(c)' => Heeds(c, w)'
    BY <1>1, <1>3, <1>12, <2>0, <2>00 DEF Heeds, Loop, Planning, Waiting
  <2>7. Honest(c, w)'
    BY <2>1, <2>2, <2>3, <2>4, <2>5, <2>6 DEF Honest
  <2> QED
    BY <1>0, <1>4, <2>0, <2>00, <2>7, StopStep
<1>15. CASE gated # {} /\ mine.pend # {} /\ Prepare(w, mine, "run")
  <2>0. /\ pay'[w] = mine /\ goal'[w] = "run" /\ pc' = [pc EXCEPT ![w] = "persist"]
        /\ pc'[w] = "persist" /\ pc'[c] = pc[c] /\ pay'[c] = pay[c] /\ goal'[c] = goal[c]
    BY <1>0, <1>15 DEF Prepare, Goto, TypeOK
  <2>00. /\ Stored(c)' /\ Got' = Got
         /\ Watched(c)' = Watched(c) /\ Stops(c)' = Stops(c) /\ Early(c)' = Early(c)
    BY <1>1, <1>4, <2>0, ReadsStop
  <2>1. Shape(w)'
    BY <1>8, <2>0 DEF Shape, Loop, Planning, Publishing, Waiting
  <2>2. Cancels(w)'
    BY <2>0 DEF Cancels, Loop, Planning, Waiting
  <2>3. Ignores(w)'
    BY <1>1, <1>10, <2>0 DEF Ignores, Loop, Planning, Publishing, Waiting
  <2>30. \A b \in Watched(c) : Closed(mine, b)
    <3>1. ~Early(c)
      BY <1>11, <1>15
    <3>2. Watched(c) = Stops(c)
      BY <3>1 DEF Watched, Early
    <3> QED
      BY <1>8, <1>9, <1>12, <3>1, <3>2 DEF Closed, Over, Listed, Open
  <2>4. Remembers(c, w)'
    BY <2>0, <2>00, <2>30 DEF Remembers, Loop, Planning, Waiting
  <2>5. Early(c)' => Uncancelled(w)'
    BY <1>11, <1>15, <2>00
  <2>6. ~Early(c)' => Heeds(c, w)'
    BY <1>1, <1>12, <2>0, <2>00 DEF Heeds, Loop, Planning, Waiting
  <2>7. Honest(c, w)'
    BY <2>1, <2>2, <2>3, <2>4, <2>5, <2>6 DEF Honest
  <2> QED
    BY <1>0, <1>4, <2>0, <2>00, <2>7, StopStep
<1> QED
  BY <1>1, <1>13, <1>14, <1>15

LEMMA RunStop ==
  ASSUME NEW c, StopInv(c), ViewInv', WorkerGoals', Unspoiled', NEW w \in Workers, Run(w)
  PROVE  StopInv(c)'
<1>0. /\ w \in Actors /\ c \in Actors /\ c # w /\ TypeOK /\ pc[w] = "run"
      /\ Stored(c) /\ Honest(c, w) /\ own[w] \in Payload
  BY Scene DEF Run
<1>1. PICK now \in Batches(own[w]) :
        /\ batch' = [batch EXCEPT ![w] = now \ wait[w]]
        /\ Touch([own[w] EXCEPT !.act = now \ wait[w]])
  BY DEF Run
<1> DEFINE eligible == now \ wait[w]
           s == [own[w] EXCEPT !.act = eligible]
<1>2. /\ frame' = frame /\ pc' = [pc EXCEPT ![w] = "preflight"]
      /\ UNCHANGED <<stopped, stale, seed, own, pay, goal>>
  BY DEF Run, Goto, history
<1>3. /\ pc'[w] = "preflight" /\ pc'[c] = pc[c] /\ batch'[w] = eligible /\ batch'[c] = batch[c]
      /\ pay'[c] = pay[c] /\ goal'[c] = goal[c] /\ own'[w] = own[w]
  BY <1>0, <1>1, <1>2 DEF TypeOK
<1>4. eligible \subseteq own[w].pend
  BY <1>0, <1>1, BatchTyped
<1>5. own[w].act = {} /\ Apart(own[w]) /\ own[w].pend \cap own[w].canc = {} /\ Cancels(w) /\ own[w].seq <= frame.seq
  BY <1>0 DEF Honest, Shape, Loop, Planning, StopInv, ViewInv, SeqBounded, Within,
       Unspoiled
<1>6. /\ s \in Payload /\ s.seq = own[w].seq /\ s.canc = own[w].canc /\ s.act = eligible
      /\ s.pend = own[w].pend /\ s.comp = own[w].comp /\ s.fail = own[w].fail
  BY <1>0, <1>4 DEF Payload
<1>7. Touch(s)
  BY <1>1
<1> HIDE DEF s, eligible
<1>8. \A b \in stale : Refused(own[w], b)
  BY <1>0 DEF Honest, Ignores, Loop, Planning
<1>9. Apart(s) /\ \A b \in stale : Refused(s, b)
  BY <1>4, <1>5, <1>6, <1>8 DEF Apart, Open, Refused
<1>10. own[w].seq = frame.seq => own[w].canc = frame.canc /\ own[w].pend \cap frame.canc = {}
  BY <1>0, <1>5 DEF Cancels, Level, Loop, Planning
<1>11. /\ Stored(c)' /\ Stops(c)' = Stops(c) /\ Early(c)' = Early(c)
       /\ Got' = frame \/ (Got' = s /\ s.seq = frame.seq)
       /\ Watched(c)' \subseteq Watched(c) \cup Open(s)
  BY <1>2, <1>3, <1>5, <1>6, <1>7, <1>9, <1>10, TouchesStop
<1>12. \A b \in Watched(c) : b \in Listed(own[w])
  BY <1>0 DEF Honest, Remembers, Loop, Planning
<1>13. Open(s) \subseteq Listed(own[w])
  BY <1>4, <1>6 DEF Open, Listed, Over
<1>14. Shape(w)'
  BY <1>3, <1>4, <1>5 DEF Shape, Loop, Planning, Publishing, Waiting
<1>15. Cancels(w)'
  BY <1>2, <1>3, <1>5, <1>0 DEF Cancels, Level, Loop, Planning, Waiting
<1>16. Ignores(w)'
  BY <1>2, <1>3, <1>8 DEF Ignores, Loop, Planning, Publishing, Waiting
<1>17. Remembers(c, w)'
  BY <1>3, <1>11, <1>12, <1>13 DEF Remembers, Loop, Planning, Waiting
<1>18. Early(c)' => Uncancelled(w)'
  BY <1>0, <1>3, <1>11 DEF Honest, Uncancelled, Loop, Planning, Waiting, Publishing
<1>19. ASSUME ~Early(c)', NEW b \in Stops(c)
       PROVE  /\ Closed(frame, b) /\ Closed(Got', b)
              /\ b \in own[w].pend => Refused(frame, b) /\ Refused(Got', b)
  <2>1. Closed(frame, b) /\ (b \in own[w].pend => Refused(frame, b))
    BY <1>0, <1>11, <1>19 DEF Honest, Going, Publishing, Heeds, Loop, Planning, Corrected
  <2>2. b \in Listed(own[w])
    BY <1>12 DEF Watched
  <2>3. CASE Got' = frame
    BY <2>1, <2>3
  <2>4. CASE Got' = s /\ s.seq = frame.seq
    <3>1. b \notin own[w].pend
      BY <1>6, <1>10, <2>1, <2>4 DEF Refused
    <3>2. Closed(s, b)
      BY <1>4, <1>5, <1>6, <2>2, <3>1 DEF Closed, Over, Open, Listed
    <3> QED
      BY <2>1, <2>4, <3>1, <3>2
  <2> QED
    BY <1>11, <2>3, <2>4
<1>20. ~Early(c)' => Heeds(c, w)'
  BY <1>2, <1>3, <1>11, <1>19 DEF Heeds, Loop, Planning, Waiting, Corrected
<1>21. Honest(c, w)'
  BY <1>14, <1>15, <1>16, <1>17, <1>18, <1>20 DEF Honest
<1> QED
  BY <1>0, <1>2, <1>3, <1>11, <1>21, StopStep

(* A worker that waits changes nothing but where it is. *)
LEMMA SleepStop ==
  ASSUME NEW c, StopInv(c), ViewInv', WorkerGoals', Unspoiled', NEW w \in Workers,
         Sleep(w) \/ Wake(w)
  PROVE  StopInv(c)'
<1>0. /\ w \in Actors /\ c \in Actors /\ c # w /\ TypeOK /\ pc[w] \in {"top", "run", "settle"}
      /\ Stored(c) /\ Honest(c, w)
  BY Scene DEF Sleep, Wake
<1>1. /\ frame' = frame /\ rec' = rec
      /\ UNCHANGED <<stopped, stale, seed, own, batch, todo, pay, goal>>
  BY DEF Sleep, Wake, history, local
<1>2. \/ pc[w] = "run" /\ Goto(w, "top")
      \/ pc' = pc
  BY DEF Sleep, Wake
<1>3. PICK where \in {"top", "run", "settle"} :
        pc' = [pc EXCEPT ![w] = where] /\ (where = pc[w] \/ (pc[w] = "run" /\ where = "top"))
  BY <1>0, <1>2 DEF Goto, TypeOK
<1>4. pc'[w] = where /\ pc'[c] = pc[c]
  BY <1>0, <1>3 DEF TypeOK
<1>5. /\ Stored(c)' /\ Got' = Got
      /\ Watched(c)' = Watched(c) /\ Stops(c)' = Stops(c) /\ Early(c)' = Early(c)
  BY <1>1, <1>4, ReadsStop
<1>6. Shape(w)'
  BY <1>0, <1>1, <1>3, <1>4 DEF Honest, Shape, Loop, Planning, Publishing, Waiting
<1>7. Cancels(w)'
  BY <1>0, <1>1, <1>3, <1>4 DEF Honest, Cancels, Level, Loop, Planning, Waiting
<1>8. Ignores(w)'
  BY <1>0, <1>1, <1>3, <1>4 DEF Honest, Ignores, Loop, Planning, Publishing, Waiting
<1>9. Remembers(c, w)'
  BY <1>0, <1>1, <1>3, <1>4, <1>5 DEF Honest, Remembers, Loop, Planning, Waiting
<1>10. Early(c)' => Uncancelled(w)'
  BY <1>0, <1>1, <1>3, <1>4, <1>5 DEF Honest, Uncancelled, Loop, Planning, Waiting, Publishing
<1>11. ~Early(c)' => Heeds(c, w)'
  BY <1>0, <1>1, <1>3, <1>4, <1>5
     DEF Honest, Heeds, Going, Publishing, Loop, Planning, Waiting, Corrected
<1>12. Honest(c, w)'
  BY <1>6, <1>7, <1>8, <1>9, <1>10, <1>11 DEF Honest
<1> QED
  BY <1>0, <1>1, <1>3, <1>5, <1>12, StopStep

LEMMA PreflightStop ==
  ASSUME NEW c, StopInv(c), ViewInv', WorkerGoals', Unspoiled', NEW w \in Workers, Preflight(w)
  PROVE  StopInv(c)'
<1>0. /\ w \in Actors /\ c \in Actors /\ c # w /\ TypeOK /\ pc[w] = "preflight"
      /\ Stored(c) /\ Honest(c, w) /\ own[w] \in Payload
  BY Scene DEF Preflight
<1>1. PICK found \in SUBSET (batch[w] \cap Present) :
        /\ own' = [own EXCEPT ![w].comp = @ \cup found, ![w].fail = @ \ found]
        /\ batch' = [batch EXCEPT ![w] = @ \ found]
  BY DEF Preflight
<1>2. /\ frame' = frame /\ Lookup /\ pc' = [pc EXCEPT ![w] = "execute"]
      /\ UNCHANGED <<stopped, stale, seed, pay, goal>>
  BY DEF Preflight, Goto, history
<1>3. /\ pc'[w] = "execute" /\ pc'[c] = pc[c] /\ batch'[c] = batch[c]
      /\ batch'[w] = batch[w] \ found
  BY <1>0, <1>1, <1>2 DEF TypeOK
<1>4. /\ own'[w].seq = own[w].seq /\ own'[w].pend = own[w].pend /\ own'[w].act = own[w].act
      /\ own'[w].canc = own[w].canc /\ own'[w].comp = own[w].comp \cup found
      /\ own'[w].fail = own[w].fail \ found
  BY <1>0, <1>1 DEF TypeOK, Payload
<1>5. /\ own[w].act = {} /\ Apart(own[w]) /\ own[w].pend \cap own[w].canc = {}
      /\ batch[w] \subseteq own[w].pend /\ found \subseteq own[w].pend
  BY <1>0, <1>1 DEF Honest, Shape, Loop, Planning
<1>6. /\ Stored(c)' /\ Got' = Got
      /\ Watched(c)' = Watched(c) /\ Stops(c)' = Stops(c) /\ Early(c)' = Early(c)
  BY <1>2, <1>3, ReadsStop
<1>7. Shape(w)'
  BY <1>3, <1>4, <1>5 DEF Shape, Loop, Planning, Publishing, Waiting, Apart, Open
<1>8. Cancels(w)'
  BY <1>0, <1>2, <1>3, <1>4 DEF Honest, Cancels, Level, Loop, Planning, Waiting
<1>9. \A b \in stale : Refused(own[w], b)
  BY <1>0 DEF Honest, Ignores, Loop, Planning
<1>10. Ignores(w)'
  BY <1>2, <1>3, <1>4, <1>5, <1>9 DEF Ignores, Loop, Planning, Publishing, Waiting, Refused
<1>11. Listed(own[w]) \subseteq Listed(own'[w])
  BY <1>4 DEF Listed, Open, Over
<1>12. Remembers(c, w)'
  BY <1>0, <1>3, <1>6, <1>11 DEF Honest, Remembers, Loop, Planning, Waiting
<1>13. Early(c)' => Uncancelled(w)'
  BY <1>0, <1>3, <1>4, <1>6 DEF Honest, Uncancelled, Loop, Planning, Waiting, Publishing
<1>14. ~Early(c)' => Heeds(c, w)'
  BY <1>0, <1>2, <1>3, <1>4, <1>6
     DEF Honest, Heeds, Going, Publishing, Loop, Planning, Waiting, Corrected
<1>15. Honest(c, w)'
  BY <1>7, <1>8, <1>10, <1>12, <1>13, <1>14 DEF Honest
<1> QED
  BY <1>0, <1>2, <1>3, <1>6, <1>15, StopStep

LEMMA ReportStop ==
  ASSUME NEW c, StopInv(c), ViewInv', WorkerGoals', Unspoiled', NEW w \in Workers, Report(w)
  PROVE  StopInv(c)'
<1>0. /\ w \in Actors /\ c \in Actors /\ c # w /\ TypeOK /\ pc[w] = "execute"
      /\ Stored(c) /\ Honest(c, w) /\ Got \in Payload /\ Apart(Got)
  BY Scene DEF Report
<1>1. PICK b \in todo[w] : pay' = [pay EXCEPT ![w] = [Got EXCEPT !.pend = @ \ {b}, !.act = @ \ {b}]]
  BY DEF Report
<1> DEFINE s == [Got EXCEPT !.pend = @ \ {b}, !.act = @ \ {b}]
<1>2. /\ frame' = frame /\ Lookup /\ pc' = [pc EXCEPT ![w] = "report"]
      /\ UNCHANGED <<stopped, stale, seed, own, batch, goal>>
  BY DEF Report, Goto, history
<1>3. /\ pc'[w] = "report" /\ pc'[c] = pc[c] /\ pay'[w] = s /\ pay'[c] = pay[c]
  BY <1>0, <1>1, <1>2 DEF TypeOK
<1>4. /\ s.canc = Got.canc /\ s.comp = Got.comp /\ s.fail = Got.fail
      /\ s.pend \subseteq Got.pend /\ s.act \subseteq Got.act
  BY <1>0 DEF Payload
<1> HIDE DEF s
<1>5. /\ Stored(c)' /\ Got' = Got
      /\ Watched(c)' = Watched(c) /\ Stops(c)' = Stops(c) /\ Early(c)' = Early(c)
  BY <1>2, <1>3, ReadsStop
<1>6. Apart(s) /\ s.canc = frame.canc
  BY <1>0, <1>4 DEF Apart, Open, Stored
<1>7. Shape(w)'
  BY <1>0, <1>2, <1>3, <1>6 DEF Honest, Shape, Loop, Planning, Publishing, Waiting
<1>8. Cancels(w)'
  BY <1>0, <1>2, <1>3, <1>6 DEF Honest, Cancels, Level, Loop, Planning, Waiting
<1>9. Ignores(w)'
  BY <1>0, <1>2, <1>3, <1>4
     DEF Honest, Ignores, Loop, Planning, Publishing, Waiting, Stored, Corrected,
       Refused
<1>10. pc[c] = "new" => Open(s) \subseteq Listed(own[w])
  BY <1>0, <1>4 DEF Honest, Remembers, Watched, Open, Loop, Planning
<1>11. Remembers(c, w)'
  BY <1>0, <1>2, <1>3, <1>5, <1>10 DEF Honest, Remembers, Loop, Planning, Waiting
<1>12. Early(c)' => Uncancelled(w)'
  BY <1>0, <1>2, <1>3, <1>5 DEF Honest, Uncancelled, Loop, Planning, Waiting, Publishing
<1>13. ASSUME ~Early(c)', NEW x \in Stops(c)
       PROVE  /\ Closed(frame, x) /\ Closed(Got, x) /\ (x \in own[w].pend => Corrected(x))
  BY <1>0, <1>5, <1>13 DEF Honest, Going, Publishing, Heeds, Loop, Planning
<1>14. ASSUME ~Early(c)', NEW x \in Stops(c)
       PROVE  /\ Closed(s, x) /\ (x \in own[w].pend => Refused(s, x))
  BY <1>4, <1>13, <1>14 DEF Closed, Over, Open, Corrected, Refused
<1>15. ~Early(c)' => Heeds(c, w)'
  BY <1>2, <1>3, <1>5, <1>13, <1>14 DEF Heeds, Loop, Planning, Waiting, Corrected
<1>16. Honest(c, w)'
  BY <1>7, <1>8, <1>9, <1>11, <1>12, <1>15 DEF Honest
<1> QED
  BY <1>0, <1>2, <1>3, <1>5, <1>16, StopStep

LEMMA ReportedStop ==
  ASSUME NEW c, StopInv(c), ViewInv', WorkerGoals', Unspoiled', NEW w \in Workers, Reported(w)
  PROVE  StopInv(c)'
<1>0. /\ w \in Actors /\ c \in Actors /\ c # w /\ TypeOK /\ pc[w] = "report"
      /\ Stored(c) /\ Honest(c, w) /\ pay[w] \in Payload
  BY Scene DEF Reported
<1> DEFINE s == pay[w]
<1>2. /\ frame' = frame /\ Touch(s) /\ pc' = [pc EXCEPT ![w] = "execute"]
      /\ pay' = [pay EXCEPT ![w] = First]
      /\ UNCHANGED <<stopped, stale, seed, own, batch, goal>>
  BY DEF Reported, Goto, history
<1>3. /\ pc'[w] = "execute" /\ pc'[c] = pc[c] /\ pay'[c] = pay[c]
  BY <1>0, <1>2 DEF TypeOK
<1>4. /\ s.seq <= frame.seq /\ Apart(s) /\ (s.seq = frame.seq => s.canc = frame.canc)
      /\ \A b \in stale : Refused(s, b)
  BY <1>0 DEF Honest, Shape, Cancels, Ignores, StopInv, ViewInv, SeqBounded, Within,
       Unspoiled
<1>5. /\ Stored(c)' /\ Stops(c)' = Stops(c) /\ Early(c)' = Early(c)
      /\ Got' = frame \/ (Got' = s /\ s.seq = frame.seq)
      /\ Watched(c)' \subseteq Watched(c) \cup IF pc[c] = "new" THEN Open(s) ELSE {}
  BY <1>0, <1>2, <1>3, <1>4, TouchesStop
<1>7. Shape(w)'
  BY <1>0, <1>2, <1>3 DEF Honest, Shape, Loop, Planning, Publishing, Waiting
<1>8. Cancels(w)'
  BY <1>0, <1>2, <1>3 DEF Honest, Cancels, Level, Loop, Planning, Waiting
<1>9. Ignores(w)'
  BY <1>0, <1>2, <1>3 DEF Honest, Ignores, Loop, Planning, Publishing, Waiting
<1>10. \A b \in Watched(c)' : b \in Listed(own[w])
  BY <1>0, <1>5 DEF Honest, Remembers, Loop, Planning
<1>11. Remembers(c, w)'
  BY <1>2, <1>3, <1>10 DEF Remembers, Loop, Planning, Waiting
<1>12. Early(c)' => Uncancelled(w)'
  BY <1>0, <1>2, <1>3, <1>5 DEF Honest, Uncancelled, Loop, Planning, Waiting, Publishing
<1>13. ASSUME ~Early(c)', NEW x \in Stops(c)
       PROVE  /\ Closed(frame, x) /\ (x \in own[w].pend => Refused(frame, x))
              /\ Closed(Got', x) /\ (x \in own[w].pend => Refused(Got', x))
  <2>1. /\ Closed(frame, x) /\ (x \in own[w].pend => Refused(frame, x))
        /\ s.seq = frame.seq => Closed(s, x) /\ (x \in own[w].pend => Refused(s, x))
    BY <1>0, <1>5, <1>13 DEF Honest, Going, Publishing, Heeds, Loop, Planning, Corrected
  <2> QED
    BY <1>5, <2>1
<1>15. ~Early(c)' => Heeds(c, w)'
  BY <1>2, <1>3, <1>5, <1>13 DEF Heeds, Loop, Planning, Waiting, Corrected
<1>16. Honest(c, w)'
  BY <1>7, <1>8, <1>9, <1>11, <1>12, <1>15 DEF Honest
<1> QED
  BY <1>0, <1>2, <1>3, <1>5, <1>16, StopStep

LEMMA CollectStop ==
  ASSUME NEW c, StopInv(c), ViewInv', WorkerGoals', Unspoiled', NEW w \in Workers, Collect(w)
  PROVE  StopInv(c)'
<1>0. /\ w \in Actors /\ c \in Actors /\ c # w /\ TypeOK /\ pc[w] = "execute"
      /\ Stored(c) /\ Honest(c, w)
  BY Scene DEF Collect
<1>2. /\ frame' = frame /\ rec' = rec /\ pc' = [pc EXCEPT ![w] = "settle"]
      /\ stale' = stale \cup (batch[w] \cap stopped) /\ todo' = [todo EXCEPT ![w] = batch[w]]
      /\ UNCHANGED <<stopped, seed, own, batch, pay, goal>>
  BY DEF Collect, Goto, ToSettle
<1>3. /\ pc'[w] = "settle" /\ pc'[c] = pc[c] /\ todo'[w] = batch[w]
  BY <1>0, <1>2 DEF TypeOK
<1>4. /\ Got' = Got /\ Watched(c)' = Watched(c) /\ Stops(c)' = Stops(c) /\ Early(c)' = Early(c)
  <2>1. Got' = Got
    BY <1>2, ServesOn
  <2> QED
    BY <1>2, <1>3, <2>1 DEF Watched, Stops, Early
<1>5. batch[w] \subseteq own[w].pend /\ batch[w] \cap own[w].comp = {}
  BY <1>0 DEF Honest, Shape, Loop, Planning
<1>6. \A b \in stale' : Corrected(b) /\ b \in stopped
  <2>1. \A b \in stale : Corrected(b) /\ b \in stopped
    BY <1>0 DEF Stored
  <2>2. ASSUME NEW b \in batch[w] \cap stopped
        PROVE  Corrected(b)
    <3>1. ~Early(c) /\ b \in Stops(c)
      BY <1>0 DEF Stored, Stops
    <3> QED
      BY <1>0, <1>5, <3>1 DEF Honest, Heeds, Going, Publishing, Loop, Planning
  <2> QED
    BY <1>2, <2>1, <2>2
<1>7. Stored(c)'
  BY <1>0, <1>2, <1>4, <1>6 DEF Stored, Corrected
<1>8. Shape(w)'
  BY <1>0, <1>2, <1>3 DEF Honest, Shape, Loop, Planning, Publishing, Waiting
<1>9. Cancels(w)'
  BY <1>0, <1>2, <1>3 DEF Honest, Cancels, Level, Loop, Planning, Waiting
<1>10. \A b \in stale' : b \notin own[w].comp /\ (b \in own[w].canc \/ b \in batch[w])
  <2>1. \A b \in stale : b \notin own[w].comp /\ b \in own[w].canc
    BY <1>0 DEF Honest, Ignores, Loop, Planning, Refused
  <2>2. \A b \in batch[w] : b \notin own[w].comp
    BY <1>5
  <2> QED
    BY <1>2, <2>1, <2>2
<1>11. Ignores(w)'
  BY <1>2, <1>3, <1>10 DEF Ignores, Loop, Planning, Publishing, Waiting
<1>12. Remembers(c, w)'
  BY <1>0, <1>2, <1>3, <1>4 DEF Honest, Remembers, Loop, Planning, Waiting
<1>13. Early(c)' => Uncancelled(w)'
  BY <1>0, <1>2, <1>3, <1>4 DEF Honest, Uncancelled, Loop, Planning, Waiting, Publishing
<1>14. ~Early(c)' => Heeds(c, w)'
  BY <1>0, <1>2, <1>3, <1>4 DEF Honest, Heeds, Going, Publishing, Loop, Planning, Waiting, Corrected
<1>15. Honest(c, w)'
  BY <1>8, <1>9, <1>11, <1>12, <1>13, <1>14 DEF Honest
<1> QED
  BY <1>0, <1>2, <1>3, <1>7, <1>15, StopStep

LEMMA SettleStop ==
  ASSUME NEW c, StopInv(c), ViewInv', WorkerGoals', Unspoiled', NEW w \in Workers, Settle(w)
  PROVE  StopInv(c)'
<1> DEFINE mine == [own[w] EXCEPT !.canc = Got.canc]
<1>0. /\ w \in Actors /\ c \in Actors /\ c # w /\ TypeOK /\ pc[w] = "settle"
      /\ Stored(c) /\ Honest(c, w) /\ Got \in Payload /\ own[w] \in Payload
  BY Scene DEF Settle
<1>1. PICK b \in todo[w] :
        /\ todo' = [todo EXCEPT ![w] = @ \ {b}]
        /\ \/ own' = [own EXCEPT ![w] = mine]
           \/ /\ b \notin Got.canc
              /\ \/ own' = [own EXCEPT ![w] = [mine EXCEPT !.comp = @ \cup {b}]]
                 \/ own' = [own EXCEPT ![w] = [mine EXCEPT !.fail = @ \cup {b}]]
                 \/ \E attempts \in {mine.again, mine.again \ {b}} :
                      own' = [own EXCEPT ![w] = [mine EXCEPT !.again = attempts]]
  BY DEF Settle
<1>2. /\ frame' = frame /\ Lookup /\ pc' = pc
      /\ UNCHANGED <<stopped, stale, seed, batch, pay, goal>>
  BY DEF Settle, history
<1>3. /\ mine \in Payload /\ mine.seq = own[w].seq /\ mine.canc = Got.canc /\ mine.act = own[w].act
      /\ mine.pend = own[w].pend /\ mine.comp = own[w].comp /\ mine.fail = own[w].fail
  BY <1>0 DEF Payload
<1> HIDE DEF mine
<1>4. \/ own'[w] = mine
      \/ /\ b \notin Got.canc
         /\ \/ own'[w] = [mine EXCEPT !.comp = @ \cup {b}]
            \/ own'[w] = [mine EXCEPT !.fail = @ \cup {b}]
            \/ \E attempts : own'[w] = [mine EXCEPT !.again = attempts]
  BY <1>0, <1>1 DEF TypeOK
<1>5. /\ own'[w].seq = own[w].seq /\ own'[w].canc = Got.canc /\ own'[w].act = own[w].act
      /\ own'[w].pend = own[w].pend
      /\ own[w].comp \subseteq own'[w].comp /\ own[w].fail \subseteq own'[w].fail
      /\ own'[w].comp \subseteq own[w].comp \cup ({b} \ Got.canc)
  BY <1>3, <1>4 DEF Payload
<1>6. /\ Stored(c)' /\ Got' = Got
      /\ Watched(c)' = Watched(c) /\ Stops(c)' = Stops(c) /\ Early(c)' = Early(c)
  BY <1>2, ReadsStop
<1>7. own[w].act = {} /\ Cancels(w) /\ Got.canc = frame.canc
  BY <1>0 DEF Honest, Shape, Loop, Planning, Stored
<1>8. Shape(w)'
  BY <1>0, <1>2, <1>5, <1>7 DEF Shape, Loop, Planning, Publishing, Waiting
<1>9. Cancels(w)'
  BY <1>0, <1>2, <1>5, <1>7 DEF Cancels, Level, Loop, Planning, Waiting
<1>10. \A x \in stale : x \notin own'[w].comp /\ x \in own'[w].canc
  BY <1>0, <1>5 DEF Honest, Ignores, Stored, Corrected, Refused, Loop, Planning
<1>11. Ignores(w)'
  BY <1>0, <1>2, <1>10 DEF Ignores, Loop, Planning, Publishing, Waiting
<1>12. \A x \in Listed(own[w]) : x \in Listed(own'[w])
  BY <1>0, <1>5, <1>7 DEF Listed, Open, Cancels, Level, Loop, Planning, Over
<1>13. Remembers(c, w)'
  BY <1>0, <1>2, <1>6, <1>12 DEF Honest, Remembers, Loop, Planning, Waiting
<1>14. Early(c)' => Uncancelled(w)'
  BY <1>0, <1>2, <1>5, <1>6, <1>7 DEF Stored, Uncancelled, Loop, Planning, Waiting, Publishing
<1>15. ~Early(c)' => Heeds(c, w)'
  BY <1>0, <1>2, <1>5, <1>6 DEF Honest, Heeds, Going, Publishing, Loop, Planning, Waiting, Corrected
<1>16. Honest(c, w)'
  BY <1>8, <1>9, <1>11, <1>13, <1>14, <1>15 DEF Honest
<1>17. pc' = [pc EXCEPT ![w] = "settle"]
  BY <1>0, <1>2 DEF TypeOK
<1> QED
  BY <1>0, <1>2, <1>6, <1>16, <1>17, StopStep

LEMMA WaveStop ==
  ASSUME NEW c, StopInv(c), ViewInv', WorkerGoals', Unspoiled', NEW w \in Workers, Wave(w)
  PROVE  StopInv(c)'
<1> DEFINE mine == [own[w] EXCEPT !.pend = Remaining(w)]
<1>0. /\ w \in Actors /\ c \in Actors /\ c # w /\ TypeOK /\ pc[w] = "settle" /\ todo[w] = {}
      /\ Stored(c) /\ Honest(c, w) /\ own[w] \in Payload
  BY Scene DEF Wave
<1>1. /\ own' = [own EXCEPT ![w] = mine] /\ batch' = [batch EXCEPT ![w] = {}]
      /\ frame' = frame /\ UNCHANGED <<stopped, stale, seed>>
      /\ \/ mine.pend = {} /\ Conclude(w, mine) /\ rec' = rec
         \/ /\ \E next \in Batches(mine) : Touch([mine EXCEPT !.act = next \ wait[w]])
            /\ Goto(w, "top") /\ UNCHANGED <<pay, goal>>
  BY DEF Wave, history
<1>2. /\ mine \in Payload /\ mine.seq = own[w].seq /\ mine.canc = own[w].canc /\ mine.act = own[w].act
      /\ mine.pend = own[w].pend \ (own[w].comp \cup own[w].fail \cup own[w].canc)
      /\ mine.comp = own[w].comp /\ mine.fail = own[w].fail
  BY <1>0 DEF Payload, Remaining
<1> HIDE DEF mine
<1>3. own'[w] = mine /\ batch'[c] = batch[c]
  BY <1>0, <1>1 DEF TypeOK
<1>4. /\ own[w].act = {} /\ Level(own[w]) /\ own[w].seq <= frame.seq
      /\ own[w].seq = frame.seq => own[w].pend \cap frame.canc = {}
  BY <1>0 DEF Honest, Shape, Loop, Planning, Cancels, StopInv, ViewInv, SeqBounded,
       Within, Unspoiled
<1>5. \A b \in stale : Refused(mine, b)
  BY <1>0, <1>2, <1>4 DEF Honest, Ignores, Refused
<1>6. \A b \in Watched(c) : b \in Listed(mine)
  BY <1>0, <1>2, <1>4 DEF Honest, Remembers, Loop, Planning, Listed, Open, Over
<1>7. Apart(mine) /\ mine.act = {}
  BY <1>2, <1>4 DEF Apart, Open
<1>8. Early(c) => mine.canc = {}
  BY <1>0, <1>2 DEF Honest, Uncancelled, Loop, Planning
<1>9. ~Early(c) => \A b \in Stops(c) : /\ Closed(frame, b) /\ Closed(Got, b)
                                       /\ b \in mine.pend => Corrected(b)
  BY <1>0, <1>2 DEF Honest, Heeds, Going, Publishing, Loop, Planning
<1>10. CASE mine.pend = {} /\ Conclude(w, mine) /\ rec' = rec
  BY <1>0, <1>1, <1>2, <1>3, <1>5, <1>6, <1>7, <1>8, <1>9, <1>10, ConcludeStop
<1>11. CASE /\ \E next \in Batches(mine) : Touch([mine EXCEPT !.act = next \ wait[w]])
            /\ Goto(w, "top") /\ UNCHANGED <<pay, goal>>
  <2>1. PICK next \in Batches(mine) : Touch([mine EXCEPT !.act = next \ wait[w]])
    BY <1>11
  <2> DEFINE eligible == next \ wait[w]
             s == [mine EXCEPT !.act = eligible]
  <2>2. eligible \subseteq mine.pend
    BY <1>2, BatchTyped
  <2>3. /\ s \in Payload /\ s.seq = mine.seq /\ s.canc = mine.canc /\ s.act = eligible
        /\ s.pend = mine.pend /\ s.comp = mine.comp /\ s.fail = mine.fail
    BY <1>2, <2>2 DEF Payload
  <2>4. Touch(s)
    BY <2>1
  <2> HIDE DEF s, eligible
  <2>5. /\ pc' = [pc EXCEPT ![w] = "top"] /\ pc'[w] = "top" /\ pc'[c] = pc[c]
    BY <1>0, <1>11 DEF Goto, TypeOK
  <2>6. Apart(s) /\ \A b \in stale : Refused(s, b)
    BY <1>5, <1>7, <2>2, <2>3 DEF Apart, Open, Refused
  <2>7. /\ Stored(c)' /\ Stops(c)' = Stops(c) /\ Early(c)' = Early(c)
        /\ Got' = frame \/ (Got' = s /\ s.seq = frame.seq)
        /\ Watched(c)' \subseteq Watched(c) \cup Open(s)
    BY <1>1, <1>2, <1>3, <1>4, <2>3, <2>4, <2>5, <2>6, TouchesStop DEF Level
  <2>8. Shape(w)'
    BY <1>3, <1>7, <2>5 DEF Shape, Loop, Planning, Publishing, Waiting
  <2>9. Cancels(w)'
    BY <1>1, <1>2, <1>3, <1>4, <2>5 DEF Cancels, Level, Loop, Planning, Waiting
  <2>10. Ignores(w)'
    BY <1>1, <1>3, <1>5, <2>5 DEF Ignores, Loop, Planning, Publishing, Waiting
  <2>11. Open(s) \subseteq Listed(mine)
    BY <2>2, <2>3 DEF Open, Listed, Over
  <2>12. Remembers(c, w)'
    BY <1>3, <1>6, <2>5, <2>7, <2>11 DEF Remembers, Loop, Planning, Waiting
  <2>13. Early(c)' => Uncancelled(w)'
    BY <1>3, <1>8, <2>5, <2>7 DEF Uncancelled, Loop, Planning, Waiting, Publishing
  <2>14. ASSUME ~Early(c)', NEW b \in Stops(c)
         PROVE  /\ Closed(frame, b) /\ Closed(Got', b)
                /\ b \in mine.pend => Refused(frame, b) /\ Refused(Got', b)
    <3>1. Closed(frame, b) /\ (b \in mine.pend => Refused(frame, b)) /\ b \in Listed(mine)
      BY <1>6, <1>9, <2>7, <2>14 DEF Corrected, Watched
    <3>2. CASE Got' = frame
      BY <3>1, <3>2
    <3>3. CASE Got' = s /\ s.seq = frame.seq
      <4>1. b \notin mine.pend
        BY <1>2, <1>4, <2>3, <3>1, <3>3 DEF Refused
      <4>2. Closed(s, b)
        BY <1>7, <2>2, <2>3, <3>1, <4>1 DEF Closed, Over, Open, Listed
      <4> QED
        BY <3>1, <3>3, <4>1, <4>2
    <3> QED
      BY <2>7, <3>2, <3>3
  <2>15. ~Early(c)' => Heeds(c, w)'
    BY <1>1, <1>3, <2>5, <2>7, <2>14 DEF Heeds, Loop, Planning, Waiting, Corrected
  <2>16. Honest(c, w)'
    BY <2>8, <2>9, <2>10, <2>12, <2>13, <2>15 DEF Honest
  <2> QED
    BY <1>0, <1>3, <1>11, <2>5, <2>7, <2>16, StopStep
<1> QED
  BY <1>1, <1>10, <1>11

(* What the head of complete_response_late_fill makes of the payload it    *)
(* trusts: it forgets nothing that can be stopped, fulfils nothing that is *)
(* refused, and lists as pending only what the ledger will correct.        *)
LEMMA StartMakes ==
  ASSUME NEW c, StopInv(c), NEW w \in Workers, pc[w] = "start", NEW want \in Wanted(w),
         NEW pending, pending = want \ (Base(w).comp \cup Base(w).fail \cup Base(w).canc),
         NEW found, found \subseteq pending,
         NEW mine, mine.pend = pending \ found, mine.fail = Base(w).fail, mine.act = {},
         mine.comp = (Base(w).comp \ (Base(w).fail \cup Base(w).canc)) \cup found,
         mine.canc = Base(w).canc, mine.seq = Base(w).seq
  PROVE  /\ Apart(mine) /\ Level(mine) /\ mine.pend \cap mine.canc = {}
         /\ \A b \in stale : Refused(mine, b)
         /\ \A b \in Watched(c) : b \in Listed(mine)
         /\ Early(c) => mine.canc = {}
         /\ ~Early(c) => \A b \in Stops(c) : /\ Closed(frame, b) /\ Closed(Got, b)
                                             /\ b \in mine.pend => Corrected(b)
<1>0. /\ Stored(c) /\ Honest(c, w) /\ Got \in Payload /\ seed[w] \in Payload /\ frame \in Payload
      /\ Stopping(c)
  BY Scene
<1>1. /\ seed[w].act = {} /\ Level(seed[w]) /\ (\A b \in stale : Refused(seed[w], b))
      /\ \A b \in Watched(c) : b \in Listed(seed[w])
  BY <1>0 DEF Honest, Shape, Cancels, Ignores, Remembers, Waiting
<1>2. Apart(mine) /\ mine.pend \cap mine.canc = {}
  BY DEF Apart, Open
<1>3. Level(Got) /\ \A b \in stale : Refused(Got, b)
  BY <1>0 DEF Stored, Level, Corrected
<1>4. \/ Base(w) = Got
      \/ Base(w) = seed[w] /\ Open(seed[w]) # {} /\ want = seed[w].pend
  <2>1. CASE Open(seed[w]) # {} /\ Open(Got) = {}
    <3>1. Base(w) = seed[w] /\ seed[w].pend # {}
      BY <1>1, <2>1 DEF Base, Open
    <3>2. Extracted(seed[w]) = seed[w].pend
      BY <3>1 DEF Extracted
    <3>3. want = seed[w].pend
      BY <3>1, <3>2 DEF Wanted
    <3> QED
      BY <2>1, <3>1, <3>3
  <2>2. CASE ~(Open(seed[w]) # {} /\ Open(Got) = {})
    BY <2>2 DEF Base
  <2> QED
    BY <2>1, <2>2
<1>5. want = seed[w].pend \/ want = Extracted(Base(w))
  BY DEF Wanted
<1>6. Level(mine) /\ (\A b \in stale : Refused(mine, b))
  <2>1. Level(Base(w)) /\ (\A b \in stale : Refused(Base(w), b))
    BY <1>1, <1>3, <1>4
  <2> QED
    BY <2>1 DEF Level, Refused
<1>7. CASE Early(c)
  <2>1. seed[w] = frame /\ Got = frame /\ frame.canc = {} /\ frame.act = {}
    BY <1>0, <1>1, <1>7 DEF Honest, Uncancelled, Waiting, Stored
  <2>2. Base(w) = frame
    BY <2>1 DEF Base
  <2>3. ASSUME NEW b \in Watched(c)
        PROVE  b \in Listed(mine)
    <3>1. b \in frame.pend \cup frame.comp \cup frame.fail
      BY <1>1, <2>1, <2>3 DEF Listed, Open, Over
    <3>2. frame.pend # {} => want = frame.pend
      BY <1>5, <2>1, <2>2 DEF Extracted
    <3> QED
      BY <2>1, <2>2, <3>1, <3>2 DEF Listed, Open, Over
  <2> QED
    BY <1>2, <1>6, <1>7, <2>1, <2>2, <2>3
<1>8. CASE ~Early(c)
  <2>1. Watched(c) = Stops(c)
    BY <1>8 DEF Early, Watched
  <2>2. \A b \in Stops(c) : /\ Closed(frame, b) /\ Closed(Got, b)
                            /\ Corrected(b) \/ Closed(seed[w], b)
    BY <1>0, <1>8 DEF Honest, Heeds, Going, Publishing, Waiting
  <2>3. ASSUME NEW b \in Stops(c)
        PROVE  b \in Listed(mine)
    <3>1. CASE Base(w) = Got
      BY <2>2, <3>1 DEF Closed, Over, Listed
    <3>2. CASE Base(w) = seed[w] /\ want = seed[w].pend
      BY <1>1, <2>1, <3>2 DEF Listed, Open, Over
    <3> QED
      BY <1>4, <3>1, <3>2
  <2>4. ASSUME NEW b \in Stops(c), b \in mine.pend
        PROVE  Corrected(b)
    <3>1. CASE b \in seed[w].pend
      BY <2>2, <3>1 DEF Closed, Over, Open
    <3>2. CASE Base(w) = Got /\ want = Extracted(Got)
      <4>1. b \notin Open(Got) /\ b \in Got.canc \cup Got.comp \cup Got.fail
        BY <2>2 DEF Closed, Over
      <4> QED
        BY <2>2, <2>4, <3>2, <4>1 DEF Extracted, Open
    <3>3. b \in want
      BY <2>4
    <3> QED
      BY <1>4, <1>5, <3>1, <3>2, <3>3
  <2> QED
    BY <1>2, <1>6, <1>8, <2>1, <2>2, <2>3, <2>4
<1> QED
  BY <1>7, <1>8

LEMMA StartStop ==
  ASSUME NEW c, StopInv(c), ViewInv', WorkerGoals', Unspoiled', NEW w \in Workers, Start(w)
  PROVE  StopInv(c)'
<1>0. /\ w \in Actors /\ c \in Actors /\ c # w /\ TypeOK /\ pc[w] = "start"
      /\ Stored(c) /\ Honest(c, w) /\ Got \in Payload /\ seed[w] \in Payload
  BY Scene DEF Start
<1>00. Base(w) \in Payload
  BY <1>0 DEF Base
<1> DEFINE base == Base(w)
           rest(want) == want \ (base.comp \cup base.fail \cup base.canc)
           own1(p, f) == [base EXCEPT !.pend = p \ f,
                                      !.act = {},
                                      !.comp = (@ \ (base.fail \cup base.canc)) \cup f,
                                      !.again = (@ \cup seed[w].again) \cap p]
<1>1. PICK want \in Wanted(w) :
        \E found \in SUBSET (rest(want) \cap Present) :
          /\ own' = [own EXCEPT ![w] = own1(rest(want), found)]
          /\ IF own1(rest(want), found).pend = {}
             THEN Conclude(w, own1(rest(want), found))
             ELSE Goto(w, "top") /\ UNCHANGED <<pay, goal, demoted>>
  BY DEF Start
<1>2. PICK found \in SUBSET (rest(want) \cap Present) :
          /\ own' = [own EXCEPT ![w] = own1(rest(want), found)]
          /\ IF own1(rest(want), found).pend = {}
             THEN Conclude(w, own1(rest(want), found))
             ELSE Goto(w, "top") /\ UNCHANGED <<pay, goal, demoted>>
  BY <1>1
<1> DEFINE pending == rest(want)
           mine == own1(pending, found)
<1>3. /\ mine.pend = pending \ found /\ mine.fail = Base(w).fail /\ mine.act = {}
      /\ mine.comp = (Base(w).comp \ (Base(w).fail \cup Base(w).canc)) \cup found
      /\ mine.canc = Base(w).canc /\ mine.seq = Base(w).seq
  <2> HIDE DEF rest
  <2> QED
    BY <1>00 DEF Payload
<1>4. /\ own' = [own EXCEPT ![w] = mine]
      /\ IF mine.pend = {} THEN Conclude(w, mine)
                           ELSE Goto(w, "top") /\ UNCHANGED <<pay, goal, demoted>>
  BY <1>2
<1>5. /\ frame' = frame /\ Lookup /\ UNCHANGED <<batch, stopped, stale, seed>>
  BY DEF Start, history
<1>6. own'[w] = mine /\ own'[w] \in Payload
  BY <1>0, <1>4 DEF TypeOK, StopInv, ViewInv
<1>70. found \subseteq pending /\ pending = want \ (Base(w).comp \cup Base(w).fail \cup Base(w).canc)
  OBVIOUS
<1> HIDE DEF mine, pending, rest, own1
<1>7. /\ Apart(mine) /\ Level(mine) /\ mine.pend \cap mine.canc = {}
      /\ \A b \in stale : Refused(mine, b)
      /\ \A b \in Watched(c) : b \in Listed(mine)
      /\ Early(c) => mine.canc = {}
      /\ ~Early(c) => \A b \in Stops(c) : /\ Closed(frame, b) /\ Closed(Got, b)
                                          /\ b \in mine.pend => Corrected(b)
  BY <1>0, <1>3, <1>70, StartMakes
<1>8. CASE mine.pend = {} /\ Conclude(w, mine)
  <2>1. mine \in Payload /\ batch'[c] = batch[c]
    BY <1>5, <1>6
  <2> QED
    BY <1>0, <1>3, <1>5, <1>7, <1>8, <2>1, ConcludeStop
<1>9. CASE Goto(w, "top") /\ UNCHANGED <<pay, goal>>
  <2>1. pc' = [pc EXCEPT ![w] = "top"] /\ pc'[w] = "top" /\ pc'[c] = pc[c]
    BY <1>0, <1>9 DEF Goto, TypeOK
  <2>2. /\ Stored(c)' /\ Got' = Got
        /\ Watched(c)' = Watched(c) /\ Stops(c)' = Stops(c) /\ Early(c)' = Early(c)
    BY <1>5, <2>1, ReadsStop
  <2>3. Shape(w)'
    BY <1>3, <1>6, <1>7, <2>1 DEF Shape, Loop, Planning, Publishing, Waiting
  <2>4. Cancels(w)'
    BY <1>5, <1>6, <1>7, <2>1 DEF Cancels, Level, Loop, Planning, Waiting
  <2>5. Ignores(w)'
    BY <1>5, <1>6, <1>7, <2>1 DEF Ignores, Loop, Planning, Publishing, Waiting
  <2>6. Remembers(c, w)'
    BY <1>6, <1>7, <2>1, <2>2 DEF Remembers, Loop, Planning, Waiting
  <2>7. Early(c)' => Uncancelled(w)'
    BY <1>6, <1>7, <2>1, <2>2 DEF Uncancelled, Loop, Planning, Waiting, Publishing
  <2>8. ~Early(c)' => Heeds(c, w)'
    BY <1>5, <1>6, <1>7, <2>1, <2>2 DEF Heeds, Loop, Planning, Waiting, Corrected
  <2>9. Honest(c, w)'
    BY <2>3, <2>4, <2>5, <2>6, <2>7, <2>8 DEF Honest
  <2> QED
    BY <1>0, <1>5, <1>9, <2>1, <2>2, <2>9, StopStep
<1> QED
  BY <1>4, <1>8, <1>9

LEMMA SucceedStop ==
  ASSUME NEW c, StopInv(c), ViewInv', WorkerGoals', Unspoiled', NEW w \in Workers, Succeed(w)
  PROVE  StopInv(c)'
<1>0. /\ w \in Actors /\ c \in Actors /\ c # w /\ TypeOK /\ pc[w] = "succeed"
      /\ Stored(c) /\ Honest(c, w) /\ own[w] \in Payload
  BY Scene DEF Succeed
<1>1. frame' = frame /\ Lookup /\ UNCHANGED <<batch, stopped, stale, seed, own>>
  BY DEF Succeed, history
<1>2. CASE Goto(w, "release") /\ UNCHANGED <<pay, goal>>
  <2>1. pc' = [pc EXCEPT ![w] = "release"] /\ pc'[w] = "release" /\ pc'[c] = pc[c]
    BY <1>0, <1>2 DEF Goto, TypeOK
  <2>2. Stored(c)'
    BY <1>1, <2>1, ReadsStop
  <2>3. Shape(w)' /\ Cancels(w)' /\ Ignores(w)' /\ Remembers(c, w)' /\ Uncancelled(w)' /\ ~Going(w)'
    BY <2>1 DEF Shape, Cancels, Ignores, Remembers, Uncancelled, Going, Loop, Planning,
       Waiting, Publishing
  <2> QED
    BY <1>0, <1>1, <1>2, <2>1, <2>2, <2>3, StopStep DEF Honest
<1>3. CASE Later \cap Listed(own[w]) = {} /\ Prepare(w, [own[w] EXCEPT !.pend = Later], "reopen")
  <2> DEFINE s == [own[w] EXCEPT !.pend = Later]
  <2>1. /\ pay'[w] = s /\ pc' = [pc EXCEPT ![w] = "persist"] /\ pc'[w] = "persist"
        /\ goal'[w] = "reopen" /\ pc'[c] = pc[c] /\ pay'[c] = pay[c] /\ goal'[c] = goal[c]
    BY <1>0, <1>3 DEF Prepare, Goto, TypeOK
  <2>2. /\ s.act = own[w].act /\ s.pend = Later /\ s.canc = own[w].canc
        /\ s.comp = own[w].comp /\ s.fail = own[w].fail
    BY <1>0 DEF Payload
  <2> HIDE DEF s
  <2>3. /\ Stored(c)' /\ Got' = Got
        /\ Watched(c)' = Watched(c) /\ Stops(c)' = Stops(c) /\ Early(c)' = Early(c)
    BY <1>1, <2>1, ReadsStop
  <2>4. s.act = {} /\ Apart(s)
    BY <1>0, <1>3, <2>2 DEF Honest, Shape, Apart, Open, Listed, Over
  <2>5. Shape(w)'
    BY <2>1, <2>4 DEF Shape, Loop, Planning, Publishing, Waiting
  <2>6. Cancels(w)'
    BY <2>1 DEF Cancels, Loop, Planning, Waiting
  <2>7. Ignores(w)'
    BY <1>0, <1>1, <2>1, <2>2 DEF Honest, Ignores, Loop, Planning, Publishing, Waiting, Refused
  <2>8. \A b \in Watched(c) : Closed(s, b)
    BY <1>0, <1>3, <2>2 DEF Honest, Remembers, Closed, Over, Listed, Open
  <2>9. Remembers(c, w)'
    BY <2>1, <2>3, <2>8 DEF Remembers, Loop, Planning, Waiting
  <2>10. Early(c)' => Uncancelled(w)'
    BY <1>0, <2>1, <2>2, <2>3 DEF Honest, Uncancelled, Loop, Planning, Waiting, Publishing
  <2>11. ~Early(c)' => Heeds(c, w)'
    BY <1>0, <1>1, <2>1, <2>3 DEF Honest, Heeds, Going, Publishing, Loop, Planning, Waiting
  <2>12. Honest(c, w)'
    BY <2>5, <2>6, <2>7, <2>9, <2>10, <2>11 DEF Honest
  <2> QED
    BY <1>0, <1>1, <2>1, <2>3, <2>12, StopStep
<1> QED
  BY <1>2, <1>3 DEF Succeed

(* A settled response is recorded once more: what the worker holds is the  *)
(* newest frame.                                                           *)
LEMMA AuditStop ==
  ASSUME NEW c, StopInv(c), ViewInv', WorkerGoals', Unspoiled', NEW w \in Workers, Audit(w)
  PROVE  StopInv(c)'
<1>0. /\ w \in Actors /\ c \in Actors /\ c # w /\ TypeOK /\ pc[w] = "succeed"
      /\ Stored(c) /\ Honest(c, w) /\ own[w] \in Payload /\ frame \in Payload
  BY Scene DEF Audit
<1>1. own[w] = frame
  BY <1>0 DEF Audit, Honest, Cancels
<1>2. /\ frame' = [own[w] EXCEPT !.seq = @ + 1] /\ pay' = [pay EXCEPT ![w] = frame']
      /\ goal' = [goal EXCEPT ![w] = "release"] /\ pc' = [pc EXCEPT ![w] = "touch"]
      /\ UNCHANGED <<rec, batch, stopped, stale, seed, own>>
  BY DEF Audit, Goto, history
<1>3. /\ pay'[w] = frame' /\ goal'[w] = "release" /\ pc'[w] = "touch" /\ pc'[c] = pc[c]
      /\ pay'[c] = pay[c] /\ goal'[c] = goal[c]
  BY <1>0, <1>2 DEF TypeOK
<1>4. /\ frame'.act = frame.act /\ frame'.pend = frame.pend /\ frame'.canc = frame.canc
      /\ frame'.comp = frame.comp /\ frame'.fail = frame.fail /\ frame'.seq = frame.seq + 1
  BY <1>0, <1>1, <1>2 DEF Payload
<1>5. Got' = frame'
  <2>1. frame.seq \in Nat /\ (rec # None => rec.seq \in Nat /\ rec.seq <= frame.seq)
    BY SeqTyped DEF StopInv, ViewInv, SeqBounded, Within, Unspoiled
  <2> QED
    BY <1>2, <1>4, <2>1 DEF Got, Recover
<1>6. Stops(c)' = Stops(c) /\ Early(c)' = Early(c)
  BY <1>2, <1>3 DEF Stops, Early
<1>7. frame.act = {} /\ Apart(frame)
  BY <1>0, <1>1 DEF Honest, Shape, Stored
<1>8. Apart(frame') /\ frame'.act = {} /\ \A b \in stale : Refused(frame', b)
  BY <1>0, <1>4, <1>7 DEF Apart, Open, Stored, Corrected, Refused
<1>9. Stored(c)'
  <2>1. Apart(frame)' /\ (rec # None => Apart(rec))'
    BY <1>0, <1>2, <1>8 DEF Stored
  <2>2. \A b \in stale' : Corrected(b)'
    BY <1>2, <1>5, <1>8 DEF Corrected
  <2> QED
    BY <1>0, <1>2, <1>4, <1>5, <1>6, <2>1, <2>2 DEF Stored
<1>10. Shape(w)'
  BY <1>3, <1>8 DEF Shape, Loop, Planning, Publishing, Waiting
<1>11. Cancels(w)'
  BY <1>3 DEF Cancels, Loop, Planning, Waiting
<1>12. Ignores(w)'
  BY <1>2, <1>3, <1>8 DEF Ignores, Loop, Planning, Publishing, Waiting
<1>13. Remembers(c, w)'
  BY <1>3 DEF Remembers, Loop, Planning, Waiting
<1>14. Early(c)' => Uncancelled(w)'
  BY <1>3 DEF Uncancelled, Loop, Planning, Waiting, Publishing
<1>15. ~Going(w)'
  BY <1>3 DEF Going, Publishing
<1>16. Honest(c, w)'
  BY <1>10, <1>11, <1>12, <1>13, <1>14, <1>15 DEF Honest
<1> QED
  BY <1>0, <1>2, <1>3, <1>9, <1>16, StopStep

LEMMA ExceptStop ==
  ASSUME NEW c, StopInv(c), ViewInv', WorkerGoals', Unspoiled', NEW w \in Workers, Except(w)
  PROVE  StopInv(c)'
<1>0. /\ w \in Actors /\ c \in Actors /\ c # w /\ TypeOK /\ pc[w] = "except"
      /\ Stored(c) /\ Honest(c, w) /\ Got \in Payload
  BY Scene DEF Except
<1> DEFINE s == Close([Got EXCEPT !.fail = @ \cup Got.act])
<1>1. /\ frame' = frame /\ Lookup /\ Prepare(w, s, "release")
      /\ UNCHANGED <<batch, stopped, stale, seed, own>>
  BY DEF Except, Salvage, history
<1>2. /\ pay'[w] = s /\ pc' = [pc EXCEPT ![w] = "persist"] /\ pc'[w] = "persist"
      /\ goal'[w] = "release" /\ pc'[c] = pc[c] /\ pay'[c] = pay[c] /\ goal'[c] = goal[c]
  BY <1>0, <1>1 DEF Prepare, Goto, TypeOK
<1>3. s.act = {} /\ s.pend = {} /\ s.canc = Got.canc /\ s.comp = Got.comp
  BY <1>0 DEF Close, Payload
<1> HIDE DEF s
<1>4. /\ Stored(c)' /\ Got' = Got
      /\ Watched(c)' = Watched(c) /\ Stops(c)' = Stops(c) /\ Early(c)' = Early(c)
  BY <1>1, <1>2, ReadsStop
<1>5. Shape(w)' /\ Cancels(w)' /\ Remembers(c, w)' /\ ~Going(w)'
  BY <1>2, <1>3 DEF Shape, Cancels, Remembers, Going, Loop, Planning, Publishing, Waiting,
       Apart, Open
<1>6. Ignores(w)'
  BY <1>0, <1>1, <1>2, <1>3
     DEF Stored, Corrected, Ignores, Loop, Planning, Publishing, Waiting, Refused
<1>7. Early(c)' => Uncancelled(w)'
  BY <1>0, <1>2, <1>3, <1>4 DEF Stored, Uncancelled, Loop, Planning, Waiting, Publishing
<1> QED
  BY <1>0, <1>1, <1>2, <1>4, <1>5, <1>6, <1>7, StopStep DEF Honest

LEMMA PersistStop ==
  ASSUME NEW c, StopInv(c), ViewInv', WorkerGoals', Unspoiled', NEW w \in Workers, Persist(w)
  PROVE  StopInv(c)'
<1>0. /\ w \in Actors /\ c \in Actors /\ c # w /\ TypeOK /\ pc[w] = "persist" /\ WorkerGoals
      /\ Stored(c) /\ Honest(c, w) /\ Stopping(c) /\ pay[w] \in Payload /\ frame \in Payload
  BY Scene DEF Persist, StopInv
<1>1. /\ frame' = [pay[w] EXCEPT !.seq = frame.seq + 1] /\ pay' = [pay EXCEPT ![w] = frame']
      /\ pc' = [pc EXCEPT ![w] = "touch"]
      /\ UNCHANGED <<rec, batch, stopped, stale, seed, own, goal>>
  BY DEF Persist, Goto, history
<1>2. pay'[w] = frame' /\ pc'[w] = "touch" /\ pc'[c] = pc[c] /\ pay'[c] = pay[c]
  BY <1>0, <1>1 DEF TypeOK
<1>3. /\ frame'.act = pay[w].act /\ frame'.pend = pay[w].pend /\ frame'.canc = pay[w].canc
      /\ frame'.comp = pay[w].comp /\ frame'.fail = pay[w].fail /\ frame'.seq = frame.seq + 1
  BY <1>0, <1>1 DEF Payload
<1>4. Got' = frame'
  <2>1. frame.seq \in Nat /\ (rec # None => rec.seq \in Nat /\ rec.seq <= frame.seq)
    BY SeqTyped DEF StopInv, ViewInv, SeqBounded, Within, Unspoiled
  <2> QED
    BY <1>1, <1>3, <2>1 DEF Got, Recover
<1>5. Stops(c)' = Stops(c) /\ Early(c)' = Early(c)
  BY <1>1, <1>2 DEF Stops, Early
<1>6. Apart(frame') /\ frame'.act = {}
  BY <1>0, <1>3 DEF Honest, Shape, Publishing, Apart, Open
<1>7. \A b \in stale : Refused(frame', b)
  BY <1>0, <1>3 DEF Honest, Ignores, Publishing, Refused
<1>8. Early(c) => frame'.canc = {} /\ goal[w] # "run"
  BY <1>0, <1>3 DEF Honest, Uncancelled, Publishing
<1>9. goal[w] # "release" => \A b \in Watched(c) : Closed(frame', b)
  BY <1>0, <1>3 DEF Honest, Remembers, Closed, Over, Open
<1>10. Stored(c)'
  <2>1. Apart(frame)' /\ (rec # None => Apart(rec))'
    BY <1>0, <1>1, <1>6 DEF Stored
  <2>2. \A b \in stale' : Corrected(b)'
    BY <1>1, <1>4, <1>7 DEF Corrected
  <2> QED
    BY <1>0, <1>1, <1>4, <1>5, <1>8, <2>1, <2>2 DEF Stored
<1>11. Shape(w)'
  BY <1>0, <1>1, <1>2, <1>3, <1>6 DEF Honest, Shape, Loop, Planning, Publishing, Waiting
<1>12. Cancels(w)'
  BY <1>2 DEF Cancels, Loop, Planning, Waiting
<1>13. Ignores(w)'
  BY <1>1, <1>2, <1>7 DEF Ignores, Loop, Planning, Publishing, Waiting
<1>14. Remembers(c, w)'
  <2>1. Watched(c)' \subseteq Stops(c) \cup IF pc[c] = "new" THEN Open(frame') ELSE {}
    BY <1>2, <1>4, <1>5 DEF Watched
  <2>2. goal[w] # "release" => \A b \in Stops(c) : Closed(frame', b)
    BY <1>9 DEF Watched
  <2>3. pc[c] = "new" /\ goal[w] \in {"succeed", "run"} => Open(frame') = {}
    BY <1>0, <1>3, <1>6, <1>8 DEF Honest, Shape, Publishing, Open, Early
  <2>4. goal[w] # "release" => \A b \in Watched(c)' : b \in Listed(frame')
    BY <2>1, <2>2 DEF Closed, Over, Listed
  <2>5. goal[w] \in {"succeed", "run"} => \A b \in Watched(c)' : Closed(frame', b)
    BY <2>1, <2>2, <2>3
  <2> QED
    BY <1>1, <1>2, <2>4, <2>5 DEF Remembers, Loop, Planning, Waiting
<1>15. Early(c)' => Uncancelled(w)'
  BY <1>1, <1>2, <1>5, <1>8 DEF Uncancelled, Loop, Planning, Waiting, Publishing
<1>16. ~Early(c)' /\ Going(w)' => Heeds(c, w)'
  <2>1. Going(w)' => \A b \in Stops(c) : Closed(frame', b)
    BY <1>1, <1>2, <1>9 DEF Going, Publishing, Watched
  <2> QED
    BY <1>2, <1>4, <1>5, <2>1 DEF Heeds, Loop, Planning, Waiting
<1>17. Honest(c, w)'
  BY <1>11, <1>12, <1>13, <1>14, <1>15, <1>16 DEF Honest
<1> QED
  BY <1>0, <1>1, <1>2, <1>10, <1>17, StopStep

LEMMA PublishStop ==
  ASSUME NEW c, StopInv(c), ViewInv', WorkerGoals', Unspoiled', NEW w \in Workers, Publish(w)
  PROVE  StopInv(c)'
<1>0. /\ w \in Actors /\ c \in Actors /\ c # w /\ TypeOK /\ pc[w] = "touch"
      /\ goal[w] \in {"release", "reopen", "run", "succeed"}
      /\ Stored(c) /\ Honest(c, w) /\ pay[w] \in Payload /\ frame \in Payload
  BY Scene DEF Publish, StopInv, WorkerGoals
<1> DEFINE s == pay[w]
<1>1. s.act = {} /\ Apart(s) /\ s.canc \subseteq frame.canc /\ s.seq <= frame.seq
      /\ (s.seq = frame.seq => s = frame) /\ \A b \in stale : Refused(s, b)
  BY <1>0 DEF Honest, Shape, Cancels, Ignores, Publishing, StopInv, ViewInv,
       SeqBounded, Within, Unspoiled, PublishesFrames, Final
<1>2. [s EXCEPT !.act = {}] = s
  BY <1>0, <1>1 DEF Payload
<1>3. /\ frame' = frame /\ Touch(s) /\ pc' = [pc EXCEPT ![w] = goal[w]]
      /\ own' = [own EXCEPT ![w] = s]
      /\ seed' = IF goal[w] = "reopen" THEN [seed EXCEPT ![w] = s] ELSE seed
      /\ pay' = [pay EXCEPT ![w] = First] /\ goal' = [goal EXCEPT ![w] = "release"]
      /\ UNCHANGED <<batch, stopped, stale>>
  BY <1>2 DEF Publish, Goto, history
<1>4. /\ pc'[w] = goal[w] /\ pc'[c] = pc[c] /\ own'[w] = s /\ pay'[c] = pay[c] /\ goal'[c] = goal[c]
      /\ goal[w] = "reopen" => seed'[w] = s
  BY <1>0, <1>3 DEF TypeOK
<1>5. /\ Stored(c)' /\ Stops(c)' = Stops(c) /\ Early(c)' = Early(c)
      /\ Got' = frame \/ (Got' = s /\ s.seq = frame.seq)
  BY <1>0, <1>1, <1>3, <1>4, TouchesStop
<1>6. Got' = frame
  BY <1>1, <1>5
<1>7. Watched(c)' \subseteq Watched(c)
  BY <1>3, <1>4, <1>5, <1>6 DEF Watched
<1>80. goal[w] = "run" => s.pend \cap s.canc = {}
  BY <1>0 DEF Honest, Shape, Publishing
<1>8. Shape(w)'
  BY <1>0, <1>1, <1>4, <1>80 DEF Shape, Loop, Planning, Publishing, Waiting
<1>9. Cancels(w)'
  BY <1>0, <1>1, <1>3, <1>4, <1>80 DEF Cancels, Level, Loop, Planning, Waiting
<1>10. Ignores(w)'
  BY <1>0, <1>1, <1>3, <1>4 DEF Ignores, Loop, Planning, Publishing, Waiting
<1>11. Remembers(c, w)'
  <2>1. goal[w] = "reopen" => \A b \in Watched(c) : b \in Listed(s)
    BY <1>0 DEF Honest, Remembers
  <2>2. goal[w] \in {"succeed", "run"} => \A b \in Watched(c) : Closed(s, b) /\ b \in Listed(s)
    BY <1>0 DEF Honest, Remembers, Closed, Over, Listed
  <2> QED
    BY <1>0, <1>4, <1>7, <2>1, <2>2 DEF Remembers, Loop, Planning, Waiting
<1>12. Early(c)' => Uncancelled(w)'
  <2>1. Early(c) => s = frame /\ goal[w] # "run" /\ frame.canc = {}
    BY <1>0 DEF Honest, Uncancelled, Publishing, Stored
  <2> QED
    BY <1>0, <1>3, <1>4, <1>5, <1>6, <2>1 DEF Uncancelled, Loop, Planning, Waiting, Publishing
<1>13. ~Early(c)' /\ Going(w)' => Heeds(c, w)'
  <2>1. ASSUME ~Early(c), goal[w] # "release", NEW b \in Stops(c)
        PROVE  /\ Closed(frame, b)
               /\ goal[w] = "reopen" => Refused(frame, b) \/ Closed(s, b)
               /\ goal[w] = "run" => b \notin s.pend
    <3>1. Heeds(c, w) /\ b \in Watched(c)
      BY <1>0, <2>1 DEF Honest, Going, Publishing, Watched
    <3>2. goal[w] = "run" => Closed(s, b)
      BY <1>0, <3>1 DEF Honest, Remembers
    <3> QED
      BY <1>0, <3>1, <3>2 DEF Heeds, Corrected, Closed, Over, Open
  <2>2. Going(w)' => goal[w] # "release"
    BY <1>4 DEF Going
  <2>3. ~Early(c) /\ goal[w] # "release" => Heeds(c, w)'
    BY <1>0, <1>3, <1>4, <1>5, <1>6, <2>1 DEF Heeds, Loop, Planning, Waiting, Corrected
  <2> QED
    BY <1>5, <2>2, <2>3
<1>14. Honest(c, w)'
  BY <1>8, <1>9, <1>10, <1>11, <1>12, <1>13 DEF Honest
<1> QED
  BY <1>0, <1>3, <1>4, <1>5, <1>14, StopStep

LEMMA LeaveStop ==
  ASSUME NEW c, StopInv(c), ViewInv', WorkerGoals', Unspoiled', NEW w \in Workers,
         Schedule(w) \/ StartFails(w) \/ StaleHandoff(w) \/ Release(w) \/ Raise(w)
  PROVE  StopInv(c)'
<1>0. /\ w \in Actors /\ c \in Actors /\ c # w /\ TypeOK /\ pc[w] # "free"
      /\ Stored(c) /\ Honest(c, w)
  BY Scene DEF Schedule, StartFails, StaleHandoff, Release, Raise, InTry
<1>1. frame' = frame /\ (Lookup \/ rec' = rec) /\ stopped' = stopped /\ stale' = stale
  BY DEF Schedule, StartFails, StaleHandoff, Release, Raise, history
<1>2. batch'[c] = batch[c] /\ pay'[c] = pay[c] /\ goal'[c] = goal[c]
  <2>1. UNCHANGED local \/ Gone({w})
    BY DEF Schedule, StartFails, StaleHandoff, Release, Raise
  <2> QED
    BY <1>0, <2>1 DEF Gone, local
<1>3. \/ Goto(w, "free") \/ Goto(w, "except") \/ Goto(w, "release")
      \/ Goto(w, "start") /\ pc[w] = "handoff" /\ seed' = seed
      \/ Goto(w, "handoff") /\ pc[w] = "reopen" /\ seed' = seed
  <2>1. CASE Schedule(w)
    BY <2>1 DEF Schedule, local
  <2>2. CASE StartFails(w) \/ StaleHandoff(w) \/ Raise(w)
    BY <2>2 DEF StartFails, StaleHandoff, Raise
  <2>3. CASE Release(w)
    BY <2>3 DEF Release, local
  <2> QED
    BY <2>1, <2>2, <2>3
<1>4. PICK where : /\ \/ where \in {"free", "except", "release"}
                      \/ where \in {"start", "handoff"} /\ pc[w] \in {"handoff", "reopen"} /\ seed' = seed
                   /\ Goto(w, where)
  BY <1>3
<1>5. pc'[w] = where /\ pc' = [pc EXCEPT ![w] = where] /\ pc'[c] = pc[c]
  BY <1>0, <1>4 DEF Goto, TypeOK
<1>6. /\ Stored(c)' /\ Got' = Got
      /\ Watched(c)' = Watched(c) /\ Stops(c)' = Stops(c) /\ Early(c)' = Early(c)
  BY <1>1, <1>2, <1>5, ReadsStop
<1>7. CASE where \in {"free", "except", "release"}
  <2>1. Shape(w)' /\ Cancels(w)' /\ Ignores(w)' /\ Remembers(c, w)' /\ Uncancelled(w)' /\ ~Going(w)'
    BY <1>5, <1>7 DEF Shape, Cancels, Ignores, Remembers, Uncancelled, Going, Loop, Planning,
       Waiting, Publishing
  <2> QED
    BY <1>0, <1>2, <1>5, <1>6, <2>1, StopStep DEF Honest
<1>8. CASE where \in {"start", "handoff"} /\ pc[w] \in {"handoff", "reopen"} /\ seed' = seed
  <2>1. Shape(w)' /\ Cancels(w)' /\ Ignores(w)'
    BY <1>0, <1>1, <1>5, <1>8
       DEF Honest, Shape, Cancels, Ignores, Level, Loop, Planning, Waiting,
       Publishing
  <2>2. Remembers(c, w)'
    BY <1>0, <1>5, <1>6, <1>8 DEF Honest, Remembers, Loop, Planning, Waiting
  <2>3. Early(c)' => Uncancelled(w)'
    BY <1>0, <1>1, <1>5, <1>6, <1>8 DEF Honest, Uncancelled, Loop, Planning, Waiting, Publishing
  <2>4. ~Early(c)' => Heeds(c, w)'
    BY <1>0, <1>1, <1>5, <1>6, <1>8
       DEF Honest, Heeds, Going, Loop, Planning, Waiting, Publishing, Corrected
  <2>5. Honest(c, w)'
    BY <2>1, <2>2, <2>3, <2>4 DEF Honest
  <2> QED
    BY <1>0, <1>2, <1>5, <1>6, <2>5, StopStep
<1> QED
  BY <1>4, <1>7, <1>8

(* A step of no worker that persists nothing: the request or a reader      *)
(* reads, or the record turns into the newest frame.                       *)
LEMMA AsideStop ==
  ASSUME NEW c, StopInv(c), ViewInv', WorkerGoals', Unspoiled', Stopping(c)',
         \A w \in Workers : pc'[w] = pc[w] /\ seed'[w] = seed[w] /\ own'[w] = own[w] /\ batch'[w] = batch[w]
                            /\ todo'[w] = todo[w] /\ pay'[w] = pay[w] /\ goal'[w] = goal[w],
         frame' = frame, stale' = stale, stopped \subseteq stopped',
         Got' = Got \/ Got' = frame, (rec # None => Apart(rec))',
         Early(c)' => stopped' = stopped /\ Early(c),
         Watched(c)' \subseteq Watched(c), pc'[c] = "new" => pc[c] = "new",
         Early(c) /\ ~Early(c)' => Stops(c)' = {},
         ~Early(c) => Stops(c)' \subseteq Stops(c)
  PROVE  StopInv(c)'
<1>1. Stored(c)
  BY DEF StopInv
<1>2. Stored(c)'
  <2>1. \A b \in stale' : Corrected(b)'
    BY <1>1 DEF Stored, Corrected
  <2> QED
    BY <1>1, <2>1 DEF Stored
<1>3. Alone'
  BY DEF StopInv, Alone
<1>4. ASSUME NEW w \in Workers
      PROVE  Honest(c, w)'
  <2>0. Honest(c, w)
    BY DEF StopInv
  <2>1. /\ pc'[w] = pc[w] /\ seed'[w] = seed[w] /\ own'[w] = own[w] /\ batch'[w] = batch[w]
        /\ todo'[w] = todo[w] /\ pay'[w] = pay[w] /\ goal'[w] = goal[w]
    OBVIOUS
  <2>2. Shape(w)' /\ Cancels(w)' /\ Ignores(w)'
    BY <2>0, <2>1 DEF Honest, Shape, Cancels, Level, Ignores
  <2>4. Remembers(c, w)'
    BY <2>0, <2>1 DEF Honest, Remembers
  <2>5. Early(c)' => Uncancelled(w)'
    BY <2>0, <2>1 DEF Honest, Uncancelled
  <2>6. ~Early(c)' /\ Going(w)' => Heeds(c, w)'
    <3>1. Going(w)' => Going(w)
      BY <2>1 DEF Going
    <3>2. CASE Early(c)
      BY <3>2 DEF Heeds
    <3>3. CASE ~Early(c) /\ Going(w)
      BY <2>0, <2>1, <3>3 DEF Honest, Heeds, Corrected
    <3> QED
      BY <3>1, <3>2, <3>3
  <2> QED
    BY <2>2, <2>4, <2>5, <2>6 DEF Honest
<1> QED
  BY <1>2, <1>3, <1>4 DEF StopInv

LEMMA ControlStop ==
  ASSUME NEW c, StopInv(c), ViewInv', WorkerGoals', Unspoiled', Control(c)
  PROVE  StopInv(c)'
<1>0. /\ c \in Actors /\ c \notin Workers /\ TypeOK /\ (\A w \in Workers : w \in Actors) /\ c \in Controls
      /\ Stored(c) /\ Stopping(c) /\ pc[c] = "new" /\ Got \in Payload
  BY Disjoint, GotTyped DEF Control, StopInv, ViewInv, Actors, Clients
<1>1. batch[c] = {} /\ stopped = {} /\ Early(c) /\ Apart(Got)
  BY <1>0 DEF Stopping, Stored, Early, Got, Recover
<1>2. Lookup /\ frame' = frame /\ UNCHANGED <<stopped, stale, seed, own, todo>>
  BY DEF Control, history
<1>3. Got' = Got
  BY <1>2, ServesOn
<1>4. (rec # None => Apart(rec))'
  BY <1>1, <1>2 DEF Lookup
<1>5. CASE Goto(c, "done") /\ UNCHANGED <<batch, pay, goal>>
  <2>1. pc'[c] = "done" /\ \A w \in Workers : pc'[w] = pc[w]
    BY <1>0, <1>5 DEF Goto, TypeOK
  <2>2. Stops(c)' = {} /\ Watched(c)' = {} /\ ~Early(c)'
    BY <1>1, <1>2, <1>5, <2>1 DEF Stops, Watched, Early
  <2>3. Stopping(c)'
    BY <2>1 DEF Stopping, Publishing
  <2> QED
    BY <1>1, <1>2, <1>3, <1>4, <1>5, <2>1, <2>2, <2>3, AsideStop
<1>6. CASE \E stop \in Scopes(Got) :
              /\ batch' = [batch EXCEPT ![c] = stop]
              /\ Prepare(c, CloseIfSettled([Got EXCEPT !.pend = @ \ stop,
                                                       !.act = @ \ stop,
                                                       !.canc = @ \cup stop]), "reply")
  <2>1. PICK stop \in Scopes(Got) :
              /\ batch' = [batch EXCEPT ![c] = stop]
              /\ Prepare(c, CloseIfSettled([Got EXCEPT !.pend = @ \ stop,
                                                       !.act = @ \ stop,
                                                       !.canc = @ \cup stop]), "reply")
    BY <1>6
  <2> DEFINE mine == [Got EXCEPT !.pend = @ \ stop, !.act = @ \ stop, !.canc = @ \cup stop]
             s == CloseIfSettled(mine)
  <2>2. stop \subseteq Open(Got)
    BY DEF Scopes, Open
  <2>3. /\ mine.pend = Got.pend \ stop /\ mine.act = Got.act \ stop /\ mine.canc = Got.canc \cup stop
        /\ mine.comp = Got.comp /\ mine \in Payload
    BY <1>0, <2>2, OpenTyped DEF Payload
  <2>4. /\ Open(s) \subseteq Open(Got) \ stop /\ s.canc = Got.canc \cup stop /\ s.comp = Got.comp
    <3> HIDE DEF mine
    <3> QED
      BY <2>3 DEF CloseIfSettled, Close, Payload, Open
  <2>5. /\ pc'[c] = "persist" /\ pay'[c] = s /\ goal'[c] = "reply" /\ batch'[c] = stop
        /\ \A w \in Workers : /\ pc'[w] = pc[w] /\ pay'[w] = pay[w] /\ goal'[w] = goal[w]
                              /\ batch'[w] = batch[w]
    BY <1>0, <2>1 DEF Prepare, Goto, TypeOK
  <2> HIDE DEF s, mine
  <2>6. Apart(s) /\ \A b \in stop : Closed(s, b) /\ Refused(s, b)
    BY <1>1, <2>2, <2>4 DEF Apart, Closed, Over, Refused
  <2>7. Stopping(c)'
    BY <2>5, <2>6 DEF Stopping
  <2>8. Watched(c)' \subseteq Watched(c)
    BY <1>0, <1>1, <1>2, <2>2, <2>5 DEF Watched, Stops
  <2>9. Early(c)'
    BY <2>5 DEF Early
  <2> QED
    BY <1>1, <1>2, <1>3, <1>4, <2>5, <2>7, <2>8, <2>9, AsideStop
<1> QED
  BY <1>5, <1>6 DEF Control

(* The stop reaches the ledger. *)
LEMMA StopPersists ==
  ASSUME NEW c, StopInv(c), ViewInv', WorkerGoals', Unspoiled', Persist(c)
  PROVE  StopInv(c)'
<1>0. /\ c \in Actors /\ c \notin Workers /\ TypeOK /\ (\A w \in Workers : w \in Actors) /\ c \in Controls
      /\ Stored(c) /\ Stopping(c) /\ pc[c] = "persist" /\ pay[c] \in Payload /\ frame \in Payload
  BY Disjoint DEF Persist, StopInv, ViewInv, Actors, Clients, TypeOK
<1>1. /\ frame' = [pay[c] EXCEPT !.seq = frame.seq + 1] /\ pay' = [pay EXCEPT ![c] = frame']
      /\ pc' = [pc EXCEPT ![c] = "touch"]
      /\ UNCHANGED <<rec, batch, stopped, stale, seed, own, todo, goal>>
  BY DEF Persist, Goto, history
<1>2. /\ pay'[c] = frame' /\ pc'[c] = "touch"
      /\ \A w \in Workers : pc'[w] = pc[w] /\ pay'[w] = pay[w]
  BY <1>0, <1>1 DEF TypeOK
<1>3. /\ frame'.act = pay[c].act /\ frame'.pend = pay[c].pend /\ frame'.canc = pay[c].canc
      /\ frame'.comp = pay[c].comp /\ frame'.fail = pay[c].fail /\ frame'.seq = frame.seq + 1
  BY <1>0, <1>1 DEF Payload
<1>4. Got' = frame'
  <2>1. frame.seq \in Nat /\ (rec # None => rec.seq \in Nat /\ rec.seq <= frame.seq)
    BY SeqTyped DEF StopInv, ViewInv, SeqBounded, Within, Unspoiled
  <2> QED
    BY <1>1, <1>3, <2>1 DEF Got, Recover
<1>5. Early(c) /\ ~Early(c)' /\ stopped = {} /\ stale = {} /\ frame.canc = {}
  BY <1>0, <1>2 DEF Early, Stored
<1>6. Stops(c)' = batch[c] /\ Watched(c)' = batch[c] /\ batch[c] \subseteq Watched(c)
  BY <1>1, <1>2, <1>5 DEF Stops, Watched
<1>7. Apart(frame') /\ \A b \in batch[c] : Closed(frame', b) /\ Refused(frame', b)
  BY <1>0, <1>3 DEF Stopping, Publishing, Apart, Closed, Over, Refused, Open
<1>8. Stopping(c)'
  BY <1>0, <1>1, <1>2, <1>7 DEF Stopping, Publishing
<1>9. Stored(c)'
  BY <1>0, <1>1, <1>4, <1>5, <1>7 DEF Stored
<1>10. Alone'
  BY <1>2 DEF StopInv, Alone
<1>11. ASSUME NEW w \in Workers
       PROVE  Honest(c, w)'
  <2>0. /\ Honest(c, w) /\ Uncancelled(w) /\ w \in Actors
        /\ own[w].seq <= frame.seq /\ pay[w].seq <= frame.seq /\ seed[w].seq <= frame.seq
        /\ own[w].seq \in Nat /\ pay[w].seq \in Nat /\ seed[w].seq \in Nat /\ frame.seq \in Nat
    BY <1>0, <1>5, SeqTyped DEF StopInv, Honest, ViewInv, SeqBounded, Within, Unspoiled
  <2>1. /\ pc'[w] = pc[w] /\ seed'[w] = seed[w] /\ own'[w] = own[w] /\ batch'[w] = batch[w]
        /\ todo'[w] = todo[w] /\ pay'[w] = pay[w] /\ goal'[w] = goal[w]
    BY <1>1, <1>2
  <2>2. own[w].seq # frame'.seq /\ pay[w].seq # frame'.seq /\ seed[w].seq # frame'.seq
    BY <1>3, <2>0
  <2>3. Shape(w)'
    BY <2>0, <2>1 DEF Honest, Shape
  <2>4. Cancels(w)'
    BY <1>5, <2>0, <2>1, <2>2 DEF Uncancelled, Cancels, Level, Loop, Planning, Waiting
  <2>5. Ignores(w)'
    BY <1>1, <1>5 DEF Ignores
  <2>6. Remembers(c, w)'
    BY <1>2, <1>6, <2>0, <2>1 DEF Honest, Remembers
  <2>7. Heeds(c, w)'
    BY <1>4, <1>6, <1>7, <2>1, <2>2 DEF Heeds, Corrected
  <2> QED
    BY <1>5, <2>3, <2>4, <2>5, <2>6, <2>7 DEF Honest
<1> QED
  BY <1>8, <1>9, <1>10, <1>11 DEF StopInv

LEMMA StopPublishes ==
  ASSUME NEW c, StopInv(c), ViewInv', WorkerGoals', Unspoiled', Publish(c) \/ Reply(c)
  PROVE  StopInv(c)'
<1>0. /\ c \in Actors /\ c \notin Workers /\ TypeOK /\ (\A w \in Workers : w \in Actors) /\ c \in Controls
      /\ Stored(c) /\ Stopping(c) /\ pc[c] \in {"touch", "reply"} /\ pay[c] \in Payload
  BY Disjoint DEF Publish, Reply, StopInv, ViewInv, Actors, Clients, TypeOK
<1>1. ~Early(c)
  BY <1>0 DEF Early
<1>2. CASE Publish(c)
  <2>1. goal[c] = "reply" /\ Apart(pay[c]) /\ (pay[c].seq = frame.seq => pay[c] = frame)
        /\ pay[c].seq <= frame.seq /\ pay[c].seq \in Nat /\ frame.seq \in Nat
    BY <1>0, <1>2, SeqTyped
       DEF Publish, Stopping, Publishing, StopInv, ViewInv, PublishesFrames, Final,
       SeqBounded, Within, Unspoiled
  <2>2. /\ frame' = frame /\ Touch(pay[c]) /\ pc' = [pc EXCEPT ![c] = "reply"]
        /\ goal' = [goal EXCEPT ![c] = "release"]
        /\ UNCHANGED <<own, seed, pay, batch, todo, stopped, stale>>
    BY <1>0, <1>2, <2>1 DEF Publish, Goto, history
  <2>3. pc'[c] = "reply" /\ \A w \in Workers : pc'[w] = pc[w] /\ goal'[w] = goal[w]
    BY <1>0, <2>2 DEF TypeOK
  <2>4. Got' = frame
    BY <2>1, <2>2 DEF Touch, Got, Recover
  <2>5. (rec # None => Apart(rec))'
    BY <2>1, <2>2 DEF Touch
  <2>6. Stopping(c)' /\ ~Early(c)'
    BY <2>3 DEF Stopping, Publishing, Early
  <2>7. Stops(c)' = Stops(c) /\ Watched(c)' \subseteq Watched(c)
    BY <2>2, <2>3 DEF Stops, Watched
  <2> QED
    BY <1>1, <2>2, <2>3, <2>4, <2>5, <2>6, <2>7, AsideStop
<1>3. CASE Reply(c)
  <2>1. /\ frame' = frame /\ rec' = rec /\ stale' = stale /\ stopped' = stopped \cup batch[c]
        /\ pc' = [pc EXCEPT ![c] = "done"] /\ Gone({c})
    BY <1>3 DEF Reply, Goto, StopInv, Unspoiled
  <2>2. /\ pc'[c] = "done" /\ batch'[c] = {}
        /\ \A w \in Workers : pc'[w] = pc[w] /\ seed'[w] = seed[w] /\ own'[w] = own[w] /\ batch'[w] = batch[w]
                              /\ todo'[w] = todo[w] /\ pay'[w] = pay[w] /\ goal'[w] = goal[w]
    BY <1>0, <2>1 DEF TypeOK, Gone
  <2>3. Got' = Got
    BY <2>1, ServesOn
  <2>4. (rec # None => Apart(rec))'
    BY <1>0, <2>1 DEF Stored
  <2>5. Stopping(c)' /\ ~Early(c)'
    BY <2>2 DEF Stopping, Publishing, Early
  <2>6. Stops(c)' = Stops(c) /\ Watched(c)' \subseteq Watched(c)
    BY <2>1, <2>2 DEF Stops, Watched
  <2> QED
    BY <1>1, <2>1, <2>2, <2>3, <2>4, <2>5, <2>6, AsideStop
<1> QED
  BY <1>2, <1>3

LEMMA OutsideStop ==
  ASSUME NEW c, StopInv(c), ViewInv', WorkerGoals', Unspoiled', Poll \/ Expire \/ Idle \/ UNCHANGED vars
  PROVE  StopInv(c)'
<1>1. /\ frame' = frame /\ pc' = pc /\ UNCHANGED local /\ UNCHANGED history
      /\ Lookup \/ rec' = rec \/ rec' = None \/ rec' = frame
  BY DEF Poll, Expire, Idle, vars, local, history
<1>2. Got' = Got \/ Got' = frame
  BY <1>1, ServesOn
<1>3. (rec # None => Apart(rec))'
  BY <1>1 DEF StopInv, Stored, Lookup, Got, Recover
<1>4. Stopping(c)'
  BY <1>1 DEF StopInv, Stopping, local
<1>5. Early(c)' = Early(c) /\ Stops(c)' = Stops(c) /\ Watched(c)' \subseteq Watched(c)
  BY <1>1, <1>2 DEF Early, Stops, Watched, local, history
<1> QED
  BY <1>1, <1>2, <1>3, <1>4, <1>5, AsideStop DEF local, history

LEMMA RestartStop ==
  ASSUME NEW c, StopInv(c), ViewInv', WorkerGoals', Unspoiled', Restart
  PROVE  StopInv(c)'
<1>0. c \in Actors /\ c \notin Workers /\ TypeOK /\ Stored(c) /\ Stopping(c)
  BY Disjoint DEF StopInv, ViewInv, Actors, Clients
<1>1. /\ frame' = frame /\ rec' = None /\ UNCHANGED <<stopped, stale>> /\ batch'[c] = {}
      /\ pc'[c] = (IF pc[c] = "new" THEN "new" ELSE "done")
      /\ \A w \in Workers : pc'[w] = "free"
  BY <1>0, Disjoint DEF Restart, Gone, history
<1>2. Got' = frame
  BY <1>1 DEF Got, Recover
<1>3. Alone' /\ Stopping(c)'
  BY <1>1 DEF Alone, Stopping, Publishing
<1>4. Early(c)' => Early(c)
  BY <1>1 DEF Early
<1>5. Stored(c)'
  BY <1>0, <1>1, <1>2, <1>4 DEF Stored, Corrected
<1>6. ASSUME NEW w \in Workers
      PROVE  Honest(c, w)'
  <2>1. pc'[w] = "free"
    BY <1>1
  <2>2. Shape(w)' /\ Cancels(w)' /\ Ignores(w)' /\ Remembers(c, w)' /\ Uncancelled(w)' /\ ~Going(w)'
    BY <2>1 DEF Shape, Cancels, Ignores, Remembers, Uncancelled, Going, Loop, Planning,
       Waiting, Publishing
  <2> QED
    BY <2>2 DEF Honest
<1> QED
  BY <1>3, <1>5, <1>6 DEF StopInv

LEMMA NextStop ==
  ASSUME NEW c, StopInv(c), [Next]_vars, Unspoiled'
  PROVE  StopInv(c)'
<1>0. ViewInv' /\ WorkerGoals' /\ Controls = {c} /\ Retries = {}
  BY NextView, GoalsOn DEF StopInv
<1>1. CASE \E w \in Workers : WorkerStep(w) \/ Wake(w) \/ StartFails(w) \/ Raise(w)
  BY <1>0, <1>1, StartStop, TopStop, RunStop, SleepStop, PreflightStop, ReportStop, ReportedStop,
     CollectStop, SettleStop, WaveStop, SucceedStop, AuditStop, ExceptStop, PersistStop,
     PublishStop, LeaveStop DEF WorkerStep
<1>2. CASE ControlStep(c)
  BY <1>0, <1>2, ControlStop, StopPersists, StopPublishes DEF ControlStep
<1>3. CASE Poll \/ Expire \/ Idle \/ UNCHANGED vars
  BY <1>0, <1>3, OutsideStop
<1>4. CASE Restart
  BY <1>0, <1>4, RestartStop
<1>5. ASSUME NEW p, Unwritten(p)
      PROVE  FALSE
  BY <1>5 DEF Unwritten, Unspoiled
<1> QED
  BY <1>0, <1>1, <1>2, <1>3, <1>4, <1>5 DEF Next

LEMMA InitStop ==
  ASSUME NEW c, Controls = {c}, Retries = {}, Init
  PROVE  StopInv(c)
<1>0. c \in Actors /\ c \notin Workers
  BY Disjoint DEF Actors, Clients
<1>00. Unspoiled
  BY DEF Init, Unspoiled
<1>1. PICK w \in Workers :
        pc = [p \in Actors |-> IF p = w THEN "handoff" ELSE IF p \in Workers THEN "free" ELSE "new"]
  BY DEF Init
<1>2. pc[w] = "handoff" /\ pc[c] = "new" /\ \A v \in Workers : v # w => pc[v] = "free"
  BY <1>0, <1>1, Disjoint
<1>3. /\ First.act = {} /\ First.comp = {} /\ First.fail = {} /\ First.canc = {}
  BY DEF First
<1>4. /\ frame = First /\ rec = First /\ Got = First /\ seed[w] = First /\ batch[c] = {}
      /\ stopped = {} /\ stale = {}
  BY <1>0, Disjoint DEF Init, Got, Recover
<1>5. Stopping(c) /\ Early(c)
  BY <1>2, <1>4 DEF Stopping, Publishing, Early
<1>6. Stored(c)
  BY <1>3, <1>4 DEF Stored, Apart
<1>7. Alone
  BY <1>2 DEF Alone
<1>8. Honest(c, w)
  <2>1. Shape(w) /\ Cancels(w) /\ Ignores(w) /\ Uncancelled(w)
    BY <1>2, <1>3, <1>4 DEF Shape, Cancels, Level, Ignores, Uncancelled, Loop, Planning, Waiting,
       Publishing
  <2>2. Remembers(c, w)
    BY <1>2, <1>4 DEF Remembers, Watched, Stops, Listed, Loop, Planning, Waiting, Over
  <2> QED
    BY <1>5, <2>1, <2>2 DEF Honest
<1>9. ASSUME NEW v \in Workers, v # w
      PROVE  Honest(c, v)
  <2>1. pc[v] = "free"
    BY <1>2, <1>9
  <2>2. Shape(v) /\ Cancels(v) /\ Ignores(v) /\ Remembers(c, v) /\ Uncancelled(v) /\ ~Going(v)
    BY <2>1 DEF Shape, Cancels, Ignores, Remembers, Uncancelled, Going, Loop, Planning,
       Waiting, Publishing
  <2> QED
    BY <2>2 DEF Honest
<1>10. WorkerGoals
  BY Disjoint DEF Init, WorkerGoals
<1> QED
  BY <1>00, <1>5, <1>6, <1>7, <1>8, <1>9, <1>10, InitView DEF StopInv

(* Nobody acknowledges a stop where nobody asks for one. *)
NoStops == stopped = {} /\ stale = {}

LEMMA NextNoStops ==
  ASSUME Controls = {}, NoStops, [Next]_vars
  PROVE  NoStops'
<1>1. CASE \E w \in Workers : WorkerStep(w) \/ Wake(w) \/ StartFails(w) \/ Raise(w)
  <2>1. PICK w \in Workers : WorkerStep(w) \/ Wake(w) \/ StartFails(w) \/ Raise(w)
    BY <1>1
  <2>2. CASE Collect(w)
    BY <2>2 DEF Collect, NoStops
  <2>3. CASE Schedule(w) \/ Start(w) \/ StaleHandoff(w) \/ Top(w)
    BY <2>3 DEF NoStops, Schedule, Start, StaleHandoff, Top, history
  <2>4. CASE Run(w) \/ Sleep(w) \/ Preflight(w) \/ Report(w) \/ Reported(w)
    BY <2>4 DEF NoStops, Run, Sleep, Preflight, Report, Reported, history
  <2>5. CASE Settle(w) \/ Wave(w) \/ Persist(w) \/ Publish(w)
    BY <2>5 DEF NoStops, Settle, Wave, Persist, Publish, history
  <2>6. CASE Succeed(w) \/ Audit(w) \/ Release(w) \/ Except(w)
    BY <2>6 DEF NoStops, Succeed, Audit, Release, Except, history
  <2>7. CASE Wake(w) \/ StartFails(w) \/ Raise(w)
    BY <2>7 DEF NoStops, Wake, StartFails, Raise, history
  <2> QED
    BY <2>1, <2>2, <2>3, <2>4, <2>5, <2>6, <2>7 DEF WorkerStep
<1>2. CASE \E r \in Retries : RetryStep(r) \/ Abort(r)
  BY <1>2 DEF NoStops, RetryStep, Abort, Retry, Claim, Publish, Persist, Spawn, history
<1>3. CASE Poll \/ Expire \/ Restart \/ Idle \/ UNCHANGED vars
  BY <1>3 DEF NoStops, Poll, Expire, Restart, Idle, vars, history
<1>4. CASE \E p \in Actors : Unwritten(p)
  BY <1>4 DEF NoStops, Unwritten
<1> QED
  BY <1>1, <1>2, <1>3, <1>4 DEF Next

\* If at most one request reaches the endpoints of a response, a result that
\* comes back after the stop of its branch was acknowledged is never merged
\* as fulfilled (PATTERNS.md:165), wherever the stop falls into the run of the
\* worker, and across exceptions, lost records, restarts, repairs and
\* successor frames; as long as no append has failed and no saved file broke
\* its contract.  A second stop can undo the first (it persists what it read
\* before), and a retry can reopen what was stopped.
THEOREM SingleStopHonoured ==
  (\A p, q \in Clients : p = q)
    => (Spec => [](unsaved = {} /\ demoted = {} => StaleResultsIgnored))
<1> SUFFICES ASSUME \A p, q \in Clients : p = q
             PROVE  Spec => [](unsaved = {} /\ demoted = {} => StaleResultsIgnored)
  OBVIOUS
<1>1. CASE Controls = {}
  <2>1. Init => NoStops
    BY DEF Init, NoStops
  <2>2. NoStops /\ [Next]_vars => NoStops'
    BY <1>1, NextNoStops
  <2>3. NoStops => (unsaved = {} /\ demoted = {} => StaleResultsIgnored)
    BY DEF NoStops, StaleResultsIgnored
  <2> QED
    BY <2>1, <2>2, <2>3, PTL DEF Spec
<1>2. CASE Controls # {}
  <2>1. PICK c : c \in Controls
    BY <1>2
  <2>2. Controls = {c} /\ Retries = {}
    BY <2>1, LateFillAssumption DEF Clients
  <2> DEFINE Inv == Unspoiled => StopInv(c)
  <2>3. Init => Inv
    BY <2>2, InitStop
  <2>4. Inv /\ [Next]_vars => Inv'
    <3> SUFFICES ASSUME Inv, [Next]_vars, Unspoiled' PROVE StopInv(c)'
      OBVIOUS
    <3>1. Unspoiled
      BY KnownStays DEF Unspoiled
    <3> QED
      BY <3>1, NextStop
  <2>5. Inv => (unsaved = {} /\ demoted = {} => StaleResultsIgnored)
    BY DEF StopInv, Unspoiled, Stored, Corrected, Refused, StaleResultsIgnored
  <2> HIDE DEF Inv
  <2> QED
    BY <2>3, <2>4, <2>5, PTL DEF Spec
<1> QED
  BY <1>1, <1>2
=============================================================================
