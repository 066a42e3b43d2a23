------------------------------ MODULE LateFill ------------------------------
(***************************************************************************)
(* The continuation of one response: the Late Fill worker thread, the      *)
(* control endpoint that stops branches, the retry endpoint that reopens   *)
(* failed ones, and the two places that hold the response meanwhile: the   *)
(* live lookup record in memory and the newest frame of the durable        *)
(* ledger (module FrameLedger; here one finalization is one step).         *)
(*                                                                         *)
(* A payload is abstracted to the branch lists of its late_fill object and *)
(* the sequence of the frame it carries.  cancelled_branches stands for    *)
(* branch_controls too, and for all of cancelled, waived and superseded.   *)
(* Which results a branch returns, which saved files meet their contract,  *)
(* how a batch is shaped and which sibling joins a retry wave are choices. *)
(***************************************************************************)
EXTENDS Naturals, FiniteSets

CONSTANTS
    None,
    Branches,     \* branches the response can come to owe
    Later,        \* those only a graph-patch successor frame reopens
    Repairs,      \* those only the closure review of a settled frame queues
    Needs,        \* Needs[b]: branches b depends on
    Present,      \* branches whose artifact may exist before they are executed
    Inspected,    \* branches whose saved file the terminal contract inspects
    Workers,      \* threads that can run complete_response_late_fill
    Controls,     \* single requests to the control endpoint
    Retries,      \* single requests to the retry endpoint
    MaxRequeues,  \* automatic repair attempts (availability waits use none)
    MaxFaults,    \* exceptions inside a worker or a retry request
    MaxLosses,    \* expired lookup records and process restarts
    MaxStartFailures, \* threads the interpreter cannot start
    MaxUnwritten  \* finalizations whose append to the ledger fails

ASSUME LateFillAssumption ==
    /\ IsFiniteSet(Branches)
    /\ UNION {Later, Repairs, Present, Inspected} \subseteq Branches
    /\ Needs \in [Branches -> SUBSET Branches]
    /\ Workers \cap Controls = {} /\ Workers \cap Retries = {} /\ Controls \cap Retries = {}
    /\ {MaxRequeues, MaxFaults, MaxLosses, MaxStartFailures, MaxUnwritten} \subseteq Nat

(* What the request itself asked for. *)
Owed == Branches \ (Later \cup Repairs)

Clients == Controls \cup Retries
Actors == Workers \cup Clients

(* again: branches the retry endpoint marked as an explicit retry attempt *)
Payload == [seq : Nat, pend : SUBSET Branches, act : SUBSET Branches,
            comp : SUBSET Branches, fail : SUBSET Branches,
            canc : SUBSET Branches, again : SUBSET Branches]

(* A status that is still open without listed work only exists in memory,  *)
(* between a worker's report and its next publication: nothing reads it    *)
(* here.                                                                   *)
Open(s) == s.pend \cup s.act
Over(s) == s.comp \cup s.fail \cup s.canc
Listed(s) == Open(s) \cup Over(s)

(* The branches of the response's request graph. *)
Graph(s) == Owed \cup Listed(s)

(* A terminal late_fill status empties the open lists. *)
Close(s) == [s EXCEPT !.pend = {}, !.act = {}, !.again = {}]
CloseIfSettled(s) == IF Open(s) = {} THEN Close(s) ELSE s

VARIABLES
    frame,    \* payload of the newest durable frame
    rec,      \* payload of the live lookup record, or None
    claimed,  \* the response is in response_late_fill_in_flight
    pc,       \* where each actor is
    seed,     \* seed[w]: payload (and gap) worker w was started with
    own,      \* own[w]: its local lists and the sequence of its payload
    batch,    \* batch[w]: its active branches; batch[c]: what control c stops
    todo,     \* todo[w]: active branches yet to report or to settle
    wait,     \* wait[w]: pending branches waiting for an instance
    pay,      \* pay[p]: the payload p is about to persist or to touch with
    goal,     \* goal[p]: where p goes once that payload is published
    stopped,  \* branches an acknowledged control stopped, all appends done
    stale,    \* branches whose result came back after that
    unsaved,  \* finalized payloads whose frame could not be appended
    demoted,  \* fulfilled branches whose saved file broke the contract
    left      \* what is left of each bound

local == <<seed, own, batch, todo, wait, pay, goal>>
history == <<stopped, stale, unsaved, demoted>>
vars == <<frame, rec, claimed, pc, local, history, left>>

First == [seq |-> 1, pend |-> Owed, act |-> {}, comp |-> {},
          fail |-> {}, canc |-> {}, again |-> {}]

(* The request thread has persisted and published its answer and calls     *)
(* schedule_response_late_fill.                                            *)
Init ==
    /\ frame = First /\ rec = First /\ claimed = FALSE
    /\ \E w \in Workers :
         pc = [p \in Actors |-> IF p = w THEN "handoff"
                                ELSE IF p \in Workers THEN "free" ELSE "new"]
    /\ seed = [p \in Actors |-> First]
    /\ own = [p \in Actors |-> First]
    /\ batch = [p \in Actors |-> {}]
    /\ todo = [p \in Actors |-> {}]
    /\ wait = [p \in Actors |-> {}]
    /\ pay = [p \in Actors |-> First]
    /\ goal = [p \in Actors |-> "release"]
    /\ stopped = {} /\ stale = {} /\ unsaved = {} /\ demoted = {}
    /\ left = [requeues |-> MaxRequeues, faults |-> MaxFaults, losses |-> MaxLosses,
               starts |-> MaxStartFailures, appends |-> MaxUnwritten]

Goto(p, where) == pc' = [pc EXCEPT ![p] = where]

(* The locals of a thread, or of a request, go with it. *)
Gone(P) ==
    /\ seed' = [p \in Actors |-> IF p \in P THEN First ELSE seed[p]]
    /\ own' = [p \in Actors |-> IF p \in P THEN First ELSE own[p]]
    /\ batch' = [p \in Actors |-> IF p \in P THEN {} ELSE batch[p]]
    /\ todo' = [p \in Actors |-> IF p \in P THEN {} ELSE todo[p]]
    /\ wait' = [p \in Actors |-> IF p \in P THEN {} ELSE wait[p]]
    /\ pay' = [p \in Actors |-> IF p \in P THEN First ELSE pay[p]]
    /\ goal' = [p \in Actors |-> IF p \in P THEN "release" ELSE goal[p]]

Spend(what) == /\ left[what] > 0
               /\ left' = [left EXCEPT ![what] = @ - 1]

-----------------------------------------------------------------------------
(* The lookup record. *)

(* get_response_lookup_record: a record whose frame is older than the      *)
(* ledger's newest one, or that is missing, is recovered from the ledger   *)
(* and stored.                                                             *)
RecoverMissing == rec = None            \* Faulty: trusts any live record
Recover == rec # None => rec.seq < frame.seq

Got == IF Recover THEN frame ELSE rec
Lookup == rec' = Got

(* touch_response_lookup ignores a response without a record. *)
Touch(s) == rec' = IF rec = None THEN None ELSE s

(* A lookup may also put the newest frame in place of a record that is not *)
(* older: of two payloads it prefers the one the ledger marked durable,    *)
(* the one with more outputs or slots, the one whose lifecycle is further. *)
(* That is data left out here, so any lookup may do it at any time: as     *)
(* this step of some reader, or right before a lookup below.               *)
Poll ==
    /\ rec # frame
    /\ rec' = frame
    /\ UNCHANGED <<frame, claimed, pc, local, history, left>>

(* The TTL of a record ran out. *)
Expire ==
    /\ rec # None
    /\ Spend("losses")
    /\ rec' = None
    /\ UNCHANGED <<frame, claimed, pc, local, history>>

-----------------------------------------------------------------------------
(* Persisting and publishing, the same for workers and endpoints. *)

Prepare(p, s, next) ==
    /\ pay' = [pay EXCEPT ![p] = s]
    /\ goal' = [goal EXCEPT ![p] = next]
    /\ Goto(p, "persist")

(* finalize_response_frame_payload(persist=True): the next frame of the    *)
(* response holds this payload, whatever the newest frame held.            *)
Persist(p) ==
    /\ pc[p] = "persist"
    /\ frame' = [pay[p] EXCEPT !.seq = frame.seq + 1]
    /\ pay' = [pay EXCEPT ![p] = frame']
    /\ Goto(p, "touch")
    /\ UNCHANGED <<rec, claimed, seed, own, batch, todo, wait, goal, history, left>>

(* An append that raises is logged and no more: the caller publishes its   *)
(* payload all the same, numbered as the frame it was to be (or, if the    *)
(* ledger could not even be read, after the frame it was built from).      *)
Unwritten(p) ==
    /\ pc[p] = "persist"
    /\ Spend("appends")
    /\ \E parent \in {frame.seq, pay[p].seq} :
         LET lost == [pay[p] EXCEPT !.seq = parent + 1] IN
         /\ pay' = [pay EXCEPT ![p] = lost]
         /\ unsaved' = unsaved \cup {lost}
    /\ Goto(p, "touch")
    /\ UNCHANGED <<frame, rec, claimed, seed, own, batch, todo, wait, goal,
                   stopped, stale, demoted>>

Publish(p) ==
    /\ pc[p] = "touch"
    /\ Touch(pay[p])
    /\ own' = IF p \in Workers THEN [own EXCEPT ![p] = [pay[p] EXCEPT !.act = {}]] ELSE own
    /\ seed' = IF goal[p] = "reopen" THEN [seed EXCEPT ![p] = pay[p]] ELSE seed
    /\ pay' = IF p \in Workers THEN [pay EXCEPT ![p] = First] ELSE pay
    /\ goal' = [goal EXCEPT ![p] = "release"]
    /\ Goto(p, goal[p])
    /\ UNCHANGED <<frame, claimed, batch, todo, wait, history, left>>

-----------------------------------------------------------------------------
(* The worker. *)

MayClaimAlways == TRUE                  \* Faulty: adds without testing
MayClaim == ~claimed

(* schedule_response_late_fill; a response already claimed is left to the  *)
(* worker that holds it.                                                   *)
Schedule(w) ==
    /\ pc[w] = "handoff"
    /\ Goto(w, IF MayClaim THEN "start" ELSE "free")
    /\ claimed' = TRUE
    /\ IF MayClaim THEN UNCHANGED local ELSE Gone({w})
    /\ UNCHANGED <<frame, rec, history, left>>

(* worker.start() raises: the claim was taken and nobody releases it. *)
StartFails(w) ==
    /\ pc[w] = "handoff" /\ MayClaim
    /\ Spend("starts")
    /\ claimed' = TRUE
    /\ Goto(w, "free")
    /\ Gone({w})
    /\ UNCHANGED <<frame, rec, history>>

(* The worker starts from the payload it was handed only if that one still *)
(* has open work and the stored one has none.                              *)
Base(w) == IF Open(seed[w]) # {} /\ Open(Got) = {} THEN seed[w] ELSE Got

(* Pending branches of the payload, or else those of the request graph     *)
(* that neither completed nor failed.                                      *)
Extracted(s) == IF s.pend # {} THEN s.pend ELSE Graph(s) \ (s.comp \cup s.fail)

(* The pending list of the gap wins if it is longer, or authoritative. *)
Wanted(w) ==
    LET gap == seed[w].pend
        extracted == Extracted(Base(w))
    IN  IF Cardinality(gap) > Cardinality(extracted) THEN {gap}
        ELSE IF gap = {} THEN {extracted} ELSE {gap, extracted}

(* finalize_terminal_materialization_contract, for the payload a worker    *)
(* ends with.  A fulfilled branch whose saved file breaks its contract     *)
(* loses its fulfilment.  Repairs the closure review can execute replace   *)
(* it as the pending work of a reopened response; otherwise it stays       *)
(* listed as open work nobody runs.                                        *)
Conclude(w, s) ==
    \E unmet \in SUBSET (s.comp \cap Inspected), repairs \in SUBSET (Repairs \ Listed(s)) :
      /\ demoted' = demoted \cup unmet
      /\ Prepare(w, [Close(s) EXCEPT !.comp = @ \ unmet,
                                     !.pend = IF repairs = {} THEN unmet ELSE repairs],
                 IF repairs = {} THEN "succeed" ELSE "reopen")

(* A worker handed repairs, of which the response records one as over (a   *)
(* graph-patch successor carries no such key), takes its handoff for stale *)
(* and ends.                                                               *)
StaleHandoff(w) ==
    /\ pc[w] = "start"
    /\ Lookup
    /\ seed[w].pend \cap Repairs \cap Over(Got) # {}
    /\ Goto(w, "release")
    /\ UNCHANGED <<frame, claimed, local, history, left>>

Start(w) ==
    LET base == Base(w) IN
    /\ pc[w] = "start"
    /\ Lookup
    /\ \E want \in Wanted(w) :
         LET pending == want \ (base.comp \cup base.fail \cup base.canc) IN
         \E found \in SUBSET (pending \cap Present) :
           LET mine == [base EXCEPT !.pend = pending \ found,
                                    !.act = {},
                                    !.comp = (@ \ (base.fail \cup base.canc)) \cup found,
                                    !.again = (@ \cup seed[w].again) \cap pending]
           IN  /\ own' = [own EXCEPT ![w] = mine]
               /\ IF mine.pend = {}
                  THEN Conclude(w, mine)
                  ELSE Goto(w, "top") /\ UNCHANGED <<pay, goal, demoted>>
    /\ UNCHANGED <<frame, claimed, seed, batch, todo, wait, stopped, stale, unsaved, left>>

(* The head of the loop re-reads the record and passes every pending       *)
(* branch through the semantic execution gate.                             *)
Top(w) ==
    LET gated == own[w].pend \cap Got.canc
        mine == [own[w] EXCEPT !.seq = Got.seq, !.canc = Got.canc, !.pend = @ \ gated]
    IN
    /\ pc[w] = "top"
    /\ Lookup
    /\ own' = [own EXCEPT ![w] = mine]
    /\ \/ gated = {} /\ Goto(w, "run") /\ UNCHANGED <<pay, goal, demoted>>
       \/ gated # {} /\ mine.pend = {} /\ Conclude(w, mine)
       \/ gated # {} /\ mine.pend # {} /\ Prepare(w, mine, "run") /\ UNCHANGED demoted
    /\ UNCHANGED <<frame, claimed, seed, batch, todo, wait, stopped, stale, unsaved, left>>

Ready(s) == {b \in s.pend : Needs[b] \subseteq s.comp}
ReadyBatches(s) == (SUBSET Ready(s)) \ {{}}       \* Faulty as Batches: no fallback

(* The next batch is part of what is ready; if nothing is, one pending     *)
(* branch is tried anyway.                                                 *)
Batches(s) == IF Ready(s) # {} THEN (SUBSET Ready(s)) \ {{}} ELSE {{b} : b \in s.pend}

(* Of the next batch, those not waiting for an instance become active. *)
Run(w) ==
    /\ pc[w] = "run"
    /\ \E now \in Batches(own[w]) :
         LET eligible == now \ wait[w] IN
         /\ eligible # {}
         /\ batch' = [batch EXCEPT ![w] = eligible]
         /\ todo' = [todo EXCEPT ![w] = eligible]
         /\ Touch([own[w] EXCEPT !.act = eligible])
    /\ Goto(w, "preflight")
    /\ UNCHANGED <<frame, claimed, seed, own, wait, pay, goal, history, left>>

(* A batch that waits as a whole: the worker sleeps and starts over. *)
Sleep(w) ==
    /\ pc[w] = "run"
    /\ \E now \in Batches(own[w]) : now \subseteq wait[w]
    /\ Goto(w, "top")
    /\ UNCHANGED <<frame, rec, claimed, local, history, left>>

(* The next poll of a waiting branch is due.  It may be at any time, but   *)
(* only where the worker looks does it matter.                             *)
Wake(w) ==
    /\ pc[w] \in {"top", "run", "settle"}
    /\ \E b \in wait[w] : wait' = [wait EXCEPT ![w] = @ \ {b}]
    /\ UNCHANGED <<frame, rec, claimed, pc, seed, own, batch, todo, pay, goal, history, left>>

(* Active branches whose file is saved already are fulfilled without being *)
(* executed, and without another look at the execution gate.               *)
Preflight(w) ==
    /\ pc[w] = "preflight"
    /\ Lookup
    /\ \E found \in SUBSET (batch[w] \cap Present) :
         /\ own' = [own EXCEPT ![w].comp = @ \cup found, ![w].fail = @ \ found]
         /\ batch' = [batch EXCEPT ![w] = @ \ found]
         /\ todo' = [todo EXCEPT ![w] = @ \ found]
    /\ Goto(w, "execute")
    /\ UNCHANGED <<frame, claimed, seed, wait, pay, goal, history, left>>

(* publish_live_branch_progress for a branch that reports a terminal       *)
(* status: read the record, take the branch out of its open lists, touch.  *)
Report(w) ==
    /\ pc[w] = "execute"
    /\ Lookup
    /\ \E b \in todo[w] :
         /\ todo' = [todo EXCEPT ![w] = @ \ {b}]
         /\ pay' = [pay EXCEPT ![w] = [Got EXCEPT !.pend = @ \ {b}, !.act = @ \ {b}]]
    /\ Goto(w, "report")
    /\ UNCHANGED <<frame, claimed, seed, own, batch, wait, goal, history, left>>

Reported(w) ==
    /\ pc[w] = "report"
    /\ Touch(pay[w])
    /\ pay' = [pay EXCEPT ![w] = First]
    /\ Goto(w, "execute")
    /\ UNCHANGED <<frame, claimed, seed, own, batch, todo, wait, goal, history, left>>

ToSettlePending(w) == own[w].pend       \* Faulty: walks the pending branches
ToSettle(w) == batch[w]

(* All branches of the batch have returned. *)
Collect(w) ==
    /\ pc[w] = "execute"
    /\ todo' = [todo EXCEPT ![w] = ToSettle(w)]
    /\ stale' = stale \cup (batch[w] \cap stopped)
    /\ Goto(w, "settle")
    /\ UNCHANGED <<frame, rec, claimed, seed, own, batch, wait, pay, goal,
                   stopped, unsaved, demoted, left>>

(* One result: the record is read again and a branch stopped meanwhile is  *)
(* cancelled whatever it returned; otherwise it is fulfilled or failed, or *)
(* it stays pending: for an automatic repair attempt, or to wait for an    *)
(* instance that cools down, which uses up no attempt.                     *)
Settle(w) ==
    /\ pc[w] = "settle"
    /\ Lookup
    /\ \E b \in todo[w] :
         /\ todo' = [todo EXCEPT ![w] = @ \ {b}]
         /\ LET mine == [own[w] EXCEPT !.canc = Got.canc] IN
            \/ /\ b \in Got.canc
               /\ own' = [own EXCEPT ![w] = mine]
               /\ UNCHANGED <<wait, left>>
            \/ /\ b \notin Got.canc
               /\ \/ own' = [own EXCEPT ![w] = [mine EXCEPT !.comp = @ \cup {b}]]
                  \/ own' = [own EXCEPT ![w] = [mine EXCEPT !.fail = @ \cup {b}]]
               /\ UNCHANGED <<wait, left>>
            \/ /\ b \notin Got.canc
               /\ Spend("requeues")
               /\ \E attempts \in {mine.again, mine.again \ {b}} :
                    own' = [own EXCEPT ![w] = [mine EXCEPT !.again = attempts]]
               /\ UNCHANGED wait
            \/ /\ b \notin Got.canc
               /\ own' = [own EXCEPT ![w] = mine]
               /\ wait' = [wait EXCEPT ![w] = @ \cup {b}]
               /\ UNCHANGED left
    /\ UNCHANGED <<frame, claimed, pc, seed, batch, pay, goal, history>>

RemainingDropsBatch(w) == own[w].pend \ batch[w]              \* Faulty: drops requeued ones
RemainingKeepsFailed(w) == own[w].pend \ (own[w].comp \cup own[w].canc)   \* Faulty
Remaining(w) == own[w].pend \ (own[w].comp \cup own[w].fail \cup own[w].canc)

(* Faulty: the settled payload is published without a frame of its own *)
WaveLightweight(w) ==
    LET mine == [own[w] EXCEPT !.pend = Remaining(w)] IN
    /\ pc[w] = "settle" /\ todo[w] = {}
    /\ own' = [own EXCEPT ![w] = mine]
    /\ batch' = [batch EXCEPT ![w] = {}]
    /\ IF mine.pend = {}
       THEN /\ Touch(Close(mine)) /\ Goto(w, "succeed")
       ELSE /\ \E next \in Batches(mine) : Touch([mine EXCEPT !.act = next \ wait[w]])
            /\ Goto(w, "top")
    /\ UNCHANGED <<frame, claimed, seed, todo, wait, pay, goal, history, left>>

(* The wave is over.  With work left the record alone is touched           *)
(* (lightweight_nonterminal); a settled payload is persisted first.        *)
Wave(w) ==
    LET mine == [own[w] EXCEPT !.pend = Remaining(w)] IN
    /\ pc[w] = "settle" /\ todo[w] = {}
    /\ own' = [own EXCEPT ![w] = mine]
    /\ batch' = [batch EXCEPT ![w] = {}]
    /\ IF mine.pend = {}
       THEN Conclude(w, mine) /\ UNCHANGED rec
       ELSE /\ \E next \in Batches(mine) : Touch([mine EXCEPT !.act = next \ wait[w]])
            /\ Goto(w, "top") /\ UNCHANGED <<pay, goal, demoted>>
    /\ UNCHANGED <<frame, claimed, seed, todo, wait, stopped, stale, unsaved, left>>

(* A settled response may hold a validated graph patch: its successor is   *)
(* persisted before its worker is scheduled, unless it is recorded         *)
(* already.                                                                *)
Succeed(w) ==
    /\ pc[w] = "succeed"
    /\ Lookup
    /\ \/ /\ Later # {} /\ Later \cap Listed(own[w]) = {} /\ Later \cap Listed(Got) = {}
          /\ Prepare(w, [own[w] EXCEPT !.pend = Later], "reopen")
       \/ Goto(w, "release") /\ UNCHANGED <<pay, goal>>
    /\ UNCHANGED <<frame, claimed, seed, own, batch, todo, wait, history, left>>

(* A denied patch is recorded: the payload once more, as the next frame,   *)
(* if its own frame is still the newest (a compare-and-swap append).  Only *)
(* a frame that is found in the ledger afterwards is published.            *)
Audit(w) ==
    /\ pc[w] = "succeed"
    /\ own[w].seq = frame.seq
    /\ frame' = [own[w] EXCEPT !.seq = @ + 1]
    /\ pay' = [pay EXCEPT ![w] = frame']
    /\ goal' = [goal EXCEPT ![w] = "release"]
    /\ Goto(w, "touch")
    /\ UNCHANGED <<rec, claimed, seed, own, batch, todo, wait, history, left>>

(* Faulty: the successor is scheduled while the claim is still held *)
ReleaseAfterHandoff(w) ==
    /\ pc[w] \in {"release", "reopen"}
    /\ claimed' = (pc[w] = "reopen")
    /\ Goto(w, IF pc[w] = "reopen" THEN "handoff" ELSE "free")
    /\ IF pc[w] = "reopen" THEN UNCHANGED local ELSE Gone({w})
    /\ UNCHANGED <<frame, rec, history, left>>

(* The finally block: release, and only then schedule the successor. *)
Release(w) ==
    /\ pc[w] \in {"release", "reopen"}
    /\ claimed' = FALSE
    /\ Goto(w, IF pc[w] = "reopen" THEN "handoff" ELSE "free")
    /\ IF pc[w] = "reopen" THEN UNCHANGED local ELSE Gone({w})
    /\ UNCHANGED <<frame, rec, history, left>>

(* Exceptions of the progress callback are swallowed: its touch is lost,   *)
(* which is as if it had not been called.                                  *)
InTry(w) ==
    \/ pc[w] \in {"start", "top", "run", "preflight", "execute", "settle", "succeed"}
    \/ pc[w] \in {"persist", "touch"} /\ goal[w] # "release"

Raise(w) ==
    /\ InTry(w)
    /\ Spend("faults")
    /\ Goto(w, "except")
    /\ UNCHANGED <<frame, rec, claimed, local, history>>

(* What the exception handler keeps: the lists of the stored payload, its  *)
(* active branches failed, and by the terminal status nothing pending.     *)
SalvageSeed(w) == Close([seed[w] EXCEPT !.fail = @ \cup seed[w].act])   \* Faulty
Salvage(w) == Close([Got EXCEPT !.fail = @ \cup Got.act])

Except(w) ==
    /\ pc[w] = "except"
    /\ Lookup
    /\ Prepare(w, Salvage(w), "release")
    /\ UNCHANGED <<frame, claimed, seed, own, batch, todo, wait, history, left>>

-----------------------------------------------------------------------------
(* The control endpoint. *)

Scopes(s) == {{b} : b \in Open(s)} \cup {Open(s)} \cup {IF s.act # {} THEN s.act ELSE s.pend}

Control(c) ==
    /\ pc[c] = "new"
    /\ Lookup
    /\ IF Open(Got) = {}
       THEN Goto(c, "done") /\ UNCHANGED <<batch, pay, goal>>       \* 404
       ELSE \E stop \in Scopes(Got) :
              /\ batch' = [batch EXCEPT ![c] = stop]
              /\ Prepare(c, CloseIfSettled([Got EXCEPT !.pend = @ \ stop,
                                                       !.act = @ \ stop,
                                                       !.canc = @ \cup stop]), "reply")
    /\ UNCHANGED <<frame, claimed, seed, own, todo, wait, history, left>>

(* The stop is acknowledged to the caller.  A failed append before that,   *)
(* the one of the stop itself included, may hide it from the worker.       *)
Reply(c) ==
    /\ pc[c] = "reply"
    /\ stopped' = IF unsaved = {} THEN stopped \cup batch[c] ELSE stopped
    /\ Goto(c, "done")
    /\ Gone({c})
    /\ UNCHANGED <<frame, rec, claimed, stale, unsaved, demoted, left>>

-----------------------------------------------------------------------------
(* The retry endpoint. *)

(* An explicit retry nobody works on counts as failed again. *)
Projected(s) ==
    LET orphans == IF claimed THEN {} ELSE Open(s) \cap s.again
    IN  [s EXCEPT !.pend = @ \ orphans, !.act = @ \ orphans, !.fail = @ \cup orphans]

(* One retryable failed branch, and siblings of any list or of the graph   *)
(* that are neither fulfilled nor stopped.                                 *)
Retry(r) ==
    LET s == Projected(Got) IN
    /\ pc[r] = "new"
    /\ Lookup
    /\ IF s.fail = {}
       THEN Goto(r, "done") /\ UNCHANGED pay                        \* 409
       ELSE /\ \E target \in s.fail :
                 \E siblings \in SUBSET (Graph(s) \ (s.comp \cup s.canc)) :
                   LET requeued == {target} \cup siblings IN
                   pay' = [pay EXCEPT ![r] = [s EXCEPT !.pend = @ \cup requeued,
                                                       !.act = {target},
                                                       !.fail = @ \ requeued,
                                                       !.again = @ \cup requeued]]
            /\ Goto(r, "claim")
    /\ UNCHANGED <<frame, claimed, seed, own, batch, todo, wait, goal, history, left>>

(* Only now is the response claimed; a second worker is refused (409). *)
Claim(r) ==
    /\ pc[r] = "claim"
    /\ IF MayClaim
       THEN Prepare(r, pay[r], "spawn") /\ UNCHANGED <<seed, own, batch, todo, wait>>
       ELSE Goto(r, "done") /\ Gone({r})
    /\ claimed' = TRUE
    /\ UNCHANGED <<frame, rec, history, left>>

Spawn(r) ==
    /\ pc[r] = "spawn"
    /\ \E w \in Workers :
         /\ pc[w] = "free"
         /\ seed' = [seed EXCEPT ![w] = pay[r]]
         /\ pc' = [pc EXCEPT ![r] = "done", ![w] = "start"]
    /\ pay' = [pay EXCEPT ![r] = First]
    /\ UNCHANGED <<frame, rec, claimed, own, batch, todo, wait, goal, history, left>>

(* Any exception after the claim, a thread that does not start included. *)
Abort(r) ==
    /\ pc[r] \in {"persist", "touch", "spawn"}
    /\ Spend("faults")
    /\ claimed' = FALSE
    /\ Goto(r, "done")
    /\ Gone({r})
    /\ UNCHANGED <<frame, rec, history>>

-----------------------------------------------------------------------------
(* The process dies with everything in memory; nothing resumes by itself. *)
Restart ==
    /\ Spend("losses")
    /\ rec' = None
    /\ claimed' = FALSE
    /\ pc' = [p \in Actors |-> IF p \in Workers THEN "free"
                               ELSE IF pc[p] = "new" THEN "new" ELSE "done"]
    /\ Gone(Actors)
    /\ UNCHANGED <<frame, history>>

WorkerStep(w) ==
    \/ Schedule(w) \/ Start(w) \/ StaleHandoff(w) \/ Top(w)
    \/ Run(w) \/ Sleep(w) \/ Preflight(w)
    \/ Report(w) \/ Reported(w) \/ Collect(w) \/ Settle(w) \/ Wave(w)
    \/ Persist(w) \/ Publish(w) \/ Succeed(w) \/ Audit(w) \/ Release(w) \/ Except(w)

ControlStep(c) == Control(c) \/ Persist(c) \/ Publish(c) \/ Reply(c)
RetryStep(r) == Retry(r) \/ Claim(r) \/ Persist(r) \/ Publish(r) \/ Spawn(r)

(* Requests have been sent at most once, exceptions and losses are spent,  *)
(* and nobody works on the response.                                       *)
Quiet == \A p \in Actors : pc[p] \in {"free", "new", "done"}
Idle == Quiet /\ UNCHANGED vars

Next ==
    \/ \E w \in Workers : WorkerStep(w) \/ Wake(w) \/ StartFails(w) \/ Raise(w)
    \/ \E c \in Controls : ControlStep(c)
    \/ \E r \in Retries : RetryStep(r) \/ Abort(r)
    \/ \E p \in Actors : Unwritten(p)
    \/ Poll \/ Expire \/ Restart
    \/ Idle

Spec == Init /\ [][Next]_vars

(* Threads keep running and time passes; a request that was never sent     *)
(* need not come.                                                          *)
Fairness ==
    /\ \A w \in Workers : WF_vars(WorkerStep(w)) /\ WF_vars(Wake(w))
    /\ \A c \in Controls : WF_vars(pc[c] # "new" /\ ControlStep(c))
    /\ \A r \in Retries : WF_vars(pc[r] # "new" /\ RetryStep(r))

FairSpec == Spec /\ Fairness

-----------------------------------------------------------------------------
(* Properties *)

Places == {"free", "handoff", "start", "top", "run", "preflight", "execute", "report", "settle",
           "persist", "touch", "succeed", "release", "reopen", "except",
           "new", "reply", "claim", "spawn", "done"}

\* Types, and that a worker only waits for, or settles, branches of the
\* batch it started (complete_response_late_fill's active_branches).
TypeOK ==
    /\ frame \in Payload /\ rec \in Payload \cup {None} /\ claimed \in BOOLEAN
    /\ pc \in [Actors -> Places]
    /\ seed \in [Actors -> Payload] /\ own \in [Actors -> Payload]
    /\ pay \in [Actors -> Payload] /\ goal \in [Actors -> Places]
    /\ batch \in [Actors -> SUBSET Branches]
    /\ todo \in [Actors -> SUBSET Branches]
    /\ wait \in [Actors -> SUBSET Branches]
    /\ \A w \in Workers : todo[w] \subseteq batch[w]
    /\ stopped \subseteq Branches /\ stale \subseteq Branches
    /\ unsaved \subseteq Payload /\ demoted \subseteq Branches
    /\ left \in [{"requeues", "faults", "losses", "starts", "appends"} -> Nat]

Working == {w \in Workers : pc[w] \notin {"free", "handoff"}}
Retrying == {r \in Retries : pc[r] \in {"persist", "touch", "spawn"}}

\* Whoever schedules it (the request, a retry, a successor handoff), one
\* worker or retry at a time executes and rewrites the response.
OneWorker == \A p, q \in Working \cup Retrying : p = q

\* A response that refuses further workers has somebody working on it: the
\* claim is never left behind, so a retry is never refused for good
\* (late_fill_runtime.py:23729-23732: "an existing worker or explicit
\* recovery remains authoritative").
ClaimHasHolder == claimed => Working \cup Retrying # {}

\* A result that came back after its branch was stopped, and the stop was
\* acknowledged, is not merged as fulfilled work (PATTERNS.md:165,
\* PRINCIPLES.md:157), if no append had failed when the stop was
\* acknowledged; later ones may fail.
StaleResultsIgnored == stale \cap frame.comp = {}

\* Once nobody works on the response, what a lookup serves is the newest
\* durable frame, or a finalized payload whose append failed: never a state
\* that a worker or its callback only passed through.
QuietViewIsFinal == Quiet => Got = frame \/ Got \in unsaved

(* No client intervened so far, and every append succeeded: a record that   *)
(* is lost before a later append succeeds takes an unsaved payload along.   *)
Undisturbed == unsaved = {} /\ \A p \in Clients : pc[p] = "new"
Untouched == Undisturbed /\ left.faults = MaxFaults

\* As long as nothing failed and no client intervened, a branch the request
\* owes is in one of the lists of the newest frame at any time, unless its
\* saved file broke the contract.
NothingForgotten == Untouched => Owed \subseteq Listed(frame) \cup demoted

\* Unless a client intervenes or an append fails, no later frame takes a
\* fulfilled branch back, not even the one an exception handler writes; only
\* the contract does, for a branch whose saved file breaks it.
FulfilledStays == [][Undisturbed => frame.comp \subseteq frame'.comp \cup demoted']_vars

(* A branch starts to wait for an instance. *)
Waits(w) == Settle(w) /\ wait'[w] # wait[w]
WaitsEnd == <>[][~\E w \in Workers : Waits(w)]_vars

\* Every attempt ends: a claimed response is released, unless instances keep
\* failing over into cooldown for ever, which takes no attempt away.
AttemptsEnd == WaitsEnd => (claimed ~> ~claimed)

\* If nothing fails and nothing is lost, every branch the request owes, and
\* every branch a successor or a repair reopened, settles in the newest
\* frame, one whose dependency failed included.
OwedWorkSettles ==
    WaitsEnd =>
      <>[](Untouched /\ left.losses = MaxLosses
             => Owed \cup Listed(frame) \subseteq Over(frame) \cup demoted)
=============================================================================
