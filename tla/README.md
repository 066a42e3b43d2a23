# A TLA+ development of ollmo

ollmo is a local control plane for language, image, audio and embedding models.
A request is planned into a graph of branches; the first answer is returned at
once and the branches it still owes are executed afterwards ("Late Fill"). What a
response *is* at any time is decided by an append-only ledger of response frames.
This development specifies, model-checks and partly proves that core: the ledger
and everything that continues a response after its first answer.

## 1. The system

| Part | State | Operations | Talks to |
| --- | --- | --- | --- |
| Response-frame ledger (`ollmo_services/response_frames.py`) | ledger file, index file, snapshot sidecars, the append lock | plain append, append with parent compare-and-swap, index publication, attestation, recovery read | finalizer, lookup, maintenance |
| Finalizer (`_finalize_response_frame_payload`, `ollmo_webserver.py:1120`) | the live payload and its frame metadata | build the next frame, append it, keep its receipt | ledger, all handlers |
| Responses runtime (`ollmo_server/responses_runtime.py`) | lookup records with a TTL, streams, claimed responses | register, touch, get, prune; register, append, wait, close; claim, release | everything that handles a response |
| Lookup arbitration (`ollmo_server/response_lookup_runtime.py`, `ollmo_webserver.py:1984-2203`) | none of its own | choose between the record and the newest frame; recover a missing record | runtime, ledger |
| Late Fill worker (`ollmo_server/late_fill_runtime.py`) | the lists of the response and the locals of one thread per response | start, gate, wave, settle, persist, successor, release | all of the above, branch waves |
| Control and retry endpoints (`ollmo_webserver.py:5081-5635`) | none of their own | stop branches; reopen a failed branch with its wave | runtime, finalizer, worker |
| Branch waves (`ollmo_server/multi_materialization_runtime.py`) | a pool, one mutex per instance, a progress dispatcher | run the branches of a batch, report, collect | worker, inference |
| HTML preview packages (`ollmo_webserver.py:10920-11180`) | packages, leases, timers | create, lease, release, expire, evict | file system |
| Response streams (`chat_runtime.py`, `ollmo_webserver.py:1810-1981`) | per response an event list and a done flag | append, wait, close | runtime, HTTP clients |
| Ledger maintenance (`response_frame_ledger_maintenance.py`) | backups, a rewritten ledger and index | audit, offline compaction | ledger |
| Graph rebase (readiness registry, rollout, operator) | an append-only registry file | observe, adjudicate, authorize, append idempotently | ledger, worker |
| Instance lifecycle (`ollmo_core/lifecycle.py`, `ollmo_runtime`) | the registry of instances, two start locks | start, stop, liveness | operating system |
| Self-learning, events, history, artifact registry | files behind one lock or an atomic replacement | append, install, roll back | all |
| Ghost routing and planning, inference, UI, CLI | none that outlives a request | classification, prompts, I/O | all |

### What is hard here

* Threads: request threads, one Late Fill worker per response, pool threads of a
  wave, its progress dispatcher, control and retry requests, timers. The ledger
  has a lock, the claim set has one, a record is touched under one; a read,
  a computation and a persistence of a payload are under none.
* Two copies of the truth: the record in memory and the newest frame. A wave that
  leaves work is published in memory only.
* Two files of the ledger: a row is durable before the index knows it.
* Crashes, restarts, expired records, exceptions in the middle of an append or of
  a wave, appends that fail and are only logged, threads that do not start.

### What makes each part correct

* Ledger: an acknowledged row is never lost or rewritten; the frames of a response
  form one chain; the index never says something the rows contradict; a
  compare-and-swap is decided truthfully; omitted bodies are recoverable; a lookup
  never answers with something older than what was there when it looked.
* Continuation: one worker at a time, and a claim that always has a holder; a
  stopped branch is never merged as fulfilled; owed branches are not forgotten and
  fulfilled ones not taken back; attempts end; what is served at rest is a finalized
  payload and, as long as appends succeed, the durable one.
* Streams: a reader is told how the response ended before its stream does, an update
  never takes back what an earlier one showed as settled, everybody gets to an end.
* Preview packages: no files are deleted under a lease; the limits hold; no directory
  is left behind unless a failure nobody handles abandons it.
* Waves: one branch of a wave at a time per instance, an even spread over instances,
  every branch answered and told exactly once before the wave returns.
* Instance lifecycle: no two starts at once, no stopped instance left registered.

`PROJECT.json` lists every part with what is modelled of it, the hazards of the
code line by line, and the definitions with the lines they stand for.

## 2. Modules

| Module | What it is |
| --- | --- |
| `FrameLineage` | the abstract promise of the ledger: per response a chain of frames that only grows, one linked frame at a time |
| `FrameLedger` | the ledger as the code writes, indexes and reads it; the refinement mapping to `FrameLineage` |
| `MCFrameLedger` | TLC instance |
| `FrameLedgerProofs` | type correctness, exactness of a verified index, durability of acknowledged rows, current answers of lookups |
| `FrameChainProofs` | across crashes: one chain per response, truthful compare-and-swap, the refinement of `FrameLineage`; without faults: truthful refusals, restorable bodies, cached manifests |
| `LateFill` | worker, control endpoint, retry endpoint, live record and newest frame of one response |
| `MCLateFill` | TLC instance |
| `LateFillProofs` | types, mutual exclusion of workers, held claims, the view at rest, fulfilled branches kept, owed branches listed, a single stop honoured |
| `BranchWaves` | `execute_materialization_branches`: preparation, pool, mutexes, progress; any number of waves side by side |
| `MCBranchWaves` | TLC definitions: who may use which instance, in which order |
| `BranchWavesProofs` | the mutex of a wave; a wave that returned is complete; reservations spread evenly |
| `ResponseStreams` | extends `BranchWaves` with the chat thread, the worker that calls one wave after the other, the callbacks, the event stream and its reader |
| `MCResponseStreams` | TLC instance on the definitions of `MCBranchWaves` |
| `ResponseStreamsProofs` | a reader that leaves has been told |
| `StreamOrderProofs` | a stream runs the waves; types; updates never reopen a branch; a stream is not done before its worker |
| `PreviewPackages` | temporary HTML preview packages: creation, eviction, timers, leases |
| `MCPreviewPackages` | TLC instance |
| `PreviewPackagesProofs` | what is leased is on disk; types and lease counts; the limits of the table |
| `LedgerCompaction` | the compaction command with appends, attestation and an end at any point |
| `MCLedgerCompaction` | TLC instance |
| `LedgerCompactionProofs` | a compaction loses no row; types; previews stay readable; lookups stay right |

Where an operator is labelled *Faulty* it is a plausible wrong version of the
definition that follows it; it is used to confirm that a property notices.

### FrameLedger

State. `ledger` is the sequence of complete rows and `torn` says whether partial
bytes follow the last one; a row appended behind partial bytes is `glued`: the
line scan cannot parse it. `synced` is how many rows an fsync covers. `index` has
its `size`, `verified` (the coverage fields; 0 when absent) and one entry per
response with the sequence, the position and the effective snapshot manifest.
`lock` is `_RESPONSE_FRAME_APPEND_LOCK`. A writer has a place `pc`, the frame it
was asked to append (`job`), the compacted `row` and the effective manifest
`man`. `held` is which frame sequences live payloads carry. A reader has the
ledger stat it saw, its copy of the index, whether it may retry, and its answer.

Actions.

| Action | Code |
| --- | --- |
| `BeginInitial`, `BeginSuccessor` | the finalizer builds a first frame or a successor of any frame a live payload carries; compare-and-swap or plain |
| `EnrichUnlocked` | `enrich_response_frame_for_ledger_append`, outside the lock |
| `Prepare`, `Refuse` | take the lock, find the parent, compare, enrich again, compact; or raise `ResponseFrameParentCASMismatch` |
| `StartWrite`, `FinishWrite`, `Fsync`, `Publish` | the bytes of the line, fsync, index replacement and return |
| `Fail` | any other exception inside the append |
| `Attest` | `attest_response_frame_index` |
| `Ask`, `LoadIndex`, `LookUp`, `Confirm` | `load_latest_response_state` with its two stats and one retry |
| `Crash`, `LoseIndex` | environment |

Abstractions. Map digest and entry count of the index are functions of the map in
the same atomically replaced file and have no state. Line offsets are positions.
A scan is one step of a reader (appends only add behind it). Snapshot bodies are
taken as present. Emptying the ledger file is not an action.

### LateFill

State. `frame` is the newest durable frame and `rec` the live record, or `None`;
both are abstracted to the branch lists of the `late_fill` object (`pend`, `act`,
`comp`, `fail`, `canc`), the branches marked as explicit retry attempts (`again`)
and the sequence of the frame they belong to. `claimed` is membership in
`response_late_fill_in_flight`. Each actor has a place `pc`; a worker has the
payload it was started with (`seed`), its local lists (`own`), its batch and what
of it is still to report or to settle (`batch`, `todo`), and the pending branches
that wait for an instance (`wait`); whoever persists has the
payload (`pay`) and where it goes then (`goal`). Four variables are history:
`stopped`, the branches whose stop was acknowledged while no append had failed;
`stale`, those of them whose result came back afterwards; `unsaved`, the finalized
payloads whose frame could not be appended; and `demoted`, the fulfilled branches
whose saved file broke the terminal contract. `left` counts what is left of the bounds.

Actions.

| Action | Code |
| --- | --- |
| `Schedule`, `StartFails` | `schedule_response_late_fill`: claim and start a thread |
| `Start` | the head of `complete_response_late_fill`: which payload to trust, which branches are pending, which are already fulfilled |
| `StaleHandoff` | a worker that is handed repairs of which one is recorded as over returns at once |
| `Top` | re-read of the record and semantic gate at the head of the loop |
| `Run` | what does not wait of the next batch becomes active; the record is touched |
| `Sleep`, `Wake` | a batch that waits as a whole: the worker sleeps and starts over; the poll of a waiting branch is due |
| `Preflight` | branches whose file is saved already are fulfilled without being executed, and without the gate after execution |
| `Report`, `Reported` | the progress callback: read, then touch |
| `Collect`, `Settle` | the wave returned; per branch re-read the stop list, then fulfil, fail, cancel, requeue for a repair attempt, or leave it waiting for an instance, which uses no attempt |
| `Wave` | end of the wave: touch the record if work is left, else conclude |
| `Conclude` | part of `Start`, `Top` and `Wave`: `finalize_terminal_materialization_contract` demotes fulfilled branches whose file breaks its contract and may queue repairs, which reopen the response |
| `Succeed` | a validated graph patch reopens the response with its successor branches |
| `Audit` | a denied patch is recorded in one more frame, by compare-and-swap |
| `Release` | the `finally` block |
| `Raise`, `Except` | an exception in the `try` block and its handler |
| `Control`, `Reply` | the control endpoint: read and compute, (persist, publish), acknowledge |
| `Retry`, `Claim`, `Spawn`, `Abort` | the retry endpoint |
| `Persist`, `Publish` | finalization and `touch_response_lookup`, shared by all |
| `Unwritten` | a finalization whose append raises: it is logged, and the payload published all the same |
| `Poll`, `Expire`, `Restart` | a lookup that prefers the newest frame to a record of the same or a later sequence; TTL; end of the process |

Abstractions. `canc` stands for cancelled, waived and superseded branches and for
`branch_controls`. One finalization is one step, because `FrameLedger` shows in
detail what an append is; that an append may fail is all that is left of it here.
Reading the record with its refresh from the ledger is one step. A record whose
frame is older than the newest one is always refreshed (`Recover`). Of two payloads
with the same sequence, or of a newer one in memory, the code prefers the newest
frame if it alone is marked durable, shows more outputs or slots, or is further in
its lifecycle; the model leaves out what these compare, so `Poll` lets any lookup do
it at any time. Repairs replace what the contract left pending, and a repair branch
is in no list yet; the successor of a graph patch has branches of its own (`Later`).
`Present` are the branches whose file may be found before they are executed,
`Inspected` those whose file the contract looks at. When a poll is due is a choice
(`Wake`). The siblings of a retry come from the lists and from the branches of the
request graph (`Graph`); those of open contract checks are among them, because a
check is about a branch of the graph. Progress events of a branch that is still
running change nothing modelled. The gate frame of `Top` that leaves work pending is
written without the terminal contract. Left out are the partial graph-rebase handoff
and the replay guard for a terminal parent (`late_fill_runtime.py:21844`), which only
answers a worker that is handed a payload without open work: none of the callers in
the model does. Which results a branch returns is a choice.

### BranchWaves

State. `phase[v]` is how far a call is. `reserved` are the reservations per group;
`plan[b]` is the instance a prepared branch selected; `at[b]` is where the branch is
(listed, ready, queued in the pool, dequeued and waiting for a mutex, running, done,
collected, or refused in preparation); `outcome[b]` its result. `lock[v][i]` is the
mutex of instance `i` in wave `v`: the dictionary of mutexes is local to the call.
`told` and `hears` are the queue and the thread of the progress executor, `calls[b]`
counts the callbacks that are over.

| Action | Code |
| --- | --- |
| `Begin`, `Prepare` | the loop over the branches of a call: exclusions, reservations, the one retry without reservations |
| `Submit`, `Dequeue` | all prepared plans to a pool of `Workers(v)` threads, fast lane first; a single worker is the calling thread itself |
| `Run`, `Finish` | `execute_plan`: the mutex, the call, the release on every way out |
| `Collect` | the loop over `as_completed`: keep the result, emit progress |
| `CallbackBegin`, `CallbackEnd` | `dispatch_branch_progress` |
| `Return` | pool shut down, progress drained, results ordered |

Abstractions. Which free instance a plan selects is a choice (the ranking of
instances is the router's). A preparation may fail for any reason. Timings, causal
events and the policy record are left out. `max_workers` is always computed: no
caller passes it.

### ResponseStreams

State. `chat` is the thread of the streamed answer, `gap` whether the answer owes
branches. `worker` is the Late Fill worker with its lists `own`; `rec` is the
`late_fill` object of the live record, `seen[v]` what a running callback read of
it; `stream` is the registered stream: done or not, the kinds of events appended,
and the open branches the last update showed. `reader` is the generator.

| Action | Code |
| --- | --- |
| `Answer`, `Complete`, `Handoff`, `ChatFails` | `stream_worker` of the chat runtime |
| `Start`, `StartWave`, `Settle`, `WorkerFails` | `complete_response_late_fill`, with every touch that publishes |
| `ReadProgress`, `TouchProgress` | `publish_live_branch_progress`, its read and its touch |
| `ReaderLeaves`, `ReaderGone` | the generator of the SSE response: end, disconnect |

Abstractions. The event list and the cursor are left out: a generator yields what
was appended in order, and leaves only when the stream is done and it has yielded
all, so "what it was told" is what was appended by then. `Outcome` keeps of the
lifecycle derivation what decides the end of a stream. Waves of one response come
one after the other in the order of the request graph; requeues, stops and lost
records are in `LateFill`.

### PreviewPackages

State. `cached`, `lease`, `recent` (`<<p, q>>`: p was accessed before q), `retired` and
`ripe` are the table and what is in its records; `timer[p]` the timer of a package; `disk` the
directories; `doom[t]` the directories that thread `t` goes on to delete after it
left the lock; `stuck` those whose deletion failed; `at` where each request is. A request to create is named by the
package it makes. Everything under `_SAVED_HTML_PREVIEW_PACKAGES_LOCK` is one step.

| Action | Code |
| --- | --- |
| `Stage`, `Insert`, `StartTimer`, `CreateFails` | `_create_response_bound_saved_html_preview_package` |
| `Wrap` | the wrapper page, which looks the package up again |
| `TimerFails` | `timer.start()` raises after the package was inserted |
| `Find`, `Lease`, `Resolve`, `Release` | the asset endpoint: lookup, lease, second lookup with the file, close of the response |
| `ResolveRaises` | the resolver raises before the `try` block: the request ends and its lease stays |
| `Ripen`, `Expire` | time passes; the timer fires |
| `Delete`, `DeleteFails` | `_delete_saved_html_preview_package_path`, one directory at a time, with errors ignored |

Abstractions. A lookup that finds an expired package retires it in a second section
of the lock; as nothing can be leased in between, both are one step. A new package
takes its access time before the lock, so `Insert` places it before any packages
that were accessed in between. Contents, names, tokens and fingerprints are left out.

### LedgerCompaction

State. `ledger`, `index` and `cas` (the snapshot sidecars) are files. A row has its
`inline` preview, the `ref` that replaced it, and the item it `logged` itself; what it
did not log it inherits from the row before it (`Expanded`). `step` is how far the
command is, `source` the files as it audited and captured them, `temp` the rewritten
rows and what they were made from. `written` is history: the frames as they were
written.

| Action | Code |
| --- | --- |
| `AppendFrame`, `AppendStops` | an append, or one that stops after its sidecar and before its row |
| `Attest` | `attest_response_frame_index` as a command of its own |
| `Audit`, `Capture`, `Backup`, `Rewrite`, `Check` | `compact_response_frame_ledger` up to its last look at the files |
| `InstallLedger`, `InstallIndex` | the two `os.replace` |
| `Stop` | refusal, exception, kill, or the regular end |

Abstractions. The only content of a frame is its preview. Appends do not overlap and
do not fail after the row is written (`FrameLedger` has both; the second is finding 1).
A byte position is the sequence of the rows before it, each inline or not, so that an
old position never matches by chance after a saving and an append that add up to the
same number. Files of an earlier release are arbitrary rows with inline previews and an
exact index, with or without coverage fields. The operator asserts `--writers-stopped`
before the command begins; the model only relies on it between `Check` and
`InstallIndex`, because before that the code itself notices a writer.

## 3. Runs

| Run | Properties | Instance | What it shows |
| --- | --- | --- | --- |
| `ledger_threads` | `FramesFormOneChain`, `CasParentWasCurrent`, `BodiesRestorable`, `IndexedManifestIsExpanded`, `RefinesLineage`, `RefusalsAreTrue` | 2 responses, 2 writers, 4 rows, no fault | threads with and without compare-and-swap form one chain; truthful decisions; nothing that was not logged is lost |
| `ledger_crashes` | `ReadsAreCurrent`, `FramesFormOneChain`, `RefinesLineage` | 2 responses, a writer, a lock-free reader, 1 body, 3 rows, a crash, whole rows | a crash between row and index is noticed by the next append and by the reader |
| `ledger_faults` | `TypeOK`, `VerifiedIndexIsExact`, `DurableRowsNeverChange` | 2 responses, 2 writers, 3 rows, a crash with torn writes, an exception, a lost index | an index that claims coverage is exact whatever failed; acknowledged rows stay |
| `ledger_live` | `JobsEnd`, `LookupsEnd` | fair threads, 2 writers, a reader, an exception | no path keeps the lock; a lookup retries once |
| `ledger_bodies_gap` | `BodiesRestorable` (violated) | a crash | finding 1 |
| `ledger_torn_tail` | `ReadsAreCurrent` (violated) | a crash with a torn write | finding 2 |
| `latefill_stop` | `TypeOK`, `StaleResultsIgnored`, `QuietViewIsFinal`, `NothingForgotten` | 2 dependent branches, the file of one possibly present and inspected, 1 control; a failed append, an exception, a loss, a repair attempt, any number of waits, a thread that does not start | one stop at any moment is honoured; what is served at rest was finalized; owed work is accounted for |
| `latefill_attempts` | `OneWorker`, `ClaimHasHolder`, `FulfilledStays`, `AttemptsEnd`, `OwedWorkSettles` | 2 threads, 1 retry, a branch that a successor or a repair reopens, a file that is inspected; an exception, a loss, any number of waits; fair threads | one worker, a claim that always has a holder, attempts end, work settles |
| `latefill_two_stops` | `StaleResultsIgnored` (violated) | 2 controls | finding 3 |
| `streams` | `StreamsTypeOK`, `OneCallPerWave`, `ReturnIsComplete`, `LoadIsEven`, `LeavesInformed`, `NoEarlyEnd`, `UpdatesNeverReopen`, `EverybodyEnds` | 2 waves of 3 and 1 branches, 2 instances, one branch local and in the fast lane, an exception, a client that may disconnect; fair threads | what a wave guarantees its caller, and what the stream guarantees its reader |
| `previews` | `PreviewTypeOK`, `LeasedOnDisk`, `WithinBounds`, `PackagesGo` | 3 packages, one large, a table for 2 or 4 units, 2 asset requests; a resolver that raises, a timer that does not start or a deletion that fails; fair threads and time | serving is safe from expiry, eviction and failure, no other path leaks a lease, and only what such a failure abandons is left behind |
| `ledger_compaction` | `TypeOK`, `RowsSurvive`, `PreviewsReadable`, `LookupsStayRight` | 2 responses, 2 previews, every history of up to 3 rows, 4 rows; any number of compactions, attestations and ends | rows, previews and lookups survive a compaction wherever it stops |

Bounds. Two responses are what a shared ledger and index need (an index that knows
one response and not the other); two bodies and one path tell an inherited ref
from a changed one (`ledger_crashes` asks nothing of what is inherited: one body);
four rows give each response a chain of two with either
thread in between, three rows suffice for "before the fault, at it, after it".
Two branches are what a dependency, a stop of one and not the other, and a
successor need. Two retry requests race for one claim; a third adds nothing that
two do not show, because the claim is one bit. Three branches over two instances are
what it takes for a reservation group to run out and start again and for a pool
thread to wait for a mutex; a second wave is what a late callback of the first could
disturb. Three packages are one more than fit, and the large one alone needs all
others to give way; two asset requests are what a lease count above one needs. Three
historic rows give one response a chain of two with the other's row around or between
them, and the fourth is a successor of whatever a compaction left. One exception or loss at every
possible step covers each recovery path once. Faults that the code reacts to in
the same way share a bound (`MaxLosses`: expiry and restart; `MaxFailures` of the
previews: whatever leaves a package without anybody to clear it up).
`MaxRequeues` bounds automatic repair attempts, of which the code counts the number;
waits for an instance are not bounded. `latefill_stop` has a repair attempt and a
failed append, `latefill_attempts` neither: both only add steps of kinds it has
already, and what a failed append changes is not about attempts. The ledger is not
stopped by a guard of the code but by `MaxRows`, hence Attest keeps it running;
`LateFill` ends in `Idle`; `LedgerCompaction` stops when the ledger is full and
nothing is left to compact. All symmetric sets are sets of interchangeable actors,
responses or bodies, and no run with a liveness property uses symmetry.

Fairness. Steps of threads that were started are weakly fair: the interpreter
schedules threads preemptively. A request that was not sent need not come and no
fault is assumed to happen. Nothing is assumed of the order in which waiting
threads get the append lock. Branch execution is assumed to return: backends are
called with timeouts. A waiting branch is polled again after a bounded time (`Wake`
is fair), but its instance may cool down again: a wait uses up no attempt
(`docs/CONTROL_KNOBS.md:132`), so a worker can wait for ever. `AttemptsEnd` and
`OwedWorkSettles` therefore assume `WaitsEnd`: from some time on no branch starts
another wait. Nothing else about waiting is assumed. `StreamsFairSpec` and `PreviewFairSpec` only assume that *some*
thread that can go on does, the weakest fairness there is; it suffices because one
response and a fixed set of packages have a finite amount of work. `PackagesGo`
also assumes that time passes and that responses are closed; it speaks of every
directory not in `Abandoned`, i.e. of those without a leaked lease, a failed deletion
or a timer that never started.

## 4. Proofs

All theorems hold for all constants that satisfy the assumptions of their module:
any number of actors, responses, branches, rows and faults. Where one has a further
hypothesis, it is named with the behaviour that makes it necessary. Sums, expanded
manifests and other recursive functions of the models are reasoned about with least
counterexamples, i.e. the least element of a set of naturals at which the claim would
fail, instead of the library's induction theorems.

`FrameLedgerProofs`:

* `TypeCorrect`: `Spec => []TypeOK`;
* `VerifiedIndexExact`: `Spec => []VerifiedIndexIsExact`;
* `AckedRowsDurable`: `Spec => DurableRowsNeverChange`;
* `AnswersAreCurrent`: `NothingTears => (Spec => []ReadsAreCurrent)`.

The invariant behind the first three is `IInv`: `TypeOK`, `WritersOK`,
`IndexBehindDisk` and `VerifiedIndexIsExact`. `VerifiedIndexIsExact` alone is not
inductive: that a published entry is right depends on what its writer holds since it
took the lock. `WritersOK` is the lock discipline (a writer between `prepared` and
`synced` holds the lock and the row at the end of the ledger is its own) and
`IndexBehindDisk` says that an index never covers more than what an fsync made durable.
Together they say why the order fsync before index publication matters: a crash cannot
cut rows that a verified index counts. The last row of a response is the greatest of
a finite set of positions; that greatest elements exist is proved from the
library's theorem on finite sets.

For `AnswersAreCurrent`, `Whole` says that unfinished bytes belong to the writer that
holds the lock, so no row is ever glued to a torn line, and `LookupsOK` that the copy of
the index a reader has loaded is exact about a prefix of a ledger that only grows.
`NothingTears` (either writes do not tear, or nothing crashes and nothing raises) is
needed: finding 2 is a row behind a torn line.

`FrameChainProofs`, across any number of crashes but without exceptions, lost indexes
and torn lines (`CrashesOnly`):

* `ConcurrentAppendsChain`: `CrashesOnly => (Spec => []FramesFormOneChain)`;
* `SwapsAreAtomic`: `CrashesOnly => (Spec => []CasParentWasCurrent)`;
* `LedgerRefinesLineage`: `CrashesOnly => (Spec => RefinesLineage)`;

and without any fault (`NoFaults`):

* `RefusalsTrue`: `NoFaults => (Spec => RefusalsAreTrue)`;
* `BodiesComeBack`: `NoFaults => (Spec => []BodiesRestorable)`;
* `CachedManifestsRight`: `NoFaults => (Spec => []IndexedManifestIsExpanded)`.

`CrashesOnly` is needed: section 5 names an exception and a lost index after which a
decision or the chain is wrong. A crash between fsync and publication leaves the index
behind the rows, and appends take their parent from the index; the invariant `ChainInv`
says why the chain survives that. Every entry describes a row that is there
(`IndexRows`). Where the entry of a response is stale and nobody is publishing, the
crash that made it stale has ended every thread and every live payload, so whoever
appends has loaded the newest row and needs no correction by the index (`StaleFits`).
A row prepared under the lock continues the chain and its compare-and-swap is still
decided rightly (`RowsFit`). The number of a frame is the cardinality of what is before
it, so the step that appends needs the theorems on finite sets.

For the refinement, `NoGaps` (every number occurs) makes the n-th frame of the mapping
the frame with number n, and `SyncedRows` says that at most the row just written is not
durable: `Fsync` is `Grow`, as is a crash that spares the row being written; everything
else is a stutter.

Without faults no entry is stale while nobody publishes (`AllFresh`), hence a refusal
is never based on an older frame. `ManifestsFit` says that a cached manifest is what
its row expands to and that a prepared row is logged against what it will inherit;
`Expanded` of a longer ledger agrees with that of its prefix. Across a crash these three
are false: a stale entry makes an append refuse what the rows would allow, and finding 1
is a row logged against a stale manifest.

`LateFillProofs`:

* `MutualExclusion`: `Spec => []OneWorker`. The invariant `Exclusive` adds that a holder
  only exists while the response is claimed. Every step is of one of three kinds, each a
  lemma: an actor keeps what it holds (`Keeps`), takes a free claim (`Takes`) or gives it
  up (`Releases`); only `Spawn` moves two actors at once and passes the claim from the
  retry request to its thread.
* `ClaimsAreHeld`: `MaxStartFailures = 0 => (Spec => []ClaimHasHolder)`; the hypothesis is
  needed (section 5). `HeldInv` adds to `Exclusive` that a claimed response has a holder
  (`Held`), that an actor that persists goes on to a place where it still holds the claim
  (`Goals`) and that no thread is left to fail (`AllStart`).
* `PayloadsTyped`: `Spec => []TypeOK`.
* `RestingViewIsFinal`: `Spec => []QuietViewIsFinal`. `ViewInv` orders what the
  registry, the actors and the ledger have by sequence (`SeqBounded`), says that a payload
  being published is one whose append failed or, if it has the number of the newest
  frame, that frame (`PublishesFrames`), and that whoever made the view differ from both
  is at a place from which it can rest only by publishing (`ViewOwed`).
* `FulfilledIsKept`: `Spec => FulfilledStays`. `CourseInv`: before the first client
  request a single worker is under way (`Alone`), and what it carries contains what the
  newest frame has fulfilled (`OnCourse`, place by place); what a lookup serves does
  so too (`Served`), even after a record was lost.
* `OwedIsListed`: `Spec => []NothingForgotten`. `OwedInv` adds to `CourseInv` that what
  the worker carries lists every branch that is owed (`CarriesOwed`).
* `SingleStopHonoured`: `(\A p, q \in Clients : p = q) => (Spec => [](unsaved = {} /\
  demoted = {} => StaleResultsIgnored))`.
  With a second request the property is false: a second stop can erase the first
  (finding 3), and a retry can reopen what was stopped. The theorem is silent from the
  first failed append or demotion on: a payload that no frame holds, or a branch that is
  open again in no worker's lists, is not followed by the invariant. What happens then
  is model-checked only (`latefill_stop`). `StopInv` follows the one request
  through three phases. Until its frame is written, nobody has cancelled anything
  (`Uncancelled`), and whatever a worker holds still lists the branches it could be asked
  to stop (`Remembers`), because a worker that forgot one could not be corrected. From
  then on every worker that can still write has either refused these branches or will be
  corrected by the newest record before it writes (`Heeds`), and what came back late is
  refused wherever it goes (`Ignores`).

`BranchWavesProofs`, for any number of waves, branches, instances, pool threads
and any way of spreading them:

* `WaveMutex`: `WavesSpec => []OneCallPerWave`. Inductive with the converse of what the
  type invariant says of a mutex: a running branch with an instance holds the mutex of
  that instance in its wave.
* `WavesComplete`: `WavesSpec => []ReturnIsComplete`. Inductive with the ledger of
  callbacks: for every branch, the callbacks that are over, the one that runs and the
  events still queued are together one if the branch was collected and none before.
* `ReservationsSpread`: `WavesSpec => []LoadIsEven`. That loads differ by at most one is
  not inductive: the next choice depends on which instances are reserved. `Levels` says
  that there is an n such that every usable instance has n branches of the group, and
  those that are reserved one more; when the reservations are dropped, n grows.

`ResponseStreamsProofs` proves `ReadersAreTold`: `StreamsSpec => []LeavesInformed`; a
stream is done only after an outcome or a failure was appended, which makes the end of
the chat thread and the publication of a terminal state the only places that matter.

`StreamOrderProofs` proves `StreamsRunWaves` (`StreamsSpec => WavesSpec`): a step of the
streams is a step of the waves or leaves them alone, so every theorem of
`BranchWavesProofs` holds of the waves of a stream. `StreamsTyped` is
`StreamsSpec => []StreamsTypeOK`. `UpdatesAreFinal` (`StreamsSpec => UpdatesNeverReopen`)
and `StreamsOutlast` (`StreamsSpec => []NoEarlyEnd`) need the invariant `CInv` of the
waves: a callback runs only while its wave executes. `OInv` adds that at most one wave is
called at a time (the worker waits for it), that nothing but branches of that wave is
missing in the record, and that a running callback has read the newest record. Then a
callback only takes branches out of the record, and what the worker publishes after the
wave lacks all of them. Both need `StreamsAssumption`: a batch has at least one branch;
an empty one could not be told from a wave that is already merged.

`PreviewPackagesProofs`:

* `LeasesProtect`: `PreviewSpec => []LeasedOnDisk`. The counted leases are those of the
  requests that hold one and of those that leaked one (`Counting`), so a counted lease keeps its package in the table; nobody's list of
  directories to delete contains a package of the table or a package that is still to be
  inserted by another request; and what is in the table is on disk. It needs the theorems
  on the cardinality of finite sets, because a release decrements a count and must still
  account for the remaining ones.
* `LeasesCounted`: `PreviewSpec => []PreviewTypeOK`, which contains that count: the
  `lease_count` of a package is the number of requests that still have to give a lease
  back (`Holders`) and of those whose resolver raised (`Leaks`). Expiry, eviction, a late
  lookup and a deletion that fails neither lose a lease nor give one back twice.
* `BoundsAreKept`: `PreviewSpec => []WithinBounds`. A package enters only after the
  evictions made room for it. The bytes of the table are a fold over a set; `Total` is a
  function with the same values, of which it is proved that it adds what is inserted and
  does not grow when packages leave.

`LedgerCompactionProofs`, for ledgers of any length:

* `CompactionKeepsRows`: `Spec => []RowsSurvive`. `RowsSurvive` says nothing of the file
  that is about to be installed; `RInv` adds that the rewritten file has the frames of the
  rows it was made from (`CompactedFrames`: the rewrite changes neither response nor
  sequence of a row, nor their number) and that at `checked` these rows are still the
  ledger.
* `CompactionTyped`: `Spec => []TypeOK`;
* `PreviewsStayReadable`: `Spec => []PreviewsReadable`;
* `LookupsRight`: `Spec => []LookupsStayRight`.

The last three rest on `CInv`. `FilesOK` says of any ledger and index that rows with an
inline preview come before those with a ref (`OldFirst`), that every ref is stored and is
what the manifests of its response expand to (`Readable`), that an entry which still has
the position and length of the latest row tells its manifest (`Entries`), and that an
index that is trusted covers the file (`Covers`). `Working` says what the command has
captured at which step. The lemma that carries `PreviewsStayReadable` is that the
manifests the rewrite carries along are those a reader of the rewritten file expands.

Only model-checked: liveness, which is out of the prover's reach (`JobsEnd`,
`LookupsEnd`, `AttemptsEnd`, `OwedWorkSettles`, `EverybodyEnds`, `PackagesGo`). Every
other property of a passing run is a theorem, some under a hypothesis; what fails
without the hypothesis is named here or in section 5.

## 5. Findings

1. `ledger_bodies_gap`: after a crash between ledger append and index publication
   the next row of that response is compacted against the manifest of the stale
   entry while it names the newer row as its parent; refs it shares with the older
   manifest are omitted and recovery cannot resolve them.
2. `ledger_torn_tail`: an append behind a torn line is glued to it. It is
   acknowledged, and recovery answers with the older frame.
3. `latefill_two_stops`: two overlapping control requests. The second persists the
   payload it read before the first stop; that stop, already acknowledged, is no
   longer in any list, and the late result of the branch is merged as fulfilled.

Bounds of the passing runs that follow from the code as it is, each reproducible
by changing the constants named:

* `ledger_threads` with `MaxFailures = 1` violates `CasParentWasCurrent`: after an
  append whose index publication failed, the compare-and-swap parent comes from
  the stale entry (`response_frames.py:6840`).
* `ledger_crashes` with `MaxIndexLosses = 1`, `MaxCrashes = 0` and `MaxRows = 4`
  violates `FramesFormOneChain`: an index rebuilt by another response reports
  "no prior frame" without a scan (`response_frames.py:2434`).
* `latefill_attempts` with `MaxStartFailures = 1` violates `ClaimHasHolder`:
  `worker.start()` raises after the claim and nobody releases it
  (`late_fill_runtime.py:23795`); the retry endpoint does release
  (`ollmo_webserver.py:5391`).
* An append that raises is logged and swallowed (`ollmo_webserver.py:1378`), and the
  caller publishes its payload in memory all the same. `latefill_stop` with a `Reply`
  that counts every acknowledged stop violates `StaleResultsIgnored`: the stop's append
  fails, so it is only in the live record; the running worker touches that record with
  lists it read before, and the late result is merged as fulfilled. The caller was told
  that the branch is stopped. `StaleResultsIgnored` therefore counts the stops that were
  acknowledged while no append had failed. For the same reason `QuietViewIsFinal` allows
  the view at rest to be a payload that no frame holds, and `NothingForgotten` and
  `FulfilledStays` end with the first failed append: once the record with that payload
  is gone, a reopened worker starts from the older frame, and a branch that only the
  unsaved payload listed as fulfilled is in no list, or is executed again.
* A branch fulfilled by a file that is saved already (`late_fill_runtime.py:22559`) does
  not pass the gate after execution. A stop that falls between the gate and this look
  is not refused for it: its branch is fulfilled, but not by a result that came back
  late, which is what `StaleResultsIgnored` is about.
* A worker that is handed several repairs of which one is stopped before it starts takes
  the whole handoff for stale (`late_fill_runtime.py:21827`) and ends; the other repairs
  stay open until a client asks for them.
* A saved file that breaks its contract takes the fulfilment of its branch back. Without
  an executable repair the branch stays listed as open in a response nobody works on,
  which is why `NothingForgotten`, `FulfilledStays` and `OwedWorkSettles` except
  `demoted` branches.
* `previews` with `PackagesGo` for all of `disk` is violated in three ways, each with
  `MaxFailures = 1`: the resolver raises before the `try` block while the request holds a
  lease (`ollmo_webserver.py:12143`; an overlong name, a malformed URL, a package root
  that cannot be made), and the package is neither evicted nor deleted from then on;
  `timer.start()` raises what is not caught (line 11166), and only a newer package can
  evict it; or `rmtree` fails silently (line 10921). A leaked lease never lets go of
  files being served, so `LeasedOnDisk` and `WithinBounds` do not suffer.
* `latefill_stop` with a retry added violates `StaleResultsIgnored`: a retry may reopen
  a branch that was stopped, and its result is then merged as fulfilled. One request
  at a time is what the property is proved for.
* `NothingForgotten` speaks of executions without an exception: the handler writes
  a terminal status, and pending branches that were not active are then in no list.
* `FulfilledStays` speaks of executions before the first client request: control
  and retry persist a payload they read earlier, so a later frame can list a
  fulfilled branch as pending again.
* `streams` with `DoneMeansSettled` in place of `NoEarlyEnd` violates it: a failed
  branch makes the lifecycle need repair before it is asked whether others are still
  open (`responses_runtime.py:429`), so the worker's next touch in full view ends a
  stream with `response.requires_action` while branches are still to be executed. The
  client polls from then on, so nothing is lost, but the stream does not wait for the
  terminal state as `late_fill_stream_waits_for_terminal` says.
* A creation that is refused for want of room has already evicted every idle package
  (`ollmo_webserver.py:11135`): `WithinBounds` holds, and no property speaks of fairness
  between packages.
* The mutexes of a wave belong to one call (`multi_materialization_runtime.py:426`), so
  two responses whose waves run at the same time may call one instance concurrently,
  although `docs/CONTROL_KNOBS.md:131` says that per-instance locks prevent it. What
  holds is `OneCallPerWave`, which is checked and proved.
* After an end between the two installs, the index still describes the old file. If a
  row got shorter it has the wrong size and is not trusted: lookups and appends scan, and
  a rerun answers `already_compact` with nothing left to do
  (`response_frame_ledger_maintenance.py:1149`); no rollback restores the backups. Appends
  bring the size back up to date and keep the coverage fields out. What then keeps an
  operator's attestation from granting them is the comparison of positions *and* of the
  `line_length` of a row that only got shorter itself; without the latter
  `LookupsStayRight` is violated.

## 6. Not modelled

What branches execute and how results are judged (inference, repair contracts,
semantic review), the construction of request graphs, prompts and routing, wire
projections, UI and CLI: the bulk of the code by lines, and data transformations and
I/O without a protocol of their own. Their bounded inputs are texts and JSON of
arbitrary shape; a model of them would be a transliteration.

Snapshot sidecar files are content addressed and written before the row that names
them; `FrameLedger` takes them as present, `LedgerCompaction` has them but none is ever
lost. Self-learning is an offline tool that runs while no server does. The readiness registry and graph
rewriting are behind a rollout switch. Instance lifecycle is mostly the behaviour of
operating-system processes, of which the code only has assumptions. The bounded
recovery of a lookup ranks payloads by their contents, as does the part of the refresh
of a record that `LateFill` leaves to choice (`Poll`).

## 7. Plan

What would add most, in this order:

1. `ReadinessRegistry`: idempotent appends, a torn line and the fail-closed parser.
2. `LedgerCompaction` with the lock-free reader of `FrameLedger` while files are
   replaced under it.
3. Proofs: that a compare-and-swap is refused after a crash only because of what the
   stale entry says; the reader of item 2.
