--------------------------- MODULE PreviewPackages ---------------------------
(***************************************************************************)
(* Temporary HTML preview packages: a directory per package, a bounded     *)
(* table of them under a lock, a timer per package, and requests that      *)
(* serve assets from a package while others are created, expire or give    *)
(* way.  What a package contains, its name and its token are left out; a   *)
(* creation request is named by the package it makes.                      *)
(***************************************************************************)
EXTENDS Naturals, FiniteSets, FiniteSetsExt

CONSTANTS
    None,
    Packages,    \* and the request that creates each
    Readers,     \* asset requests
    Size,        \* size_bytes of each package
    MaxPackages, \* SAVED_HTML_PREVIEW_MAX_PACKAGES
    MaxBytes,    \* SAVED_HTML_PREVIEW_MAX_TOTAL_BYTES
    MaxFailures  \* exceptions nobody catches and deletions that fail

ASSUME PreviewAssumption ==
    /\ IsFiniteSet(Packages) /\ IsFiniteSet(Readers)
    /\ Packages \cap Readers = {} /\ None \notin Packages
    /\ Size \in [Packages -> Nat] /\ MaxPackages \in Nat \ {0}
    /\ MaxBytes \in Nat /\ MaxFailures \in Nat

VARIABLES
    cached,  \* keys of _SAVED_HTML_PREVIEW_PACKAGES
    lease,   \* lease_count
    recent,  \* <<p, q>>: p's last_access_monotonic is older than q's
    retired, \* packages with a retire_reason
    ripe,    \* packages whose expires_at_monotonic has passed
    timer,   \* timer[p]: off, on, cancelled, fired
    disk,    \* package directories that exist
    doom,    \* doom[t]: directories thread t goes on to delete
    stuck,   \* directories whose deletion failed
    at,      \* where each request is
    want     \* want[r]: the package reader r serves from

previewVars == <<cached, lease, recent, retired, ripe, timer, disk, doom, stuck, at, want>>

Threads == Packages \cup Readers    \* the timer of p goes with thread p

PreviewInit ==
    /\ cached = {} /\ retired = {} /\ ripe = {} /\ disk = {} /\ stuck = {}
    /\ lease = [p \in Packages |-> 0]
    /\ recent = {}
    /\ timer = [p \in Packages |-> "off"]
    /\ doom = [t \in Threads |-> {}]
    /\ at = [t \in Threads |-> "new"]
    /\ want = [r \in Readers |-> None]

MayFail ==
    Cardinality(stuck) + Cardinality({t \in Threads : at[t] \in {"untimed", "raised"}}) < MaxFailures

Goes(t, where) == at' = [at EXCEPT ![t] = where]
(* p is accessed, before those in newer and after all others. *)
Place(p, newer) ==
    LET others == cached \ {p} IN
    recent' = (recent \cap (others \X others)) \cup ((others \ newer) \X {p}) \cup ({p} \X newer)
Access(p) == Place(p, {})
Older(p, q) == <<p, q>> \in recent
Cancelled(S) == [p \in Packages |-> IF p \in S /\ timer[p] # "fired" THEN "cancelled" ELSE timer[p]]

-----------------------------------------------------------------------------
(* Under the lock. *)

(* Thread t retires p.  The record of a leased package stays.              *)
Retire(t, p) ==
    /\ retired' = retired \cup ({p} \cap cached)
    /\ IF p \in cached /\ lease[p] = 0
       THEN /\ cached' = cached \ {p}
            /\ timer' = Cancelled({p})
            /\ doom' = [doom EXCEPT ![t] = @ \cup {p}]
       ELSE UNCHANGED <<cached, timer, doom>>

(* A lookup that finds the package expired retires it, in a second section *)
(* of the lock: nobody can lease it in between, so the two are one step.   *)
Usable(p) == p \in cached /\ p \notin retired /\ p \notin ripe
LookUp(t, p) ==
    IF p \in cached /\ p \notin retired /\ p \in ripe
    THEN Retire(t, p)
    ELSE UNCHANGED <<retired, cached, timer, doom>>

-----------------------------------------------------------------------------
(* Creation. *)

(* The bundle is renamed into place. *)
Stage(p) ==
    /\ at[p] = "new"
    /\ disk' = disk \cup {p}
    /\ Goes(p, "staged")
    /\ UNCHANGED <<cached, lease, recent, retired, ripe, timer, doom, stuck, want>>

(* ValueError or OSError before the package is registered. *)
CreateFails(p) ==
    /\ at[p] \in {"new", "staged"}
    /\ doom' = [doom EXCEPT ![p] = disk \cap {p}]
    /\ Goes(p, "done")
    /\ UNCHANGED <<cached, lease, recent, retired, ripe, timer, disk, stuck, want>>

IdleAll(p) == cached                                     \* Faulty: leased ones too
Idle(p) == {q \in cached : lease[q] = 0}

Bytes(S) == MapThenSumSet(LAMBDA p : Size[p], S)
FitsCount(S) == Cardinality(S) <= MaxPackages            \* Faulty: forgets the bytes
Fits(S) == Cardinality(S) <= MaxPackages /\ Bytes(S) <= MaxBytes

(* The least recently used idle packages leave, one by one, until all fit  *)
(* or no idle one is left.                                                 *)
OldestFirst(E, p) == \A e \in E, q \in Idle(p) \ E : Older(e, q)
GiveWay(E, p) ==
    /\ E \subseteq Idle(p) /\ OldestFirst(E, p)
    /\ Fits((cached \cup {p}) \ E) \/ E = Idle(p)
    /\ \A D \in (SUBSET E) \ {E} : OldestFirst(D, p) => ~Fits((cached \cup {p}) \ D)

(* The clock is read before the lock is taken: a package may have been     *)
(* accessed since, and then so were those accessed after it.               *)
Insert(p) ==
    /\ at[p] = "staged"
    /\ \E E \in SUBSET cached :
         /\ GiveWay(E, p)
         /\ IF Fits((cached \cup {p}) \ E)
            THEN /\ cached' = (cached \cup {p}) \ E
                 /\ doom' = [doom EXCEPT ![p] = E]
                 /\ Goes(p, "evict")
            ELSE /\ cached' = cached \ E
                 /\ doom' = [doom EXCEPT ![p] = E \cup {p}]
                 /\ Goes(p, "done")                      \* 503
         /\ timer' = Cancelled(E)
    /\ \E newer \in SUBSET cached :
         /\ \A q \in newer, s \in cached : Older(q, s) => s \in newer
         /\ Place(p, newer)
    /\ UNCHANGED <<lease, retired, ripe, disk, stuck, want>>

(* The timer starts last; one cancelled meanwhile never fires. *)
StartTimer(p) ==
    /\ at[p] = "evict" /\ doom[p] = {}
    /\ timer' = [timer EXCEPT ![p] = IF @ = "off" THEN "on" ELSE @]
    /\ Goes(p, "wrap")
    /\ UNCHANGED <<cached, lease, recent, retired, ripe, disk, doom, stuck, want>>

(* timer.start() raises, which is caught nowhere: the package stays in the *)
(* table, and nobody is told of it.                                        *)
TimerFails(p) ==
    /\ at[p] = "evict" /\ doom[p] = {} /\ MayFail
    /\ Goes(p, "untimed")
    /\ UNCHANGED <<cached, lease, recent, retired, ripe, timer, disk, doom, stuck, want>>

(* The wrapper page is answered if the package is still usable.            *)
Wrap(p) ==
    /\ at[p] = "wrap"
    /\ LookUp(p, p)
    /\ Goes(p, IF Usable(p) /\ p \in disk THEN "shown" ELSE "done")
    /\ UNCHANGED <<lease, recent, ripe, disk, stuck, want>>

-----------------------------------------------------------------------------
(* Serving an asset. *)

Find(r) ==
    /\ at[r] = "new"
    /\ \E p \in Packages :
         /\ at[p] = "shown"
         /\ LookUp(r, p)
         /\ IF Usable(p)
            THEN want' = [want EXCEPT ![r] = p] /\ Goes(r, "found")
            ELSE want' = want /\ Goes(r, "done")
    /\ UNCHANGED <<lease, recent, ripe, disk, stuck>>

(* The lease is taken in another section of the lock. *)
Lease(r) ==
    /\ at[r] = "found"
    /\ LET p == want[r] IN
       /\ LookUp(r, p)
       /\ IF Usable(p)
          THEN /\ lease' = [lease EXCEPT ![p] = @ + 1]
               /\ Access(p)
               /\ Goes(r, "leased")
               /\ want' = want
          ELSE /\ Goes(r, "done")
               /\ want' = [want EXCEPT ![r] = None]
               /\ UNCHANGED <<lease, recent>>
    /\ UNCHANGED <<ripe, disk, stuck>>

MissingKeepsLease == "done"                              \* Faulty as Missing
Missing == "release"

(* The file may not be there, and the package may have expired.            *)
Resolve(r) ==
    /\ at[r] = "leased"
    /\ LET p == want[r] IN
       \/ Goes(r, Missing) /\ UNCHANGED <<retired, cached, timer, doom>>
       \/ /\ p \in disk
          /\ LookUp(r, p)
          /\ Goes(r, IF Usable(p) THEN "serving" ELSE Missing)
    /\ UNCHANGED <<lease, recent, ripe, disk, stuck, want>>

(* The resolver is called before the try block: if it raises (the asset    *)
(* path is malformed or too long, the package root cannot be made), the    *)
(* request ends and its lease stays.                                       *)
ResolveRaises(r) ==
    /\ at[r] = "leased" /\ MayFail
    /\ Goes(r, "raised")
    /\ UNCHANGED <<cached, lease, recent, retired, ripe, timer, disk, doom, stuck, want>>

Unleased(p) == [lease EXCEPT ![p] = IF @ = 0 THEN 0 ELSE @ - 1]

LastOutNobody(p) == FALSE                                \* Faulty: nobody clears up
LastOut(p) == p \in retired /\ Unleased(p)[p] = 0

(* The response is closed, sent or not; whoever leaves a retired package   *)
(* last deletes it.                                                        *)
Release(r) ==
    /\ at[r] \in {"serving", "release"}
    /\ LET p == want[r] IN
       IF p \notin cached THEN UNCHANGED <<lease, cached, timer, doom>>
       ELSE /\ lease' = Unleased(p)
            /\ IF LastOut(p)
               THEN /\ cached' = cached \ {p}
                    /\ timer' = Cancelled({p})
                    /\ doom' = [doom EXCEPT ![r] = @ \cup {p}]
               ELSE UNCHANGED <<cached, timer, doom>>
    /\ Goes(r, "done")
    /\ want' = [want EXCEPT ![r] = None]
    /\ UNCHANGED <<recent, retired, ripe, disk, stuck>>

-----------------------------------------------------------------------------
(* Time, the timer threads, and deletion, which is outside the lock.       *)
(* Packages may become due in any order.                                   *)

Ripen(p) ==
    /\ p \in cached \ ripe
    /\ ripe' = ripe \cup {p}
    /\ UNCHANGED <<cached, lease, recent, retired, timer, disk, doom, stuck, at, want>>

Expire(p) ==
    /\ timer[p] = "on" /\ p \in ripe
    /\ retired' = retired \cup ({p} \cap cached)
    /\ timer' = [timer EXCEPT ![p] = "fired"]
    /\ IF p \in cached /\ lease[p] = 0
       THEN cached' = cached \ {p} /\ doom' = [doom EXCEPT ![p] = @ \cup {p}]
       ELSE UNCHANGED <<cached, doom>>
    /\ UNCHANGED <<lease, recent, ripe, disk, stuck, at, want>>

Delete(t) ==
    /\ \E p \in doom[t] :
         /\ disk' = disk \ {p}
         /\ doom' = [doom EXCEPT ![t] = @ \ {p}]
    /\ UNCHANGED <<cached, lease, recent, retired, ripe, timer, stuck, at, want>>

(* Errors are ignored, and nobody tries again. *)
DeleteFails(t) ==
    /\ MayFail
    /\ \E p \in doom[t] :
         /\ stuck' = stuck \cup {p}
         /\ doom' = [doom EXCEPT ![t] = @ \ {p}]
    /\ UNCHANGED <<cached, lease, recent, retired, ripe, timer, disk, at, want>>

CreatorStep(p) == CreateFails(p) \/ Insert(p) \/ StartTimer(p) \/ Wrap(p)
ReaderStep(r) == Lease(r) \/ Resolve(r) \/ Release(r)

(* What happens without a new request. *)
GoesOn ==
    \/ \E p \in Packages : CreatorStep(p) \/ Ripen(p) \/ Expire(p)
    \/ \E r \in Readers : ReaderStep(r)
    \/ \E t \in Threads : Delete(t)

(* Requests that hold a lease, and those that ended without giving it back. *)
Holders(p) == {r \in Readers : at[r] \in {"leased", "serving", "release"} /\ want[r] = p}
Leaks(p) == {r \in Readers : at[r] = "raised" /\ want[r] = p}

(* Packages nobody is left to clear up: with a leaked lease, with a        *)
(* deletion that failed, or without a timer and not evicted.               *)
Abandoned ==
    stuck \cup {p \in Packages : Leaks(p) # {} \/ (at[p] = "untimed" /\ p \in cached)}

PreviewIdle ==
    /\ disk \subseteq Abandoned
    /\ \A p \in Packages : at[p] \in {"shown", "untimed", "done"}
    /\ UNCHANGED previewVars

PreviewNext ==
    \/ GoesOn
    \/ \E p \in Packages : Stage(p) \/ TimerFails(p)
    \/ \E r \in Readers : Find(r) \/ ResolveRaises(r)
    \/ \E t \in Threads : DeleteFails(t)
    \/ PreviewIdle

PreviewSpec == PreviewInit /\ [][PreviewNext]_previewVars

(* Threads run, responses are closed, and time passes. *)
PreviewFairSpec == PreviewSpec /\ WF_previewVars(GoesOn)

-----------------------------------------------------------------------------
\* Types, and that every lease that is counted belongs to a request that
\* still has to give it back, or to one that raised where nobody would
\* (ollmo_webserver.py:12143): no other path loses or repeats a lease.
PreviewTypeOK ==
    /\ cached \subseteq Packages /\ retired \subseteq Packages /\ stuck \subseteq Packages
    /\ ripe \subseteq Packages /\ disk \subseteq Packages
    /\ lease \in [Packages -> Nat] /\ recent \subseteq Packages \X Packages
    /\ timer \in [Packages -> {"off", "on", "cancelled", "fired"}]
    /\ doom \in [Threads -> SUBSET Packages]
    /\ at \in [Threads -> {"new", "staged", "evict", "wrap", "shown", "untimed", "found",
                           "leased", "serving", "release", "raised", "done"}]
    /\ want \in [Readers -> Packages \cup {None}]
    /\ \A p \in Packages : lease[p] = Cardinality(Holders(p) \cup Leaks(p))

\* A package that a request serves from stays on disk until that request is
\* closed, although it may expire or be the least recently used meanwhile.
LeasedOnDisk == \A p \in Packages : Holders(p) # {} => p \in disk

\* The table keeps both bounds of CONTROL_KNOBS.md:414-417, with leased
\* packages, which do not give way, counted.
WithinBounds == Cardinality(cached) <= MaxPackages /\ Bytes(cached) <= MaxBytes

\* No other directory is left behind: whoever removes a package from the
\* table, a newer package, its timer, a late lookup or the last reader,
\* deletes it, unless a lease of it was leaked, its timer never started (then
\* only a newer package removes it), or the deletion itself failed.
PackagesGo == <>[](disk \subseteq Abandoned)
=============================================================================
