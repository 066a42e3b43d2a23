----------------------- MODULE PreviewPackagesProofs -----------------------
(***************************************************************************)
(* The leases and the bounds of the table of preview packages, for any     *)
(* number of packages and asset requests, any sizes and any bounds.        *)
(***************************************************************************)
EXTENDS PreviewPackages, FiniteSetTheorems, TLAPS

(* The requests whose lease of p is still counted. *)
Counting(p) == Holders(p) \cup Leaks(p)

(* What the provers need of the types. *)
Shape ==
    /\ cached \subseteq Packages /\ disk \subseteq Packages
    /\ lease \in [Packages -> Nat] /\ doom \in [Threads -> SUBSET Packages]
    /\ DOMAIN at = Threads /\ want \in [Readers -> Packages \cup {None}]

(* A request that found its package knows it. *)
Wanting == \A r \in Readers :
    at[r] \in {"found", "leased", "serving", "release", "raised"} => want[r] \in Packages

(* Every lease is counted: without one, nobody serves from the package.    *)
Counted == \A p \in Packages : lease[p] = Cardinality(Counting(p))

(* A package somebody serves from, or whose lease leaked, is in the table, *)
HeldCached == \A p \in Packages : Counting(p) # {} => p \in cached

(* ... a package in the table is on disk and nobody is about to delete it, *)
OnDisk == \A p \in cached : p \in disk /\ \A t \in Threads : p \notin doom[t]

(* ... which holds when it gets there, for no name is used twice.          *)
Staged == \A p \in Packages : at[p] \in {"new", "staged"} =>
    /\ p \notin cached /\ \A t \in Threads : p \notin doom[t]
    /\ at[p] = "staged" => p \in disk

PInv == Shape /\ Wanting /\ Counted /\ HeldCached /\ OnDisk /\ Staged

LEMMA CountingFinite == \A p : IsFiniteSet(Counting(p)) /\ Counting(p) \subseteq Readers
<1> TAKE p
<1>1. Counting(p) \subseteq Readers
  BY DEF Counting, Holders, Leaks
<1> QED
  BY <1>1, PreviewAssumption, FS_Subset

LEMMA NobodyHolds ==
  ASSUME PInv, NEW p \in Packages
  PROVE  lease[p] = 0 <=> Counting(p) = {}
BY CountingFinite, FS_EmptySet DEF PInv, Counted

LEMMA Different == \A p \in Packages : p \in Threads /\ p \notin Readers
BY PreviewAssumption DEF Threads

LEMMA InitPInv == PreviewInit => PInv
<1> SUFFICES ASSUME PreviewInit PROVE PInv
  OBVIOUS
<1>1. \A p : Counting(p) = {}
  BY DEF PreviewInit, Counting, Holders, Leaks, Threads
<1>2. Cardinality({}) = 0
  BY FS_EmptySet
<1> QED
  BY <1>1, <1>2, Different DEF PreviewInit, PInv, Shape, Wanting, Counted, HeldCached, OnDisk, Staged, Threads

(* A step that only takes packages without a lease out of the table, and   *)
(* has those, at most, deleted.                                            *)
LEMMA Shrinks ==
  ASSUME PInv, Shape', Wanting',
         cached' \subseteq cached, lease' = lease, disk' = disk,
         \A q \in cached \ cached' : lease[q] = 0,
         \A q \in Packages, u \in Threads :
             q \in doom'[u] => q \in doom[u] \/ q \in cached \ cached',
         \A q \in Packages : Counting(q)' = Counting(q),
         \A q \in Packages : at'[q] \in {"new", "staged"} => at'[q] = at[q]
  PROVE  PInv'
<1>1. Counted'
  BY DEF PInv, Counted
<1>2. HeldCached'
  BY NobodyHolds DEF PInv, HeldCached, Shape
<1>3. OnDisk'
  BY DEF PInv, OnDisk, Shape
<1>4. Staged'
  BY DEF PInv, Staged
<1> QED
  BY <1>1, <1>2, <1>3, <1>4 DEF PInv

LEMMA LookUpShrinks ==
  ASSUME PInv, NEW t \in Threads, NEW p \in Packages, LookUp(t, p)
  PROVE  /\ cached' \subseteq cached
         /\ \A q \in cached \ cached' : lease[q] = 0
         /\ doom' \in [Threads -> SUBSET Packages]
         /\ \A q \in Packages, u \in Threads :
               q \in doom'[u] => q \in doom[u] \/ q \in cached \ cached'
         /\ Usable(p) => cached' = cached /\ doom' = doom
<1>1. CASE UNCHANGED <<cached, doom>>
  BY <1>1 DEF PInv, Shape
<1>2. CASE /\ p \in cached /\ p \in ripe /\ lease[p] = 0 /\ cached' = cached \ {p}
           /\ doom' = [doom EXCEPT ![t] = @ \cup {p}]
  BY <1>2 DEF PInv, Shape, Usable
<1> QED
  BY <1>1, <1>2 DEF LookUp, Retire

(* Steps of creation requests move no reader. *)
LEMMA ReadersStay ==
  ASSUME PInv, NEW p \in Packages, NEW where, Goes(p, where), want' = want
  PROVE  /\ DOMAIN at' = Threads /\ Wanting' /\ \A q \in Packages : Counting(q)' = Counting(q)
         /\ at'[p] = where /\ \A q \in Packages : q # p => at'[q] = at[q]
<1>1. /\ \A r \in Readers : at'[r] = at[r]
      /\ DOMAIN at' = Threads /\ at'[p] = where
      /\ \A q \in Packages : q # p => at'[q] = at[q]
  BY Different DEF PInv, Shape, Goes, Threads
<1> QED
  BY <1>1 DEF PInv, Wanting, Counting, Holders, Leaks

LEMMA StageKeeps ==
  ASSUME PInv, NEW p \in Packages, Stage(p)
  PROVE  PInv'
<1>1. /\ at[p] = "new" /\ disk' = disk \cup {p} /\ Goes(p, "staged")
      /\ UNCHANGED <<cached, lease, doom, want>>
  BY DEF Stage
<1> QED
  BY <1>1, ReadersStay DEF PInv, Shape, Counted, HeldCached, OnDisk, Staged

LEMMA CreateFailsKeeps ==
  ASSUME PInv, NEW p \in Packages, CreateFails(p)
  PROVE  PInv'
<1>1. /\ at[p] \in {"new", "staged"} /\ doom' = [doom EXCEPT ![p] = disk \cap {p}]
      /\ Goes(p, "done") /\ UNCHANGED <<cached, lease, disk, want>>
  BY DEF CreateFails
<1>2. p \notin cached
  BY <1>1 DEF PInv, Staged
<1>3. Shape'
  BY <1>1, ReadersStay, Different DEF PInv, Shape
<1>4. \A q \in Packages, u \in Threads : q # p /\ q \in doom'[u] => q \in doom[u]
  BY <1>1 DEF PInv, Shape
<1>5. Counted' /\ HeldCached'
  BY <1>1, ReadersStay DEF PInv, Counted, HeldCached
<1>6. OnDisk'
  BY <1>1, <1>2, <1>4 DEF PInv, OnDisk, Shape
<1>7. Staged'
  BY <1>1, <1>4, ReadersStay DEF PInv, Staged
<1> QED
  BY <1>1, <1>3, <1>5, <1>6, <1>7, ReadersStay DEF PInv

LEMMA InsertKeeps ==
  ASSUME PInv, NEW p \in Packages, Insert(p)
  PROVE  PInv'
<1>1. PICK E \in SUBSET cached :
        /\ E \subseteq Idle(p)
        /\ \/ /\ cached' = (cached \cup {p}) \ E
              /\ doom' = [doom EXCEPT ![p] = E] /\ Goes(p, "evict")
           \/ /\ cached' = cached \ E
              /\ doom' = [doom EXCEPT ![p] = E \cup {p}] /\ Goes(p, "done")
  BY DEF Insert, GiveWay
<1>2. at[p] = "staged" /\ UNCHANGED <<lease, disk, want>>
  BY DEF Insert
<1>3. p \notin cached /\ p \in disk /\ \A t \in Threads : p \notin doom[t]
  BY <1>2 DEF PInv, Staged
<1>4. \A q \in E : q \in Packages /\ lease[q] = 0 /\ Counting(q) = {}
  BY <1>1, NobodyHolds DEF Idle, PInv, Shape
<1>5. at'[p] \in {"evict", "done"} /\ DOMAIN at' = Threads /\ Wanting'
      /\ (\A q \in Packages : Counting(q)' = Counting(q))
      /\ \A q \in Packages : q # p => at'[q] = at[q]
  BY <1>1, <1>2, ReadersStay
<1>6. Shape'
  BY <1>1, <1>2, <1>5, Different DEF PInv, Shape
<1>7. \A q \in Packages, u \in Threads :
        q \in doom'[u] => q \in doom[u] \/ q \in E \/ (q = p /\ p \notin cached')
  BY <1>1, <1>3 DEF PInv, Shape
<1>8. HeldCached'
  BY <1>1, <1>4, <1>5 DEF PInv, HeldCached
<1>9. OnDisk'
  BY <1>1, <1>2, <1>3, <1>7 DEF PInv, OnDisk, Shape
<1>10. Staged'
  BY <1>1, <1>2, <1>5, <1>7 DEF PInv, Staged
<1> QED
  BY <1>2, <1>5, <1>6, <1>8, <1>9, <1>10 DEF PInv, Counted

LEMMA CreatorKeeps ==
  ASSUME PInv, NEW p \in Packages, StartTimer(p) \/ TimerFails(p) \/ Wrap(p)
  PROVE  PInv'
<1>1. CASE StartTimer(p) \/ TimerFails(p)
  <2>1. PICK where \in {"wrap", "untimed"} : Goes(p, where)
    BY <1>1 DEF StartTimer, TimerFails
  <2>2. UNCHANGED <<cached, lease, disk, doom, want>>
    BY <1>1 DEF StartTimer, TimerFails
  <2> QED
    BY <2>1, <2>2, ReadersStay DEF PInv, Shape, Counted, HeldCached, OnDisk, Staged
<1>2. CASE Wrap(p)
  <2>1. PICK where \in {"shown", "done"} : Goes(p, where)
    BY <1>2 DEF Wrap
  <2>2. LookUp(p, p) /\ p \in Threads /\ UNCHANGED <<lease, disk, want>>
    BY <1>2, Different DEF Wrap
  <2>3. Shape'
    BY <2>1, <2>2, ReadersStay, LookUpShrinks DEF PInv, Shape
  <2> QED
    BY <2>1, <2>2, <2>3, ReadersStay, LookUpShrinks, Shrinks
<1> QED
  BY <1>1, <1>2

(* Steps of asset requests move no creation request. *)
LEMMA CreatorsStay ==
  ASSUME PInv, NEW r \in Readers, NEW where, Goes(r, where)
  PROVE  /\ DOMAIN at' = Threads /\ at'[r] = where
         /\ \A s \in Readers : s # r => at'[s] = at[s]
         /\ \A q \in Packages : at'[q] = at[q]
BY Different DEF PInv, Shape, Goes, Threads

LEMMA FindKeeps ==
  ASSUME PInv, NEW r \in Readers, Find(r)
  PROVE  PInv'
<1>1. PICK p \in Packages :
        /\ LookUp(r, p)
        /\ \/ want' = [want EXCEPT ![r] = p] /\ Goes(r, "found")
           \/ want' = want /\ Goes(r, "done")
  BY DEF Find
<1>2. PICK where \in {"found", "done"} : Goes(r, where) /\ (where = "found" => want'[r] = p)
  BY <1>1 DEF PInv, Shape
<1>3. at[r] = "new" /\ r \in Threads /\ UNCHANGED <<lease, disk>>
  BY DEF Find, Threads
<1>4. /\ want' \in [Readers -> Packages \cup {None}]
      /\ \A s \in Readers : s # r => want'[s] = want[s]
  BY <1>1 DEF PInv, Shape
<1>5. \A q \in Packages : Counting(q)' = Counting(q)
  BY <1>2, <1>3, <1>4, CreatorsStay DEF Counting, Holders, Leaks
<1>6. Wanting'
  BY <1>2, <1>4, CreatorsStay DEF PInv, Wanting
<1>7. Shape'
  BY <1>1, <1>2, <1>3, <1>4, CreatorsStay, LookUpShrinks DEF PInv, Shape
<1> QED
  BY <1>1, <1>2, <1>3, <1>5, <1>6, <1>7, CreatorsStay, LookUpShrinks, Shrinks

LEMMA LeaseKeeps ==
  ASSUME PInv, NEW r \in Readers, Lease(r)
  PROVE  PInv'
<1>1. at[r] = "found" /\ LookUp(r, want[r]) /\ disk' = disk /\ r \in Threads
  BY DEF Lease, Threads
<1>2. PICK p \in Packages : p = want[r]
  BY <1>1 DEF PInv, Wanting
<1>3. CASE Usable(p)
  <2>1. /\ lease' = [lease EXCEPT ![p] = @ + 1] /\ Goes(r, "leased")
        /\ want' = want /\ cached' = cached /\ doom' = doom
    BY <1>1, <1>2, <1>3, LookUpShrinks DEF Lease
  <2>2. r \notin Counting(p) /\ Counting(p)' = Counting(p) \cup {r}
    BY <1>1, <1>2, <2>1, CreatorsStay DEF Counting, Holders, Leaks
  <2>3. \A q \in Packages : q # p => Counting(q)' = Counting(q)
    BY <1>1, <1>2, <2>1, CreatorsStay DEF Counting, Holders, Leaks
  <2>4. Cardinality(Counting(p) \cup {r}) = Cardinality(Counting(p)) + 1
    BY <2>2, CountingFinite, FS_AddElement
  <2>5. Counted'
    BY <1>2, <2>1, <2>2, <2>3, <2>4 DEF PInv, Shape, Counted
  <2>6. HeldCached'
    BY <1>3, <2>1, <2>3 DEF PInv, HeldCached, Usable
  <2>7. Shape'
    BY <1>1, <1>2, <2>1, CreatorsStay DEF PInv, Shape
  <2>8. Wanting'
    BY <1>1, <1>2, <2>1, CreatorsStay DEF PInv, Wanting
  <2>9. OnDisk' /\ Staged'
    BY <1>1, <2>1, CreatorsStay DEF PInv, OnDisk, Staged
  <2> QED
    BY <2>5, <2>6, <2>7, <2>8, <2>9 DEF PInv
<1>4. CASE ~Usable(p)
  <2>1. Goes(r, "done") /\ lease' = lease /\ want' = [want EXCEPT ![r] = None]
    BY <1>2, <1>4 DEF Lease
  <2>2. /\ want' \in [Readers -> Packages \cup {None}]
        /\ \A s \in Readers : s # r => want'[s] = want[s]
    BY <2>1 DEF PInv, Shape
  <2>3. \A q \in Packages : Counting(q)' = Counting(q)
    BY <1>1, <2>1, <2>2, CreatorsStay DEF Counting, Holders, Leaks
  <2>4. Wanting'
    BY <1>1, <2>1, <2>2, CreatorsStay DEF PInv, Wanting
  <2>5. Shape'
    BY <1>1, <1>2, <2>1, <2>2, CreatorsStay, LookUpShrinks DEF PInv, Shape
  <2> QED
    BY <1>1, <1>2, <2>1, <2>3, <2>4, <2>5, CreatorsStay, LookUpShrinks, Shrinks
<1> QED
  BY <1>3, <1>4

LEMMA ResolveKeeps ==
  ASSUME PInv, NEW r \in Readers, Resolve(r)
  PROVE  PInv'
<1>1. /\ at[r] = "leased" /\ r \in Threads /\ UNCHANGED <<lease, disk, want>>
      /\ LookUp(r, want[r]) \/ UNCHANGED <<cached, doom>>
  BY DEF Resolve, Threads
<1>2. PICK where \in {"serving", "release"} : Goes(r, where)
  BY DEF Resolve, Missing
<1>3. PICK p \in Packages : p = want[r]
  BY <1>1 DEF PInv, Wanting
<1>4. \A q \in Packages : Counting(q)' = Counting(q)
  BY <1>1, <1>2, CreatorsStay DEF Counting, Holders, Leaks
<1>5. Wanting'
  BY <1>1, <1>2, CreatorsStay DEF PInv, Wanting
<1>6. Shape'
  BY <1>1, <1>2, <1>3, CreatorsStay, LookUpShrinks DEF PInv, Shape
<1>7. CASE LookUp(r, p)
  BY <1>1, <1>2, <1>3, <1>4, <1>5, <1>6, <1>7, CreatorsStay, LookUpShrinks, Shrinks
<1>8. CASE UNCHANGED <<cached, doom>>
  BY <1>1, <1>2, <1>4, <1>5, <1>6, <1>8, CreatorsStay, Shrinks
<1> QED
  BY <1>1, <1>3, <1>7, <1>8

LEMMA ResolveRaisesKeeps ==
  ASSUME PInv, NEW r \in Readers, ResolveRaises(r)
  PROVE  PInv'
<1>1. /\ at[r] = "leased" /\ Goes(r, "raised")
      /\ UNCHANGED <<cached, lease, disk, doom, want>>
  BY DEF ResolveRaises
<1>2. \A q \in Packages : Counting(q)' = Counting(q)
  BY <1>1, CreatorsStay DEF Counting, Holders, Leaks
<1>3. Wanting'
  BY <1>1, CreatorsStay DEF PInv, Wanting
<1>4. Shape'
  BY <1>1, CreatorsStay DEF PInv, Shape
<1> QED
  BY <1>1, <1>2, <1>3, <1>4, CreatorsStay, Shrinks DEF PInv, Shape

LEMMA ReleaseKeeps ==
  ASSUME PInv, NEW r \in Readers, Release(r)
  PROVE  PInv'
<1>1. /\ at[r] \in {"serving", "release"} /\ r \in Threads /\ Goes(r, "done")
      /\ disk' = disk /\ want' = [want EXCEPT ![r] = None]
  BY DEF Release, Threads
<1>2. /\ want' \in [Readers -> Packages \cup {None}]
      /\ \A s \in Readers : s # r => want'[s] = want[s]
  BY <1>1 DEF PInv, Shape
<1>3. PICK p \in Packages : p = want[r] /\ r \in Counting(p)
  BY <1>1 DEF PInv, Wanting, Counting, Holders, Leaks
<1>4. p \in cached
  BY <1>3 DEF PInv, HeldCached
<1>5. /\ lease' = Unleased(p)
      /\ \/ UNCHANGED <<cached, doom>>
         \/ /\ Unleased(p)[p] = 0 /\ cached' = cached \ {p}
            /\ doom' = [doom EXCEPT ![r] = @ \cup {p}]
  BY <1>3, <1>4 DEF Release, LastOut
<1>6. Counting(p)' = Counting(p) \ {r}
  BY <1>1, <1>2, <1>3, CreatorsStay DEF Counting, Holders, Leaks
<1>7. \A q \in Packages : q # p => Counting(q)' = Counting(q)
  BY <1>1, <1>2, <1>3, CreatorsStay DEF Counting, Holders, Leaks
<1>8. /\ Cardinality(Counting(p) \ {r}) = Cardinality(Counting(p)) - 1
      /\ IsFiniteSet(Counting(p) \ {r})
  BY <1>3, CountingFinite, FS_RemoveElement
<1>9. lease[p] \in Nat /\ lease[p] # 0
  BY <1>3, NobodyHolds DEF PInv, Shape
<1>10. /\ lease' \in [Packages -> Nat] /\ lease'[p] = lease[p] - 1
       /\ \A q \in Packages : q # p => lease'[q] = lease[q]
  BY <1>3, <1>5, <1>9 DEF PInv, Shape, Unleased
<1>11. Counted'
  BY <1>6, <1>7, <1>8, <1>10 DEF PInv, Counted
<1>12. Shape'
  BY <1>1, <1>2, <1>3, <1>5, <1>10, CreatorsStay DEF PInv, Shape
<1>13. Wanting'
  BY <1>1, <1>2, CreatorsStay DEF PInv, Wanting
<1>14. cached' # cached => Counting(p)' = {}
  BY <1>3, <1>5, <1>6, <1>8, <1>10, FS_EmptySet DEF PInv, Counted
<1>15. HeldCached'
  BY <1>5, <1>6, <1>7, <1>14 DEF PInv, HeldCached
<1>16. \A q \in Packages, u \in Threads :
         q \in doom'[u] => q \in doom[u] \/ (q = p /\ q \notin cached')
  BY <1>1, <1>5 DEF PInv, Shape
<1>17. cached' \subseteq cached
  BY <1>5
<1>18. OnDisk'
  BY <1>1, <1>16, <1>17 DEF PInv, OnDisk, Shape
<1>19. Staged'
  BY <1>1, <1>4, <1>16, <1>17, CreatorsStay DEF PInv, Staged
<1> QED
  BY <1>11, <1>12, <1>13, <1>15, <1>18, <1>19 DEF PInv

LEMMA ExpireKeeps ==
  ASSUME PInv, NEW p \in Packages, Expire(p)
  PROVE  PInv'
<1>1. /\ UNCHANGED <<lease, disk, at, want>> /\ p \in Threads
      /\ \/ UNCHANGED <<cached, doom>>
         \/ /\ p \in cached /\ lease[p] = 0 /\ cached' = cached \ {p}
            /\ doom' = [doom EXCEPT ![p] = @ \cup {p}]
  BY Different DEF Expire
<1>2. Wanting' /\ \A q \in Packages : Counting(q)' = Counting(q)
  BY <1>1 DEF PInv, Wanting, Counting, Holders, Leaks
<1>3. Shape'
  BY <1>1 DEF PInv, Shape
<1>4. /\ cached' \subseteq cached
      /\ \A q \in cached \ cached' : lease[q] = 0
      /\ \A q \in Packages, u \in Threads :
            q \in doom'[u] => q \in doom[u] \/ q \in cached \ cached'
  BY <1>1 DEF PInv, Shape
<1> QED
  BY <1>1, <1>2, <1>3, <1>4, Shrinks

LEMMA DeleteKeeps ==
  ASSUME PInv, NEW t \in Threads, Delete(t) \/ DeleteFails(t)
  PROVE  PInv'
<1>1. PICK p \in doom[t] : /\ disk' = disk \ {p} \/ disk' = disk
                           /\ doom' = [doom EXCEPT ![t] = @ \ {p}]
  BY DEF Delete, DeleteFails
<1>2. UNCHANGED <<cached, lease, at, want>>
  BY DEF Delete, DeleteFails
<1>3. Wanting' /\ \A q \in Packages : Counting(q)' = Counting(q)
  BY <1>2 DEF PInv, Wanting, Counting, Holders, Leaks
<1>4. Shape'
  BY <1>1, <1>2 DEF PInv, Shape
<1>5. \A u \in Threads : doom'[u] \subseteq doom[u]
  BY <1>1 DEF PInv, Shape
<1>6. OnDisk'
  BY <1>1, <1>2, <1>5 DEF PInv, OnDisk
<1>7. Staged'
  BY <1>1, <1>2, <1>5 DEF PInv, Staged
<1> QED
  BY <1>2, <1>3, <1>4, <1>6, <1>7 DEF PInv, Counted, HeldCached

LEMMA NextPInv == PInv /\ [PreviewNext]_previewVars => PInv'
<1> SUFFICES ASSUME PInv, [PreviewNext]_previewVars PROVE PInv'
  OBVIOUS
<1>1. ASSUME NEW p \in Packages, Ripen(p) PROVE PInv'
  BY <1>1 DEF Ripen, PInv, Shape, Wanting, Counted, HeldCached, OnDisk, Staged,
     Counting, Holders, Leaks
<1>2. CASE UNCHANGED previewVars
  BY <1>2 DEF previewVars, PInv, Shape, Wanting, Counted, HeldCached, OnDisk, Staged,
     Counting, Holders, Leaks
<1>3. CASE GoesOn
  BY <1>1, <1>3, CreateFailsKeeps, InsertKeeps, CreatorKeeps, ExpireKeeps, LeaseKeeps,
     ResolveKeeps, ReleaseKeeps, DeleteKeeps DEF GoesOn, CreatorStep, ReaderStep
<1> QED
  BY <1>2, <1>3, StageKeeps, CreatorKeeps, FindKeeps, ResolveRaisesKeeps, DeleteKeeps
     DEF PreviewNext, PreviewIdle

LEMMA HeldOnDisk == PInv => LeasedOnDisk
BY DEF PInv, Counting, HeldCached, OnDisk, LeasedOnDisk

\* No interleaving of creation, eviction, expiry and asset requests deletes
\* the directory of a package while a request serves from it.
THEOREM LeasesProtect == PreviewSpec => []LeasedOnDisk
<1>1. PreviewSpec => []PInv
  BY InitPInv, NextPInv, PTL DEF PreviewSpec
<1> QED
  BY <1>1, HeldOnDisk, PTL

-----------------------------------------------------------------------------
(* The rest of the types. *)

Places == {"new", "staged", "evict", "wrap", "shown", "untimed", "found",
           "leased", "serving", "release", "raised", "done"}
Timers == {"off", "on", "cancelled", "fired"}
OtherTypes ==
    /\ retired \subseteq Packages /\ ripe \subseteq Packages /\ stuck \subseteq Packages
    /\ recent \subseteq Packages \X Packages
    /\ timer \in [Packages -> Timers] /\ at \in [Threads -> Places]

LEMMA GoesTyped ==
  ASSUME OtherTypes, NEW t, NEW where \in Places, Goes(t, where)
  PROVE  at' \in [Threads -> Places]
BY DEF OtherTypes, Goes

LEMMA CancelledTyped ==
  ASSUME OtherTypes, NEW S
  PROVE  Cancelled(S) \in [Packages -> Timers]
BY DEF OtherTypes, Cancelled, Timers

LEMMA PlaceTyped ==
  ASSUME PInv, OtherTypes, NEW p \in Packages, NEW newer \in SUBSET cached, Place(p, newer)
  PROVE  recent' \subseteq Packages \X Packages
BY DEF PInv, Shape, OtherTypes, Place

LEMMA LookUpTyped ==
  ASSUME PInv, OtherTypes, NEW t, NEW p, LookUp(t, p)
  PROVE  retired' \subseteq Packages /\ timer' \in [Packages -> Timers]
BY CancelledTyped DEF PInv, Shape, OtherTypes, LookUp, Retire

LEMMA CreatorTyped ==
  ASSUME PInv, OtherTypes, NEW p \in Packages, Stage(p) \/ CreatorStep(p) \/ TimerFails(p)
  PROVE  OtherTypes'
<1>1. CASE Stage(p) \/ CreateFails(p) \/ TimerFails(p)
  <2>1. PICK where \in Places : Goes(p, where)
    BY <1>1 DEF Stage, CreateFails, TimerFails, Places
  <2> QED
    BY <1>1, <2>1, GoesTyped DEF Stage, CreateFails, TimerFails, OtherTypes
<1>2. CASE Insert(p)
  <2>1. PICK where \in Places : Goes(p, where)
    BY <1>2 DEF Insert, Places
  <2>2. PICK E : timer' = Cancelled(E)
    BY <1>2 DEF Insert
  <2>3. (\E newer \in SUBSET cached : Place(p, newer)) /\ UNCHANGED <<retired, ripe, stuck>>
    BY <1>2 DEF Insert
  <2> QED
    BY <2>1, <2>2, <2>3, GoesTyped, CancelledTyped, PlaceTyped DEF OtherTypes
<1>3. CASE StartTimer(p)
  <2>1. PICK where \in Places : Goes(p, where)
    BY <1>3 DEF StartTimer, Places
  <2>2. timer' \in [Packages -> Timers]
    BY <1>3 DEF StartTimer, OtherTypes, Timers
  <2> QED
    BY <1>3, <2>1, <2>2, GoesTyped DEF StartTimer, OtherTypes
<1>4. CASE Wrap(p)
  <2>1. PICK where \in Places : Goes(p, where)
    BY <1>4 DEF Wrap, Places
  <2>2. LookUp(p, p) /\ UNCHANGED <<recent, ripe, stuck>>
    BY <1>4 DEF Wrap
  <2> QED
    BY <2>1, <2>2, GoesTyped, LookUpTyped DEF OtherTypes
<1> QED
  BY <1>1, <1>2, <1>3, <1>4 DEF CreatorStep

LEMMA ReaderTyped ==
  ASSUME PInv, OtherTypes, NEW r \in Readers, Find(r) \/ ReaderStep(r) \/ ResolveRaises(r)
  PROVE  OtherTypes'
<1>1. CASE Find(r)
  <2>1. PICK where \in Places : Goes(r, where)
    BY <1>1 DEF Find, Places
  <2>2. (\E p \in Packages : LookUp(r, p)) /\ UNCHANGED <<recent, ripe, stuck>>
    BY <1>1 DEF Find
  <2> QED
    BY <2>1, <2>2, GoesTyped, LookUpTyped DEF OtherTypes
<1>2. CASE Lease(r)
  <2>1. PICK where \in Places : Goes(r, where)
    BY <1>2 DEF Lease, Places
  <2>2. /\ LookUp(r, want[r]) /\ UNCHANGED <<ripe, stuck>>
        /\ Place(want[r], {}) \/ recent' = recent
    BY <1>2 DEF Lease, Access
  <2>3. want[r] \in Packages
    BY <1>2 DEF Lease, PInv, Wanting
  <2> QED
    BY <2>1, <2>2, <2>3, GoesTyped, LookUpTyped, PlaceTyped DEF OtherTypes
<1>3. CASE Resolve(r)
  <2>1. PICK where \in Places : Goes(r, where)
    BY <1>3 DEF Resolve, Places, Missing
  <2>2. /\ LookUp(r, want[r]) \/ UNCHANGED <<retired, timer>>
        /\ UNCHANGED <<recent, ripe, stuck>>
    BY <1>3 DEF Resolve
  <2> QED
    BY <2>1, <2>2, GoesTyped, LookUpTyped DEF OtherTypes
<1>4. CASE Release(r)
  <2>1. Goes(r, "done") /\ "done" \in Places
    BY <1>4 DEF Release, Places
  <2>2. timer' = timer \/ timer' = Cancelled({want[r]})
    BY <1>4 DEF Release
  <2> QED
    BY <1>4, <2>1, <2>2, GoesTyped, CancelledTyped DEF Release, OtherTypes
<1>5. CASE ResolveRaises(r)
  <2>1. Goes(r, "raised") /\ "raised" \in Places
    BY <1>5 DEF ResolveRaises, Places
  <2> QED
    BY <1>5, <2>1, GoesTyped DEF ResolveRaises, OtherTypes
<1> QED
  BY <1>1, <1>2, <1>3, <1>4, <1>5 DEF ReaderStep

LEMMA NextOtherTypes == PInv /\ OtherTypes /\ [PreviewNext]_previewVars => OtherTypes'
<1> SUFFICES ASSUME PInv, OtherTypes, [PreviewNext]_previewVars PROVE OtherTypes'
  OBVIOUS
<1>1. ASSUME NEW p \in Packages, Ripen(p) \/ Expire(p) PROVE OtherTypes'
  BY <1>1 DEF Ripen, Expire, OtherTypes, Timers, PInv, Shape
<1>2. ASSUME NEW t \in Threads, Delete(t) \/ DeleteFails(t) PROVE OtherTypes'
  BY <1>2 DEF Delete, DeleteFails, OtherTypes, PInv, Shape
<1>3. CASE UNCHANGED previewVars
  BY <1>3 DEF previewVars, OtherTypes
<1> QED
  BY <1>1, <1>2, <1>3, CreatorTyped, ReaderTyped DEF PreviewNext, GoesOn, PreviewIdle

LEMMA InitOtherTypes == PreviewInit => OtherTypes
BY DEF PreviewInit, OtherTypes, Places, Timers

LEMMA TypesSuffice == PInv /\ OtherTypes => PreviewTypeOK
BY DEF PInv, Shape, Counted, Counting, OtherTypes, PreviewTypeOK, Places, Timers

\* The types of the table, and that lease_count of a package is the number of
\* requests that still have to give a lease back and of those that raised in
\* the resolver with one: whatever expires or gives way in between, no other
\* path loses a lease or gives one back twice.
THEOREM LeasesCounted == PreviewSpec => []PreviewTypeOK
<1>1. PreviewSpec => [](PInv /\ OtherTypes)
  BY InitPInv, NextPInv, InitOtherTypes, NextOtherTypes, PTL DEF PreviewSpec
<1> QED
  BY <1>1, TypesSuffice, PTL

-----------------------------------------------------------------------------
(* The bytes of a set of packages are a fold over the set.  The folded     *)
(* function exists, is unique, and does not depend on the order in which   *)
(* it takes the packages: each fact by a least counterexample.             *)

LEMMA LeastSet ==
  ASSUME NEW T \in SUBSET SUBSET Packages, T # {}
  PROVE  \E s \in T : \A t \in T : t \subseteq s => t = s
<1>0. FiniteSubsetsOf(Packages) = SUBSET Packages
  BY FS_FiniteSubsetsOfFinite, PreviewAssumption
<1>1. IsWellFoundedOn(StrictSubsetOrdering(Packages), SUBSET Packages)
  BY <1>0, FS_StrictSubsetOrderingWellFounded
<1>2. PICK s \in T : \A t \in T : <<t, s>> \notin StrictSubsetOrdering(Packages)
  BY <1>1, WFMin
<1> QED
  BY <1>2 DEF StrictSubsetOrdering

First(s) == CHOOSE x \in s : TRUE
Rest(s) == s \ {First(s)}
Folds(f, S) ==
    f = [s \in SUBSET S |-> IF s = {} THEN 0 ELSE Size[First(s)] + f[Rest(s)]]

LEMMA FirstIn == ASSUME NEW s, s # {} PROVE First(s) \in s /\ Rest(s) \subseteq s /\ Rest(s) # s
BY DEF First, Rest

LEMMA FoldsAgree ==
  ASSUME NEW S \in SUBSET Packages, NEW T \in SUBSET Packages,
         NEW f, Folds(f, S), NEW g, Folds(g, T)
  PROVE  \A s \in SUBSET (S \cap T) : f[s] = g[s]
<1> DEFINE Bad == {s \in SUBSET (S \cap T) : f[s] # g[s]}
<1> SUFFICES ASSUME Bad # {} PROVE FALSE
  OBVIOUS
<1>1. Bad \in SUBSET SUBSET Packages
  OBVIOUS
<1>2. PICK s \in Bad : \A t \in Bad : t \subseteq s => t = s
  <2> HIDE DEF Bad
  <2> QED
    BY <1>1, LeastSet
<1>3. /\ f[s] = IF s = {} THEN 0 ELSE Size[First(s)] + f[Rest(s)]
      /\ g[s] = IF s = {} THEN 0 ELSE Size[First(s)] + g[Rest(s)]
  BY <1>2 DEF Folds
<1>4. CASE s = {}
  BY <1>2, <1>3, <1>4
<1>5. CASE s # {}
  <2>1. Rest(s) \in SUBSET (S \cap T) /\ Rest(s) \notin Bad
    BY <1>2, <1>5, FirstIn
  <2> QED
    BY <1>2, <1>3, <1>5, <2>1
<1> QED
  BY <1>4, <1>5

LEMMA FoldExists == \A S \in SUBSET Packages : \E f : Folds(f, S)
<1> DEFINE Bad == {S \in SUBSET Packages : ~\E f : Folds(f, S)}
<1> SUFFICES ASSUME Bad # {} PROVE FALSE
  OBVIOUS
<1>0. Bad \in SUBSET SUBSET Packages
  OBVIOUS
<1>1. PICK S \in Bad : \A T \in Bad : T \subseteq S => T = S
  <2> HIDE DEF Bad
  <2> QED
    BY <1>0, LeastSet
<1> DEFINE h(t) == CHOOSE f : Folds(f, t)
           e == [s \in SUBSET S |-> IF s = {} THEN 0 ELSE Size[First(s)] + h(Rest(s))[Rest(s)]]
<1>2. \A t \in SUBSET S : t # S => Folds(h(t), t)
  BY <1>1
<1>3. ASSUME NEW s \in SUBSET S, s # S PROVE e[s] = h(s)[s]
  <2>1. Folds(h(s), s)
    BY <1>2, <1>3
  <2>2. h(s)[s] = IF s = {} THEN 0 ELSE Size[First(s)] + h(s)[Rest(s)]
    BY <2>1 DEF Folds
  <2>3. CASE s # {}
    <3>1. Rest(s) \subseteq s /\ Rest(s) # S
      BY <1>3, <2>3, FirstIn
    <3>2. Folds(h(Rest(s)), Rest(s))
      BY <1>2, <3>1
    <3>3. h(s)[Rest(s)] = h(Rest(s))[Rest(s)]
      BY <2>1, <3>1, <3>2, FoldsAgree, <1>1
    <3> QED
      BY <2>2, <2>3, <3>3
  <2> QED
    BY <2>2, <2>3
<1>4. ASSUME NEW s \in SUBSET S, s # {} PROVE e[Rest(s)] = h(Rest(s))[Rest(s)]
  <2>1. Rest(s) \in SUBSET S /\ Rest(s) # S
    BY <1>4, FirstIn
  <2> HIDE DEF e, h
  <2> QED
    BY <1>3, <2>1
<1>5. \A s \in SUBSET S : e[s] = IF s = {} THEN 0 ELSE Size[First(s)] + e[Rest(s)]
  <2>1. \A s \in SUBSET S : e[s] = IF s = {} THEN 0 ELSE Size[First(s)] + h(Rest(s))[Rest(s)]
    OBVIOUS
  <2> HIDE DEF e, h
  <2> QED
    BY <1>4, <2>1
<1>6. e = [s \in SUBSET S |-> e[s]]
  OBVIOUS
<1>7. e = [s \in SUBSET S |-> IF s = {} THEN 0 ELSE Size[First(s)] + e[Rest(s)]]
  <2> HIDE DEF e
  <2> QED
    BY <1>5, <1>6
<1> QED
  BY <1>1, <1>7 DEF Folds

Total == CHOOSE f : Folds(f, Packages)

LEMMA BytesTotal == \A S \in SUBSET Packages : Bytes(S) = Total[S]
<1> TAKE S \in SUBSET Packages
<1> DEFINE iter == CHOOSE f : Folds(f, S)
<1>1. Bytes(S) = iter[S]
  BY DEF Bytes, MapThenSumSet, MapThenFoldSet, Folds, First, Rest
<1>2. Folds(iter, S) /\ Folds(Total, Packages)
  BY FoldExists DEF Total
<1> QED
  BY <1>1, <1>2, FoldsAgree

LEMMA TotalStep == /\ Total[{}] = 0
                   /\ \A s \in SUBSET Packages : s # {} => Total[s] = Size[First(s)] + Total[Rest(s)]
<1>1. Folds(Total, Packages)
  BY FoldExists DEF Total
<1> QED
  BY <1>1 DEF Folds

LEMMA TotalNat == \A s \in SUBSET Packages : Total[s] \in Nat
<1> DEFINE Bad == {s \in SUBSET Packages : Total[s] \notin Nat}
<1> SUFFICES ASSUME Bad # {} PROVE FALSE
  OBVIOUS
<1>0. Bad \in SUBSET SUBSET Packages
  OBVIOUS
<1>1. PICK s \in Bad : \A t \in Bad : t \subseteq s => t = s
  <2> HIDE DEF Bad
  <2> QED
    BY <1>0, LeastSet
<1>2. s # {}
  <2> SUFFICES ASSUME s = {} PROVE FALSE
    OBVIOUS
  <2>1. Total[s] = 0
    BY TotalStep
  <2> QED
    BY <1>1, <2>1
<1>3. First(s) \in Packages /\ Total[Rest(s)] \in Nat
  BY <1>1, <1>2, FirstIn
<1> QED
  BY <1>1, <1>2, <1>3, TotalStep, PreviewAssumption

LEMMA TotalAny ==
  \A s \in SUBSET Packages : \A x \in s : Total[s] = Size[x] + Total[s \ {x}]
<1> DEFINE Bad == {s \in SUBSET Packages : \E x \in s : Total[s] # Size[x] + Total[s \ {x}]}
<1> SUFFICES ASSUME Bad # {} PROVE FALSE
  OBVIOUS
<1>0. Bad \in SUBSET SUBSET Packages
  OBVIOUS
<1>1. PICK s \in Bad : \A t \in Bad : t \subseteq s => t = s
  <2> HIDE DEF Bad
  <2> QED
    BY <1>0, LeastSet
<1>2. PICK x \in s : Total[s] # Size[x] + Total[s \ {x}]
  OBVIOUS
<1>3. PICK y : y = First(s)
  OBVIOUS
<1>4. y \in s /\ Total[s] = Size[y] + Total[s \ {y}]
  BY <1>3, TotalStep, FirstIn DEF Rest
<1>5. x # y
  BY <1>2, <1>4
<1>6. s \ {y} \notin Bad /\ s \ {x} \notin Bad
  BY <1>1, <1>4
<1>7. PICK r : r = s \ {x, y}
  OBVIOUS
<1>8. (s \ {y}) \ {x} = r /\ (s \ {x}) \ {y} = r
  BY <1>7
<1>9. Total[s \ {y}] = Size[x] + Total[r] /\ Total[s \ {x}] = Size[y] + Total[r]
  BY <1>4, <1>5, <1>6, <1>8
<1>10. Size[x] \in Nat /\ Size[y] \in Nat /\ Total[r] \in Nat
  BY <1>4, <1>7, TotalNat, PreviewAssumption
<1> QED
  BY <1>2, <1>4, <1>9, <1>10

(* Fewer packages have no more bytes.                                      *)
LEMMA FewerBytes ==
  ASSUME NEW S \in SUBSET Packages, NEW T \in SUBSET S
  PROVE  Bytes(T) <= Bytes(S) /\ Bytes(S) \in Nat /\ Bytes(T) \in Nat
<1> DEFINE Bad == {s \in SUBSET Packages : T \subseteq s /\ ~(Total[T] <= Total[s])}
<1>1. ASSUME Bad # {} PROVE FALSE
  <2>0. Bad \in SUBSET SUBSET Packages
    OBVIOUS
  <2>1. PICK s \in Bad : \A t \in Bad : t \subseteq s => t = s
    <3> HIDE DEF Bad
    <3> QED
      BY <1>1, <2>0, LeastSet
  <2>2. s # T
    BY TotalNat, <2>1
  <2>3. PICK x \in s : x \notin T
    BY <2>1, <2>2
  <2>4. s \ {x} \notin Bad
    BY <2>1, <2>3
  <2>5. Total[T] <= Total[s \ {x}]
    BY <2>1, <2>3, <2>4
  <2>6. Total[s] = Size[x] + Total[s \ {x}] /\ Size[x] \in Nat
    BY <2>1, TotalAny, PreviewAssumption
  <2>7. Total[s] \in Nat /\ Total[T] \in Nat /\ Total[s \ {x}] \in Nat
    BY <2>1, TotalNat
  <2> QED
    BY <2>1, <2>5, <2>6, <2>7
<1>2. S \notin Bad
  BY <1>1
<1> QED
  BY <1>2, BytesTotal, TotalNat

-----------------------------------------------------------------------------
(* The bounds of the table. *)

LEMMA FewerFit ==
  ASSUME NEW S \in SUBSET Packages, Fits(S), NEW T \in SUBSET S
  PROVE  Fits(T)
<1>1. IsFiniteSet(S)
  BY PreviewAssumption, FS_Subset
<1>2. Cardinality(T) <= Cardinality(S) /\ Cardinality(S) \in Nat /\ Cardinality(T) \in Nat
  BY <1>1, FS_Subset, FS_CardinalityType
<1>3. Bytes(T) <= Bytes(S) /\ Bytes(S) \in Nat /\ Bytes(T) \in Nat
  BY FewerBytes
<1> QED
  BY <1>2, <1>3, PreviewAssumption DEF Fits

LEMMA InsertFits ==
  ASSUME PInv, Fits(cached), NEW p \in Packages, Insert(p)
  PROVE  Fits(cached')
<1>1. PICK E \in SUBSET cached :
        IF Fits((cached \cup {p}) \ E) THEN cached' = (cached \cup {p}) \ E
                                       ELSE cached' = cached \ E
  BY DEF Insert
<1>2. CASE Fits((cached \cup {p}) \ E)
  BY <1>1, <1>2
<1>3. CASE cached' \subseteq cached
  BY <1>3, FewerFit DEF PInv, Shape
<1> QED
  BY <1>1, <1>2, <1>3

LEMMA NoneIsAdded ==
  ASSUME PreviewNext, \A p \in Packages : ~Insert(p)
  PROVE  cached' \subseteq cached
<1>1. \A t, p : LookUp(t, p) => cached' \subseteq cached
  BY DEF LookUp, Retire
<1>2. ASSUME NEW p \in Packages,
             Stage(p) \/ CreatorStep(p) \/ TimerFails(p) \/ Ripen(p) \/ Expire(p)
      PROVE  cached' \subseteq cached
  BY <1>1, <1>2 DEF Stage, CreatorStep, CreateFails, StartTimer, TimerFails, Wrap, Ripen, Expire
<1>3. ASSUME NEW r \in Readers, Find(r) \/ ReaderStep(r) \/ ResolveRaises(r)
      PROVE  cached' \subseteq cached
  BY <1>1, <1>3 DEF ReaderStep, Find, Lease, Resolve, ResolveRaises, Release
<1>4. ASSUME NEW t \in Threads, Delete(t) \/ DeleteFails(t) PROVE cached' \subseteq cached
  BY <1>4 DEF Delete, DeleteFails
<1> QED
  BY <1>2, <1>3, <1>4 DEF PreviewNext, GoesOn, PreviewIdle, previewVars

LEMMA NextFits == PInv /\ Fits(cached) /\ [PreviewNext]_previewVars => Fits(cached')
<1> SUFFICES ASSUME PInv, Fits(cached), [PreviewNext]_previewVars PROVE Fits(cached')
  OBVIOUS
<1>1. CASE \E p \in Packages : Insert(p)
  BY <1>1, InsertFits
<1>2. CASE PreviewNext /\ \A p \in Packages : ~Insert(p)
  BY <1>2, NoneIsAdded, FewerFit DEF PInv, Shape
<1>3. CASE UNCHANGED previewVars
  BY <1>3 DEF previewVars
<1> QED
  BY <1>1, <1>2, <1>3

LEMMA InitFits == PreviewInit => Fits(cached)
<1>1. Bytes({}) = 0
  BY BytesTotal, TotalStep
<1> QED
  BY <1>1, FS_EmptySet, PreviewAssumption DEF PreviewInit, Fits

\* The table never holds more packages or more bytes than
\* _evict_saved_html_preview_packages_locked and the 503 of the creation
\* request are to keep it to, although leased packages do not give way.
THEOREM BoundsAreKept == PreviewSpec => []WithinBounds
<1>1. WithinBounds <=> Fits(cached)
  BY DEF WithinBounds, Fits
<1>2. PreviewInit => WithinBounds
  BY <1>1, InitFits
<1>3. PInv /\ WithinBounds /\ [PreviewNext]_previewVars => WithinBounds'
  BY NextFits DEF WithinBounds, Fits
<1> QED
  BY <1>2, <1>3, InitPInv, NextPInv, PTL DEF PreviewSpec
=============================================================================
