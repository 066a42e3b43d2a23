------------------------ MODULE LedgerCompactionProofs ------------------------
(***************************************************************************)
(* No row is lost by a compaction, every preview stays readable and every  *)
(* lookup right, for ledgers of any length, any number of responses and    *)
(* any sequence of appends and compactions.                                *)
(***************************************************************************)
EXTENDS LedgerCompaction, FiniteSetTheorems, SequenceTheorems, WellFoundedInduction, TLAPS

(* Two files hold the same frames in the same order. *)
SameFrames(f, g) ==
    /\ DOMAIN f = DOMAIN g
    /\ \A k \in DOMAIN f : f[k].rid = g[k].rid /\ f[k].seq = g[k].seq

Shape ==
    /\ ledger \in Seq(Row) /\ written \in Seq(Frame)
    /\ temp.rows \in Seq(Row) /\ temp.from \in Seq(Row)

(* The file to be installed has the frames of the rows it was made from,   *)
(* and after the last look at the ledger these are still its rows.         *)
Rewritten ==
    /\ SameFrames(temp.rows, temp.from)
    /\ DOMAIN temp = {"rows", "from"}
    /\ step = "checked" => temp.from = ledger

RInv == Shape /\ Rewritten /\ SameFrames(ledger, written)

-----------------------------------------------------------------------------
LEMMA CountIsNat ==
  ASSUME NEW n \in Nat, NEW S, S \subseteq 1 .. n
  PROVE  Cardinality(S) \in Nat
<1>1. IsFiniteSet(1 .. n)
  BY FS_Interval
<1> QED
  BY <1>1, FS_Subset, FS_CardinalityType

LEMMA HistoricRows ==
  ASSUME NEW n \in Nat, NEW rid \in [1 .. n -> Responses], NEW preview \in [1 .. n -> Content]
  PROVE  Historic(rid, preview) \in Seq(Row)
<1> DEFINE f == Historic(rid, preview)
<1>1. ASSUME NEW k \in 1 .. n
      PROVE  f[k] \in Row
  <2>1. {j \in 1 .. k : rid[j] = rid[k]} \subseteq 1 .. k /\ k \in Nat
    OBVIOUS
  <2>2. Cardinality({j \in 1 .. k : rid[j] = rid[k]}) \in Nat
    BY <2>1, CountIsNat
  <2> QED
    BY <2>2 DEF Historic, Row, Content
<1>2. f = [k \in 1 .. n |-> f[k]]
  BY DEF Historic
<1> HIDE DEF f
<1>3. f \in [1 .. n -> Row]
  BY <1>1, <1>2
<1> QED
  BY <1>3 DEF f

LEMMA FrameOfRow ==
  ASSUME NEW row \in Row
  PROVE  FrameOf(row) \in Frame /\ FrameOf(row).rid = row.rid /\ FrameOf(row).seq = row.seq
BY DEF FrameOf, Frame, Row, Content

LEMMA InitRows == Init => RInv
<1> SUFFICES ASSUME Init PROVE RInv
  OBVIOUS
<1>1. ledger \in Seq(Row)
  BY HistoricRows, CompactionAssumption DEF Init
<1>2. written = [k \in DOMAIN ledger |-> FrameOf(ledger[k])]
  BY DEF Init
<1>3. DOMAIN ledger = 1 .. Len(ledger) /\ Len(ledger) \in Nat
  BY <1>1
<1>4. \A k \in DOMAIN ledger : ledger[k] \in Row
  BY <1>1
<1>5. written \in [1 .. Len(ledger) -> Frame]
  BY <1>2, <1>3, <1>4, FrameOfRow
<1>6. written \in Seq(Frame)
  BY <1>3, <1>5
<1>7. SameFrames(ledger, written)
  BY <1>2, <1>4, FrameOfRow DEF SameFrames
<1>8. temp.rows = <<>> /\ temp.from = <<>> /\ DOMAIN temp = {"rows", "from"} /\ step = "off"
  BY DEF Init
<1> QED
  BY <1>1, <1>6, <1>7, <1>8 DEF RInv, Shape, Rewritten, SameFrames

(* A rewrite keeps every frame. *)
LEMMA CompactedFrames ==
  ASSUME NEW f \in Seq(Row)
  PROVE  Compacted(f) \in Seq(Row) /\ SameFrames(Compacted(f), f)
<1> DEFINE g == Compacted(f)
<1>1. DOMAIN f = 1 .. Len(f) /\ Len(f) \in Nat
  OBVIOUS
<1>2. DOMAIN g = DOMAIN f /\ g = [k \in DOMAIN f |-> g[k]]
  BY DEF Compacted
<1>3. ASSUME NEW k \in DOMAIN f
      PROVE  g[k] \in Row /\ g[k].rid = f[k].rid /\ g[k].seq = f[k].seq
  <2>1. f[k] \in Row
    BY <1>3
  <2>2. CASE f[k].inline = None
    BY <1>3, <2>1, <2>2 DEF Compacted
  <2>3. CASE f[k].inline # None
    <3>1. PICK inherited : g[k] = [f[k] EXCEPT !.inline = None, !.ref = f[k].inline,
                                               !.logged = Item(f[k].inline, inherited)]
      BY <1>3, <2>3 DEF Compacted
    <3>2. Item(f[k].inline, inherited) \in Content
      BY <2>1 DEF Item, Row, Content
    <3> QED
      BY <2>1, <3>1, <3>2 DEF Row, Content
  <2> QED
    BY <2>2, <2>3
<1> HIDE DEF g
<1>4. g \in [1 .. Len(f) -> Row]
  BY <1>1, <1>2, <1>3
<1>5. g \in Seq(Row)
  BY <1>1, <1>4
<1>6. SameFrames(g, f)
  BY <1>2, <1>3 DEF SameFrames
<1> QED
  BY <1>5, <1>6 DEF g

LEMMA AppendRows ==
  ASSUME RInv, AppendFrame
  PROVE  RInv'
<1>1. PICK r \in Responses, p \in Content : \E man \in ParentManifests(r) :
        \E row \in {[rid |-> r, seq |-> Cardinality(RowsOf(ledger, r)) + 1, inline |-> None,
                     ref |-> p, logged |-> IF p = man THEN None ELSE p]} :
          ledger' = Append(ledger, row) /\ written' = Append(written, FrameOf(row))
  BY DEF AppendFrame
<1>2. PICK man \in ParentManifests(r) :
        \E row \in {[rid |-> r, seq |-> Cardinality(RowsOf(ledger, r)) + 1, inline |-> None,
                     ref |-> p, logged |-> IF p = man THEN None ELSE p]} :
          ledger' = Append(ledger, row) /\ written' = Append(written, FrameOf(row))
  BY <1>1
<1> DEFINE row == [rid |-> r, seq |-> Cardinality(RowsOf(ledger, r)) + 1, inline |-> None,
                   ref |-> p, logged |-> IF p = man THEN None ELSE p]
<1>3. ledger' = Append(ledger, row) /\ written' = Append(written, FrameOf(row))
  BY <1>2
<1>4. Cardinality(RowsOf(ledger, r)) \in Nat
  <2>1. RowsOf(ledger, r) \subseteq 1 .. Len(ledger) /\ Len(ledger) \in Nat
    BY DEF RInv, Shape, RowsOf
  <2> QED
    BY <2>1, CountIsNat
<1>5. row \in Row
  BY <1>4 DEF Row, Content
<1> HIDE DEF row
<1>6. ledger \in Seq(Row) /\ written \in Seq(Frame) /\ Len(ledger) = Len(written)
  BY DEF RInv, Shape, SameFrames
<1>7. ledger' \in Seq(Row) /\ written' \in Seq(Frame)
  BY <1>3, <1>5, <1>6, FrameOfRow
<1>8. SameFrames(ledger, written)'
  <2>1. DOMAIN ledger' = DOMAIN written'
    BY <1>3, <1>5, <1>6, FrameOfRow
  <2>2. ASSUME NEW k \in DOMAIN ledger'
        PROVE  ledger'[k].rid = written'[k].rid /\ ledger'[k].seq = written'[k].seq
    <3>1. CASE k \in DOMAIN ledger
      <4>1. ledger'[k] = ledger[k] /\ written'[k] = written[k]
        BY <1>3, <1>5, <1>6, <3>1, FrameOfRow
      <4> QED
        BY <3>1, <4>1 DEF RInv, SameFrames
    <3>2. CASE k \notin DOMAIN ledger
      <4>1. ledger'[k] = row /\ written'[k] = FrameOf(row)
        BY <1>3, <1>5, <1>6, <2>2, <3>2, FrameOfRow
      <4> QED
        BY <1>5, <4>1, FrameOfRow
    <3> QED
      BY <3>1, <3>2
  <2> QED
    BY <2>1, <2>2 DEF SameFrames
<1>9. temp' = temp /\ step' = step /\ step # "checked"
  BY DEF AppendFrame, WritersStopped
<1> QED
  BY <1>7, <1>8, <1>9 DEF RInv, Shape, Rewritten, SameFrames

(* Steps of the command before it installs anything. *)
LEMMA LookRows ==
  ASSUME RInv, UNCHANGED <<ledger, temp, written>>, step' # "checked" \/ temp.from = ledger
  PROVE  RInv'
BY DEF RInv, Shape, Rewritten, SameFrames

LEMMA RewriteRows ==
  ASSUME RInv, Rewrite
  PROVE  RInv'
<1>1. /\ temp' = [rows |-> Compacted(ledger), from |-> ledger] /\ step' = "rewritten"
      /\ UNCHANGED <<ledger, written>>
  BY DEF Rewrite
<1>2. /\ temp'.rows = Compacted(ledger) /\ temp'.from = ledger
      /\ DOMAIN temp' = {"rows", "from"}
  BY <1>1
<1>3. ledger \in Seq(Row)
  BY DEF RInv, Shape
<1>4. Compacted(ledger) \in Seq(Row) /\ SameFrames(Compacted(ledger), ledger)
  BY <1>3, CompactedFrames
<1>5. Shape'
  BY <1>1, <1>2, <1>4 DEF RInv, Shape
<1>6. SameFrames(temp.rows, temp.from)'
  BY <1>2, <1>1, <1>4 DEF SameFrames
<1>7. SameFrames(ledger, written)'
  BY <1>1 DEF RInv, SameFrames
<1> QED
  BY <1>1, <1>2, <1>5, <1>6, <1>7 DEF RInv, Rewritten

(* The installed file has the frames of the one it replaces. *)
LEMMA InstallRows ==
  ASSUME RInv, InstallLedger
  PROVE  RInv'
<1>1. /\ ledger' = temp.rows /\ temp.from = ledger /\ step' = "swapped"
      /\ UNCHANGED <<temp, written>>
  BY DEF InstallLedger, RInv, Rewritten
<1>2. SameFrames(temp.rows, ledger) /\ SameFrames(ledger, written)
  BY <1>1 DEF RInv, Rewritten
<1>3. SameFrames(temp.rows, written)
  BY <1>2 DEF SameFrames
<1> QED
  BY <1>1, <1>3 DEF RInv, Shape, Rewritten, SameFrames

LEMMA NextRows == RInv /\ [Next]_vars => RInv'
<1> SUFFICES ASSUME RInv, [Next]_vars PROVE RInv'
  OBVIOUS
<1>1. CASE AppendFrame
  BY <1>1, AppendRows
<1>2. CASE Rewrite
  BY <1>2, RewriteRows
<1>3. CASE InstallLedger
  BY <1>3, InstallRows
<1>4. CASE Check
  <2>1. UNCHANGED <<ledger, temp, written>>
    BY <1>4 DEF Check
  <2>2. step' # "checked" \/ temp.from = ledger
    BY <1>4 DEF Check, Moved
  <2> QED
    BY <2>1, <2>2, LookRows
<1>5. CASE UNCHANGED vars
  BY <1>5, LookRows DEF vars, RInv, Rewritten
<1>6. CASE AppendStops \/ Attest
  BY <1>6, LookRows DEF AppendStops, Attest, WritersStopped, RInv, Rewritten
<1>7. CASE Audit \/ Capture \/ Backup \/ InstallIndex \/ Stop
  BY <1>7, LookRows DEF Audit, Capture, Backup, InstallIndex, Stop
<1> QED
  BY <1>1, <1>2, <1>3, <1>4, <1>5, <1>6, <1>7 DEF Next

(* Whatever is appended before the last look at the files, and wherever a  *)
(* compaction stops, the ledger holds exactly the frames that were         *)
(* written, in their order.                                                *)
THEOREM CompactionKeepsRows == Spec => []RowsSurvive
<1>1. RInv => RowsSurvive
  BY DEF RInv, Shape, SameFrames, RowsSurvive
<1> QED
  BY <1>1, InitRows, NextRows, PTL DEF Spec

-----------------------------------------------------------------------------
(* Inherited manifests.  A row inherits from the row before it that has    *)
(* its response id, so the recursion over a file of any length has a       *)
(* solution, and what it gives a row depends on no later row: each fact by *)
(* a least counterexample.                                                 *)

LEMMA LeastRow ==
  ASSUME NEW T \in SUBSET Nat, T # {}
  PROVE  \E k \in T : \A j \in T : k <= j
<1>1. PICK k \in T : \A j \in T : <<j, k>> \notin OpToRel(<, Nat)
  BY NatLessThanWellFounded, WFMin
<1>2. \A j \in T : ~(j < k)
  BY <1>1 DEF OpToRel
<1> QED
  BY <1>2

LEMMA GreatestRow ==
  ASSUME NEW n \in Nat, NEW S \in SUBSET (1 .. n), S # {}
  PROVE  Greatest(S) \in S /\ \A j \in S : j <= Greatest(S)
<1> DEFINE T == {m \in Nat : \A j \in S : j <= m}
<1>1. T \in SUBSET Nat /\ n \in T
  OBVIOUS
<1>2. PICK k \in T : \A j \in T : k <= j
  <2> HIDE DEF T
  <2> QED
    BY <1>1, LeastRow
<1>3. k \in S
  <2> SUFFICES ASSUME k \notin S PROVE FALSE
    OBVIOUS
  <2>1. \A j \in S : j < k
    BY <1>2
  <2>2. PICK i \in S : i < k
    BY <2>1
  <2>3. k - 1 \in Nat /\ \A j \in S : j <= k - 1
    BY <2>1, <2>2
  <2> QED
    BY <1>2, <2>3
<1>4. \E m \in S : \A j \in S : j <= m
  BY <1>2, <1>3
<1> QED
  BY <1>4 DEF Greatest

LEMMA BeforeBelow ==
  ASSUME NEW n \in Nat, NEW f, DOMAIN f = 1 .. n, NEW k \in 1 .. n, Before(f, k) # {}
  PROVE  /\ Greatest(Before(f, k)) \in 1 .. k - 1
         /\ f[Greatest(Before(f, k))].rid = f[k].rid
         /\ \A j \in Before(f, k) : j <= Greatest(Before(f, k))
<1>1. Before(f, k) \in SUBSET (1 .. n)
  BY DEF Before
<1>2. /\ Greatest(Before(f, k)) \in Before(f, k)
      /\ \A j \in Before(f, k) : j <= Greatest(Before(f, k))
  BY <1>1, GreatestRow
<1> QED
  BY <1>2 DEF Before

Inherits(f, item, k, g) ==
    IF item[k] # None THEN item[k]
    ELSE IF Before(f, k) = {} THEN None ELSE g[Greatest(Before(f, k))]

LEMMA EffectiveStep ==
  ASSUME NEW n \in Nat, NEW f, DOMAIN f = 1 .. n, NEW item
  PROVE  /\ DOMAIN Effective(f, item) = 1 .. n
         /\ \A k \in 1 .. n : Effective(f, item)[k] = Inherits(f, item, k, Effective(f, item))
<1> DEFINE Solves(g, m) == g = [k \in 1 .. m |-> Inherits(f, item, k, g)]
           Bad == {m \in 0 .. n : ~\E g : Solves(g, m)}
<1>1. Bad = {}
  <2> SUFFICES ASSUME Bad # {} PROVE FALSE
    OBVIOUS
  <2>1. Bad \in SUBSET Nat
    OBVIOUS
  <2>2. PICK m \in Bad : \A j \in Bad : m <= j
    <3> HIDE DEF Bad
    <3> QED
      BY <2>1, LeastRow
  <2>3. m # 0
    <3> SUFFICES ASSUME m = 0 PROVE FALSE
      OBVIOUS
    <3> DEFINE e == [k \in 1 .. 0 |-> None]
    <3>1. Solves(e, 0)
      OBVIOUS
    <3> QED
      BY <2>2, <3>1
  <2>4. m - 1 \in 0 .. n /\ m - 1 \notin Bad
    BY <2>2, <2>3
  <2>5. PICK g : Solves(g, m - 1)
    BY <2>4
  <2> DEFINE e == [k \in 1 .. m |-> Inherits(f, item, k, g)]
  <2>6. \A k \in 1 .. m - 1 : e[k] = g[k]
    <3>1. \A k \in 1 .. m - 1 : g[k] = Inherits(f, item, k, g)
      BY <2>5
    <3> QED
      BY <2>2, <2>4, <3>1
  <2>7. \A k \in 1 .. m : Inherits(f, item, k, g) = Inherits(f, item, k, e)
    <3> HIDE DEF e
    <3> TAKE k \in 1 .. m
    <3>1. Before(f, k) # {} => Greatest(Before(f, k)) \in 1 .. m - 1
      BY <2>2, BeforeBelow
    <3> QED
      BY <2>6, <3>1 DEF Inherits
  <2>8. e = [k \in 1 .. m |-> Inherits(f, item, k, e)]
    BY <2>7
  <2> QED
    BY <2>2, <2>8
<1>2. \E g : Solves(g, n)
  BY <1>1
<1>3. Effective(f, item) = CHOOSE g : Solves(g, n)
  BY DEF Effective, Inherits
<1> DEFINE E == CHOOSE g : Solves(g, n)
<1>4. Solves(E, n)
  BY <1>2
<1> QED
  BY <1>3, <1>4

(* What a row inherits depends on the rows up to it. *)
LEMMA EffectiveLocal ==
  ASSUME NEW n \in Nat, NEW m \in Nat, n <= m,
         NEW f, DOMAIN f = 1 .. n, NEW g, DOMAIN g = 1 .. m, NEW own, NEW other,
         \A k \in 1 .. n : f[k].rid = g[k].rid /\ own[k] = other[k]
  PROVE  \A k \in 1 .. n : Before(f, k) = Before(g, k) /\ Effective(f, own)[k] = Effective(g, other)[k]
<1>1. \A k \in 1 .. n : Before(f, k) = Before(g, k)
  BY DEF Before
<1> DEFINE Bad == {k \in 1 .. n : Effective(f, own)[k] # Effective(g, other)[k]}
<1>2. ASSUME Bad # {} PROVE FALSE
  <2>1. Bad \in SUBSET Nat
    OBVIOUS
  <2>2. PICK k \in Bad : \A j \in Bad : k <= j
    <3> HIDE DEF Bad
    <3> QED
      BY <1>2, <2>1, LeastRow
  <2>3. /\ Effective(f, own)[k] = Inherits(f, own, k, Effective(f, own))
        /\ Effective(g, other)[k] = Inherits(g, other, k, Effective(g, other))
    BY <2>2, EffectiveStep
  <2>4. PICK b : b = Before(f, k)
    OBVIOUS
  <2>5. b # {} => Greatest(b) \in 1 .. k - 1
    BY <2>2, <2>4, BeforeBelow
  <2>6. b # {} => Greatest(b) \notin Bad /\ Greatest(b) \in 1 .. n
    BY <2>2, <2>5
  <2>7. own[k] = other[k] /\ Before(g, k) = b
    BY <1>1, <2>2, <2>4
  <2> QED
    BY <2>2, <2>3, <2>4, <2>6, <2>7 DEF Inherits
<1> QED
  BY <1>1, <1>2

LEMMA EffectiveTyped ==
  ASSUME NEW n \in Nat, NEW f, DOMAIN f = 1 .. n, NEW item,
         NEW C, None \in C, \A k \in 1 .. n : item[k] \in C
  PROVE  \A k \in 1 .. n : Effective(f, item)[k] \in C
<1> DEFINE Bad == {k \in 1 .. n : Effective(f, item)[k] \notin C}
<1>1. ASSUME Bad # {} PROVE FALSE
  <2>1. Bad \in SUBSET Nat
    OBVIOUS
  <2>2. PICK k \in Bad : \A j \in Bad : k <= j
    <3> HIDE DEF Bad
    <3> QED
      BY <1>1, <2>1, LeastRow
  <2>3. Effective(f, item)[k] = Inherits(f, item, k, Effective(f, item))
    BY <2>2, EffectiveStep
  <2>4. Before(f, k) # {} => Greatest(Before(f, k)) \in 1 .. k - 1
    BY <2>2, BeforeBelow
  <2>5. Before(f, k) # {} => Greatest(Before(f, k)) \in 1 .. n \ Bad
    BY <2>2, <2>4
  <2> QED
    BY <2>2, <2>3, <2>5 DEF Inherits
<1> QED
  BY <1>1

(* Where no row has an item, there is nothing to inherit. *)
LEMMA NothingInherited ==
  ASSUME NEW n \in Nat, NEW f, DOMAIN f = 1 .. n, NEW item,
         NEW m \in 1 .. n, \A k \in 1 .. m : item[k] = None
  PROVE  Effective(f, item)[m] = None
<1> DEFINE Bad == {k \in 1 .. m : Effective(f, item)[k] # None}
<1>1. ASSUME Bad # {} PROVE FALSE
  <2>1. Bad \in SUBSET Nat
    OBVIOUS
  <2>2. PICK k \in Bad : \A j \in Bad : k <= j
    <3> HIDE DEF Bad
    <3> QED
      BY <1>1, <2>1, LeastRow
  <2>3. Effective(f, item)[k] = Inherits(f, item, k, Effective(f, item))
    BY <2>2, EffectiveStep
  <2>4. Before(f, k) # {} => Greatest(Before(f, k)) \in 1 .. k - 1
    BY <2>2, BeforeBelow
  <2>5. Before(f, k) # {} => Greatest(Before(f, k)) \in 1 .. m \ Bad
    BY <2>2, <2>4
  <2> QED
    BY <2>2, <2>3, <2>5 DEF Inherits
<1> QED
  BY <1>1

-----------------------------------------------------------------------------
(* A compaction. *)

(* Rows written by an older release come first, and have no refs.          *)
OldFirst(f) == \A j, k \in DOMAIN f :
    j <= k /\ f[k].inline # None => f[j].ref = None /\ f[j].logged = None

Logged(f) == [k \in DOMAIN f |-> f[k].logged]
Moving(f) == [k \in DOMAIN f |-> IF f[k].inline # None THEN f[k].inline ELSE f[k].logged]
Moves(f) == Effective(f, Moving(f))

LEMMA CompactedRow ==
  ASSUME NEW f \in Seq(Row), NEW k \in DOMAIN f
  PROVE  /\ f[k].inline = None => Compacted(f)[k] = f[k]
         /\ f[k].inline # None =>
              /\ Compacted(f)[k].inline = None /\ Compacted(f)[k].ref = f[k].inline
              /\ Compacted(f)[k].rid = f[k].rid /\ Compacted(f)[k].seq = f[k].seq
              /\ Compacted(f)[k].logged =
                   Item(f[k].inline, IF Before(f, k) = {} THEN None
                                     ELSE Moves(f)[Greatest(Before(f, k))])
<1>1. f[k] \in Row
  OBVIOUS
<1>2. CASE f[k].inline = None
  BY <1>2 DEF Compacted
<1>3. CASE f[k].inline # None
  <2> DEFINE inherited == IF Before(f, k) = {} THEN None ELSE Moves(f)[Greatest(Before(f, k))]
  <2>1. Compacted(f)[k] = [f[k] EXCEPT !.inline = None, !.ref = f[k].inline,
                                       !.logged = Item(f[k].inline, inherited)]
    BY <1>3 DEF Compacted, Moves, Moving
  <2> HIDE DEF inherited
  <2>2. /\ Compacted(f)[k].inline = None /\ Compacted(f)[k].ref = f[k].inline
        /\ Compacted(f)[k].rid = f[k].rid /\ Compacted(f)[k].seq = f[k].seq
        /\ Compacted(f)[k].logged = Item(f[k].inline, inherited)
    BY <1>1, <2>1 DEF Row
  <2> QED
    BY <1>3, <2>2 DEF inherited
<1> QED
  BY <1>2, <1>3

(* The manifests of the rewritten file are those the rewrite has carried.  *)
LEMMA CompactedManifests ==
  ASSUME NEW f \in Seq(Row), OldFirst(f)
  PROVE  \A k \in DOMAIN f : Expanded(Compacted(f))[k] = Moves(f)[k]
<1> DEFINE g == Compacted(f)
           n == Len(f)
           E == Expanded(Compacted(f))
           Bad == {k \in 1 .. n : E[k] # Moves(f)[k]}
<1>1. n \in Nat /\ DOMAIN f = 1 .. n
  OBVIOUS
<1>2. g \in Seq(Row) /\ SameFrames(g, f)
  BY CompactedFrames
<1>3. DOMAIN g = 1 .. n /\ \A k \in 1 .. n : g[k].rid = f[k].rid
  BY <1>1, <1>2 DEF SameFrames
<1>4. \A k \in 1 .. n : Before(g, k) = Before(f, k)
  <2> HIDE DEF g
  <2> QED
    BY <1>1, <1>3 DEF Before
<1>5. \A k \in 1 .. n : E[k] = Inherits(g, Logged(g), k, E)
  <2>1. E = Effective(g, Logged(g))
    BY DEF Expanded, Logged
  <2> HIDE DEF g, E
  <2> QED
    BY <1>1, <1>3, <2>1, EffectiveStep
<1>6. \A k \in 1 .. n : Moves(f)[k] = Inherits(f, Moving(f), k, Moves(f))
  BY <1>1, EffectiveStep DEF Moves
<1>7. ASSUME Bad # {} PROVE FALSE
  <2>1. Bad \in SUBSET Nat
    BY <1>1
  <2>2. PICK k \in Bad : \A j \in Bad : k <= j
    <3> HIDE DEF Bad
    <3> QED
      BY <1>7, <2>1, LeastRow
  <2>3. PICK b : b = Before(f, k)
    OBVIOUS
  <2>4. b # {} => Greatest(b) \in 1 .. k - 1
    BY <1>1, <2>2, <2>3, BeforeBelow
  <2>5. b # {} => E[Greatest(b)] = Moves(f)[Greatest(b)]
    <3> HIDE DEF E
    <3> QED
      BY <1>1, <2>2, <2>4
  <2>6. k \in DOMAIN f /\ k \in DOMAIN g /\ Before(g, k) = b /\ E[k] # Moves(f)[k]
    BY <1>1, <1>3, <1>4, <2>2, <2>3
  <2>7. f[k] \in Row
    BY <2>6
  <2>8. CASE f[k].inline = None
    <3>1. Logged(g)[k] = Moving(f)[k]
      BY <2>6, <2>8, CompactedRow DEF Logged, Moving
    <3> HIDE DEF g, E
    <3> QED
      BY <1>5, <1>6, <2>2, <2>3, <2>5, <2>6, <3>1 DEF Inherits
  <2>9. CASE f[k].inline # None
    <3>1. Moves(f)[k] = f[k].inline
      BY <1>6, <2>2, <2>6, <2>9 DEF Inherits, Moving
    <3>2. Logged(g)[k] = Item(f[k].inline, IF b = {} THEN None ELSE Moves(f)[Greatest(b)])
      BY <2>3, <2>6, <2>9, CompactedRow DEF Logged
    <3> HIDE DEF g, E
    <3>3. E[k] = f[k].inline
      BY <1>5, <2>2, <2>3, <2>5, <2>6, <2>9, <3>2 DEF Inherits, Item
    <3> QED
      BY <2>6, <3>1, <3>3
  <2> QED
    BY <2>8, <2>9
<1> QED
  BY <1>1, <1>7

(* A manifest that is not empty stays as it was. *)
LEMMA ManifestsKept ==
  ASSUME NEW f \in Seq(Row), OldFirst(f)
  PROVE  \A k \in DOMAIN f : Expanded(f)[k] # None => Moves(f)[k] = Expanded(f)[k]
<1> DEFINE n == Len(f)
           E == Expanded(f)
           Bad == {k \in 1 .. n : E[k] # None /\ E[k] # Moves(f)[k]}
<1>1. n \in Nat /\ DOMAIN f = 1 .. n
  OBVIOUS
<1>2. E = Effective(f, Logged(f))
  BY DEF Expanded, Logged
<1>3. \A k \in 1 .. n : E[k] = Inherits(f, Logged(f), k, E)
  <2> HIDE DEF E
  <2> QED
    BY <1>1, <1>2, EffectiveStep
<1>4. \A k \in 1 .. n : Moves(f)[k] = Inherits(f, Moving(f), k, Moves(f))
  BY <1>1, EffectiveStep DEF Moves
<1>5. ASSUME Bad # {} PROVE FALSE
  <2>1. Bad \in SUBSET Nat
    BY <1>1
  <2>2. PICK k \in Bad : \A j \in Bad : k <= j
    <3> HIDE DEF Bad
    <3> QED
      BY <1>5, <2>1, LeastRow
  <2>3. PICK b : b = Before(f, k)
    OBVIOUS
  <2>4. b # {} => Greatest(b) \in 1 .. k - 1
    BY <1>1, <2>2, <2>3, BeforeBelow
  <2>5. b # {} => E[Greatest(b)] = None \/ E[Greatest(b)] = Moves(f)[Greatest(b)]
    <3> HIDE DEF E
    <3> QED
      BY <1>1, <2>2, <2>4
  <2>6. k \in DOMAIN f /\ E[k] # None /\ E[k] # Moves(f)[k]
    BY <1>1, <2>2
  <2>7. f[k].inline = None
    <3> SUFFICES ASSUME f[k].inline # None PROVE FALSE
      OBVIOUS
    <3>1. \A j \in 1 .. k : Logged(f)[j] = None
      BY <1>1, <2>6 DEF OldFirst, Logged
    <3>2. E[k] = None
      BY <1>1, <1>2, <2>6, <3>1, NothingInherited
    <3> QED
      BY <2>6, <3>2
  <2>8. Moving(f)[k] = Logged(f)[k]
    BY <2>6, <2>7 DEF Moving, Logged
  <2> HIDE DEF E
  <2> QED
    BY <1>3, <1>4, <2>2, <2>3, <2>5, <2>6, <2>8 DEF Inherits
<1> QED
  BY <1>1, <1>5

-----------------------------------------------------------------------------
(* Files, positions and indexes. *)

LEMMA Lengths ==
  ASSUME NEW f \in Seq(Row)
  PROVE  /\ Len(f) \in Nat /\ DOMAIN f = 1 .. Len(f) /\ \A k \in DOMAIN f : f[k] \in Row
         /\ Inline(f) \in Seq(BOOLEAN) /\ Len(Inline(f)) = Len(f)
         /\ \A k \in DOMAIN f : Inline(f)[k] = (f[k].inline # None)
<1>1. Len(f) \in Nat /\ DOMAIN f = 1 .. Len(f) /\ \A k \in DOMAIN f : f[k] \in Row
  OBVIOUS
<1>2. Inline(f) \in [1 .. Len(f) -> BOOLEAN]
  BY <1>1 DEF Inline
<1>3. \A k \in DOMAIN f : Inline(f)[k] = (f[k].inline # None)
  BY DEF Inline
<1>4. \A g \in [1 .. Len(f) -> BOOLEAN] : g \in Seq(BOOLEAN) /\ Len(g) = Len(f)
  BY <1>1
<1> QED
  BY <1>1, <1>2, <1>3, <1>4

LEMMA Positions ==
  ASSUME NEW f \in Seq(Row), NEW k \in 1 .. Len(f) + 1
  PROVE  /\ Position(f, k) \in Seq(BOOLEAN) /\ Len(Position(f, k)) = k - 1
         /\ \A j \in 1 .. k - 1 : Position(f, k)[j] = (f[j].inline # None)
<1>1. PICK s : s = Inline(f)
  OBVIOUS
<1>2. s \in Seq(BOOLEAN) /\ Len(s) = Len(f) /\ \A j \in DOMAIN f : s[j] = (f[j].inline # None)
  BY <1>1, Lengths
<1>3. /\ SubSeq(s, 1, k - 1) \in Seq(BOOLEAN) /\ Len(SubSeq(s, 1, k - 1)) = k - 1
      /\ \A j \in 1 .. k - 1 : SubSeq(s, 1, k - 1)[j] = s[j]
  BY <1>2, SubSeqProperties
<1>4. \A j \in 1 .. k - 1 : j \in DOMAIN f
  OBVIOUS
<1> QED
  BY <1>1, <1>2, <1>3, <1>4 DEF Position

(* Two files with the same inline rows before k put k at the same place.   *)
LEMMA SamePosition ==
  ASSUME NEW f \in Seq(Row), NEW g \in Seq(Row), NEW k \in 1 .. Len(f) + 1, k <= Len(g) + 1,
         \A j \in 1 .. k - 1 : (f[j].inline # None) = (g[j].inline # None)
  PROVE  Position(f, k) = Position(g, k)
<1>0. k \in 1 .. Len(g) + 1
  OBVIOUS
<1>1. PICK s, t : s = Position(f, k) /\ t = Position(g, k)
  OBVIOUS
<1>2. s \in Seq(BOOLEAN) /\ t \in Seq(BOOLEAN) /\ Len(s) = k - 1 /\ Len(t) = k - 1
  BY <1>0, <1>1, Positions
<1>3. \A j \in 1 .. k - 1 : s[j] = t[j]
  <2> TAKE j \in 1 .. k - 1
  <2>1. s[j] = (f[j].inline # None)
    BY <1>1, Positions
  <2>2. t[j] = (g[j].inline # None)
    BY <1>0, <1>1, Positions
  <2>3. (f[j].inline # None) = (g[j].inline # None)
    OBVIOUS
  <2> QED
    BY <2>1, <2>2, <2>3
<1> QED
  BY <1>1, <1>2, <1>3

LEMMA LatestRow ==
  ASSUME NEW f \in Seq(Row), NEW r
  PROVE  /\ Latest(f, r) = 0 <=> RowsOf(f, r) = {}
         /\ Latest(f, r) # 0 =>
              /\ Latest(f, r) \in DOMAIN f /\ f[Latest(f, r)].rid = r
              /\ \A j \in RowsOf(f, r) : j <= Latest(f, r)
         /\ Latest(f, r) \in Nat
<1>1. RowsOf(f, r) \in SUBSET (1 .. Len(f)) /\ Len(f) \in Nat
  BY DEF RowsOf
<1>2. CASE RowsOf(f, r) = {}
  BY <1>2 DEF Latest
<1>3. CASE RowsOf(f, r) # {}
  <2>1. /\ Greatest(RowsOf(f, r)) \in RowsOf(f, r)
        /\ \A j \in RowsOf(f, r) : j <= Greatest(RowsOf(f, r))
    BY <1>1, <1>3, GreatestRow
  <2>2. Latest(f, r) = Greatest(RowsOf(f, r))
    BY <1>3 DEF Latest
  <2>3. Latest(f, r) \in 1 .. Len(f)
    BY <1>1, <2>1, <2>2
  <2> QED
    BY <1>1, <1>3, <2>1, <2>2, <2>3 DEF RowsOf
<1> QED
  BY <1>2, <1>3

LEMMA LatestIs ==
  ASSUME NEW f \in Seq(Row), NEW r, NEW k \in RowsOf(f, r), \A j \in RowsOf(f, r) : j <= k
  PROVE  Latest(f, r) = k
<1>1. Latest(f, r) # 0 /\ Latest(f, r) \in RowsOf(f, r) /\ k <= Latest(f, r) /\ Latest(f, r) <= k
  BY LatestRow DEF RowsOf
<1>2. k \in Nat /\ Latest(f, r) \in Nat
  BY LatestRow, Lengths DEF RowsOf
<1> QED
  BY <1>1, <1>2

LEMMA ExpandedTyped ==
  ASSUME NEW f \in Seq(Row)
  PROVE  /\ \A k \in DOMAIN f : Expanded(f)[k] \in Content
         /\ \A r : LatestManifest(f, r) \in Content
         /\ \A r : LatestManifest(f, r) = IF Latest(f, r) = 0 THEN None ELSE Expanded(f)[Latest(f, r)]
<1>1. Len(f) \in Nat /\ DOMAIN f = 1 .. Len(f)
  BY Lengths
<1>2. \A k \in 1 .. Len(f) : Logged(f)[k] \in Content
  BY Lengths DEF Logged, Row
<1>3. None \in Content
  BY DEF Content
<1>4. \A k \in 1 .. Len(f) : Effective(f, Logged(f))[k] \in Content
  BY <1>1, <1>2, <1>3, EffectiveTyped
<1>5. \A k \in DOMAIN f : Expanded(f)[k] \in Content
  BY <1>1, <1>4 DEF Expanded, Logged
<1> QED
  BY <1>3, <1>5, LatestRow DEF LatestManifest

(* A row that is appended changes no earlier one. *)
LEMMA Appended ==
  ASSUME NEW f \in Seq(Row), NEW row \in Row
  PROVE  LET g == Append(f, row) n == Len(f) IN
         /\ g \in Seq(Row) /\ Len(g) = n + 1 /\ DOMAIN g = 1 .. n + 1 /\ g[n + 1] = row
         /\ \A k \in 1 .. n : g[k] = f[k]
         /\ \A k \in 1 .. n : Position(g, k) = Position(f, k)
         /\ Latest(g, row.rid) = n + 1
         /\ \A r : r # row.rid => Latest(g, r) = Latest(f, r)
         /\ \A k \in 1 .. n : Expanded(g)[k] = Expanded(f)[k]
         /\ Expanded(g)[n + 1] = IF row.logged # None THEN row.logged ELSE LatestManifest(f, row.rid)
<1> DEFINE g == Append(f, row)
           n == Len(f)
<1>1. /\ g \in Seq(Row) /\ Len(g) = n + 1 /\ DOMAIN g = 1 .. n + 1 /\ g[n + 1] = row
      /\ n \in Nat /\ DOMAIN f = 1 .. n /\ \A k \in 1 .. n : g[k] = f[k]
  OBVIOUS
<1> HIDE DEF g, n
<1>2. \A k \in 1 .. n : Position(g, k) = Position(f, k)
  <2> TAKE k \in 1 .. n
  <2>1. k \in 1 .. Len(f) + 1 /\ k \in 1 .. Len(g) + 1 /\ k <= Len(f) + 1
    BY <1>1 DEF n
  <2>2. \A j \in 1 .. k - 1 : (g[j].inline # None) = (f[j].inline # None)
    BY <1>1
  <2> QED
    BY <1>1, <2>1, <2>2, SamePosition
<1>3. Latest(g, row.rid) = n + 1
  <2>1. n + 1 \in RowsOf(g, row.rid) /\ \A j \in RowsOf(g, row.rid) : j <= n + 1
    BY <1>1 DEF RowsOf
  <2> QED
    BY <1>1, <2>1, LatestIs
<1>4. \A r : r # row.rid => Latest(g, r) = Latest(f, r)
  <2> TAKE r
  <2> HAVE r # row.rid
  <2>1. RowsOf(g, r) = RowsOf(f, r)
    BY <1>1 DEF RowsOf
  <2> QED
    BY <2>1 DEF Latest
<1>5. \A k \in 1 .. n : Logged(g)[k] = Logged(f)[k] /\ f[k].rid = g[k].rid
  BY <1>1 DEF Logged
<1>6. \A k \in 1 .. n : Effective(f, Logged(f))[k] = Effective(g, Logged(g))[k]
  <2>1. n + 1 \in Nat /\ n <= n + 1
    BY <1>1
  <2> QED
    BY <1>1, <1>5, <2>1, EffectiveLocal
<1>7. Expanded(f) = Effective(f, Logged(f)) /\ Expanded(g) = Effective(g, Logged(g))
  BY DEF Expanded, Logged
<1>8. Expanded(g)[n + 1] = IF row.logged # None THEN row.logged ELSE LatestManifest(f, row.rid)
  <2>1. Expanded(g)[n + 1] = Inherits(g, Logged(g), n + 1, Expanded(g))
    <3>1. n + 1 \in Nat /\ n + 1 \in 1 .. n + 1
      BY <1>1
    <3> QED
      BY <1>1, <1>7, <3>1, EffectiveStep
  <2>2. Logged(g)[n + 1] = row.logged
    BY <1>1 DEF Logged
  <2>3. Before(g, n + 1) = RowsOf(f, row.rid)
    BY <1>1 DEF Before, RowsOf
  <2>4. RowsOf(f, row.rid) # {} =>
          /\ Latest(f, row.rid) = Greatest(RowsOf(f, row.rid))
          /\ Latest(f, row.rid) \in 1 .. n
          /\ Latest(f, row.rid) # 0
    BY <1>1, LatestRow DEF Latest
  <2>5. RowsOf(f, row.rid) = {} => Latest(f, row.rid) = 0
    BY DEF Latest
  <2> QED
    BY <1>6, <1>7, <2>1, <2>2, <2>3, <2>4, <2>5 DEF Inherits, LatestManifest
<1> QED
  BY <1>1, <1>2, <1>3, <1>4, <1>6, <1>7, <1>8 DEF g, n

-----------------------------------------------------------------------------
(* What the files say of the frames. *)

(* The rows still hold what was written, inline or by ref, ... *)
Faithful(f, w) == \A k \in DOMAIN f : FrameOf(f[k]) = w[k]

(* ... a ref is stored and authorized by the manifests of its rows, ... *)
Readable(f, store) == \A k \in DOMAIN f :
    f[k].ref # None => f[k].ref \in store /\ Expanded(f)[k] = f[k].ref

(* ... and an entry of the index that still has the position of the latest *)
(* row knows its preview, if it also has its length, though it may have    *)
(* missed the other items of its manifest.                                 *)
Names(e, f, k) ==
    /\ e # None /\ e.seq = f[k].seq /\ Len(e.pos) = k - 1
    /\ e.pos = Position(f, k) =>
         /\ e.man = None \/ e.man = Expanded(f)[k]
         /\ e.long = (f[k].inline # None) /\ f[k].ref # None => e.man = f[k].ref
Entries(ix, f) == \A r \in Responses :
    /\ Latest(f, r) = 0 => ix.entries[r] = None
    /\ Latest(f, r) # 0 => Names(ix.entries[r], f, Latest(f, r))

(* An index that is used without a look at the ledger has every row's      *)
(* position and length.                                                    *)
Covers(ix, f) ==
    /\ ix.size = Size(f)
    /\ \A r \in Responses : Latest(f, r) # 0 =>
         /\ ix.entries[r] # None
         /\ ix.entries[r].pos = Position(f, Latest(f, r))
         /\ ix.entries[r].long = (f[Latest(f, r)].inline # None)

FilesOK ==
    /\ Faithful(ledger, written) /\ OldFirst(ledger) /\ Readable(ledger, cas)
    /\ Entries(index, ledger) /\ (Verified(index) => Covers(index, ledger))

(* What the command relies on in each of its steps. *)
Working ==
    /\ temp.rows = Compacted(temp.from)
    /\ step \in {"audited", "captured", "saved", "rewritten", "checked"} =>
         Eligible(source.ledger) # {}
    /\ step \in {"captured", "saved", "rewritten", "checked"} => Covers(source.index, source.ledger)
    /\ step \in {"rewritten", "checked"} => \A k \in Eligible(temp.from) : temp.from[k].inline \in cas
    /\ step = "checked" => source.ledger = ledger /\ Covers(index, ledger)
    /\ step = "swapped" => ledger = temp.rows

CInv == TypeOK /\ RInv /\ FilesOK /\ Working

-----------------------------------------------------------------------------
(* An index computed from the file. *)

LEMMA IndexOfEntry ==
  ASSUME NEW f \in Seq(Row), NEW r \in Responses
  PROVE  /\ Latest(f, r) = 0 => IndexOf(f).entries[r] = None
         /\ Latest(f, r) # 0 =>
              /\ IndexOf(f).entries[r].seq = f[Latest(f, r)].seq
              /\ IndexOf(f).entries[r].pos = Position(f, Latest(f, r))
              /\ IndexOf(f).entries[r].long = (f[Latest(f, r)].inline # None)
              /\ IndexOf(f).entries[r].man = LatestManifest(f, r)
              /\ IndexOf(f).entries[r] \in Entry /\ IndexOf(f).entries[r] # None
<1>1. Latest(f, r) = 0 => IndexOf(f).entries[r] = None
  BY DEF IndexOf
<1>2. ASSUME Latest(f, r) # 0
      PROVE  /\ IndexOf(f).entries[r].seq = f[Latest(f, r)].seq
             /\ IndexOf(f).entries[r].pos = Position(f, Latest(f, r))
             /\ IndexOf(f).entries[r].long = (f[Latest(f, r)].inline # None)
             /\ IndexOf(f).entries[r].man = LatestManifest(f, r)
             /\ IndexOf(f).entries[r] \in Entry
  <2>1. PICK k \in DOMAIN f : k = Latest(f, r)
    BY <1>2, LatestRow
  <2>2. f[k] \in Row /\ k \in 1 .. Len(f) + 1
    BY Lengths
  <2>3. /\ f[k].seq \in Nat /\ Position(f, k) \in Seq(BOOLEAN)
        /\ LatestManifest(f, r) \in Content
    BY <2>2, Positions, ExpandedTyped DEF Row
  <2>4. PICK long \in BOOLEAN : long = (f[k].inline # None)
    OBVIOUS
  <2>5. IndexOf(f).entries[r] = [seq |-> f[k].seq, pos |-> Position(f, k), long |-> f[k].inline # None,
                                 man |-> LatestManifest(f, r)]
    BY <1>2, <2>1 DEF IndexOf
  <2>6. PICK e : e = IndexOf(f).entries[r]
    OBVIOUS
  <2>7. e = [seq |-> f[k].seq, pos |-> Position(f, k), long |-> long, man |-> LatestManifest(f, r)]
    BY <2>4, <2>5, <2>6
  <2>8. /\ e \in Entry /\ e.seq = f[k].seq /\ e.pos = Position(f, k) /\ e.long = long
        /\ e.man = LatestManifest(f, r)
    BY <2>3, <2>7 DEF Entry
  <2> QED
    BY <2>1, <2>4, <2>6, <2>8
<1>3. Latest(f, r) # 0 => IndexOf(f).entries[r] # None
  BY <1>2, CompactionAssumption
<1> QED
  BY <1>1, <1>2, <1>3

LEMMA IndexOfRight ==
  ASSUME NEW f \in Seq(Row), NEW store, Readable(f, store)
  PROVE  Index(IndexOf(f)) /\ Entries(IndexOf(f), f) /\ Covers(IndexOf(f), f)
<1> DEFINE ix == IndexOf(f)
<1>1. /\ DOMAIN ix = {"size", "verified", "entries"} /\ ix.size = Size(f) /\ ix.verified = TRUE
      /\ DOMAIN ix.entries = Responses
  BY DEF IndexOf
<1>2. Size(f) \in Seq(BOOLEAN)
  BY Lengths DEF Size
<1>3. \A r \in Responses : ix.entries[r] \in Entry \cup {None}
  BY IndexOfEntry
<1>4. Index(ix)
  BY <1>1, <1>2, <1>3 DEF Index
<1>5. Covers(ix, f)
  <2> SUFFICES ASSUME NEW r \in Responses, Latest(f, r) # 0
               PROVE  /\ ix.entries[r] # None
                      /\ ix.entries[r].pos = Position(f, Latest(f, r))
                      /\ ix.entries[r].long = (f[Latest(f, r)].inline # None)
    BY <1>1 DEF Covers
  <2> QED
    BY IndexOfEntry
<1>6. Entries(ix, f)
  <2> SUFFICES ASSUME NEW r \in Responses, Latest(f, r) # 0
               PROVE  Names(ix.entries[r], f, Latest(f, r))
    BY IndexOfEntry DEF Entries
  <2>1. PICK k \in DOMAIN f : k = Latest(f, r) /\ k # 0
    BY LatestRow
  <2>2. PICK e : e = ix.entries[r]
    OBVIOUS
  <2>3. e # None /\ e.seq = f[k].seq /\ e.pos = Position(f, k) /\ e.man = LatestManifest(f, r)
    BY <2>1, <2>2, IndexOfEntry
  <2>4. Len(e.pos) = k - 1
    BY <2>1, <2>3, Positions, Lengths
  <2>5. e.man = Expanded(f)[k]
    BY <2>1, <2>3, ExpandedTyped
  <2>6. f[k].ref # None => e.man = f[k].ref
    BY <2>1, <2>5 DEF Readable
  <2> QED
    BY <2>1, <2>2, <2>3, <2>4, <2>5, <2>6 DEF Names
<1> QED
  BY <1>4, <1>5, <1>6

LEMMA EmptyCompacted == Compacted(<<>>) = <<>>
<1>1. \A f \in Seq(Row) : Compacted(f) \in Seq(Row) /\ SameFrames(Compacted(f), f)
  BY CompactedFrames
<1>2. <<>> \in Seq(Row)
  OBVIOUS
<1>3. Compacted(<<>>) \in Seq(Row) /\ SameFrames(Compacted(<<>>), <<>>)
  BY <1>1, <1>2
<1> QED
  BY <1>3 DEF SameFrames

LEMMA InitFiles == Init => CInv
<1> SUFFICES ASSUME Init PROVE CInv
  OBVIOUS
<1>1. RInv
  BY InitRows
<1>2. ledger \in Seq(Row)
  BY <1>1 DEF RInv, Shape
<1>3. \A k \in DOMAIN ledger : ledger[k].ref = None /\ ledger[k].logged = None
  BY DEF Init, Historic
<1>4. Readable(ledger, cas) /\ OldFirst(ledger)
  BY <1>3 DEF Readable, OldFirst
<1>5. Faithful(ledger, written)
  BY DEF Init, Faithful
<1>6. PICK known \in BOOLEAN : index = [IndexOf(ledger) EXCEPT !.verified = known]
  BY DEF Init
<1>7. Index(IndexOf(ledger)) /\ Entries(IndexOf(ledger), ledger) /\ Covers(IndexOf(ledger), ledger)
  BY <1>2, <1>4, IndexOfRight
<1>8. /\ DOMAIN index = {"size", "verified", "entries"} /\ index.verified = known
      /\ index.size = IndexOf(ledger).size /\ index.entries = IndexOf(ledger).entries
  BY <1>6, <1>7 DEF Index
<1>9. Index(index) /\ Entries(index, ledger) /\ Covers(index, ledger)
  BY <1>7, <1>8 DEF Index, Entries, Covers
<1>10. /\ cas = {} /\ step = "off" /\ source = [ledger |-> <<>>, index |-> index]
       /\ temp = [rows |-> <<>>, from |-> <<>>]
  BY DEF Init
<1>11. TypeOK
  <2>1. DOMAIN source = {"ledger", "index"} /\ source.ledger \in Seq(Row) /\ source.index = index
    BY <1>10
  <2>2. temp \in [rows : Seq(Row), from : Seq(Row)] /\ DOMAIN temp.rows = DOMAIN temp.from
    BY <1>10
  <2> QED
    BY <1>1, <1>2, <1>9, <1>10, <2>1, <2>2 DEF TypeOK, RInv, Shape
<1>12. Working
  BY <1>10, EmptyCompacted DEF Working
<1> QED
  BY <1>1, <1>4, <1>5, <1>9, <1>11, <1>12 DEF CInv, FilesOK

-----------------------------------------------------------------------------
(* What an entry points to, and what a successor inherits. *)

LEMMA EntryFields ==
  ASSUME Index(index), NEW r \in Responses, index.entries[r] # None
  PROVE  /\ index.entries[r].seq \in Nat /\ index.entries[r].pos \in Seq(BOOLEAN)
         /\ index.entries[r].long \in BOOLEAN /\ index.entries[r].man \in Content
<1>1. index.entries[r] \in Entry
  BY DEF Index
<1> QED
  BY <1>1 DEF Entry

LEMMA IndexedIsLatest ==
  ASSUME CInv, NEW r \in Responses
  PROVE  /\ IndexedRow(r, index) # 0 =>
              /\ IndexedRow(r, index) = Latest(ledger, r) /\ Latest(ledger, r) # 0
              /\ index.entries[r].pos = Position(ledger, Latest(ledger, r))
         /\ Latest(ledger, r) # 0 /\ index.entries[r].pos = Position(ledger, Latest(ledger, r)) =>
              IndexedRow(r, index) = Latest(ledger, r)
<1> DEFINE e == index.entries[r]
           k == Latest(ledger, r)
           found == {j \in RowsOf(ledger, r) : Position(ledger, j) = e.pos /\ ledger[j].seq = e.seq}
<1>1. ledger \in Seq(Row) /\ Entries(index, ledger)
  BY DEF CInv, RInv, Shape, FilesOK
<1>2. IndexedRow(r, index) = IF e = None \/ found = {} THEN 0 ELSE Greatest(found)
  BY DEF IndexedRow
<1>3. k = 0 => e = None
  BY <1>1 DEF Entries
<1>4. ASSUME k # 0
      PROVE  /\ found \subseteq {k} /\ e # None /\ k \in 1 .. Len(ledger)
             /\ e.pos = Position(ledger, k) => k \in found
             /\ found # {} => e.pos = Position(ledger, k)
  <2>1. k \in DOMAIN ledger /\ ledger[k].rid = r
    BY <1>1, <1>4, LatestRow
  <2>2. Names(e, ledger, k)
    BY <1>1, <1>4 DEF Entries
  <2>3. Len(e.pos) = k - 1 /\ e.seq = ledger[k].seq /\ e # None
    BY <2>2 DEF Names
  <2>4. k \in 1 .. Len(ledger) /\ Len(ledger) \in Nat
    BY <1>1, <2>1
  <2>5. ASSUME NEW j \in found PROVE j = k /\ e.pos = Position(ledger, k)
    <3>1. j \in 1 .. Len(ledger) + 1 /\ e.pos = Position(ledger, j)
      BY <1>1, <2>4 DEF RowsOf
    <3>2. Len(e.pos) = j - 1
      BY <1>1, <3>1, Positions
    <3>3. j = k
      BY <2>3, <2>4, <3>1, <3>2
    <3> QED
      BY <3>1, <3>3
  <2>6. e.pos = Position(ledger, k) => k \in found
    BY <2>1, <2>3 DEF RowsOf
  <2> QED
    BY <2>3, <2>4, <2>5, <2>6
<1> HIDE DEF e, k, found
<1>5. ASSUME k # 0, found # {} PROVE Greatest(found) = k
  <2>1. found = {k} /\ k \in Nat
    BY <1>4, <1>5
  <2>2. \E j \in found : \A i \in found : i <= j
    BY <2>1
  <2>3. Greatest(found) \in found
    BY <2>2 DEF Greatest
  <2> QED
    BY <2>1, <2>3
<1>6. IndexedRow(r, index) # 0 => IndexedRow(r, index) = k /\ k # 0 /\ e.pos = Position(ledger, k)
  BY <1>2, <1>3, <1>4, <1>5
<1>7. k # 0 /\ e.pos = Position(ledger, k) => IndexedRow(r, index) = k
  BY <1>2, <1>4, <1>5
<1> QED
  BY <1>6, <1>7 DEF e, k

LEMMA ManifestInherited ==
  ASSUME CInv, NEW r \in Responses, NEW man \in ParentManifests(r)
  PROVE  man \in Content /\ (man = None \/ man = LatestManifest(ledger, r))
<1>1. ledger \in Seq(Row) /\ Entries(index, ledger) /\ Index(index)
  BY DEF CInv, RInv, Shape, FilesOK, TypeOK
<1>2. man \in {LatestManifest(ledger, r)} \/ (IndexedRow(r, index) # 0 /\ man = index.entries[r].man)
  BY DEF ParentManifests
<1>3. ASSUME IndexedRow(r, index) # 0, man = index.entries[r].man
      PROVE  man = None \/ man = LatestManifest(ledger, r)
  <2>1. PICK k : k = Latest(ledger, r)
    OBVIOUS
  <2>2. k # 0 /\ index.entries[r].pos = Position(ledger, k)
    BY <1>3, <2>1, IndexedIsLatest
  <2>3. Names(index.entries[r], ledger, k)
    BY <1>1, <2>1, <2>2 DEF Entries
  <2>4. man = None \/ man = Expanded(ledger)[k]
    BY <1>3, <2>2, <2>3 DEF Names
  <2> QED
    BY <1>1, <2>1, <2>2, <2>4, ExpandedTyped
<1>4. LatestManifest(ledger, r) \in Content /\ None \in Content
  BY <1>1, ExpandedTyped DEF Content
<1> QED
  BY <1>2, <1>3, <1>4

-----------------------------------------------------------------------------
(* An append. *)

NewRow(r, p, man) ==
    [rid |-> r, seq |-> Cardinality(RowsOf(ledger, r)) + 1, inline |-> None,
     ref |-> p, logged |-> IF p = man THEN None ELSE p]

LEMMA NewRowFields ==
  ASSUME CInv, NEW r \in Responses, NEW p \in Content, NEW man \in ParentManifests(r)
  PROVE  LET row == NewRow(r, p, man) IN
         /\ row \in Row /\ row.rid = r /\ row.inline = None /\ row.ref = p
         /\ row.logged = IF p = man THEN None ELSE p
         /\ FrameOf(row) \in Frame
<1>1. Cardinality(RowsOf(ledger, r)) \in Nat
  <2>1. RowsOf(ledger, r) \subseteq 1 .. Len(ledger) /\ Len(ledger) \in Nat
    BY DEF CInv, RInv, Shape, RowsOf
  <2> QED
    BY <2>1, CountIsNat
<1>2. NewRow(r, p, man) \in Row
  BY <1>1 DEF NewRow, Row, Content
<1>3. FrameOf(NewRow(r, p, man)) \in Frame
  BY <1>2, FrameOfRow
<1> QED
  BY <1>2, <1>3 DEF NewRow

LEMMA AppendedBy ==
  ASSUME AppendFrame
  PROVE  \E r \in Responses, p \in Content : \E man \in ParentManifests(r) :
           /\ cas' = (cas \cup {p}) \ {None}
           /\ ledger' = Append(ledger, NewRow(r, p, man))
           /\ index' = NextIndex(NewRow(r, p, man), IF p = None THEN man ELSE p)
           /\ written' = Append(written, FrameOf(NewRow(r, p, man)))
BY DEF AppendFrame, NewRow

LEMMA AppendFiles ==
  ASSUME CInv, AppendFrame
  PROVE  TypeOK' /\ FilesOK'
<1>1. PICK r \in Responses, p \in Content : \E m \in ParentManifests(r) :
           /\ cas' = (cas \cup {p}) \ {None}
           /\ ledger' = Append(ledger, NewRow(r, p, m))
           /\ index' = NextIndex(NewRow(r, p, m), IF p = None THEN m ELSE p)
           /\ written' = Append(written, FrameOf(NewRow(r, p, m)))
  BY AppendedBy
<1>2. PICK man \in ParentManifests(r) :
           /\ cas' = (cas \cup {p}) \ {None}
           /\ ledger' = Append(ledger, NewRow(r, p, man))
           /\ index' = NextIndex(NewRow(r, p, man), IF p = None THEN man ELSE p)
           /\ written' = Append(written, FrameOf(NewRow(r, p, man)))
  BY <1>1
<1>3. PICK row : row = NewRow(r, p, man)
  OBVIOUS
<1>4. PICK kept : kept = IF p = None THEN man ELSE p
  OBVIOUS
<1>5. /\ row \in Row /\ row.rid = r /\ row.inline = None /\ row.ref = p
      /\ row.logged = IF p = man THEN None ELSE p
      /\ FrameOf(row) \in Frame
  BY <1>3, NewRowFields
<1>6. man \in Content /\ (man = None \/ man = LatestManifest(ledger, r)) /\ kept \in Content
  BY <1>4, ManifestInherited
<1>7. /\ cas' = (cas \cup {p}) \ {None} /\ ledger' = Append(ledger, row)
      /\ index' = NextIndex(row, kept) /\ written' = Append(written, FrameOf(row))
      /\ UNCHANGED <<step, source, temp>>
  BY <1>2, <1>3, <1>4 DEF AppendFrame
<1>8. /\ TypeOK /\ ledger \in Seq(Row) /\ written \in Seq(Frame) /\ Index(index)
      /\ Faithful(ledger, written) /\ OldFirst(ledger) /\ Readable(ledger, cas)
      /\ Entries(index, ledger) /\ (Verified(index) => Covers(index, ledger))
      /\ SameFrames(ledger, written)
  BY DEF CInv, RInv, Shape, FilesOK, TypeOK
<1>9. PICK n : n = Len(ledger)
  OBVIOUS
<1>10. PICK g : g = Append(ledger, row)
  OBVIOUS
<1>11. /\ g \in Seq(Row) /\ Len(g) = n + 1 /\ DOMAIN g = 1 .. n + 1 /\ g[n + 1] = row
       /\ \A k \in 1 .. n : g[k] = ledger[k]
       /\ \A k \in 1 .. n : Position(g, k) = Position(ledger, k)
       /\ Latest(g, r) = n + 1
       /\ \A q : q # r => Latest(g, q) = Latest(ledger, q)
       /\ \A k \in 1 .. n : Expanded(g)[k] = Expanded(ledger)[k]
       /\ Expanded(g)[n + 1] = IF row.logged # None THEN row.logged ELSE LatestManifest(ledger, r)
       /\ n \in Nat /\ DOMAIN ledger = 1 .. n
  BY <1>5, <1>8, <1>9, <1>10, Appended
<1>12. Expanded(g)[n + 1] = IF p # None THEN p ELSE LatestManifest(ledger, r)
  BY <1>5, <1>6, <1>11
<1>13. PICK entry : entry = [seq |-> row.seq, pos |-> Position(g, n + 1), long |-> FALSE, man |-> kept]
  OBVIOUS
<1>14. entry \in Entry /\ entry # None
  <2>1. row.seq \in Nat
    BY <1>5 DEF Row
  <2>2. n + 1 \in 1 .. Len(g) + 1
    BY <1>11
  <2>3. Position(g, n + 1) \in Seq(BOOLEAN)
    BY <1>11, <2>2, Positions
  <2>4. entry \in Entry
    BY <1>6, <1>13, <2>1, <2>3 DEF Entry
  <2> QED
    BY <2>4, CompactionAssumption
<1>15. /\ DOMAIN index' = {"size", "verified", "entries"}
       /\ index'.size = Size(g) /\ index'.verified = (ledger = <<>> \/ Verified(index))
       /\ DOMAIN index'.entries = Responses /\ index'.entries[r] = entry
       /\ \A q \in Responses : q # r => index'.entries[q] = index.entries[q]
  BY <1>5, <1>7, <1>8, <1>10, <1>11, <1>13 DEF NextIndex, Index
<1>16. Index(index')
  <2>1. Size(g) \in Seq(BOOLEAN)
    BY <1>11, Lengths DEF Size
  <2>2. (ledger = <<>> \/ Verified(index)) \in BOOLEAN
    OBVIOUS
  <2>3. \A q \in Responses : index'.entries[q] \in Entry \cup {None}
    BY <1>8, <1>14, <1>15 DEF Index
  <2> QED
    BY <1>15, <2>1, <2>2, <2>3 DEF Index
<1>17. TypeOK'
  <2>1. written' \in Seq(Frame)
    BY <1>5, <1>7, <1>8
  <2>2. cas' \subseteq Previews
    BY <1>7, <1>8 DEF TypeOK, Content
  <2> QED
    BY <1>7, <1>8, <1>10, <1>11, <1>16, <2>1, <2>2 DEF TypeOK, Index
<1>18. Faithful(g, written')
  <2>0. Len(ledger) = Len(written)
    BY DEF CInv, RInv, Shape, SameFrames
  <2>1. Len(written) = n
    BY <1>9, <2>0
  <2>2. ASSUME NEW k \in 1 .. n PROVE FrameOf(g[k]) = written'[k]
    <3>1. written'[k] = written[k]
      BY <1>5, <1>7, <1>8, <1>11, <2>1
    <3>2. FrameOf(ledger[k]) = written[k]
      BY <1>8, <1>11 DEF Faithful
    <3> QED
      BY <1>11, <3>1, <3>2
  <2>3. FrameOf(g[n + 1]) = written'[n + 1]
    BY <1>5, <1>7, <1>8, <1>11, <2>1
  <2> QED
    BY <1>11, <2>2, <2>3 DEF Faithful
<1>19. OldFirst(g)
  BY <1>5, <1>8, <1>11 DEF OldFirst
<1>20. Readable(g, cas')
  <2> SUFFICES ASSUME NEW k \in DOMAIN g, g[k].ref # None
               PROVE  g[k].ref \in cas' /\ Expanded(g)[k] = g[k].ref
    BY DEF Readable
  <2>1. CASE k \in 1 .. n
    BY <1>7, <1>8, <1>11, <2>1 DEF Readable
  <2>2. CASE k = n + 1
    BY <1>5, <1>7, <1>11, <1>12, <2>2
  <2> QED
    BY <1>11, <2>1, <2>2
<1>21. Names(entry, g, n + 1)
  <2>1. entry.seq = row.seq /\ entry.pos = Position(g, n + 1) /\ entry.man = kept
    BY <1>13
  <2>2. Len(entry.pos) = n
    <3>1. n + 1 \in 1 .. Len(g) + 1 /\ (n + 1) - 1 = n
      BY <1>11
    <3> QED
      BY <1>11, <2>1, <3>1, Positions
  <2>3. entry.man = None \/ entry.man = Expanded(g)[n + 1]
    BY <1>4, <1>6, <1>12, <2>1
  <2>4. g[n + 1].ref # None => entry.man = g[n + 1].ref
    BY <1>4, <1>5, <1>11, <2>1
  <2>5. (n + 1) - 1 = n
    BY <1>11
  <2> QED
    BY <1>11, <1>14, <2>1, <2>2, <2>3, <2>4, <2>5 DEF Names
<1>22. ASSUME NEW q \in Responses, q # r, Latest(ledger, q) # 0
       PROVE  /\ Names(index.entries[q], ledger, Latest(ledger, q))
                   => Names(index.entries[q], g, Latest(ledger, q))
              /\ Latest(ledger, q) \in 1 .. n
  <2>1. PICK k \in 1 .. n : k = Latest(ledger, q)
    BY <1>8, <1>11, <1>22, LatestRow
  <2>2. g[k] = ledger[k] /\ Position(g, k) = Position(ledger, k) /\ Expanded(g)[k] = Expanded(ledger)[k]
    BY <1>11
  <2> QED
    BY <2>1, <2>2 DEF Names
<1>23. Entries(index', g)
  <2> SUFFICES ASSUME NEW q \in Responses
               PROVE  /\ Latest(g, q) = 0 => index'.entries[q] = None
                      /\ Latest(g, q) # 0 => Names(index'.entries[q], g, Latest(g, q))
    BY DEF Entries
  <2>1. CASE q = r
    BY <1>11, <1>15, <1>21, <2>1
  <2>2. CASE q # r
    BY <1>8, <1>11, <1>15, <1>22, <2>2 DEF Entries
  <2> QED
    BY <2>1, <2>2
<1>24. ASSUME index'.verified PROVE Covers(index', g)
  <2>1. /\ index'.entries[r] # None /\ index'.entries[r].pos = Position(g, Latest(g, r))
        /\ index'.entries[r].long = FALSE /\ g[Latest(g, r)].inline = None
    BY <1>5, <1>11, <1>13, <1>14, <1>15
  <2>2. CASE ledger = <<>>
    <3>1. n = 0
      BY <1>9, <2>2
    <3>2. ASSUME NEW q \in Responses, Latest(g, q) # 0 PROVE q = r
      BY <1>11, <1>22, <3>1, <3>2
    <3> QED
      BY <1>15, <2>1, <3>2 DEF Covers
  <2>3. CASE Verified(index)
    <3> SUFFICES ASSUME NEW q \in Responses, Latest(g, q) # 0
                 PROVE  /\ index'.entries[q] # None
                        /\ index'.entries[q].pos = Position(g, Latest(g, q))
                        /\ index'.entries[q].long = (g[Latest(g, q)].inline # None)
      BY <1>15 DEF Covers
    <3>1. CASE q = r
      BY <2>1, <3>1
    <3>2. CASE q # r
      <4>1. PICK k \in 1 .. n : k = Latest(ledger, q) /\ k = Latest(g, q) /\ k # 0
        BY <1>11, <1>22, <3>2
      <4>2. g[k] = ledger[k] /\ Position(g, k) = Position(ledger, k)
        BY <1>11
      <4>3. /\ index.entries[q] # None /\ index.entries[q].pos = Position(ledger, k)
            /\ index.entries[q].long = (ledger[k].inline # None)
        BY <1>8, <2>3, <4>1 DEF Covers
      <4>4. index'.entries[q] = index.entries[q]
        BY <1>15, <3>2
      <4> QED
        BY <4>1, <4>2, <4>3, <4>4
    <3> QED
      BY <3>1, <3>2
  <2> QED
    BY <1>15, <1>24, <2>2, <2>3
<1>25. Verified(index)' => Covers(index', g)
  BY <1>24 DEF Verified
<1> QED
  BY <1>7, <1>10, <1>17, <1>18, <1>19, <1>20, <1>23, <1>25 DEF FilesOK

LEMMA AppendKeeps ==
  ASSUME CInv, AppendFrame
  PROVE  CInv'
<1>1. TypeOK' /\ FilesOK'
  BY AppendFiles
<1>2. RInv'
  BY AppendRows DEF CInv
<1>3. UNCHANGED <<step, source, temp>> /\ step \notin {"checked", "swapped"}
  BY DEF AppendFrame, WritersStopped
<1>4. cas \subseteq cas'
  <2>1. cas \subseteq Previews /\ None \notin Previews
    BY CompactionAssumption DEF CInv, TypeOK
  <2>2. \E p : cas' = (cas \cup {p}) \ {None}
    BY AppendedBy
  <2> QED
    BY <2>1, <2>2
<1>5. Working'
  BY <1>3, <1>4 DEF CInv, Working
<1> QED
  BY <1>1, <1>2, <1>5 DEF CInv

-----------------------------------------------------------------------------
(* The install of the rewritten ledger. *)

LEMMA MovesInline ==
  ASSUME NEW f \in Seq(Row), NEW k \in DOMAIN f, f[k].inline # None
  PROVE  Moves(f)[k] = f[k].inline
<1>1. Len(f) \in Nat /\ DOMAIN f = 1 .. Len(f)
  BY Lengths
<1>2. Moves(f)[k] = Inherits(f, Moving(f), k, Moves(f))
  BY <1>1, EffectiveStep DEF Moves
<1>3. Moving(f)[k] = f[k].inline
  BY DEF Moving
<1> QED
  BY <1>2, <1>3 DEF Inherits

LEMMA CompactedReadable ==
  ASSUME NEW f \in Seq(Row), NEW store, OldFirst(f), Readable(f, store),
         \A k \in Eligible(f) : f[k].inline \in store
  PROVE  Readable(Compacted(f), store)
<1> DEFINE g == Compacted(f)
<1>1. DOMAIN g = DOMAIN f
  BY CompactedFrames DEF SameFrames
<1> SUFFICES ASSUME NEW k \in DOMAIN f, g[k].ref # None
             PROVE  g[k].ref \in store /\ Expanded(g)[k] = g[k].ref
  BY <1>1 DEF Readable
<1>2. Expanded(g)[k] = Moves(f)[k]
  BY CompactedManifests
<1>3. CASE f[k].inline # None
  <2>1. g[k].ref = f[k].inline /\ Moves(f)[k] = f[k].inline /\ k \in Eligible(f)
    BY <1>3, CompactedRow, MovesInline DEF Eligible
  <2> QED
    BY <1>2, <2>1
<1>4. CASE f[k].inline = None
  <2>1. g[k].ref = f[k].ref
    BY <1>4, CompactedRow
  <2>2. f[k].ref \in store /\ Expanded(f)[k] = f[k].ref /\ f[k].ref # None
    BY <2>1 DEF Readable
  <2>3. Moves(f)[k] = f[k].ref
    BY <2>2, ManifestsKept
  <2> QED
    BY <1>2, <2>1, <2>2, <2>3
<1> QED
  BY <1>3, <1>4

LEMMA CompactedFaithful ==
  ASSUME NEW f \in Seq(Row), NEW w, Faithful(f, w)
  PROVE  Faithful(Compacted(f), w) /\ OldFirst(Compacted(f))
<1> DEFINE g == Compacted(f)
<1>1. DOMAIN g = DOMAIN f
  BY CompactedFrames DEF SameFrames
<1>2. ASSUME NEW k \in DOMAIN f
      PROVE  g[k].inline = None /\ FrameOf(g[k]) = FrameOf(f[k])
  <2>1. CASE f[k].inline = None
    BY <2>1, CompactedRow
  <2>2. CASE f[k].inline # None
    <3>1. /\ g[k].inline = None /\ g[k].ref = f[k].inline
          /\ g[k].rid = f[k].rid /\ g[k].seq = f[k].seq
      BY <2>2, CompactedRow
    <3> QED
      BY <2>2, <3>1 DEF FrameOf
  <2> QED
    BY <2>1, <2>2
<1> QED
  BY <1>1, <1>2 DEF Faithful, OldFirst

LEMMA CompactedEntries ==
  ASSUME NEW f \in Seq(Row), OldFirst(f), Eligible(f) # {},
         NEW ix, Entries(ix, f), Covers(ix, f)
  PROVE  Entries(ix, Compacted(f)) /\ Size(Compacted(f)) # Size(f)
<1>1. PICK g : g = Compacted(f)
  OBVIOUS
<1>2. g \in Seq(Row) /\ SameFrames(g, f)
  BY <1>1, CompactedFrames
<1>3. \A k \in DOMAIN f : g[k].inline = None /\ (f[k].inline = None => g[k] = f[k])
  BY <1>1, CompactedRow
<1>4. /\ Len(f) \in Nat /\ DOMAIN f = 1 .. Len(f) /\ DOMAIN g = DOMAIN f /\ Len(g) = Len(f)
      /\ \A k \in DOMAIN f : g[k].rid = f[k].rid /\ g[k].seq = f[k].seq
  BY <1>2 DEF SameFrames
<1>5. \A r : Latest(g, r) = Latest(f, r)
  <2> TAKE r
  <2>1. RowsOf(g, r) = RowsOf(f, r)
    BY <1>4 DEF RowsOf
  <2> QED
    BY <2>1 DEF Latest
<1>6. PICK moved \in DOMAIN f : f[moved].inline # None
  BY DEF Eligible
<1>7. Size(g) # Size(f)
  <2>1. Inline(f)[moved] = (f[moved].inline # None)
    BY <1>6, Lengths
  <2>2. Inline(g)[moved] = (g[moved].inline # None)
    BY <1>2, <1>4, Lengths
  <2>3. Inline(f)[moved] # Inline(g)[moved]
    BY <1>3, <1>6, <2>1, <2>2
  <2> QED
    BY <2>3 DEF Size
<1>8. Entries(ix, g)
  <2> SUFFICES ASSUME NEW r \in Responses
               PROVE  /\ Latest(g, r) = 0 => ix.entries[r] = None
                      /\ Latest(g, r) # 0 => Names(ix.entries[r], g, Latest(g, r))
    BY DEF Entries
  <2>1. CASE Latest(f, r) = 0
    BY <1>5, <2>1 DEF Entries
  <2>2. CASE Latest(f, r) # 0
    <3>1. PICK k \in DOMAIN f : k = Latest(f, r) /\ k # 0
      BY <2>2, LatestRow
    <3>2. PICK e : e = ix.entries[r]
      OBVIOUS
    <3>3. Names(e, f, k) /\ e.pos = Position(f, k) /\ e.long = (f[k].inline # None)
      BY <2>2, <3>1, <3>2 DEF Entries, Covers
    <3>4. ASSUME e.pos = Position(g, k)
          PROVE  /\ e.man = None
                 /\ e.long = (g[k].inline # None) => g[k].ref = None
      <4>1. k \in 1 .. Len(f) + 1 /\ k \in 1 .. Len(g) + 1
        BY <1>4
      <4>2. ASSUME NEW j \in 1 .. k - 1 PROVE f[j].inline = None
        <5>1. Position(f, k)[j] = (f[j].inline # None)
          BY <4>1, Positions
        <5>2. Position(g, k)[j] = (g[j].inline # None)
          BY <1>2, <4>1, Positions
        <5>3. g[j].inline = None
          BY <1>3, <1>4
        <5> QED
          BY <3>3, <3>4, <5>1, <5>2, <5>3
      <4>3. k <= moved
        BY <1>4, <1>6, <4>2
      <4>4. \A j \in 1 .. k : j \in DOMAIN f /\ j <= moved
        BY <1>4, <1>6, <4>3
      <4>5. \A j \in 1 .. k : f[j].ref = None /\ f[j].logged = None
        BY <1>6, <4>4 DEF OldFirst
      <4>6. Expanded(f)[k] = None
        <5>1. \A j \in 1 .. k : Logged(f)[j] = None
          BY <4>4, <4>5 DEF Logged
        <5>2. Effective(f, Logged(f))[k] = None
          BY <1>4, <5>1, NothingInherited
        <5> QED
          BY <5>2 DEF Expanded, Logged
      <4>7. e.man = None
        BY <3>3, <4>6 DEF Names
      <4>8. f[k].ref = None
        BY <1>4, <4>5
      <4>9. ASSUME e.long = (g[k].inline # None) PROVE g[k].ref = None
        <5>1. f[k].inline = None
          BY <1>3, <3>3, <4>9
        <5> QED
          BY <1>3, <4>8, <5>1
      <4> QED
        BY <4>7, <4>9
    <3>5. e # None /\ e.seq = g[k].seq /\ Len(e.pos) = k - 1
      BY <1>4, <3>3 DEF Names
    <3>6. Names(e, g, k)
      BY <3>4, <3>5 DEF Names
    <3> QED
      BY <1>5, <3>1, <3>2, <3>6
  <2> QED
    BY <2>1, <2>2
<1> QED
  BY <1>1, <1>7, <1>8

LEMMA InstallKeeps ==
  ASSUME CInv, InstallLedger
  PROVE  CInv'
<1>1. /\ step = "checked" /\ step' = "swapped" /\ ledger' = temp.rows
      /\ UNCHANGED <<cas, index, source, temp, written>>
  BY DEF InstallLedger
<1>2. /\ TypeOK /\ RInv /\ FilesOK /\ Working /\ ledger \in Seq(Row)
      /\ temp.from = ledger /\ temp.rows = Compacted(ledger)
  BY <1>1 DEF CInv, RInv, Shape, Rewritten, Working
<1>3. /\ Eligible(ledger) # {} /\ Covers(index, ledger)
      /\ \A k \in Eligible(ledger) : ledger[k].inline \in cas
  BY <1>1, <1>2 DEF Working
<1>4. RInv'
  BY <1>2, InstallRows
<1>5. /\ Readable(temp.rows, cas) /\ Faithful(temp.rows, written) /\ OldFirst(temp.rows)
      /\ Entries(index, temp.rows) /\ Size(temp.rows) # Size(ledger)
  BY <1>2, <1>3, CompactedReadable, CompactedFaithful, CompactedEntries DEF FilesOK
<1>6. FilesOK'
  <2>1. ~Verified(index)'
    BY <1>1, <1>3, <1>5 DEF Verified, Covers
  <2> QED
    BY <1>1, <1>5, <2>1 DEF FilesOK
<1>7. TypeOK'
  BY <1>1, <1>2 DEF TypeOK, Index
<1>8. Working'
  BY <1>1, <1>2 DEF Working
<1> QED
  BY <1>4, <1>6, <1>7, <1>8 DEF CInv

-----------------------------------------------------------------------------
(* The other steps. *)

LEMMA InstallIndexKeeps ==
  ASSUME CInv, InstallIndex
  PROVE  CInv'
<1>1. /\ step = "swapped" /\ step' = "installed" /\ index' = IndexOf(temp.rows)
      /\ UNCHANGED <<ledger, cas, source, temp, written>>
  BY DEF InstallIndex
<1>2. ledger = temp.rows /\ ledger \in Seq(Row) /\ Readable(ledger, cas)
  BY <1>1 DEF CInv, Working, RInv, Shape, FilesOK
<1>3. Index(index') /\ Entries(index', ledger) /\ Covers(index', ledger)
  BY <1>1, <1>2, IndexOfRight
<1>4. FilesOK'
  BY <1>1, <1>3 DEF CInv, FilesOK
<1>5. TypeOK'
  BY <1>1, <1>3 DEF CInv, TypeOK, Index
<1>6. RInv'
  BY <1>1, LookRows DEF CInv
<1>7. Working'
  BY <1>1 DEF CInv, Working
<1> QED
  BY <1>4, <1>5, <1>6, <1>7 DEF CInv

LEMMA AttestedCovers ==
  ASSUME CInv, Attestable(index)
  PROVE  Covers(index, ledger)
<1>1. index.size = Size(ledger)
  BY DEF Attestable
<1> SUFFICES ASSUME NEW r \in Responses, Latest(ledger, r) # 0
             PROVE  /\ index.entries[r] # None
                    /\ index.entries[r].pos = Position(ledger, Latest(ledger, r))
                    /\ index.entries[r].long = (ledger[Latest(ledger, r)].inline # None)
  BY <1>1 DEF Covers
<1>2. PICK k \in DOMAIN ledger : k = Latest(ledger, r) /\ k # 0
  BY LatestRow DEF CInv, RInv, Shape
<1>3. index.entries[r] # None /\ Matches(index.entries[r], k)
  BY <1>2 DEF Attestable
<1>4. Inline(ledger)[k] = (ledger[k].inline # None)
  BY Lengths DEF CInv, RInv, Shape
<1> QED
  BY <1>2, <1>3, <1>4 DEF Matches

LEMMA AttestKeeps ==
  ASSUME CInv, Attest
  PROVE  CInv'
<1>1. /\ Covers(index, ledger) /\ index' = [index EXCEPT !.verified = TRUE]
      /\ UNCHANGED <<ledger, cas, step, source, temp, written>>
  BY AttestedCovers DEF Attest
<1>2. Index(index) /\ Entries(index, ledger)
  BY DEF CInv, TypeOK, FilesOK
<1>3. /\ DOMAIN index' = {"size", "verified", "entries"} /\ index'.verified = TRUE
      /\ index'.size = index.size /\ index'.entries = index.entries
  BY <1>1, <1>2 DEF Index
<1>4. Index(index') /\ Entries(index', ledger) /\ Covers(index', ledger)
  BY <1>1, <1>2, <1>3 DEF Index, Entries, Covers
<1>5. FilesOK'
  BY <1>1, <1>4 DEF CInv, FilesOK
<1>6. TypeOK'
  BY <1>1, <1>4 DEF CInv, TypeOK, Index
<1>7. RInv'
  BY <1>1, LookRows DEF CInv, RInv, Rewritten
<1>8. Working'
  BY <1>1, <1>4 DEF CInv, Working
<1> QED
  BY <1>5, <1>6, <1>7, <1>8 DEF CInv

LEMMA FilesStay ==
  ASSUME CInv, UNCHANGED <<ledger, index, written>>, cas \subseteq cas'
  PROVE  FilesOK'
<1>1. Readable(ledger, cas')
  BY DEF CInv, FilesOK, Readable
<1>2. Verified(index)' = Verified(index)
  BY DEF Verified
<1> QED
  BY <1>1, <1>2 DEF CInv, FilesOK

LEMMA RewriteKeeps ==
  ASSUME CInv, Rewrite
  PROVE  CInv'
<1>1. /\ step = "saved" /\ step' = "rewritten"
      /\ cas' = cas \cup {ledger[k].inline : k \in Eligible(ledger)}
      /\ temp' = [rows |-> Compacted(ledger), from |-> ledger]
      /\ UNCHANGED <<ledger, index, source, written>>
  BY DEF Rewrite
<1>2. ledger \in Seq(Row) /\ Compacted(ledger) \in Seq(Row) /\ SameFrames(Compacted(ledger), ledger)
  BY CompactedFrames DEF CInv, RInv, Shape
<1>3. cas' \subseteq Previews
  <2>1. ASSUME NEW k \in Eligible(ledger) PROVE ledger[k].inline \in Previews
    <3>1. ledger[k] \in Row /\ ledger[k].inline # None
      BY <1>2, Lengths DEF Eligible
    <3> QED
      BY <3>1 DEF Row, Content
  <2> QED
    BY <1>1, <2>1 DEF CInv, TypeOK
<1>4. temp'.rows = Compacted(ledger) /\ temp'.from = ledger
  BY <1>1
<1>5. TypeOK'
  <2>1. temp' \in [rows : Seq(Row), from : Seq(Row)]
    BY <1>1, <1>2
  <2>2. DOMAIN temp'.rows = DOMAIN temp'.from
    BY <1>2, <1>4 DEF SameFrames
  <2> QED
    BY <1>1, <1>3, <2>1, <2>2 DEF CInv, TypeOK, Index
<1>6. FilesOK'
  BY <1>1, FilesStay
<1>7. RInv'
  BY RewriteRows DEF CInv
<1>8. Working'
  BY <1>1, <1>4 DEF CInv, Working
<1> QED
  BY <1>5, <1>6, <1>7, <1>8 DEF CInv

LEMMA CommandKeeps ==
  ASSUME CInv, Audit \/ Capture \/ Backup \/ Check \/ Stop \/ AppendStops
  PROVE  CInv'
<1>1. UNCHANGED <<ledger, index, temp, written>>
  BY DEF Audit, Capture, Backup, Check, Stop, AppendStops
<1>2. cas \subseteq cas' /\ cas' \subseteq Previews
  BY DEF Audit, Capture, Backup, Check, Stop, AppendStops, CInv, TypeOK
<1>3. FilesOK'
  BY <1>1, <1>2, FilesStay
<1>4. RInv'
  <2>1. CASE Check
    BY <1>1, <2>1, LookRows DEF Check, Moved, CInv
  <2>2. CASE ~Check
    BY <1>1, <2>2, LookRows
       DEF Audit, Capture, Backup, Stop, AppendStops, WritersStopped, CInv
  <2> QED
    BY <2>1, <2>2
<1>5. TypeOK'
  <2>1. DOMAIN source' = {"ledger", "index"} /\ source'.ledger \in Seq(Row) /\ Index(source'.index)
    <3>1. DOMAIN source = {"ledger", "index"} /\ source.ledger \in Seq(Row) /\ Index(source.index)
          /\ ledger \in Seq(Row) /\ Index(index)
      BY DEF CInv, TypeOK
    <3>2. CASE Audit
      BY <3>1, <3>2 DEF Audit
    <3>3. CASE Capture
      BY <3>1, <3>3 DEF Capture
    <3>4. CASE source' = source
      BY <3>1, <3>4
    <3> QED
      BY <3>2, <3>3, <3>4 DEF Backup, Check, Stop, AppendStops
  <2>2. step' \in {"off", "audited", "captured", "saved", "rewritten", "checked",
                   "swapped", "installed"}
    BY DEF Audit, Capture, Backup, Check, Stop, AppendStops, CInv, TypeOK
  <2> QED
    BY <1>1, <1>2, <2>1, <2>2 DEF CInv, TypeOK, Index
<1>6. Working'
  <2>1. CASE Audit
    <3>1. source'.ledger = ledger /\ step' = "audited" /\ cas' = cas /\ Eligible(ledger) # {}
      BY <2>1 DEF Audit, CInv, TypeOK
    <3> QED
      BY <1>1, <3>1 DEF CInv, Working
  <2>2. CASE Capture
    <3>1. /\ source'.ledger = source.ledger /\ source'.index = index /\ cas' = cas
          /\ step = "audited"
          /\ step' = "off" \/ (step' = "captured" /\ Attestable(index) /\ ledger = source.ledger)
      BY <2>2 DEF Capture, CInv, TypeOK
    <3>2. step' = "captured" => Covers(index, ledger)
      BY <3>1, AttestedCovers
    <3> QED
      BY <1>1, <3>1, <3>2 DEF CInv, Working
  <2>3. CASE Backup
    BY <1>1, <2>3 DEF Backup, CInv, Working
  <2>4. CASE Check
    BY <1>1, <2>4 DEF Check, Moved, CInv, Working
  <2>5. CASE Stop
    BY <1>1, <2>5 DEF Stop, CInv, Working
  <2>6. CASE AppendStops
    BY <1>1, <1>2, <2>6 DEF AppendStops, WritersStopped, CInv, Working
  <2> QED
    BY <2>1, <2>2, <2>3, <2>4, <2>5, <2>6
<1> QED
  BY <1>3, <1>4, <1>5, <1>6 DEF CInv

LEMMA NextFiles == CInv /\ [Next]_vars => CInv'
<1> SUFFICES ASSUME CInv, [Next]_vars PROVE CInv'
  OBVIOUS
<1>1. CASE UNCHANGED vars
  <2>1. RInv'
    BY <1>1, NextRows DEF CInv
  <2>2. FilesOK'
    BY <1>1, FilesStay DEF vars
  <2> QED
    BY <1>1, <2>1, <2>2 DEF vars, CInv, TypeOK, Index, Working
<1>2. CASE Next
  BY <1>2, AppendKeeps, InstallKeeps, InstallIndexKeeps, AttestKeeps, RewriteKeeps, CommandKeeps
     DEF Next
<1> QED
  BY <1>1, <1>2

\* The files keep their types through appends, compactions and whatever stops
\* them, and the file a compaction (_write_compacted_ledger) is about to
\* install has a row for each row it was made from.
THEOREM CompactionTyped == Spec => []TypeOK
<1>1. CInv => TypeOK
  BY DEF CInv
<1> QED
  BY <1>1, InitFiles, NextFiles, PTL DEF Spec

LEMMA BodyIs ==
  ASSUME CInv, NEW k \in DOMAIN ledger, NEW man,
         ledger[k].inline = None /\ ledger[k].ref # None => man = ledger[k].ref
  PROVE  Body(k, man) = written[k].preview
<1>1. ledger \in Seq(Row) /\ cas \subseteq Previews /\ None \notin cas
  BY CompactionAssumption DEF CInv, TypeOK
<1>2. FrameOf(ledger[k]) = written[k]
  BY DEF CInv, FilesOK, Faithful
<1>3. written[k].preview = IF ledger[k].inline # None THEN ledger[k].inline ELSE ledger[k].ref
  BY <1>2 DEF FrameOf
<1>4. CASE ledger[k].inline # None
  BY <1>3, <1>4 DEF Body
<1>5. CASE ledger[k].inline = None /\ ledger[k].ref # None
  <2>1. ledger[k].ref \in cas
    BY <1>5 DEF CInv, FilesOK, Readable
  <2> QED
    BY <1>3, <1>5, <2>1 DEF Body
<1>6. CASE ledger[k].inline = None /\ ledger[k].ref = None
  BY <1>1, <1>3, <1>6 DEF Body
<1> QED
  BY <1>4, <1>5, <1>6

LEMMA ReadableNow == CInv => PreviewsReadable
<1> SUFFICES ASSUME CInv, NEW k \in DOMAIN ledger
             PROVE  Body(k, Expanded(ledger)[k]) = written[k].preview
  BY DEF PreviewsReadable
<1> QED
  BY BodyIs DEF CInv, FilesOK, Readable

\* A preview that was written is readable from its row at any time, although
\* compactions move it from the row to a sidecar, change the manifests later
\* rows inherit (_merge_preview_snapshot_authority), and may stop anywhere.
THEOREM PreviewsStayReadable == Spec => []PreviewsReadable
<1>1. Spec => []CInv
  BY InitFiles, NextFiles, PTL DEF Spec
<1> QED
  BY <1>1, ReadableNow, PTL

LEMMA LookupsNow == CInv => LookupsStayRight
<1> SUFFICES ASSUME CInv, NEW r \in Responses
             PROVE  LET k == Latest(ledger, r)
                        i == IndexedRow(r, index)
                    IN  IF Verified(index) /\ (i # 0 \/ index.entries[r] = None)
                        THEN i = k /\ (i # 0 => Body(i, index.entries[r].man) = written[i].preview)
                        ELSE k # 0 => Body(k, Expanded(ledger)[k]) = written[k].preview
  BY DEF LookupsStayRight
<1> DEFINE k == Latest(ledger, r)
           i == IndexedRow(r, index)
           e == index.entries[r]
<1>1. ledger \in Seq(Row) /\ Entries(index, ledger) /\ (Verified(index) => Covers(index, ledger))
  BY DEF CInv, RInv, Shape, FilesOK
<1>2. k # 0 => k \in DOMAIN ledger
  BY <1>1, LatestRow
<1>3. k # 0 => Body(k, Expanded(ledger)[k]) = written[k].preview
  BY <1>2, ReadableNow DEF PreviewsReadable
<1>4. ASSUME Verified(index), i # 0 \/ e = None PROVE i = k
  <2>1. k # 0 => e # None /\ e.pos = Position(ledger, k)
    BY <1>1, <1>4 DEF Covers
  <2>2. k # 0 => i = k
    BY <2>1, IndexedIsLatest
  <2>3. i # 0 => i = k
    BY IndexedIsLatest
  <2> QED
    BY <1>4, <2>2, <2>3
<1>5. ASSUME Verified(index), i # 0, i = k PROVE Body(i, e.man) = written[i].preview
  <2>1. /\ e.pos = Position(ledger, k) /\ e.long = (ledger[k].inline # None) /\ k # 0
        /\ Names(e, ledger, k)
    BY <1>1, <1>5 DEF Covers, Entries
  <2>2. ledger[k].ref # None => e.man = ledger[k].ref
    BY <2>1 DEF Names
  <2> QED
    BY <1>2, <1>5, <2>2, BodyIs
<1> QED
  BY <1>3, <1>4, <1>5

\* A lookup is answered with the latest frame of the response and its preview
\* wherever a compaction stands or stopped, the time in which the index still
\* describes the file it has replaced included: the recovery read follows an
\* entry only to a row it names.
THEOREM LookupsRight == Spec => []LookupsStayRight
<1>1. Spec => []CInv
  BY InitFiles, NextFiles, PTL DEF Spec
<1> QED
  BY <1>1, LookupsNow, PTL
=============================================================================
