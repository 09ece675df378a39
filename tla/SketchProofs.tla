---------------------------- MODULE SketchProofs ------------------------------
(***************************************************************************)
(* Proofs about the sketches of flowsketch-algos: the Count-Min and        *)
(* CountSketch tables, the Misra-Gries counters and the SpaceSaving        *)
(* summaries keep their error bounds, and HyperLogLog and HllMap count what*)
(* they were given, at every replica, through any sequence of updates,     *)
(* merges, snapshots and resets, for every choice of keys, weights, items, *)
(* hashes and capacities.                                                  *)
(*                                                                         *)
(* Each bound needs more than it states.  A table covers, in every cell,   *)
(* the weight of the keys that hash to it; the deficit of a Misra-Gries    *)
(* counter, times capacity + 1, is paid for by the weight the counters no  *)
(* longer hold; the counts of a SpaceSaving summary add up to no more than *)
(* its total; its heap has every slot in one place, in the index under its *)
(* digest, and no child less than its parent; a slot of HllMap is stale or *)
(* has its estimate cached, and has the one candidate that says so.  Sums  *)
(* over finite sets are cardinalities here: Weight(f, S) counts the points *)
(* under the graph of f.                                                   *)
(***************************************************************************)
EXTENDS Sketches, FiniteSetTheorems, WellFoundedInduction, SequenceTheorems, TLAPS

-------------------------------------------------------------------------------
(* The ground truth. *)

(* An ExactCounter: weights and items per key. *)
Exact == [counts : [Keys -> Nat], distinct : [Keys -> SUBSET Items]]

NoCounts   == [k \in Keys |-> 0]
NoDistinct == [k \in Keys |-> {}]

(* Every replica has one; a stream of one family leaves what the others    *)
(* count empty.                                                            *)
ExactInv ==
  /\ exact \in [Replica -> Exact]
  /\ family # "frequency" => \A r \in Replica : exact[r].counts = NoCounts
  /\ family # "distinct" => \A r \in Replica : exact[r].distinct = NoDistinct

(* The empty counter is an ExactCounter. *)
LEMMA EmptyExactIs ==
  EmptyExact \in Exact /\ EmptyExact.counts = NoCounts /\ EmptyExact.distinct = NoDistinct
BY DEF EmptyExact, Exact, NoCounts, NoDistinct

(* Adding weight to a key adds it to that key's count only. *)
LEMMA ExactAddIs ==
  ASSUME NEW e \in Exact, NEW k \in Keys, NEW w \in Nat
  PROVE  /\ ExactAdd(e, k, w) \in Exact
         /\ ExactAdd(e, k, w).counts = [e.counts EXCEPT ![k] = @ + w]
         /\ ExactAdd(e, k, w).distinct = e.distinct
BY DEF ExactAdd, Exact

(* Inserting an item leaves the counts alone. *)
LEMMA ExactInsertIs ==
  ASSUME NEW e \in Exact, NEW k \in Keys, NEW item \in Items
  PROVE  /\ ExactInsert(e, k, item) \in Exact
         /\ ExactInsert(e, k, item).counts = e.counts
         /\ ExactInsert(e, k, item).distinct = [e.distinct EXCEPT ![k] = @ \cup {item}]
BY DEF ExactInsert, Exact

(* A merge adds the counts key by key and unites the items. *)
LEMMA ExactMergeIs ==
  ASSUME NEW e \in Exact, NEW o \in Exact
  PROVE  /\ ExactMerge(e, o) \in Exact
         /\ ExactMerge(e, o).counts = [k \in Keys |-> e.counts[k] + o.counts[k]]
         /\ ExactMerge(e, o).distinct = [k \in Keys |-> e.distinct[k] \cup o.distinct[k]]
BY DEF ExactMerge, Exact

(* Merging empty counts gives empty counts, and so for items. *)
LEMMA ExactMergeEmpty ==
  ASSUME NEW e \in Exact, NEW o \in Exact
  PROVE  /\ (e.counts = NoCounts /\ o.counts = NoCounts) => ExactMerge(e, o).counts = NoCounts
         /\ (e.distinct = NoDistinct /\ o.distinct = NoDistinct)
              => ExactMerge(e, o).distinct = NoDistinct
<1>1. ASSUME e.counts = NoCounts, o.counts = NoCounts
      PROVE  ExactMerge(e, o).counts = NoCounts
  <2>0. \A k \in Keys : e.counts[k] = 0 /\ o.counts[k] = 0 BY <1>1, Zenon DEF NoCounts
  <2>1. ASSUME NEW k \in Keys PROVE e.counts[k] + o.counts[k] = 0
    <3>1. e.counts[k] = 0 /\ o.counts[k] = 0 BY <2>0
    <3>2. e.counts[k] + o.counts[k] = 0 + 0 BY <3>1, Zenon
    <3> QED BY <3>2
  <2>2. ExactMerge(e, o).counts = [k \in Keys |-> e.counts[k] + o.counts[k]] BY ExactMergeIs, Zenon
  <2> QED BY <2>1, <2>2 DEF NoCounts
<1>2. ASSUME e.distinct = NoDistinct, o.distinct = NoDistinct
      PROVE  ExactMerge(e, o).distinct = NoDistinct
  <2>1. \A k \in Keys : e.distinct[k] \cup o.distinct[k] = {} BY <1>2 DEF NoDistinct
  <2>2. ExactMerge(e, o).distinct = [k \in Keys |-> e.distinct[k] \cup o.distinct[k]]
    BY ExactMergeIs, Zenon
  <2> QED BY <2>1, <2>2 DEF NoDistinct
<1> QED BY <1>1, <1>2

(* The ground truth keeps its shape through every operation. *)
LEMMA ExactStep ==
  ASSUME ExactInv, Next
  PROVE  ExactInv'
<1>1. PICK r \in Replica :
    \/ \E k \in Keys : \E w \in Weights[k] : UpdateCounts(r, k, w)
    \/ \E o \in Replica \ {r} : MergeCounts(r, o)
    \/ RestoreCounts(r)
    \/ ResetCounts(r)
    \/ \E k \in Keys, item \in Items : InsertDistinct(r, k, item)
    \/ \E o \in Replica \ {r} : MergeDistinct(r, o)
    \/ RestoreDistinct(r)
    \/ ResetDistinct(r)
    \/ \E v \in Keys : InsertQuantile(r, v)
    \/ \E o \in Replica \ {r} : MergeQuantile(r, o)
    \/ RestoreQuantile(r)
    \/ ResetQuantile(r)
  BY Zenon DEF Next
<1>2. CASE \E k \in Keys : \E w \in Weights[k] : UpdateCounts(r, k, w)
  <2>1. PICK k \in Keys : \E w \in Weights[k] : UpdateCounts(r, k, w) BY <1>2
  <2>2. PICK w \in Weights[k] : UpdateCounts(r, k, w) BY <2>1
  <2>3. w \in Nat BY SketchesAssumption
  <2>4. /\ exact' = [exact EXCEPT ![r] = ExactAdd(exact[r], k, w)]
        /\ family' = family /\ family = "frequency"
    BY <2>2 DEF UpdateCounts, Operate
  <2>5. /\ ExactAdd(exact[r], k, w) \in Exact
        /\ ExactAdd(exact[r], k, w).distinct = exact[r].distinct
    BY <2>3, ExactAddIs DEF ExactInv
  <2> QED BY <2>4, <2>5 DEF ExactInv
<1>3. CASE \E o \in Replica \ {r} : MergeCounts(r, o) \/ MergeDistinct(r, o)
  <2>1. PICK o \in Replica \ {r} :
          /\ exact' = [exact EXCEPT ![r] = ExactMerge(exact[r], exact[o])]
          /\ family' = family
    BY <1>3 DEF MergeCounts, MergeDistinct, Operate
  <2>2. exact[r] \in Exact /\ exact[o] \in Exact BY DEF ExactInv
  <2>3. /\ ExactMerge(exact[r], exact[o]) \in Exact
        /\ family # "frequency" => ExactMerge(exact[r], exact[o]).counts = NoCounts
        /\ family # "distinct" => ExactMerge(exact[r], exact[o]).distinct = NoDistinct
    BY <2>2, ExactMergeIs, ExactMergeEmpty DEF ExactInv
  <2> QED BY <2>1, <2>3 DEF ExactInv
<1>4. CASE ResetCounts(r) \/ ResetDistinct(r)
  <2>1. exact' = [exact EXCEPT ![r] = EmptyExact] /\ family' = family
    BY <1>4 DEF ResetCounts, ResetDistinct, Operate
  <2> QED BY <2>1, EmptyExactIs DEF ExactInv
<1>5. CASE \E k \in Keys, item \in Items : InsertDistinct(r, k, item)
  <2>1. PICK k \in Keys, item \in Items : InsertDistinct(r, k, item) BY <1>5
  <2>2. /\ exact' = [exact EXCEPT ![r] = ExactInsert(exact[r], k, item)]
        /\ family' = family /\ family = "distinct"
    BY <2>1 DEF InsertDistinct, Operate
  <2>3. /\ ExactInsert(exact[r], k, item) \in Exact
        /\ ExactInsert(exact[r], k, item).counts = exact[r].counts
    <3> DEFINE e == exact[r]
    <3>1. e \in Exact BY DEF ExactInv
    <3> HIDE DEF e
    <3>2. ExactInsert(e, k, item) \in Exact /\ ExactInsert(e, k, item).counts = e.counts
      BY <3>1, ExactInsertIs
    <3> QED BY <3>2 DEF e
  <2> QED BY <2>2, <2>3 DEF ExactInv
<1>6. CASE \/ RestoreCounts(r) \/ RestoreDistinct(r) \/ RestoreQuantile(r) \/ ResetQuantile(r)
           \/ \E v \in Keys : InsertQuantile(r, v)
           \/ \E o \in Replica \ {r} : MergeQuantile(r, o)
  <2>1. UNCHANGED exact /\ family' = family
    BY <1>6 DEF RestoreCounts, RestoreDistinct, RestoreQuantile, ResetQuantile,
                InsertQuantile, MergeQuantile, Operate
  <2> QED BY <2>1 DEF ExactInv
<1> QED BY <1>1, <1>2, <1>3, <1>4, <1>5, <1>6

-------------------------------------------------------------------------------
(* What the steps do to the counting sketches. *)

(* The counting sketches and the counts of the ground truth stay. *)
CountsStay ==
  UNCHANGED counting /\ \A r \in Replica : exact'[r].counts = exact[r].counts

(* Every step is one of the four on counts, or leaves the counts alone. *)
LEMMA CountingCases ==
  ASSUME ExactInv, Next
  PROVE  \/ \E r \in Replica, k \in Keys : \E w \in Weights[k] : UpdateCounts(r, k, w)
         \/ \E r, o \in Replica : MergeCounts(r, o)
         \/ \E r \in Replica : RestoreCounts(r) \/ ResetCounts(r)
         \/ CountsStay
<1>1. PICK r \in Replica :
    \/ \E k \in Keys : \E w \in Weights[k] : UpdateCounts(r, k, w)
    \/ \E o \in Replica \ {r} : MergeCounts(r, o)
    \/ RestoreCounts(r)
    \/ ResetCounts(r)
    \/ \E k \in Keys, item \in Items : InsertDistinct(r, k, item)
    \/ \E o \in Replica \ {r} : MergeDistinct(r, o)
    \/ RestoreDistinct(r)
    \/ ResetDistinct(r)
    \/ \E v \in Keys : InsertQuantile(r, v)
    \/ \E o \in Replica \ {r} : MergeQuantile(r, o)
    \/ RestoreQuantile(r)
    \/ ResetQuantile(r)
  BY Zenon DEF Next
<1>2. CASE \/ \E k \in Keys, item \in Items : InsertDistinct(r, k, item)
           \/ \E o \in Replica \ {r} : MergeDistinct(r, o)
           \/ RestoreDistinct(r) \/ ResetDistinct(r)
           \/ \E v \in Keys : InsertQuantile(r, v)
           \/ \E o \in Replica \ {r} : MergeQuantile(r, o)
           \/ RestoreQuantile(r) \/ ResetQuantile(r)
  <2>1. family # "frequency" /\ family' = family /\ UNCHANGED counting
    BY <1>2 DEF InsertDistinct, MergeDistinct, RestoreDistinct, ResetDistinct, InsertQuantile,
                MergeQuantile, RestoreQuantile, ResetQuantile, Operate
  <2>2. ExactInv' BY ExactStep
  <2>3. \A q \in Replica : exact'[q].counts = exact[q].counts BY <2>1, <2>2 DEF ExactInv
  <2> QED BY <2>1, <2>3 DEF CountsStay
<1>3. CASE \/ \E k \in Keys : \E w \in Weights[k] : UpdateCounts(r, k, w)
           \/ \E o \in Replica \ {r} : MergeCounts(r, o)
           \/ RestoreCounts(r) \/ ResetCounts(r)
  BY <1>3, Zenon
<1> QED BY <1>1, <1>2, <1>3, Zenon

-------------------------------------------------------------------------------
(* Counter tables. *)

Table       == [Row -> [Col -> Nat]]
SignedTable == [Row -> [Col -> Int]]

(* What makes Count-Min never underestimate: no cell of a key is below it. *)
Covers(t, truth) == \A r \in Row, k \in Keys : truth[k] <= Cell(t, r, k)

(* The dimensions of a table are positive. *)
LEMMA Dimensions ==
  /\ Depth \in Nat /\ Depth >= 1 /\ Width \in Nat /\ Width >= 1
  /\ 0 \in Row
  /\ \A r \in Row, k \in Keys : ColOf[r][k] \in Col /\ SignOf[r][k] \in {-1, 1}
BY TableAssumption DEF Row, Col

(* A nonempty set of natural numbers has a least element. *)
LEMMA LeastNat ==
  ASSUME NEW T \in SUBSET Nat, T # {}
  PROVE  \E x \in T : \A y \in T : x <= y
<1>1. PICK x \in T : \A y \in T : ~ (<<y, x>> \in OpToRel(<, Nat))
  BY NatLessThanWellFounded, WFMin, Zenon
<1>2. \A y \in T : ~ (y < x)
  BY <1>1 DEF OpToRel
<1> QED
  BY <1>2

(* The point estimate is a smallest cell of the key. *)
LEMMA PointEstimateIs ==
  ASSUME NEW t \in Table, NEW k \in Keys
  PROVE  /\ PointEstimate(t, k) \in Nat
         /\ \A r \in Row : PointEstimate(t, k) <= Cell(t, r, k)
         /\ \E r \in Row : PointEstimate(t, k) = Cell(t, r, k)
<1> DEFINE S == {Cell(t, r, k) : r \in Row}
<1>1. S \in SUBSET Nat BY Dimensions DEF Cell, Table
<1>2. S # {} BY Dimensions
<1> HIDE DEF S
<1>3. \E m \in S : \A j \in S : m <= j BY <1>1, <1>2, LeastNat
<1>4. \E m \in {Cell(t, r, k) : r \in Row} : \A r \in Row : m <= Cell(t, r, k)
  BY <1>3 DEF S
<1>5. /\ PointEstimate(t, k) \in {Cell(t, r, k) : r \in Row}
      /\ \A r \in Row : PointEstimate(t, k) <= Cell(t, r, k)
  BY <1>4 DEF PointEstimate
<1> QED BY <1>1, <1>5 DEF S

(* Count-Min starts with cells that cover the empty truth. *)
LEMMA ZeroCovers == ZeroTable \in Table /\ ZeroTable \in SignedTable /\ Covers(ZeroTable, NoCounts)
BY Dimensions DEF ZeroTable, Table, SignedTable, Covers, Cell, NoCounts

(* A plain update raises the cells of the key by the weight. *)
LEMMA AddPlainCovers ==
  ASSUME NEW t \in Table, NEW truth \in [Keys -> Nat], NEW k \in Keys, NEW w \in Nat,
         Covers(t, truth)
  PROVE  AddPlain(t, k, w) \in Table /\ Covers(AddPlain(t, k, w), [truth EXCEPT ![k] = @ + w])
<1> DEFINE u == AddPlain(t, k, w)
<1>1. u \in Table BY Dimensions DEF AddPlain, Table
<1>2. ASSUME NEW r \in Row, NEW j \in Keys
      PROVE  [truth EXCEPT ![k] = @ + w][j] <= Cell(u, r, j)
  <2>1. truth[j] <= t[r][ColOf[r][j]] BY DEF Covers, Cell
  <2>2. ColOf[r][j] \in Col /\ ColOf[r][k] \in Col BY Dimensions
  <2>3. t[r][ColOf[r][j]] \in Nat /\ truth[j] \in Nat BY <2>2 DEF Table
  <2>4. u[r][ColOf[r][j]] = IF ColOf[r][j] = ColOf[r][k] THEN t[r][ColOf[r][j]] + w
                                                         ELSE t[r][ColOf[r][j]]
    BY <2>2 DEF AddPlain
  <2> QED BY <2>1, <2>3, <2>4 DEF Cell
<1> QED BY <1>1, <1>2 DEF Covers

(* A conservative update raises the cells of the key to the old estimate   *)
(* plus the weight, which is enough, and lowers none.                      *)
LEMMA AddConservativeCovers ==
  ASSUME NEW t \in Table, NEW truth \in [Keys -> Nat], NEW k \in Keys, NEW w \in Nat,
         Covers(t, truth)
  PROVE  /\ AddConservative(t, k, w) \in Table
         /\ Covers(AddConservative(t, k, w), [truth EXCEPT ![k] = @ + w])
<1> DEFINE u == AddConservative(t, k, w)
           target == PointEstimate(t, k) + w
<1>1. PointEstimate(t, k) \in Nat /\ truth[k] <= PointEstimate(t, k)
  <2>1. PICK r \in Row : PointEstimate(t, k) = Cell(t, r, k) BY PointEstimateIs
  <2> QED BY <2>1, PointEstimateIs DEF Covers
<1>2. target \in Nat /\ truth[k] + w <= target BY <1>1
<1>3. u = [r \in Row |-> [c \in Col |->
             IF c = ColOf[r][k] /\ t[r][c] < target THEN target ELSE t[r][c]]]
  BY Zenon DEF AddConservative
<1> HIDE DEF target, u
<1>4. u \in Table BY <1>2, <1>3 DEF Table
<1>5. ASSUME NEW r \in Row, NEW j \in Keys
      PROVE  [truth EXCEPT ![k] = @ + w][j] <= Cell(u, r, j)
  <2>1. truth[j] <= t[r][ColOf[r][j]] BY DEF Covers, Cell
  <2>2. ColOf[r][j] \in Col /\ ColOf[r][k] \in Col BY Dimensions
  <2>3. t[r][ColOf[r][j]] \in Nat /\ truth[j] \in Nat BY <2>2 DEF Table
  <2>4. u[r][ColOf[r][j]] = IF ColOf[r][j] = ColOf[r][k] /\ t[r][ColOf[r][j]] < target
                            THEN target ELSE t[r][ColOf[r][j]]
    BY <1>3, <2>2
  <2> QED BY <1>2, <2>1, <2>3, <2>4 DEF Cell
<1> QED BY <1>4, <1>5 DEF Covers, u

(* Tables add up cell by cell, as the truths do. *)
LEMMA AddTablesCovers ==
  ASSUME NEW t \in Table, NEW u \in Table, NEW f \in [Keys -> Nat], NEW g \in [Keys -> Nat],
         Covers(t, f), Covers(u, g)
  PROVE  AddTables(t, u) \in Table /\ Covers(AddTables(t, u), [k \in Keys |-> f[k] + g[k]])
<1>1. AddTables(t, u) \in Table BY DEF AddTables, Table
<1>2. ASSUME NEW r \in Row, NEW j \in Keys
      PROVE  f[j] + g[j] <= Cell(AddTables(t, u), r, j)
  <2>1. f[j] <= t[r][ColOf[r][j]] /\ g[j] <= u[r][ColOf[r][j]] BY DEF Covers, Cell
  <2>2. ColOf[r][j] \in Col BY Dimensions
  <2>3. t[r][ColOf[r][j]] \in Nat /\ u[r][ColOf[r][j]] \in Nat BY <2>2 DEF Table
  <2>4. AddTables(t, u)[r][ColOf[r][j]] = t[r][ColOf[r][j]] + u[r][ColOf[r][j]]
    BY <2>2 DEF AddTables
  <2> QED BY <2>1, <2>3, <2>4 DEF Cell
<1> QED BY <1>1, <1>2 DEF Covers

(* Row by row, every cell has a place of its own in a snapshot. *)
LEMMA CellPlace ==
  ASSUME NEW r \in Row, NEW c \in Col
  PROVE  /\ r * Width + c \in 0 .. Depth * Width - 1
         /\ (r * Width + c) \div Width = r
         /\ (r * Width + c) % Width = c
<1>1. r \in Nat /\ r <= Depth - 1 /\ c \in Nat /\ c <= Width - 1 BY Dimensions DEF Row, Col
<1>2. r * Width \in Nat /\ Depth * Width \in Nat BY <1>1, Dimensions
<1>3. r * Width + Width <= Depth * Width
  <2>1. (Depth - 1 - r) * Width >= 0 BY <1>1, Dimensions
  <2>2. (Depth - 1 - r) * Width = Depth * Width - Width - r * Width BY <1>1, Dimensions
  <2> QED BY <2>1, <2>2, <1>2, Dimensions
<1>4. r * Width + c \in 0 .. Depth * Width - 1 BY <1>1, <1>2, <1>3, Dimensions
<1>5. (r * Width + c) \div Width = r BY <1>1, Dimensions
<1>6. (r * Width + c) % Width = c BY <1>1, Dimensions
<1> QED BY <1>4, <1>5, <1>6

(* What is written and read back is the table. *)
LEMMA RereadIs ==
  ASSUME NEW S, NEW t \in [Row -> [Col -> S]]
  PROVE  ReadTable(WriteTable(t)) = t
<1>1. ASSUME NEW r \in Row, NEW c \in Col
      PROVE  WriteTable(t)[r * Width + c] = t[r][c]
  BY CellPlace, Zenon DEF WriteTable
<1>2. ReadTable(WriteTable(t)) = [r \in Row |-> [c \in Col |-> t[r][c]]]
  BY <1>1, Zenon DEF ReadTable
<1> QED BY <1>2

(* What makes CountSketch exact: in a row where a key is alone, its cell   *)
(* holds its count under its sign.                                         *)
AloneExact(t, truth) ==
  \A k \in Keys : \A r \in CleanRow(truth, k) : Cell(t, r, k) = SignOf[r][k] * truth[k]

(* Empty cells are exact for the empty truth. *)
LEMMA ZeroAlone == AloneExact(ZeroTable, NoCounts)
<1> SUFFICES ASSUME NEW k \in Keys, NEW r \in CleanRow(NoCounts, k)
             PROVE  Cell(ZeroTable, r, k) = SignOf[r][k] * NoCounts[k]
  BY DEF AloneExact
<1>1. r \in Row BY DEF CleanRow
<1>2. ColOf[r][k] \in Col /\ SignOf[r][k] \in Int BY <1>1, Dimensions
<1>3. Cell(ZeroTable, r, k) = 0 /\ NoCounts[k] = 0
  BY <1>1, <1>2 DEF Cell, ZeroTable, NoCounts
<1> QED BY <1>2, <1>3

(* Signs are 1 and -1, so multiplying by one stays within the integers and *)
(* undoes itself.                                                          *)
LEMMA SignTwice ==
  ASSUME NEW s \in {-1, 1}, NEW x \in Int
  PROVE  s * x \in Int /\ s * (s * x) = x
OBVIOUS

(* Signs distribute over sums. *)
LEMMA SignSum ==
  ASSUME NEW s \in {-1, 1}, NEW x \in Int, NEW y \in Int
  PROVE  s * x + s * y = s * (x + y)
OBVIOUS

(* A signed update keeps clean rows exact: another key that shares the cell*)
(* of a clean row has no weight.                                           *)
LEMMA AddSignedAlone ==
  ASSUME NEW t \in SignedTable, NEW truth \in [Keys -> Nat], NEW k \in Keys, NEW w \in Nat,
         AloneExact(t, truth)
  PROVE  /\ AddSigned(t, k, w) \in SignedTable
         /\ AloneExact(AddSigned(t, k, w), [truth EXCEPT ![k] = @ + w])
<1> DEFINE u == AddSigned(t, k, w)
           new == [truth EXCEPT ![k] = @ + w]
<1>1. ASSUME NEW r \in Row PROVE SignOf[r][k] * w \in Int /\ SignOf[r][k] * 0 = 0
  BY Dimensions, SignTwice
<1>2. u \in SignedTable
  <2>1. ASSUME NEW r \in Row, NEW c \in Col
        PROVE  (IF c = ColOf[r][k] THEN t[r][c] + SignOf[r][k] * w ELSE t[r][c]) \in Int
    <3>1. t[r][c] \in Int BY DEF SignedTable
    <3> QED BY <3>1, <1>1
  <2> QED BY <2>1, Zenon DEF AddSigned, SignedTable
<1>3. ASSUME NEW j \in Keys, NEW r \in CleanRow(new, j)
      PROVE  Cell(u, r, j) = SignOf[r][j] * new[j]
  <2>1. r \in Row BY DEF CleanRow
  <2>2. ColOf[r][j] \in Col /\ ColOf[r][k] \in Col /\ SignOf[r][j] \in {-1, 1}
        /\ SignOf[r][k] \in {-1, 1}
    BY <2>1, Dimensions
  <2>3. ASSUME NEW i \in Keys \ {j}, ColOf[r][i] = ColOf[r][j]
        PROVE  truth[i] = 0 /\ (i = k => w = 0)
    <3>1. new[i] = 0 BY <2>3 DEF CleanRow
    <3>2. truth[i] \in Nat /\ new[i] = IF i = k THEN truth[i] + w ELSE truth[i] OBVIOUS
    <3> QED BY <3>1, <3>2
  <2>4. r \in CleanRow(truth, j) BY <2>1, <2>3 DEF CleanRow
  <2>5. t[r][ColOf[r][j]] = SignOf[r][j] * truth[j] BY <2>4 DEF AloneExact, Cell
  <2>6. u[r][ColOf[r][j]] = IF ColOf[r][j] = ColOf[r][k]
                            THEN t[r][ColOf[r][j]] + SignOf[r][k] * w ELSE t[r][ColOf[r][j]]
    BY <2>1, <2>2, Zenon DEF AddSigned
  <2>7. truth[j] \in Nat /\ new[j] = IF j = k THEN truth[j] + w ELSE truth[j] OBVIOUS
  <2>8. t[r][ColOf[r][j]] \in Int BY <2>1, <2>2 DEF SignedTable
  <2>9. CASE j = k
    <3>1. u[r][ColOf[r][j]] = SignOf[r][j] * truth[j] + SignOf[r][j] * w BY <2>5, <2>6, <2>9
    <3>2. u[r][ColOf[r][j]] = SignOf[r][j] * (truth[j] + w) BY <3>1, <2>2, <2>7, SignSum
    <3> QED BY <3>2, <2>7, <2>9 DEF Cell
  <2>10. CASE j # k
    <3>1. ColOf[r][j] = ColOf[r][k] => w = 0 BY <2>3, <2>10
    <3>2. u[r][ColOf[r][j]] = t[r][ColOf[r][j]] BY <3>1, <2>6, <2>8, <1>1, <2>1
    <3> QED BY <3>2, <2>5, <2>7, <2>10 DEF Cell
  <2> QED BY <2>9, <2>10
<1> QED BY <1>2, <1>3 DEF AloneExact

(* A row that is clean for two streams together is clean for each of them. *)
LEMMA AddTablesAlone ==
  ASSUME NEW t \in SignedTable, NEW u \in SignedTable,
         NEW f \in [Keys -> Nat], NEW g \in [Keys -> Nat],
         AloneExact(t, f), AloneExact(u, g)
  PROVE  /\ AddTables(t, u) \in SignedTable
         /\ AloneExact(AddTables(t, u), [k \in Keys |-> f[k] + g[k]])
<1> DEFINE new == [k \in Keys |-> f[k] + g[k]]
<1>1. AddTables(t, u) \in SignedTable BY DEF AddTables, SignedTable
<1>2. ASSUME NEW j \in Keys, NEW r \in CleanRow(new, j)
      PROVE  Cell(AddTables(t, u), r, j) = SignOf[r][j] * new[j]
  <2>1. r \in Row BY DEF CleanRow
  <2>2. ColOf[r][j] \in Col /\ SignOf[r][j] \in {-1, 1} BY <2>1, Dimensions
  <2>3. ASSUME NEW i \in Keys \ {j}, ColOf[r][i] = ColOf[r][j]
        PROVE  f[i] = 0 /\ g[i] = 0
    <3>1. new[i] = 0 BY <2>3 DEF CleanRow
    <3>2. f[i] \in Nat /\ g[i] \in Nat /\ new[i] = f[i] + g[i] OBVIOUS
    <3> QED BY <3>1, <3>2
  <2>4. r \in CleanRow(f, j) /\ r \in CleanRow(g, j) BY <2>1, <2>3 DEF CleanRow
  <2>5. t[r][ColOf[r][j]] = SignOf[r][j] * f[j] /\ u[r][ColOf[r][j]] = SignOf[r][j] * g[j]
    BY <2>4 DEF AloneExact, Cell
  <2>6. AddTables(t, u)[r][ColOf[r][j]] = t[r][ColOf[r][j]] + u[r][ColOf[r][j]]
    BY <2>1, <2>2, Zenon DEF AddTables
  <2>7. f[j] \in Int /\ g[j] \in Int /\ new[j] = f[j] + g[j] OBVIOUS
  <2>8. AddTables(t, u)[r][ColOf[r][j]] = SignOf[r][j] * (f[j] + g[j])
    BY <2>2, <2>5, <2>6, <2>7, SignSum
  <2> QED BY <2>7, <2>8, Zenon DEF Cell
<1> QED BY <1>1, <1>2 DEF AloneExact

(* When more rows than not agree on an estimate, it is the n-th smallest   *)
(* for every n between the number of the others and the number of those.   *)
LEMMA NthIs ==
  ASSUME NEW t \in SignedTable, NEW k \in Keys, NEW v \in Int, NEW C \in SUBSET Row,
         \A r \in C : RowEstimate(t, r, k) = v,
         NEW n \in Nat, Cardinality(Row) - Cardinality(C) < n, n <= Cardinality(C), n >= 1
  PROVE  NthEstimate(t, k, n) = v
<1>1. /\ IsFiniteSet(Row) /\ Cardinality(Row) \in Nat
  BY FS_Interval, FS_CardinalityType, Dimensions DEF Row
<1>2. IsFiniteSet(C) /\ Cardinality(C) \in Nat BY <1>1, FS_Subset, FS_CardinalityType
<1>3. /\ IsFiniteSet(Row \ C)
      /\ Cardinality(Row \ C) = Cardinality(Row) - Cardinality(C)
  <2>1. Row \cap C = C OBVIOUS
  <2> QED BY <1>1, <2>1, FS_Difference
<1>4. \A r \in Row : RowEstimate(t, r, k) \in Int
  BY Dimensions, SignTwice DEF RowEstimate, Cell, SignedTable
<1>5. ASSUME NEW S, S \subseteq Row \ C
      PROVE  IsFiniteSet(S) /\ Cardinality(S) \in Nat /\ Cardinality(S) < n
  <2>1. IsFiniteSet(S) /\ Cardinality(S) <= Cardinality(Row \ C) BY <1>3, <1>5, FS_Subset
  <2>2. Cardinality(S) \in Nat BY <2>1, FS_CardinalityType
  <2> QED BY <1>1, <1>2, <1>3, <2>1, <2>2
<1>6. ASSUME NEW S, C \subseteq S, S \subseteq Row
      PROVE  Cardinality(S) \in Nat /\ Cardinality(S) >= n
  <2>1. IsFiniteSet(S) BY <1>1, <1>6, FS_Subset
  <2>2. Cardinality(C) <= Cardinality(S) BY <2>1, <1>6, FS_Subset
  <2>3. Cardinality(S) \in Nat BY <2>1, FS_CardinalityType
  <2> QED BY <1>2, <2>2, <2>3
<1> DEFINE Below(e) == {r \in Row : RowEstimate(t, r, k) < e}
           UpTo(e)  == {r \in Row : RowEstimate(t, r, k) <= e}
           E == {RowEstimate(t, r, k) : r \in Row}
<1>7. C # {} BY <1>2, FS_EmptySet
<1>8. v \in E BY <1>7
<1>9. Cardinality(Below(v)) < n
  <2>1. Below(v) \subseteq Row \ C OBVIOUS
  <2> QED BY <1>5, <2>1
<1>10. Cardinality(UpTo(v)) >= n
  <2>1. C \subseteq UpTo(v) /\ UpTo(v) \subseteq Row OBVIOUS
  <2> QED BY <1>6, <2>1
<1>11. ASSUME NEW e \in E, Cardinality(Below(e)) < n, Cardinality(UpTo(e)) >= n
       PROVE  e = v
  <2>0. e \in Int BY <1>4
  <2>1. CASE e < v
    <3>1. UpTo(e) \subseteq Row \ C BY <1>4, <2>0, <2>1
    <3>2. Cardinality(UpTo(e)) \in Nat /\ Cardinality(UpTo(e)) < n BY <1>5, <3>1
    <3> QED BY <3>2, <1>11
  <2>2. CASE e > v
    <3>1. C \subseteq Below(e) /\ Below(e) \subseteq Row BY <1>4, <2>0, <2>2
    <3>2. Cardinality(Below(e)) \in Nat /\ Cardinality(Below(e)) >= n BY <1>6, <3>1
    <3> QED BY <3>2, <1>11
  <2> QED BY <2>0, <2>1, <2>2
<1>12. NthEstimate(t, k, n) = CHOOSE e \in E : Cardinality(Below(e)) < n /\ Cardinality(UpTo(e)) >= n
  BY Zenon DEF NthEstimate
<1> HIDE DEF E, Below, UpTo
<1> QED BY <1>8, <1>9, <1>10, <1>11, <1>12, Zenon

(* Half of twice a count. *)
LEMMA HalvedIs == ASSUME NEW v \in Int PROVE Halved(v + v) = v
BY DEF Halved

(* CountSketch is exact for a key that is alone in most of its rows.       *)
LEMMA AloneMedian ==
  ASSUME NEW t \in SignedTable, NEW truth \in [Keys -> Nat], AloneExact(t, truth)
  PROVE  MedianSound(t, truth)
<1> SUFFICES ASSUME NEW k \in Keys, 2 * Cardinality(CleanRow(truth, k)) > Cardinality(Row)
             PROVE  MedianEstimate(t, k) = truth[k]
  BY DEF MedianSound
<1> DEFINE C == CleanRow(truth, k)
           d == Cardinality(Row)
           c == Cardinality(C)
           v == truth[k]
<1>1. C \in SUBSET Row BY DEF CleanRow
<1>2. IsFiniteSet(Row) /\ d \in Nat BY FS_Interval, FS_CardinalityType, Dimensions DEF Row
<1>3. c \in Nat /\ c <= d BY <1>1, <1>2, FS_Subset, FS_CardinalityType
<1>4. v \in Int OBVIOUS
<1>5. \A r \in C : RowEstimate(t, r, k) = v
  <2> SUFFICES ASSUME NEW r \in C PROVE RowEstimate(t, r, k) = v OBVIOUS
  <2>1. r \in Row BY <1>1
  <2>2. Cell(t, r, k) = SignOf[r][k] * v BY DEF AloneExact
  <2>3. SignOf[r][k] \in {-1, 1} BY <2>1, Dimensions
  <2> QED BY <2>2, <2>3, <1>4, SignTwice DEF RowEstimate
<1> HIDE DEF C, v
<1>6. ASSUME NEW n \in Nat, d - c < n, n <= c, n >= 1 PROVE NthEstimate(t, k, n) = v
  BY <1>1, <1>4, <1>5, <1>6, NthIs
<1>7. d >= 1 BY <1>2, Dimensions, FS_EmptySet
<1>8. 2 * c > d BY DEF C
<1>9. MedianEstimate(t, k) =
        IF d % 2 = 1 THEN NthEstimate(t, k, (d \div 2) + 1)
        ELSE Halved(NthEstimate(t, k, d \div 2) + NthEstimate(t, k, (d \div 2) + 1))
  BY Zenon DEF MedianEstimate
<1> HIDE DEF d, c
<1>10. CASE d % 2 = 1
  <2>1. (d \div 2) + 1 \in Nat /\ d - c < (d \div 2) + 1 /\ (d \div 2) + 1 <= c
    BY <1>2, <1>3, <1>8, <1>10
  <2>2. NthEstimate(t, k, (d \div 2) + 1) = v BY <2>1, <1>6, <1>2
  <2> QED BY <1>9, <1>10, <2>2 DEF v
<1>11. CASE d % 2 # 1
  <2>1. /\ d \div 2 \in Nat /\ d - c < d \div 2 /\ d \div 2 <= c /\ d \div 2 >= 1
        /\ (d \div 2) + 1 \in Nat /\ d - c < (d \div 2) + 1 /\ (d \div 2) + 1 <= c
    BY <1>2, <1>3, <1>7, <1>8, <1>11
  <2>2. NthEstimate(t, k, (d \div 2) + 1) = v /\ NthEstimate(t, k, d \div 2) = v BY <2>1, <1>6
  <2> QED BY <1>4, <1>9, <1>11, <2>2, HalvedIs DEF v
<1> QED BY <1>10, <1>11

(* The tables of the replicas, against the truth of each. *)
TableFits(p, c, s, truth) ==
  /\ p \in Table /\ c \in Table /\ s \in SignedTable
  /\ Covers(p, truth) /\ Covers(c, truth) /\ AloneExact(s, truth)

(* The inductive invariant of the tables: cells, not estimates. *)
TablesInv ==
  /\ plain \in [Replica -> Table]
  /\ conservative \in [Replica -> Table]
  /\ signed \in [Replica -> SignedTable]
  /\ \A r \in Replica : TableFits(plain[r], conservative[r], signed[r], exact[r].counts)

(* A step that replaces the tables and the truth of one replica by ones    *)
(* that fit keeps the invariant.                                           *)
LEMMA TablesReplace ==
  ASSUME TablesInv, ExactInv, NEW q \in Replica, NEW p, NEW c, NEW s, NEW e,
         TableFits(p, c, s, e.counts),
         plain' = [plain EXCEPT ![q] = p], conservative' = [conservative EXCEPT ![q] = c],
         signed' = [signed EXCEPT ![q] = s], exact' = [exact EXCEPT ![q] = e]
  PROVE  TablesInv'
<1>1. ASSUME NEW r \in Replica
      PROVE  TableFits(plain'[r], conservative'[r], signed'[r], exact'[r].counts)
  <2>1. CASE r = q
    <3>1. plain'[r] = p /\ conservative'[r] = c /\ signed'[r] = s /\ exact'[r] = e
      BY <2>1 DEF TablesInv, ExactInv
    <3> QED BY <3>1
  <2>2. CASE r # q
    <3>1. /\ plain'[r] = plain[r] /\ conservative'[r] = conservative[r]
          /\ signed'[r] = signed[r] /\ exact'[r] = exact[r]
      BY <2>2 DEF TablesInv, ExactInv
    <3> QED BY <3>1 DEF TablesInv
  <2> QED BY <2>1, <2>2
<1>2. /\ plain' \in [Replica -> Table] /\ conservative' \in [Replica -> Table]
      /\ signed' \in [Replica -> SignedTable]
  BY DEF TablesInv, TableFits
<1> QED BY <1>1, <1>2 DEF TablesInv

(* The cells keep covering, and the clean rows stay exact, at every step. *)
LEMMA TablesStep ==
  ASSUME ExactInv, TablesInv, Next
  PROVE  TablesInv'
<1>0. \A r \in Replica : exact[r].counts \in [Keys -> Nat] /\ exact[r] \in Exact BY DEF ExactInv, Exact
<1>1. CASE \E r \in Replica, k \in Keys : \E w \in Weights[k] : UpdateCounts(r, k, w)
  <2>1. PICK r \in Replica, k \in Keys : \E w \in Weights[k] : UpdateCounts(r, k, w) BY <1>1
  <2>2. PICK w \in Weights[k] : UpdateCounts(r, k, w) BY <2>1
  <2>3. w \in Nat BY SketchesAssumption
  <2> DEFINE p == AddPlain(plain[r], k, w)
             c == AddConservative(conservative[r], k, w)
             s == AddSigned(signed[r], k, w)
             e == ExactAdd(exact[r], k, w)
             truth == exact[r].counts
  <2>4. /\ plain' = [plain EXCEPT ![r] = p] /\ conservative' = [conservative EXCEPT ![r] = c]
        /\ signed' = [signed EXCEPT ![r] = s] /\ exact' = [exact EXCEPT ![r] = e]
    BY <2>2 DEF UpdateCounts
  <2>5. e.counts = [truth EXCEPT ![k] = @ + w] BY <1>0, <2>3, ExactAddIs
  <2>6. TableFits(plain[r], conservative[r], signed[r], truth) /\ truth \in [Keys -> Nat]
    BY <1>0 DEF TablesInv
  <2>7. TableFits(p, c, s, [truth EXCEPT ![k] = @ + w])
    <3> HIDE DEF truth
    <3>1. p \in Table /\ Covers(p, [truth EXCEPT ![k] = @ + w])
      BY <2>3, <2>6, AddPlainCovers DEF TableFits
    <3>2. c \in Table /\ Covers(c, [truth EXCEPT ![k] = @ + w])
      BY <2>3, <2>6, AddConservativeCovers DEF TableFits
    <3>3. s \in SignedTable /\ AloneExact(s, [truth EXCEPT ![k] = @ + w])
      BY <2>3, <2>6, AddSignedAlone DEF TableFits
    <3> QED BY <3>1, <3>2, <3>3 DEF TableFits
  <2> HIDE DEF p, c, s, e, truth
  <2> QED BY <2>4, <2>5, <2>7, TablesReplace
<1>2. CASE \E r, o \in Replica : MergeCounts(r, o)
  <2>1. PICK r \in Replica, o \in Replica : MergeCounts(r, o) BY <1>2
  <2> DEFINE p == AddTables(plain[r], plain[o])
             c == AddTables(conservative[r], conservative[o])
             s == AddTables(signed[r], signed[o])
             e == ExactMerge(exact[r], exact[o])
             f == exact[r].counts
             g == exact[o].counts
  <2>4. /\ plain' = [plain EXCEPT ![r] = p] /\ conservative' = [conservative EXCEPT ![r] = c]
        /\ signed' = [signed EXCEPT ![r] = s] /\ exact' = [exact EXCEPT ![r] = e]
    BY <2>1 DEF MergeCounts
  <2>5. e.counts = [k \in Keys |-> f[k] + g[k]] BY <1>0, ExactMergeIs, Zenon
  <2>6. /\ TableFits(plain[r], conservative[r], signed[r], f) /\ f \in [Keys -> Nat]
        /\ TableFits(plain[o], conservative[o], signed[o], g) /\ g \in [Keys -> Nat]
    BY <1>0 DEF TablesInv
  <2>7. TableFits(p, c, s, [k \in Keys |-> f[k] + g[k]])
    <3> HIDE DEF f, g
    <3>1. p \in Table /\ Covers(p, [k \in Keys |-> f[k] + g[k]])
      <4>1. plain[r] \in Table /\ plain[o] \in Table BY <2>6 DEF TableFits
      <4>2. Covers(plain[r], f) /\ Covers(plain[o], g) BY <2>6 DEF TableFits
      <4> QED BY <2>6, <4>1, <4>2, AddTablesCovers, ZenonT(30)
    <3>2. c \in Table /\ Covers(c, [k \in Keys |-> f[k] + g[k]])
      <4>1. conservative[r] \in Table /\ conservative[o] \in Table BY <2>6 DEF TableFits
      <4>2. Covers(conservative[r], f) /\ Covers(conservative[o], g) BY <2>6 DEF TableFits
      <4> QED BY <2>6, <4>1, <4>2, AddTablesCovers, ZenonT(30)
    <3>3. s \in SignedTable /\ AloneExact(s, [k \in Keys |-> f[k] + g[k]])
      BY <2>6, AddTablesAlone DEF TableFits
    <3> QED BY <3>1, <3>2, <3>3 DEF TableFits
  <2> HIDE DEF p, c, s, e, f, g
  <2> QED BY <2>4, <2>5, <2>7, TablesReplace
<1>3. CASE \E r \in Replica : RestoreCounts(r)
  <2>1. PICK r \in Replica : RestoreCounts(r) BY <1>3
  <2>2. /\ plain' = [plain EXCEPT ![r] = ReadTable(WriteTable(plain[r]))]
        /\ conservative' = [conservative EXCEPT ![r] = ReadTable(WriteTable(conservative[r]))]
        /\ signed' = [signed EXCEPT ![r] = ReadTable(WriteTable(signed[r]))]
        /\ exact' = exact
    BY <2>1 DEF RestoreCounts
  <2>3. /\ ReadTable(WriteTable(plain[r])) = plain[r]
        /\ ReadTable(WriteTable(conservative[r])) = conservative[r]
        /\ ReadTable(WriteTable(signed[r])) = signed[r]
    BY RereadIs DEF TablesInv, Table, SignedTable
  <2>4. plain' = plain /\ conservative' = conservative /\ signed' = signed
    BY <2>2, <2>3 DEF TablesInv
  <2> QED BY <2>2, <2>4 DEF TablesInv
<1>4. CASE \E r \in Replica : ResetCounts(r)
  <2>1. PICK r \in Replica : ResetCounts(r) BY <1>4
  <2>2. /\ plain' = [plain EXCEPT ![r] = ZeroTable] /\ signed' = [signed EXCEPT ![r] = ZeroTable]
        /\ conservative' = [conservative EXCEPT ![r] = ZeroTable]
        /\ exact' = [exact EXCEPT ![r] = EmptyExact]
    BY <2>1 DEF ResetCounts
  <2>3. TableFits(ZeroTable, ZeroTable, ZeroTable, EmptyExact.counts)
    BY ZeroCovers, ZeroAlone, EmptyExactIs DEF TableFits
  <2> QED BY <2>2, <2>3, TablesReplace
<1>5. CASE CountsStay
  BY <1>5 DEF CountsStay, counting, TablesInv
<1> QED BY CountingCases, <1>1, <1>2, <1>3, <1>4, <1>5

(* The tables start empty, and so does the truth. *)
LEMMA TablesInit == Init => ExactInv /\ TablesInv
<1> SUFFICES ASSUME Init PROVE ExactInv /\ TablesInv OBVIOUS
<1>1. ExactInv BY EmptyExactIs DEF Init, ExactInv
<1>2. TableFits(ZeroTable, ZeroTable, ZeroTable, EmptyExact.counts)
  BY ZeroCovers, ZeroAlone, EmptyExactIs DEF TableFits
<1>3. TablesInv BY <1>2, ZeroCovers DEF Init, TablesInv
<1> QED BY <1>1, <1>3

(* Covered cells give an estimate that is no underestimate. *)
LEMMA CoversNeverUnder ==
  ASSUME NEW t \in Table, NEW truth \in [Keys -> Nat], Covers(t, truth)
  PROVE  NeverUnder(t, truth)
<1> SUFFICES ASSUME NEW k \in Keys PROVE truth[k] <= PointEstimate(t, k) BY DEF NeverUnder
<1>1. PICK r \in Row : PointEstimate(t, k) = Cell(t, r, k) BY PointEstimateIs
<1> QED BY <1>1 DEF Covers

(* In every state of any run of updates, merges, snapshots and resets,     *)
(* Count-Min never underestimates a key, with plain or with conservative   *)
(* update, and CountSketch is exact for a key alone in most of its rows:   *)
(* for tables of every size and every family of hash functions.            *)
THEOREM CountTablesSound == Spec => []TablesSound
<1>1. (ExactInv /\ TablesInv) /\ [Next]_vars => (ExactInv /\ TablesInv)'
  <2> SUFFICES ASSUME ExactInv, TablesInv, [Next]_vars PROVE (ExactInv /\ TablesInv)' OBVIOUS
  <2>1. CASE Next BY <2>1, ExactStep, TablesStep
  <2>2. CASE UNCHANGED vars
    BY <2>2 DEF vars, counting, ExactInv, TablesInv
  <2> QED BY <2>1, <2>2
<1>2. ExactInv /\ TablesInv => TablesSound
  <2> SUFFICES ASSUME ExactInv, TablesInv, NEW r \in Replica
               PROVE  /\ NeverUnder(plain[r], exact[r].counts)
                      /\ NeverUnder(conservative[r], exact[r].counts)
                      /\ MedianSound(signed[r], exact[r].counts)
    BY DEF TablesSound
  <2> DEFINE truth == exact[r].counts
  <2>1. truth \in [Keys -> Nat] BY DEF ExactInv, Exact
  <2>2. TableFits(plain[r], conservative[r], signed[r], truth) BY DEF TablesInv
  <2> HIDE DEF truth
  <2>3. NeverUnder(plain[r], truth) /\ NeverUnder(conservative[r], truth)
    BY <2>1, <2>2, CoversNeverUnder DEF TableFits
  <2>4. MedianSound(signed[r], truth) BY <2>1, <2>2, AloneMedian DEF TableFits
  <2> QED BY <2>3, <2>4 DEF truth
<1> QED BY TablesInit, <1>1, <1>2, PTL DEF Spec

-------------------------------------------------------------------------------
(* Sums of counts.  A finite sum is the number of points below its graph.  *)

(* A nonempty finite set of naturals has a greatest element: the smallest  *)
(* subset without one would have one more element than a set that has one. *)
LEMMA GreatestNat ==
  ASSUME NEW S \in SUBSET Nat, IsFiniteSet(S), S # {}
  PROVE  \E x \in S : \A y \in S : x >= y
<1> DEFINE T == {X \in SUBSET S : X # {} /\ ~ \E x \in X : \A y \in X : x >= y}
<1>1. SUFFICES ASSUME T # {} PROVE FALSE
  BY <1>1
<1>2. T \subseteq FiniteSubsetsOf(S)
  BY FS_Subset DEF FiniteSubsetsOf
<1>3. PICK X \in T : \A Y \in T : ~ (<<Y, X>> \in StrictSubsetOrdering(S))
  BY <1>1, <1>2, FS_StrictSubsetOrderingWellFounded, WFMin
<1>4. PICK x \in X : TRUE
  BY <1>3
<1> DEFINE Y == X \ {x}
<1>5. Y \notin T
  BY <1>3, <1>4 DEF StrictSubsetOrdering
<1>6. CASE Y = {}
  BY <1>3, <1>4, <1>6
<1>7. CASE Y # {}
  <2>1. PICK m \in Y : \A y \in Y : m >= y
    BY <1>3, <1>5, <1>7
  <2>2. m \in Nat /\ x \in Nat /\ X \subseteq Nat /\ m \in X
    BY <1>3, <1>4, <2>1
  <2>3. CASE m >= x
    <3>1. \A y \in X : m >= y
      BY <2>1, <2>3
    <3> QED
      BY <1>3, <2>2, <3>1
  <2>4. CASE ~ (m >= x)
    <3>1. \A y \in X : x >= y
      BY <2>1, <2>2, <2>4
    <3> QED
      BY <1>3, <1>4, <3>1
  <2> QED
    BY <2>3, <2>4
<1> QED
  BY <1>6, <1>7

(* Disjoint finite sets add their cardinalities. *)
LEMMA DisjointUnion ==
  ASSUME NEW A, IsFiniteSet(A), NEW B, IsFiniteSet(B), A \cap B = {}
  PROVE  /\ IsFiniteSet(A \cup B)
         /\ Cardinality(A) \in Nat /\ Cardinality(B) \in Nat
         /\ Cardinality(A \cup B) = Cardinality(A) + Cardinality(B)
<1>1. Cardinality(A) \in Nat /\ Cardinality(B) \in Nat BY FS_CardinalityType
<1>2. /\ IsFiniteSet(A \cup B)
      /\ Cardinality(A \cup B) = Cardinality(A) + Cardinality(B) - Cardinality(A \cap B)
  BY FS_Union
<1>3. Cardinality(A \cap B) = 0 BY FS_EmptySet
<1> QED BY <1>1, <1>2, <1>3

Area(f, S) == {x \in S \X Nat : x[2] < f[x[1]]}

Weight(f, S) == Cardinality(Area(f, S))

(* The points of an area, one by one. *)
LEMMA AreaPoint ==
  ASSUME NEW f, NEW S, NEW k \in S, NEW i \in Nat
  PROVE  <<k, i>> \in Area(f, S) <=> i < f[k]
BY DEF Area

(* A finite function into the naturals is bounded. *)
LEMMA BoundedAbove ==
  ASSUME NEW S, IsFiniteSet(S), NEW f, \A k \in S : f[k] \in Nat
  PROVE  \E m \in Nat : \A k \in S : f[k] <= m
<1>1. CASE S = {} BY <1>1
<1>2. CASE S # {}
  <2> DEFINE T == {f[k] : k \in S}
             g == [k \in S |-> f[k]]
  <2>1. g \in Surjection(S, T) BY DEF Surjection
  <2>2. IsFiniteSet(T) BY <2>1, FS_Surjection
  <2>3. T \in SUBSET Nat /\ T # {} BY <1>2
  <2> HIDE DEF T
  <2>4. PICK m \in T : \A y \in T : m >= y BY <2>2, <2>3, GreatestNat
  <2>5. m \in Nat BY <2>3
  <2>6. \A k \in S : m >= f[k] BY <2>4 DEF T
  <2> QED BY <2>5, <2>6
<1> QED BY <1>1, <1>2

(* The area below a finite function is finite, so its weight is a number. *)
LEMMA AreaFinite ==
  ASSUME NEW S, IsFiniteSet(S), NEW f, \A k \in S : f[k] \in Nat
  PROVE  IsFiniteSet(Area(f, S)) /\ Weight(f, S) \in Nat
<1>1. PICK m \in Nat : \A k \in S : f[k] <= m BY BoundedAbove
<1>2. IsFiniteSet(0 .. m) BY FS_Interval
<1>3. IsFiniteSet(S \X (0 .. m)) BY <1>2, FS_Product
<1>4. Area(f, S) \subseteq S \X (0 .. m) BY <1>1 DEF Area
<1>5. IsFiniteSet(Area(f, S)) BY <1>3, <1>4, FS_Subset
<1> QED BY <1>5, FS_CardinalityType DEF Weight

(* Functions that agree have the same weight. *)
LEMMA WeightSame ==
  ASSUME NEW S, NEW f, NEW g, \A k \in S : f[k] = g[k]
  PROVE  Weight(f, S) = Weight(g, S)
<1>1. Area(f, S) = Area(g, S) BY DEF Area
<1> QED BY <1>1 DEF Weight

(* Nothing weighs nothing. *)
LEMMA WeightEmpty == ASSUME NEW f PROVE Weight(f, {}) = 0
<1>1. Area(f, {}) = {} BY DEF Area
<1> QED BY <1>1, FS_EmptySet DEF Weight

(* A smaller function on a smaller set weighs no more. *)
LEMMA WeightMonotone ==
  ASSUME NEW S, IsFiniteSet(S), NEW T \in SUBSET S, NEW f, NEW g,
         \A k \in S : g[k] \in Nat, \A k \in T : f[k] \in Nat /\ f[k] <= g[k]
  PROVE  Weight(f, T) <= Weight(g, S)
<1>1. Area(f, T) \subseteq Area(g, S) BY DEF Area
<1>2. IsFiniteSet(Area(g, S)) BY AreaFinite
<1> QED BY <1>1, <1>2, FS_Subset DEF Weight

(* Keys without weight do not count. *)
LEMMA WeightZeros ==
  ASSUME NEW S, NEW T \in SUBSET S, NEW f, NEW g,
         \A k \in T : f[k] = g[k], \A k \in S \ T : g[k] = 0
  PROVE  Weight(g, S) = Weight(f, T)
<1>1. Area(g, S) = Area(f, T)
  <2>1. ASSUME NEW x \in S \X Nat, x[2] < g[x[1]] PROVE x[1] \in T
    <3>1. x[2] \in Nat /\ x[1] \in S OBVIOUS
    <3> QED BY <2>1, <3>1
  <2> QED BY <2>1 DEF Area
<1> QED BY <1>1 DEF Weight

(* The weight of a union of disjoint sets is the sum of theirs. *)
LEMMA WeightUnion ==
  ASSUME NEW S, IsFiniteSet(S), NEW T, IsFiniteSet(T), S \cap T = {}, NEW f,
         \A k \in S \cup T : f[k] \in Nat
  PROVE  Weight(f, S \cup T) = Weight(f, S) + Weight(f, T)
<1>1. Area(f, S \cup T) = Area(f, S) \cup Area(f, T) BY DEF Area
<1>2. Area(f, S) \cap Area(f, T) = {} BY DEF Area
<1>3. IsFiniteSet(Area(f, S)) /\ IsFiniteSet(Area(f, T)) BY AreaFinite
<1> QED BY <1>1, <1>2, <1>3, DisjointUnion DEF Weight

(* The weight of a constant. *)
LEMMA WeightConstant ==
  ASSUME NEW S, IsFiniteSet(S), NEW d \in Nat, NEW f, \A k \in S : f[k] = d
  PROVE  Weight(f, S) = Cardinality(S) * d
<1>1. Area(f, S) = S \X (0 .. d - 1) BY DEF Area
<1>2. IsFiniteSet(0 .. d - 1) /\ Cardinality(0 .. d - 1) = d BY FS_Interval
<1> QED BY <1>1, <1>2, FS_Product DEF Weight

(* One more key adds its count. *)
LEMMA WeightAdd ==
  ASSUME NEW S, IsFiniteSet(S), NEW a, a \notin S, NEW f, \A k \in S \cup {a} : f[k] \in Nat
  PROVE  Weight(f, S \cup {a}) = Weight(f, S) + f[a]
<1>1. IsFiniteSet({a}) /\ Cardinality({a}) = 1 BY FS_Singleton
<1>2. Weight(f, {a}) = 1 * f[a]
  <2>1. f[a] \in Nat /\ \A k \in {a} : f[k] = f[a] OBVIOUS
  <2>2. Weight(f, {a}) = Cardinality({a}) * f[a] BY <1>1, <2>1, WeightConstant, Zenon
  <2> QED BY <2>2, <1>1
<1>3. S \cap {a} = {} OBVIOUS
<1>4. Weight(f, S \cup {a}) = Weight(f, S) + Weight(f, {a})
  BY <1>1, <1>3, WeightUnion, Zenon
<1> QED BY <1>2, <1>4

(* Counts that are added up add up their weights: the second graph stands  *)
(* on the first.                                                           *)
LEMMA WeightSum ==
  ASSUME NEW S, IsFiniteSet(S), NEW f, NEW g, NEW h,
         \A k \in S : f[k] \in Nat /\ g[k] \in Nat /\ h[k] = f[k] + g[k]
  PROVE  Weight(h, S) = Weight(f, S) + Weight(g, S)
<1> DEFINE Upper == {x \in S \X Nat : f[x[1]] <= x[2] /\ x[2] < h[x[1]]}
           lift  == [x \in Area(g, S) |-> <<x[1], f[x[1]] + x[2]>>]
<1>1. Area(h, S) = Area(f, S) \cup Upper BY DEF Area
<1>2. Area(f, S) \cap Upper = {} BY DEF Area
<1>3. lift \in Bijection(Area(g, S), Upper)
  <2>1. ASSUME NEW x \in Area(g, S) PROVE lift[x] \in Upper
    BY DEF Area
  <2>2. ASSUME NEW x \in Area(g, S), NEW y \in Area(g, S), lift[x] = lift[y] PROVE x = y
    <3>1. x \in S \X Nat /\ y \in S \X Nat BY DEF Area
    <3>2. x[1] = y[1] /\ f[x[1]] + x[2] = f[y[1]] + y[2] BY <2>2
    <3>3. f[x[1]] \in Nat BY <3>1
    <3>4. x[2] = y[2] BY <3>1, <3>2, <3>3
    <3> QED BY <3>1, <3>2, <3>4
  <2>3. ASSUME NEW y \in Upper PROVE \E x \in Area(g, S) : lift[x] = y
    <3>1. y[1] \in S /\ y[2] \in Nat /\ y = <<y[1], y[2]>> OBVIOUS
    <3>2. f[y[1]] \in Nat /\ g[y[1]] \in Nat /\ h[y[1]] = f[y[1]] + g[y[1]] BY <3>1
    <3>3. y[2] - f[y[1]] \in Nat /\ y[2] - f[y[1]] < g[y[1]] BY <3>1, <3>2
    <3> DEFINE x == <<y[1], y[2] - f[y[1]]>>
    <3>4. x \in Area(g, S) BY <3>1, <3>3, AreaPoint
    <3>5. lift[x] = <<y[1], f[y[1]] + (y[2] - f[y[1]])>> BY <3>4
    <3>6. f[y[1]] + (y[2] - f[y[1]]) = y[2] BY <3>1, <3>2
    <3> QED BY <3>1, <3>4, <3>5, <3>6
  <2>4. lift \in [Area(g, S) -> Upper] BY <2>1
  <2> HIDE DEF lift, Upper
  <2>5. lift \in Injection(Area(g, S), Upper) BY <2>2, <2>4 DEF Injection, IsInjective
  <2>6. lift \in Surjection(Area(g, S), Upper) BY <2>3, <2>4 DEF Surjection
  <2> QED BY <2>5, <2>6 DEF Bijection
<1>4. IsFiniteSet(Area(f, S)) /\ IsFiniteSet(Area(g, S)) BY AreaFinite
<1> HIDE DEF lift, Upper
<1>5. IsFiniteSet(Upper) /\ Cardinality(Upper) = Cardinality(Area(g, S))
  BY <1>3, <1>4, FS_Bijection DEF ExistsBijection
<1> QED BY <1>1, <1>2, <1>4, <1>5, DisjointUnion DEF Weight

-------------------------------------------------------------------------------
(* Ranks in a strict total order, given as a set of pairs. *)

Above(R, D, k) == {j \in D : <<j, k>> \in R}

StrictOrder(R, D) ==
  /\ \A a \in D : <<a, a>> \notin R
  /\ \A a, b \in D : a # b => (<<a, b>> \in R \/ <<b, a>> \in R)
  /\ \A a, b, c \in D : (<<a, b>> \in R /\ <<b, c>> \in R) => <<a, c>> \in R

(* Ranks of a finite set are numbers below its cardinality, and rise along *)
(* the order.                                                              *)
LEMMA RankRises ==
  ASSUME NEW D, IsFiniteSet(D), NEW R, StrictOrder(R, D)
  PROVE  /\ \A k \in D : Cardinality(Above(R, D, k)) \in 0 .. Cardinality(D) - 1
         /\ \A j, k \in D : <<j, k>> \in R =>
              Cardinality(Above(R, D, j)) < Cardinality(Above(R, D, k))
<1>1. ASSUME NEW k \in D
      PROVE  IsFiniteSet(Above(R, D, k)) /\ Cardinality(Above(R, D, k)) \in Nat
  BY FS_Subset, FS_CardinalityType DEF Above
<1>2. Cardinality(D) \in Nat BY FS_CardinalityType
<1>3. ASSUME NEW k \in D PROVE Cardinality(Above(R, D, k)) < Cardinality(D)
  <2>1. Above(R, D, k) \subseteq D /\ k \notin Above(R, D, k) BY DEF Above, StrictOrder
  <2>2. /\ Cardinality(Above(R, D, k)) <= Cardinality(D)
        /\ Cardinality(D) = Cardinality(Above(R, D, k)) => D = Above(R, D, k)
    BY <2>1, FS_Subset
  <2> QED BY <1>1, <1>2, <2>1, <2>2
<1>4. ASSUME NEW j \in D, NEW k \in D, <<j, k>> \in R
      PROVE  Cardinality(Above(R, D, j)) < Cardinality(Above(R, D, k))
  <2>1. Above(R, D, j) \subseteq Above(R, D, k) BY <1>4 DEF Above, StrictOrder
  <2>2. j \in Above(R, D, k) /\ j \notin Above(R, D, j) BY <1>4 DEF Above, StrictOrder
  <2>3. /\ Cardinality(Above(R, D, j)) <= Cardinality(Above(R, D, k))
        /\ Cardinality(Above(R, D, k)) = Cardinality(Above(R, D, j))
             => Above(R, D, k) = Above(R, D, j)
    BY <1>1, <2>1, FS_Subset
  <2> QED BY <1>1, <2>2, <2>3
<1> QED BY <1>1, <1>2, <1>3, <1>4

(* Every rank below the cardinality is someone's. *)
LEMMA RanksFill ==
  ASSUME NEW D, IsFiniteSet(D), NEW R, StrictOrder(R, D)
  PROVE  \A i \in 0 .. Cardinality(D) - 1 : \E k \in D : Cardinality(Above(R, D, k)) = i
<1> DEFINE n == Cardinality(D)
           rank == [k \in D |-> Cardinality(Above(R, D, k))]
<1>1. n \in Nat BY FS_CardinalityType
<1>2. rank \in [D -> 0 .. n - 1] BY RankRises, Zenon
<1>3. ASSUME NEW j \in D, NEW k \in D, rank[j] = rank[k] PROVE j = k
  <2>1. Cardinality(Above(R, D, j)) \in Nat /\ Cardinality(Above(R, D, k)) \in Nat
    BY RankRises
  <2>2. <<j, k>> \notin R /\ <<k, j>> \notin R BY <1>3, <2>1, RankRises
  <2> QED BY <2>2 DEF StrictOrder
<1>4. rank \in Injection(D, 0 .. n - 1)
  <2> HIDE DEF rank
  <2> QED BY <1>2, <1>3 DEF Injection, IsInjective
<1>5. IsFiniteSet(0 .. n - 1) /\ Cardinality(0 .. n - 1) = n BY <1>1, FS_Interval
<1>6. rank \in Surjection(D, 0 .. n - 1)
  <2> HIDE DEF rank
  <2> QED BY <1>4, <1>5, FS_Injection
<1>7. ASSUME NEW i \in 0 .. n - 1 PROVE \E k \in D : rank[k] = i
  <2> HIDE DEF rank, n
  <2> QED BY <1>6 DEF Surjection
<1> QED BY <1>7

(* The first c members of an order are c, or all there are. *)
LEMMA FirstOnes ==
  ASSUME NEW D, IsFiniteSet(D), NEW R, StrictOrder(R, D), NEW c \in Nat
  PROVE  LET K == {k \in D : Cardinality(Above(R, D, k)) < c}
         IN  /\ IsFiniteSet(K)
             /\ Cardinality(K) = IF Cardinality(D) < c THEN Cardinality(D) ELSE c
             /\ Cardinality(D) <= c => K = D
<1> DEFINE n == Cardinality(D)
           m == IF n < c THEN n ELSE c
           K == {k \in D : Cardinality(Above(R, D, k)) < c}
           rank == [k \in K |-> Cardinality(Above(R, D, k))]
<1>1. n \in Nat BY FS_CardinalityType
<1>0. m \in Nat BY <1>1
<1>2. ASSUME NEW k \in K PROVE Cardinality(Above(R, D, k)) \in 0 .. m - 1
  <2>1. k \in D /\ Cardinality(Above(R, D, k)) < c OBVIOUS
  <2>2. Cardinality(Above(R, D, k)) \in 0 .. n - 1 BY <2>1, RankRises
  <2> QED BY <1>1, <2>1, <2>2
<1>3. rank \in [K -> 0 .. m - 1] BY <1>2
<1>4. ASSUME NEW j \in K, NEW k \in K, rank[j] = rank[k] PROVE j = k
  <2>0. j \in D /\ k \in D OBVIOUS
  <2>1. Cardinality(Above(R, D, j)) \in Nat /\ Cardinality(Above(R, D, k)) \in Nat
    BY <2>0, RankRises
  <2>2. <<j, k>> \notin R /\ <<k, j>> \notin R BY <1>4, <2>0, <2>1, RankRises
  <2> QED BY <2>0, <2>2 DEF StrictOrder
<1>5. ASSUME NEW i \in 0 .. m - 1 PROVE \E k \in K : rank[k] = i
  <2>1. i \in 0 .. n - 1 /\ i < c BY <1>1
  <2>2. PICK k \in D : Cardinality(Above(R, D, k)) = i BY <2>1, RanksFill
  <2>3. k \in K BY <2>1, <2>2
  <2> QED BY <2>2, <2>3
<1>6. IsFiniteSet(K) BY FS_Subset
<1>7. K \subseteq D OBVIOUS
<1>8. n <= c => K = D
  <2> SUFFICES ASSUME n <= c, NEW k \in D PROVE k \in K OBVIOUS
  <2>1. Cardinality(Above(R, D, k)) \in 0 .. n - 1 BY RankRises
  <2> QED BY <1>1, <2>1
<1> HIDE DEF K, rank
<1>9. rank \in Bijection(K, 0 .. m - 1)
  <2> HIDE DEF m
  <2>1. rank \in Injection(K, 0 .. m - 1) BY <1>3, <1>4 DEF Injection, IsInjective
  <2>2. rank \in Surjection(K, 0 .. m - 1) BY <1>3, <1>5 DEF Surjection
  <2> QED BY <2>1, <2>2 DEF Bijection
<1>10. Cardinality(0 .. m - 1) = m
  <2> HIDE DEF m
  <2> QED BY <1>0, FS_Interval
<1>11. Cardinality(K) = m
  <2> HIDE DEF m
  <2> QED BY <1>6, <1>9, <1>10, FS_Bijection DEF ExistsBijection
<1> QED BY <1>6, <1>8, <1>11 DEF K

(* A nonempty finite set has a first member. *)
LEMMA FirstOne ==
  ASSUME NEW D, IsFiniteSet(D), NEW R, StrictOrder(R, D), D # {}
  PROVE  \E k \in D : \A j \in D \ {k} : <<k, j>> \in R
<1>1. Cardinality(D) \in Nat /\ Cardinality(D) # 0 BY FS_CardinalityType, FS_EmptySet
<1>2. PICK k \in D : Cardinality(Above(R, D, k)) = 0 BY <1>1, RanksFill
<1>3. IsFiniteSet(Above(R, D, k)) BY FS_Subset DEF Above
<1>4. Above(R, D, k) = {} BY <1>2, <1>3, FS_EmptySet
<1> QED BY <1>4 DEF Above, StrictOrder

(* Whoever is among the first c comes before everyone who is not. *)
LEMMA FirstBeforeRest ==
  ASSUME NEW D, IsFiniteSet(D), NEW R, StrictOrder(R, D), NEW c \in Nat, NEW j \in D, NEW k \in D,
         Cardinality(Above(R, D, j)) < c, ~ (Cardinality(Above(R, D, k)) < c)
  PROVE  <<j, k>> \in R
<1>1. Cardinality(Above(R, D, j)) \in Nat /\ Cardinality(Above(R, D, k)) \in Nat BY RankRises
<1>2. j # k /\ <<k, j>> \notin R BY <1>1, RankRises
<1> QED BY <1>2 DEF StrictOrder

-------------------------------------------------------------------------------
(* A count with fewer than n counts below it, and n up to it. *)
IsNth(c, f, D, n) ==
  /\ c \in {f[k] : k \in D}
  /\ Cardinality({k \in D : f[k] < c}) < n
  /\ Cardinality({k \in D : f[k] <= c}) >= n

(* Finitely many counts have an n-th smallest. *)
LEMMA NthSmallest ==
  ASSUME NEW D, IsFiniteSet(D), NEW f, \A k \in D : f[k] \in Nat,
         NEW n \in Nat, n >= 1, n <= Cardinality(D)
  PROVE  \E c : IsNth(c, f, D, n)
<1> DEFINE UpTo(c) == {k \in D : f[k] <= c}
           T == {c \in Nat : Cardinality(UpTo(c)) >= n}
<1>1. PICK m \in Nat : \A k \in D : f[k] <= m BY BoundedAbove
<1>2. UpTo(m) = D BY <1>1
<1>3. m \in T BY <1>2, FS_CardinalityType
<1>4. T \in SUBSET Nat /\ T # {} BY <1>3
<1> HIDE DEF T
<1>5. PICK c \in T : \A y \in T : c <= y BY <1>4, LeastNat
<1>6. c \in Nat /\ Cardinality(UpTo(c)) >= n BY <1>5 DEF T
<1>7. Cardinality({k \in D : f[k] < c}) < n
  <2>1. CASE c = 0
    <3>1. {k \in D : f[k] < c} = {} BY <2>1
    <3> QED BY <3>1, FS_EmptySet
  <2>2. CASE c # 0
    <3>1. c - 1 \in Nat /\ ~ (c <= c - 1) BY <1>6, <2>2
    <3>2. c - 1 \notin T BY <1>5, <3>1
    <3>3. ~ (Cardinality(UpTo(c - 1)) >= n) BY <3>1, <3>2 DEF T
    <3>4. UpTo(c - 1) = {k \in D : f[k] < c} BY <1>6, <3>1
    <3>5. Cardinality(UpTo(c - 1)) \in Nat BY FS_Subset, FS_CardinalityType
    <3> QED BY <3>3, <3>4, <3>5
  <2> QED BY <2>1, <2>2
<1>8. \E k \in D : f[k] = c
  <2> SUFFICES ASSUME \A k \in D : f[k] # c PROVE FALSE OBVIOUS
  <2>1. UpTo(c) = {k \in D : f[k] < c} BY <1>6
  <2>2. Cardinality(UpTo(c)) \in Nat BY FS_Subset, FS_CardinalityType
  <2> QED BY <1>6, <1>7, <2>1, <2>2
<1> QED BY <1>6, <1>7, <1>8 DEF IsNth

-------------------------------------------------------------------------------
(* Misra-Gries. *)

(* The shape of counters: finitely many keys, with a count each. *)
CountersShape(m) ==
  /\ m = [counts |-> m.counts, total |-> m.total]
  /\ IsFiniteSet(DOMAIN m.counts) /\ DOMAIN m.counts \subseteq Keys
  /\ m.counts \in [DOMAIN m.counts -> Nat]
  /\ m.total \in Nat

Weighs(m) == Weight(m.counts, DOMAIN m.counts)

(* What every counter misses, (capacity + 1) times, and what is counted    *)
(* fit together into the total weight: this is why the error is bounded.   *)
CountersFit(m, truth) ==
  \A k \in Keys :
    /\ CountOf(m, k) <= truth[k]
    /\ (truth[k] - CountOf(m, k)) * (CounterCapacity + 1) + Weighs(m) <= m.total

(* Counts are numbers, and so is their sum. *)
LEMMA CountersType ==
  ASSUME NEW m, CountersShape(m)
  PROVE  /\ Weighs(m) \in Nat /\ Cardinality(DOMAIN m.counts) \in Nat
         /\ \A k : CountOf(m, k) \in Nat
<1>1. \A k \in DOMAIN m.counts : m.counts[k] \in Nat BY DEF CountersShape
<1>2. IsFiniteSet(DOMAIN m.counts) BY DEF CountersShape
<1>3. Weighs(m) \in Nat BY <1>1, <1>2, AreaFinite DEF Weighs
<1>4. \A k : CountOf(m, k) \in Nat BY <1>1 DEF CountOf
<1> QED BY <1>2, <1>3, <1>4, FS_CardinalityType

(* An empty summary fits the empty truth. *)
LEMMA EmptyCountersFit ==
  /\ CountersShape(EmptyCounters) /\ CountersFit(EmptyCounters, NoCounts)
  /\ Cardinality(DOMAIN EmptyCounters.counts) <= CounterCapacity
<1>1. DOMAIN EmptyCounters.counts = {} /\ EmptyCounters.total = 0 BY DEF EmptyCounters
<1>2. Weighs(EmptyCounters) = 0 BY <1>1, WeightEmpty DEF Weighs
<1>3. CounterCapacity \in Nat BY CounterAssumption
<1>4. CountersShape(EmptyCounters)
  <2>1. EmptyCounters.counts \in [{} -> Nat] BY DEF EmptyCounters
  <2>2. EmptyCounters = [counts |-> EmptyCounters.counts, total |-> EmptyCounters.total]
    BY DEF EmptyCounters
  <2> QED BY <1>1, <2>1, <2>2, FS_EmptySet DEF CountersShape
<1>5. CountersFit(EmptyCounters, NoCounts)
  <2> SUFFICES ASSUME NEW k \in Keys
               PROVE  /\ CountOf(EmptyCounters, k) <= NoCounts[k]
                      /\ (NoCounts[k] - CountOf(EmptyCounters, k)) * (CounterCapacity + 1)
                           + Weighs(EmptyCounters) <= EmptyCounters.total
    BY DEF CountersFit
  <2>1. CountOf(EmptyCounters, k) = 0 /\ NoCounts[k] = 0 BY <1>1 DEF CountOf, NoCounts
  <2>2. (0 - 0) * (CounterCapacity + 1) + 0 <= 0 BY <1>3
  <2> QED BY <1>1, <1>2, <2>1, <2>2
<1> QED BY <1>1, <1>3, <1>4, <1>5, FS_EmptySet

(* A decrement takes at least dec from each of the counters in E, where E  *)
(* has every counter that survives and only counters of at least dec.      *)
LEMMA DecrementLoses ==
  ASSUME NEW D, IsFiniteSet(D), NEW f \in [D -> Nat], NEW dec \in Nat, NEW E \in SUBSET D,
         \A k \in E : f[k] >= dec, \A k \in D : f[k] > dec => k \in E
  PROVE  /\ Weight(Decremented(f, dec), DOMAIN Decremented(f, dec)) \in Nat
         /\ Weight(Decremented(f, dec), DOMAIN Decremented(f, dec)) + Cardinality(E) * dec
              <= Weight(f, D)
<1> DEFINE rest == Decremented(f, dec)
           R == {j \in D : f[j] > dec}
           less == [k \in E |-> f[k] - dec]
           same == [k \in E |-> dec]
<1>1. DOMAIN rest = R /\ \A k \in R : rest[k] = f[k] - dec BY DEF Decremented
<1>2. R \subseteq E /\ R \subseteq D OBVIOUS
<1>3. IsFiniteSet(E) /\ IsFiniteSet(R) BY FS_Subset
<1>4. Weight(f, E) <= Weight(f, D) BY WeightMonotone
<1>5. Weight(same, E) = Cardinality(E) * dec BY <1>3, WeightConstant
<1>6. \A k \in E : less[k] \in Nat /\ same[k] \in Nat /\ f[k] = less[k] + same[k] OBVIOUS
<1>7. \A k \in R : rest[k] = less[k] BY <1>1, <1>2
<1>8. \A k \in E \ R : less[k] = 0 OBVIOUS
<1>9. \A k \in R : rest[k] \in Nat BY <1>2, <1>6, <1>7
<1> HIDE DEF less, same, rest, R
<1>10. Weight(f, E) = Weight(less, E) + Weight(same, E) BY <1>3, <1>6, WeightSum
<1>11. Weight(less, E) = Weight(rest, R) BY <1>2, <1>7, <1>8, WeightZeros
<1>12. Weight(rest, R) \in Nat BY <1>3, <1>9, AreaFinite
<1>13. Weight(f, D) \in Nat /\ Weight(f, E) \in Nat BY <1>3, AreaFinite
<1>14. Cardinality(E) * dec \in Nat BY <1>3, FS_CardinalityType
<1> QED BY <1>1, <1>4, <1>5, <1>10, <1>11, <1>12, <1>13, <1>14 DEF rest

(* What a decrement leaves of a key, counting what is gone as 0. *)
IsDecrement(n, m, dec) ==
  /\ CountersShape(n)
  /\ DOMAIN n.counts = {j \in DOMAIN m.counts : m.counts[j] > dec}
  /\ \A k : CountOf(n, k) <= CountOf(m, k) /\ CountOf(m, k) <= CountOf(n, k) + dec

(* A decrement takes at most dec from a key. *)
LEMMA DecrementCount ==
  ASSUME NEW m, CountersShape(m), NEW dec \in Nat,
         NEW n, n.counts = Decremented(m.counts, dec), n.total \in Nat,
         n = [counts |-> n.counts, total |-> n.total]
  PROVE  IsDecrement(n, m, dec)
<1> DEFINE D == DOMAIN m.counts
           f == m.counts
           R == {j \in D : f[j] > dec}
<1>0. D \in SUBSET Keys /\ IsFiniteSet(D) /\ f \in [D -> Nat] BY DEF CountersShape
<1>1. n.counts = [k \in R |-> f[k] - dec] BY DEF Decremented
<1>2. DOMAIN n.counts = R /\ n.counts \in [R -> Nat] BY <1>0, <1>1
<1>3. IsFiniteSet(R) BY <1>0, FS_Subset
<1>4. CountersShape(n) BY <1>0, <1>2, <1>3 DEF CountersShape
<1>5. ASSUME NEW k PROVE CountOf(n, k) <= CountOf(m, k) /\ CountOf(m, k) <= CountOf(n, k) + dec
  <2>1. CASE k \in R
    <3>1. CountOf(n, k) = f[k] - dec /\ CountOf(m, k) = f[k] /\ f[k] \in Nat
      BY <1>0, <1>1, <1>2, <2>1 DEF CountOf
    <3> QED BY <3>1
  <2>2. CASE k \in D \ R
    <3>1. CountOf(n, k) = 0 /\ CountOf(m, k) = f[k] /\ f[k] \in Nat /\ ~ (f[k] > dec)
      BY <1>0, <1>2, <2>2 DEF CountOf
    <3> QED BY <3>1
  <2>3. CASE k \notin D
    <3>1. CountOf(n, k) = 0 /\ CountOf(m, k) = 0 BY <1>2, <2>3 DEF CountOf
    <3> QED BY <3>1
  <2> QED BY <2>1, <2>2, <2>3
<1> QED BY <1>2, <1>4, <1>5 DEF IsDecrement

(* Multiplication by a natural number keeps the order. *)
LEMMA TimesMonotone ==
  ASSUME NEW a \in Int, NEW b \in Int, a <= b, NEW c \in Nat
  PROVE  a * c <= b * c
<1>1. (b - a) * c >= 0 OBVIOUS
<1>2. (b - a) * c = b * c - a * c OBVIOUS
<1>3. a * c \in Int /\ b * c \in Int OBVIOUS
<1> QED BY <1>1, <1>2, <1>3

(* A sum times a number. *)
LEMMA TimesSum ==
  ASSUME NEW a \in Int, NEW b \in Int, NEW c \in Int
  PROVE  (a + b) * c = a * c + b * c /\ a * c \in Int /\ b * c \in Int
OBVIOUS

(* How the bound is carried over a step that takes dec from every counter: *)
(* (capacity + 1) * dec of the counted weight must be gone for it.         *)
LEMMA FitByLoss ==
  ASSUME NEW m, CountersShape(m), NEW n, CountersShape(n),
         NEW truth \in [Keys -> Nat], NEW new \in [Keys -> Nat], CountersFit(m, truth),
         NEW dec \in Nat, NEW add \in Nat, n.total = m.total + add,
         Weighs(n) + dec * (CounterCapacity + 1) <= Weighs(m) + add,
         \A k \in Keys : /\ CountOf(n, k) <= new[k]
                         /\ new[k] - CountOf(n, k) <= truth[k] - CountOf(m, k) + dec
  PROVE  CountersFit(n, new)
<1> SUFFICES ASSUME NEW k \in Keys
             PROVE  /\ CountOf(n, k) <= new[k]
                    /\ (new[k] - CountOf(n, k)) * (CounterCapacity + 1) + Weighs(n) <= n.total
  BY DEF CountersFit
<1> DEFINE c1 == CounterCapacity + 1
           d == truth[k] - CountOf(m, k)
           e == new[k] - CountOf(n, k)
<1>1. c1 \in Nat BY CounterAssumption
<1>2. /\ Weighs(m) \in Nat /\ CountOf(m, k) \in Nat /\ Weighs(n) \in Nat /\ CountOf(n, k) \in Nat
  BY CountersType
<1>3. truth[k] \in Nat /\ new[k] \in Nat /\ m.total \in Nat BY DEF CountersShape
<1>4. d \in Int /\ e \in Int /\ e <= d + dec BY <1>2, <1>3
<1>5. d * c1 + Weighs(m) <= m.total BY DEF CountersFit
<1>6. Weighs(n) + dec * c1 <= Weighs(m) + add OBVIOUS
<1> HIDE DEF c1, d, e
<1>7. e * c1 <= (d + dec) * c1 BY <1>1, <1>4, TimesMonotone
<1>8. (d + dec) * c1 = d * c1 + dec * c1 /\ d * c1 \in Int /\ dec * c1 \in Int /\ e * c1 \in Int
  BY <1>1, <1>4, TimesSum
<1>9. e * c1 + Weighs(n) <= m.total + add BY <1>2, <1>3, <1>5, <1>6, <1>7, <1>8
<1> QED BY <1>9 DEF c1, e

(* Raising the count of one key raises the weight by as much. *)
LEMMA WeightRaise ==
  ASSUME NEW D, IsFiniteSet(D), NEW f, NEW g, NEW k \in D, NEW w \in Nat,
         \A j \in D : f[j] \in Nat /\ g[j] = IF j = k THEN f[j] + w ELSE f[j]
  PROVE  Weight(g, D) = Weight(f, D) + w
<1> DEFINE S == D \ {k}
<1>1. IsFiniteSet(S) /\ k \notin S /\ S \cup {k} = D BY FS_RemoveElement
<1>2. f[k] \in Nat /\ g[k] = f[k] + w /\ \A j \in S : f[j] \in Nat /\ g[j] = f[j] OBVIOUS
<1> HIDE DEF S
<1>3. \A j \in S \cup {k} : f[j] \in Nat BY <1>2
<1>4. \A j \in S \cup {k} : g[j] \in Nat BY <1>2
<1>5. Weight(f, S \cup {k}) = Weight(f, S) + f[k] BY <1>1, <1>3, WeightAdd
<1>6. Weight(g, S \cup {k}) = Weight(g, S) + g[k] BY <1>1, <1>4, WeightAdd
<1>7. Weight(g, S) = Weight(f, S) BY <1>2, WeightSame
<1>8. Weight(f, S) \in Nat BY <1>1, <1>2, AreaFinite
<1> QED BY <1>1, <1>2, <1>5, <1>6, <1>7, <1>8

(* A new counter: its key, its count, its weight. *)
LEMMA WithCountIs ==
  ASSUME NEW D \in SUBSET Keys, IsFiniteSet(D), NEW f \in [D -> Nat], NEW k \in Keys, k \notin D,
         NEW c \in Nat, NEW total \in Nat,
         NEW n, n = [counts |-> WithCount(f, k, c), total |-> total]
  PROVE  /\ CountersShape(n)
         /\ DOMAIN n.counts = D \cup {k}
         /\ Cardinality(DOMAIN n.counts) = Cardinality(D) + 1
         /\ Weighs(n) = Weight(f, D) + c
         /\ \A j : CountOf(n, j) = IF j = k THEN c ELSE IF j \in D THEN f[j] ELSE 0
<1> DEFINE g == WithCount(f, k, c)
<1>1. g = [j \in D \cup {k} |-> IF j = k THEN c ELSE f[j]] BY DEF WithCount
<1>2. g \in [D \cup {k} -> Nat] /\ DOMAIN g = D \cup {k} BY <1>1
<1>3. IsFiniteSet(D \cup {k}) /\ Cardinality(D \cup {k}) = Cardinality(D) + 1 BY FS_AddElement
<1>4. g[k] = c /\ \A j \in D : g[j] = f[j] BY <1>1
<1>5. \A j : CountOf(n, j) = IF j = k THEN c ELSE IF j \in D THEN f[j] ELSE 0
  BY <1>2, <1>4 DEF CountOf
<1>11. n.counts = g /\ n.total = total /\ n = [counts |-> g, total |-> total] OBVIOUS
<1> HIDE DEF g
<1>6. CountersShape(n) BY <1>2, <1>3, <1>11 DEF CountersShape
<1>7. \A j \in D \cup {k} : g[j] \in Nat BY <1>2
<1>8. Weight(g, D \cup {k}) = Weight(g, D) + g[k] BY <1>7, WeightAdd
<1>9. Weight(g, D) = Weight(f, D) BY <1>4, WeightSame
<1>10. Weighs(n) = Weight(f, D) + c BY <1>2, <1>4, <1>8, <1>9, <1>11 DEF Weighs
<1> QED BY <1>2, <1>3, <1>5, <1>6, <1>10, <1>11

(* The smallest count of a nonempty summary. *)
LEMMA SmallestIs ==
  ASSUME NEW D, D # {}, NEW f \in [D -> Nat]
  PROVE  /\ Smallest(f) \in Nat
         /\ \A k \in D : Smallest(f) <= f[k]
         /\ \E k \in D : Smallest(f) = f[k]
<1> DEFINE T == {f[k] : k \in D}
<1>1. T \in SUBSET Nat /\ T # {} BY SMT
<1>2. \E c \in T : \A y \in T : c <= y
  <2> HIDE DEF T
  <2> QED BY <1>1, LeastNat
<1>3. \E c \in T : \A k \in D : c <= f[k] BY <1>2
<1>4. Smallest(f) = CHOOSE c \in T : \A k \in D : c <= f[k] BY DEF Smallest
<1>5. Smallest(f) \in T /\ \A k \in D : Smallest(f) <= f[k] BY <1>3, <1>4
<1> QED BY <1>1, <1>5

(* The truth after an update. *)
LEMMA RaisedTruth ==
  ASSUME NEW truth \in [Keys -> Nat], NEW k \in Keys, NEW w \in Nat
  PROVE  /\ [truth EXCEPT ![k] = @ + w] \in [Keys -> Nat]
         /\ \A j \in Keys : /\ truth[j] \in Nat
                            /\ [truth EXCEPT ![k] = @ + w][j] =
                                 IF j = k THEN truth[j] + w ELSE truth[j]
OBVIOUS

(* A counted key: its counter grows by the weight. *)
LEMMA AddCounted ==
  ASSUME NEW m, CountersShape(m), NEW truth \in [Keys -> Nat], CountersFit(m, truth),
         Cardinality(DOMAIN m.counts) <= CounterCapacity,
         NEW k \in DOMAIN m.counts, NEW w \in Nat
  PROVE  LET n == AddCount(m, k, w)
         IN  /\ CountersShape(n) /\ Cardinality(DOMAIN n.counts) <= CounterCapacity
             /\ CountersFit(n, [truth EXCEPT ![k] = @ + w])
<1> DEFINE D == DOMAIN m.counts
           g == [m.counts EXCEPT ![k] = @ + w]
           n == [counts |-> g, total |-> m.total + w]
           new == [truth EXCEPT ![k] = @ + w]
<1>1. AddCount(m, k, w) = n BY DEF AddCount
<1>2. IsFiniteSet(D) /\ D \subseteq Keys /\ m.counts \in [D -> Nat] /\ m.total \in Nat
  BY DEF CountersShape
<1>3. g \in [D -> Nat] /\ DOMAIN g = D BY <1>2
<1>4. \A j \in D : m.counts[j] \in Nat /\ g[j] = IF j = k THEN m.counts[j] + w ELSE m.counts[j]
  BY <1>2
<1>5. CountersShape(n) BY <1>2, <1>3 DEF CountersShape
<1>6. Weight(g, D) = Weight(m.counts, D) + w
  <2> HIDE DEF D, g
  <2>1. k \in D BY DEF D
  <2>2. IsFiniteSet(D) BY <1>2
  <2> QED BY <1>4, <2>1, <2>2, WeightRaise
<1>7. Weighs(n) = Weighs(m) + w BY <1>3, <1>6 DEF Weighs
<1>8. new \in [Keys -> Nat] BY <1>2, RaisedTruth
<1>9. ASSUME NEW j \in Keys
      PROVE  /\ CountOf(n, j) <= new[j]
             /\ new[j] - CountOf(n, j) <= truth[j] - CountOf(m, j) + 0
  <2>1. CountOf(m, j) <= truth[j] BY DEF CountersFit
  <2>2. CountOf(n, j) = IF j = k THEN CountOf(m, j) + w ELSE CountOf(m, j)
    BY <1>3, <1>4 DEF CountOf
  <2>3. CountOf(m, j) \in Nat BY CountersType
  <2>4. truth[j] \in Nat /\ new[j] = IF j = k THEN truth[j] + w ELSE truth[j]
    BY <1>2, RaisedTruth
  <2> HIDE DEF new, n
  <2> QED BY <2>1, <2>2, <2>3, <2>4
<1>10. n.total = m.total + w OBVIOUS
<1>11. Weighs(n) + 0 * (CounterCapacity + 1) <= Weighs(m) + w
  BY <1>7, CountersType, CounterAssumption
<1>12. DOMAIN n.counts = D BY <1>3
<1> HIDE DEF n, new
<1>13. CountersFit(n, new)
  BY <1>5, <1>8, <1>9, <1>10, <1>11, FitByLoss
<1> QED BY <1>1, <1>5, <1>12, <1>13 DEF new

(* A new key while there is room: a counter of its own. *)
LEMMA AddFresh ==
  ASSUME NEW m, CountersShape(m), NEW truth \in [Keys -> Nat], CountersFit(m, truth),
         Cardinality(DOMAIN m.counts) < CounterCapacity,
         NEW k \in Keys, k \notin DOMAIN m.counts, NEW w \in Nat
  PROVE  LET n == AddCount(m, k, w)
         IN  /\ CountersShape(n) /\ Cardinality(DOMAIN n.counts) <= CounterCapacity
             /\ CountersFit(n, [truth EXCEPT ![k] = @ + w])
<1> DEFINE D == DOMAIN m.counts
           n == [counts |-> WithCount(m.counts, k, w), total |-> m.total + w]
           new == [truth EXCEPT ![k] = @ + w]
<1>1. AddCount(m, k, w) = n BY DEF AddCount
<1>2. IsFiniteSet(D) /\ D \in SUBSET Keys /\ m.counts \in [D -> Nat] /\ m.total \in Nat
      /\ m.total + w \in Nat
  BY DEF CountersShape
<1>3. /\ CountersShape(n)
      /\ Cardinality(DOMAIN n.counts) = Cardinality(D) + 1
      /\ Weighs(n) = Weighs(m) + w
      /\ \A j : CountOf(n, j) = IF j = k THEN w ELSE IF j \in D THEN m.counts[j] ELSE 0
  <2>1. k \notin D OBVIOUS
  <2>2. n = [counts |-> WithCount(m.counts, k, w), total |-> m.total + w] OBVIOUS
  <2>3. Weighs(m) = Weight(m.counts, D) BY DEF Weighs
  <2> HIDE DEF D, n
  <2> QED BY <1>2, <2>1, <2>2, <2>3, WithCountIs
<1>4. new \in [Keys -> Nat] BY RaisedTruth
<1>5. ASSUME NEW j \in Keys
      PROVE  /\ CountOf(n, j) <= new[j]
             /\ new[j] - CountOf(n, j) <= truth[j] - CountOf(m, j) + 0
  <2>1. CountOf(m, j) <= truth[j] BY DEF CountersFit
  <2>2. CountOf(n, j) = IF j = k THEN w ELSE CountOf(m, j) BY <1>3 DEF CountOf
  <2>3. CountOf(m, j) \in Nat /\ CountOf(m, k) = 0 BY CountersType DEF CountOf
  <2>4. truth[j] \in Nat /\ new[j] = IF j = k THEN truth[j] + w ELSE truth[j] BY RaisedTruth
  <2> HIDE DEF new, n
  <2> QED BY <2>1, <2>2, <2>3, <2>4
<1>6. n.total = m.total + w OBVIOUS
<1>7. Weighs(n) + 0 * (CounterCapacity + 1) <= Weighs(m) + w
  BY <1>3, CountersType, CounterAssumption
<1> HIDE DEF n, new
<1>8. CountersFit(n, new)
  BY <1>3, <1>4, <1>5, <1>6, <1>7, FitByLoss
<1>9. Cardinality(DOMAIN n.counts) <= CounterCapacity
  BY <1>3, CountersType, CounterAssumption
<1> QED BY <1>1, <1>3, <1>8, <1>9 DEF new

(* The whole of the update: the decrement of a full summary takes dec from *)
(* all its counters and from the weight that comes in.                     *)
LEMMA AddFull ==
  ASSUME NEW m, CountersShape(m), NEW truth \in [Keys -> Nat], CountersFit(m, truth),
         Cardinality(DOMAIN m.counts) = CounterCapacity,
         NEW k \in Keys, k \notin DOMAIN m.counts, NEW w \in Nat
  PROVE  LET n == AddCount(m, k, w)
         IN  /\ CountersShape(n) /\ Cardinality(DOMAIN n.counts) <= CounterCapacity
             /\ CountersFit(n, [truth EXCEPT ![k] = @ + w])
<1> DEFINE D == DOMAIN m.counts
           f == m.counts
           dec == IF Smallest(f) < w THEN Smallest(f) ELSE w
           rest == Decremented(f, dec)
           R == DOMAIN rest
           room == w > dec /\ Cardinality(R) < CounterCapacity
           n == [counts |-> IF room THEN WithCount(rest, k, w - dec) ELSE rest,
                 total |-> m.total + w]
           new == [truth EXCEPT ![k] = @ + w]
<1>1. IsFiniteSet(D) /\ D \in SUBSET Keys /\ f \in [D -> Nat] /\ m.total \in Nat
      /\ m.total + w \in Nat
  BY DEF CountersShape
<1>0. CounterCapacity \in Nat /\ CounterCapacity # 0 BY CounterAssumption
<1>2. AddCount(m, k, w) = n
  <2>1. k \notin DOMAIN m.counts /\ ~ (Cardinality(DOMAIN m.counts) < CounterCapacity) BY <1>0
  <2> QED BY <2>1, Zenon DEF AddCount
<1>3. D # {} BY <1>0, FS_EmptySet
<1>4. /\ Smallest(f) \in Nat /\ \A j \in D : Smallest(f) <= f[j]
      /\ \E j \in D : Smallest(f) = f[j]
  BY <1>1, <1>3, SmallestIs
<1>5. dec \in Nat /\ dec <= w /\ \A j \in D : f[j] \in Nat /\ f[j] >= dec BY <1>1, <1>4
<1> DEFINE q == [counts |-> rest, total |-> m.total + w]
<1>6. CountersShape(q) /\ R = {j \in D : f[j] > dec}
      /\ \A j : CountOf(q, j) <= CountOf(m, j) /\ CountOf(m, j) <= CountOf(q, j) + dec
  <2>1. q.counts = rest /\ q.total \in Nat /\ q = [counts |-> q.counts, total |-> q.total]
    BY <1>1
  <2>2. IsDecrement(q, m, dec)
    <3>1. q.counts = Decremented(m.counts, dec) BY <2>1
    <3> HIDE DEF dec, q
    <3> QED BY <1>5, <2>1, <3>1, DecrementCount
  <2> HIDE DEF q
  <2> QED BY <2>1, <2>2 DEF IsDecrement
<1>7. /\ Weight(rest, R) \in Nat
      /\ Weight(rest, R) + CounterCapacity * dec <= Weighs(m)
  <2>1. D \in SUBSET D /\ (\A j \in D : f[j] >= dec) /\ \A j \in D : f[j] > dec => j \in D
    BY <1>5
  <2>2. Cardinality(D) = CounterCapacity OBVIOUS
  <2>3. Weighs(m) = Weight(f, D) BY DEF Weighs
  <2> HIDE DEF D, f, dec
  <2>4. /\ Weight(rest, R) \in Nat /\ Weight(rest, R) + Cardinality(D) * dec <= Weight(f, D)
    BY <1>1, <1>5, <2>1, DecrementLoses
  <2> QED BY <2>2, <2>3, <2>4
<1>8. R \in SUBSET Keys /\ IsFiniteSet(R) /\ rest \in [R -> Nat] /\ Cardinality(R) \in Nat
      /\ R \subseteq D
  BY <1>1, <1>6, FS_CardinalityType DEF CountersShape
<1>9. w > dec => Cardinality(R) < CounterCapacity
  <2> SUFFICES ASSUME w > dec PROVE Cardinality(R) < CounterCapacity OBVIOUS
  <2>1. dec = Smallest(f) BY <1>4
  <2>2. PICK j \in D : Smallest(f) = f[j] BY <1>4
  <2>3. j \notin R BY <1>5, <1>6, <2>1, <2>2
  <2>4. R # D BY <2>3
  <2>5. Cardinality(R) <= Cardinality(D) /\ Cardinality(D) # Cardinality(R)
    BY <1>1, <1>8, <2>4, FS_Subset
  <2> QED BY <2>5, <1>0, <1>8
<1>10. k \notin R /\ k \notin D BY <1>8
<1>11. \A j \in Keys : CountOf(m, j) \in Nat /\ CountOf(m, k) = 0
  BY CountersType DEF CountOf
<1>12. new \in [Keys -> Nat] BY RaisedTruth
<1>13. \A j \in Keys : truth[j] \in Nat /\ new[j] = IF j = k THEN truth[j] + w ELSE truth[j]
  BY RaisedTruth
<1>14. \A j \in Keys : CountOf(m, j) <= truth[j] BY DEF CountersFit
<1>15. Weighs(m) \in Nat BY CountersType
<1>16. dec * (CounterCapacity + 1) = CounterCapacity * dec + dec /\ CounterCapacity * dec \in Nat
  <2> HIDE DEF dec
  <2> QED BY <1>0, <1>5
<1>17. \A j : CountOf(q, j) \in Nat BY <1>6, CountersType
<1>18. \A j \in Keys : CountOf(q, j) <= CountOf(m, j) /\ CountOf(m, j) <= CountOf(q, j) + dec
  BY <1>6
<1>19. CASE room
  <2>1. n = [counts |-> WithCount(rest, k, w - dec), total |-> m.total + w] BY <1>19
  <2>2. w - dec \in Nat BY <1>5
  <2>3. /\ CountersShape(n)
        /\ Cardinality(DOMAIN n.counts) = Cardinality(R) + 1
        /\ Weighs(n) = Weight(rest, R) + (w - dec)
        /\ \A j : CountOf(n, j) = IF j = k THEN w - dec ELSE IF j \in R THEN rest[j] ELSE 0
    <3> DEFINE c == w - dec
    <3>1. c \in Nat /\ n = [counts |-> WithCount(rest, k, c), total |-> m.total + w] BY <2>1, <2>2
    <3> HIDE DEF n, rest, R, c
    <3>2. /\ CountersShape(n)
          /\ Cardinality(DOMAIN n.counts) = Cardinality(R) + 1
          /\ Weighs(n) = Weight(rest, R) + c
          /\ \A j : CountOf(n, j) = IF j = k THEN c ELSE IF j \in R THEN rest[j] ELSE 0
      BY <1>1, <1>8, <1>10, <3>1, WithCountIs
    <3> QED BY <3>2 DEF c
  <2>4. \A j : CountOf(q, j) = IF j \in R THEN rest[j] ELSE 0 BY DEF CountOf
  <2>5. n.total = m.total + w OBVIOUS
  <2> HIDE DEF n, rest, R, dec, q, new
  <2>6. ASSUME NEW j \in Keys
        PROVE  /\ CountOf(n, j) <= new[j]
               /\ new[j] - CountOf(n, j) <= truth[j] - CountOf(m, j) + dec
    <3>1. CountOf(n, j) = IF j = k THEN w - dec ELSE CountOf(q, j) BY <2>3, <2>4
    <3>2. CountOf(m, j) \in Nat /\ CountOf(m, k) = 0 /\ CountOf(q, j) \in Nat /\ truth[j] \in Nat
      BY <1>11, <1>13, <1>17
    <3> QED BY <1>5, <1>13, <1>14, <1>18, <3>1, <3>2
  <2>7. Weighs(n) + dec * (CounterCapacity + 1) <= Weighs(m) + w
    BY <1>5, <1>7, <1>15, <1>16, <2>3
  <2>8. CountersFit(n, new) BY <1>5, <1>12, <2>3, <2>5, <2>6, <2>7, FitByLoss
  <2>9. Cardinality(DOMAIN n.counts) <= CounterCapacity BY <1>0, <1>8, <1>19, <2>3
  <2> QED BY <1>2, <2>3, <2>8, <2>9 DEF new
<1>20. CASE ~room
  <2>1. n = q BY <1>20
  <2>2. w = dec BY <1>5, <1>9, <1>20
  <2>3. CountersShape(n) /\ Weighs(n) = Weight(rest, R) /\ n.total = m.total + w
    BY <1>6, <2>1 DEF Weighs
  <2>4. Cardinality(R) <= CounterCapacity BY <1>1, <1>8, FS_Subset
  <2>5. DOMAIN n.counts = R BY <2>1
  <2> HIDE DEF n, rest, R, dec, q, new
  <2>6. ASSUME NEW j \in Keys
        PROVE  /\ CountOf(n, j) <= new[j]
               /\ new[j] - CountOf(n, j) <= truth[j] - CountOf(m, j) + dec
    <3>1. CountOf(n, j) = CountOf(q, j) BY <2>1
    <3>2. CountOf(m, j) \in Nat /\ CountOf(m, k) = 0 /\ CountOf(q, j) \in Nat /\ truth[j] \in Nat
      BY <1>11, <1>13, <1>17
    <3> QED BY <1>5, <1>13, <1>14, <1>18, <2>2, <3>1, <3>2
  <2>7. Weighs(n) + dec * (CounterCapacity + 1) <= Weighs(m) + w
    BY <1>5, <1>7, <1>15, <1>16, <2>2, <2>3
  <2>8. CountersFit(n, new) BY <1>5, <1>12, <2>3, <2>6, <2>7, FitByLoss
  <2> QED BY <1>2, <2>3, <2>4, <2>5, <2>8 DEF new
<1> QED BY <1>19, <1>20

(* The two summaries added up, before they are trimmed. *)
IsSum(s, m, o) ==
  /\ s.counts = [k \in DOMAIN m.counts \cup DOMAIN o.counts |-> CountOf(m, k) + CountOf(o, k)]
  /\ s.total = m.total + o.total
  /\ s = [counts |-> s.counts, total |-> s.total]

AddedUp(f, g) == [k \in Keys |-> f[k] + g[k]]

(* Their bounds add up. *)
LEMMA SumsFit ==
  ASSUME NEW m, CountersShape(m), NEW o, CountersShape(o),
         NEW f \in [Keys -> Nat], NEW g \in [Keys -> Nat], CountersFit(m, f), CountersFit(o, g),
         NEW s, IsSum(s, m, o)
  PROVE  CountersShape(s) /\ CountersFit(s, AddedUp(f, g))
<1>0. /\ s.counts = [k \in DOMAIN m.counts \cup DOMAIN o.counts |-> CountOf(m, k) + CountOf(o, k)]
      /\ s.total = m.total + o.total
      /\ s = [counts |-> s.counts, total |-> s.total]
  BY DEF IsSum
<1> DEFINE U == DOMAIN m.counts \cup DOMAIN o.counts
           fm == [k \in U |-> CountOf(m, k)]
           fo == [k \in U |-> CountOf(o, k)]
           c1 == CounterCapacity + 1
<1>1. IsFiniteSet(U) /\ U \subseteq Keys BY FS_Union DEF CountersShape
<1>2. \A k : CountOf(m, k) \in Nat /\ CountOf(o, k) \in Nat BY CountersType
<1>3. s.counts \in [U -> Nat] /\ DOMAIN s.counts = U BY <1>0, <1>2
<1>4. CountersShape(s) BY <1>0, <1>1, <1>3 DEF CountersShape
<1>5. \A k \in U : fm[k] \in Nat /\ fo[k] \in Nat /\ s.counts[k] = fm[k] + fo[k] BY <1>0, <1>2
<1>6. /\ \A k \in DOMAIN m.counts : m.counts[k] = fm[k]
      /\ \A k \in U \ DOMAIN m.counts : fm[k] = 0
      /\ \A k \in DOMAIN o.counts : o.counts[k] = fo[k]
      /\ \A k \in U \ DOMAIN o.counts : fo[k] = 0
  BY DEF CountOf
<1>7. DOMAIN m.counts \in SUBSET U /\ DOMAIN o.counts \in SUBSET U OBVIOUS
<1>8. \A k : k \notin U => CountOf(m, k) = 0 /\ CountOf(o, k) = 0 BY DEF CountOf
<1>9. \A k : CountOf(s, k) = CountOf(m, k) + CountOf(o, k)
  <2> SUFFICES ASSUME NEW k PROVE CountOf(s, k) = CountOf(m, k) + CountOf(o, k) OBVIOUS
  <2>1. CASE k \in U
    <3>1. CountOf(s, k) = s.counts[k] BY <1>3, <2>1 DEF CountOf
    <3>2. fm[k] = CountOf(m, k) /\ fo[k] = CountOf(o, k) BY <2>1
    <3> QED BY <1>5, <2>1, <3>1, <3>2
  <2>2. CASE k \notin U
    <3>1. CountOf(s, k) = 0 BY <1>3, <2>2 DEF CountOf
    <3> QED BY <1>8, <2>2, <3>1
  <2> QED BY <2>1, <2>2
<1> HIDE DEF fm, fo, U
<1>10. Weight(fm, U) = Weighs(m) BY <1>6, <1>7, WeightZeros DEF Weighs
<1>11. Weight(fo, U) = Weighs(o) BY <1>6, <1>7, WeightZeros DEF Weighs
<1>12. Weight(s.counts, U) = Weight(fm, U) + Weight(fo, U)
  <2> DEFINE h == s.counts
  <2>1. \A k \in U : fm[k] \in Nat /\ fo[k] \in Nat /\ h[k] = fm[k] + fo[k] BY <1>5
  <2> HIDE DEF h
  <2>2. Weight(h, U) = Weight(fm, U) + Weight(fo, U) BY <1>1, <2>1, WeightSum
  <2> QED BY <2>2 DEF h
<1>13. Weighs(s) = Weighs(m) + Weighs(o) BY <1>3, <1>10, <1>11, <1>12 DEF Weighs
<1>14. c1 \in Nat BY CounterAssumption
<1>15. Weighs(m) \in Nat /\ Weighs(o) \in Nat /\ m.total \in Nat /\ o.total \in Nat
  BY CountersType DEF CountersShape
<1>16. ASSUME NEW k \in Keys
       PROVE  /\ CountOf(s, k) <= f[k] + g[k]
              /\ ((f[k] + g[k]) - CountOf(s, k)) * c1 + Weighs(s) <= s.total
  <2> DEFINE a == f[k] - CountOf(m, k)
             b == g[k] - CountOf(o, k)
  <2>1. CountOf(m, k) <= f[k] /\ CountOf(o, k) <= g[k] BY DEF CountersFit
  <2>2. a * c1 + Weighs(m) <= m.total /\ b * c1 + Weighs(o) <= o.total BY DEF CountersFit
  <2>3. f[k] \in Nat /\ g[k] \in Nat /\ CountOf(m, k) \in Nat /\ CountOf(o, k) \in Nat
    BY <1>2
  <2>4. a \in Int /\ b \in Int /\ (f[k] + g[k]) - CountOf(s, k) = a + b BY <1>9, <2>3
  <2> HIDE DEF a, b, c1
  <2>5. (a + b) * c1 = a * c1 + b * c1 /\ a * c1 \in Int /\ b * c1 \in Int
    BY <1>14, <2>4, TimesSum
  <2>6. (a + b) * c1 + Weighs(s) <= s.total BY <1>0, <1>13, <1>15, <2>2, <2>5
  <2> QED BY <1>9, <2>1, <2>3, <2>4, <2>6
<1>17. ASSUME NEW k \in Keys
       PROVE  /\ CountOf(s, k) <= AddedUp(f, g)[k]
              /\ (AddedUp(f, g)[k] - CountOf(s, k)) * (CounterCapacity + 1) + Weighs(s) <= s.total
  <2> DEFINE x == AddedUp(f, g)[k]
             y == f[k] + g[k]
  <2>1. x = y BY DEF AddedUp
  <2>2. CountOf(s, k) <= y /\ (y - CountOf(s, k)) * (CounterCapacity + 1) + Weighs(s) <= s.total
    BY <1>16
  <2> HIDE DEF x, y
  <2>3. CountOf(s, k) <= x /\ (x - CountOf(s, k)) * (CounterCapacity + 1) + Weighs(s) <= s.total
    BY <2>1, <2>2, Zenon
  <2> QED BY <2>3 DEF x
<1> QED BY <1>4, <1>17, Zenon DEF CountersFit

(* What a trim takes from every counter is enough of them to be paid for   *)
(* by the weight it drops: at least capacity + 1 counters lose all of dec. *)
LEMMA TrimFits ==
  ASSUME NEW s, CountersShape(s), NEW truth \in [Keys -> Nat], CountersFit(s, truth),
         NEW n, n.counts = TrimToCapacity(s.counts), n.total = s.total,
         n = [counts |-> n.counts, total |-> n.total]
  PROVE  /\ CountersShape(n) /\ Cardinality(DOMAIN n.counts) <= CounterCapacity
         /\ CountersFit(n, truth)
<1> DEFINE f == s.counts
           D == DOMAIN s.counts
           C == CounterCapacity
           excess == Cardinality(D) - C
           P(c) == /\ Cardinality({k \in D : f[k] < c}) < excess
                   /\ Cardinality({k \in D : f[k] <= c}) >= excess
           dec == CHOOSE c \in {f[k] : k \in D} : P(c)
<1>1. C \in Nat /\ Cardinality(D) \in Nat BY CounterAssumption, CountersType
<1>2. IsFiniteSet(D) /\ f \in [D -> Nat] /\ D \subseteq Keys /\ s.total \in Nat BY DEF CountersShape
<1>3. TrimToCapacity(f) = IF Cardinality(D) > C THEN Decremented(f, dec) ELSE f
  BY Zenon DEF TrimToCapacity
<1>4. CASE ~ (Cardinality(D) > C)
  <2>1. n.counts = s.counts BY <1>3, <1>4
  <2>2. n = s BY <2>1 DEF CountersShape
  <2> QED BY <1>1, <1>4, <2>2
<1>5. CASE Cardinality(D) > C
  <2>1. excess \in Nat /\ excess >= 1 /\ excess <= Cardinality(D) BY <1>1, <1>5
  <2>2. \E c \in {f[k] : k \in D} : P(c)
    <3> DEFINE e == excess
    <3>1. e \in Nat /\ e >= 1 /\ e <= Cardinality(D) BY <2>1
    <3>2. \A k \in D : f[k] \in Nat BY <1>2
    <3>0. IsFiniteSet(D) BY <1>2
    <3> HIDE DEF e, f, D
    <3>3. \E c : IsNth(c, f, D, e) BY <3>0, <3>1, <3>2, NthSmallest
    <3> QED BY <3>3 DEF IsNth, e
  <2>3. dec \in {f[k] : k \in D} /\ P(dec)
    <3> HIDE DEF P, f, D
    <3> QED BY <2>2
  <2>4. dec \in Nat BY <1>2, <2>3
  <2> DEFINE Lower == {k \in D : f[k] < dec}
             Gone  == {k \in D : f[k] <= dec}
             E     == {k \in D : f[k] >= dec}
             R     == {k \in D : f[k] > dec}
  <2>5. Cardinality(Lower) < excess /\ Cardinality(Gone) >= excess BY <2>3
  <2>6. n.counts = Decremented(f, dec) BY <1>3, <1>5
  <2> HIDE DEF dec, P
  <2>7. IsDecrement(n, s, dec) BY <1>2, <2>4, <2>6, DecrementCount
  <2>8. CountersShape(n) /\ DOMAIN n.counts = R BY <2>7 DEF IsDecrement
  <2>9. /\ Lower \cup E = D /\ Lower \cap E = {} /\ Gone \cup R = D /\ Gone \cap R = {}
        /\ Lower \subseteq D /\ E \subseteq D /\ Gone \subseteq D /\ R \subseteq D
    BY <1>2, <2>4
  <2> HIDE DEF Lower, Gone
  <2>10. IsFiniteSet(Lower) /\ IsFiniteSet(E) /\ IsFiniteSet(Gone) /\ IsFiniteSet(R)
    BY <1>2, <2>9, FS_Subset
  <2>11. /\ Cardinality(D) = Cardinality(Lower) + Cardinality(E)
         /\ Cardinality(Lower) \in Nat /\ Cardinality(E) \in Nat
    <3> HIDE DEF E, D
    <3> QED BY <2>9, <2>10, DisjointUnion
  <2>12. /\ Cardinality(D) = Cardinality(Gone) + Cardinality(R)
         /\ Cardinality(Gone) \in Nat /\ Cardinality(R) \in Nat
    <3> HIDE DEF R, D
    <3> QED BY <2>9, <2>10, DisjointUnion
  <2>13. Cardinality(R) <= C BY <1>1, <2>5, <2>12
  <2>14. Cardinality(E) >= C + 1 BY <1>1, <2>5, <2>11
  <2>15. (C + 1) * dec <= Cardinality(E) * dec
    <3> DEFINE a == C + 1
               b == Cardinality(E)
    <3>1. a \in Int /\ b \in Int /\ a <= b BY <1>1, <2>11, <2>14
    <3> HIDE DEF a, b
    <3>2. a * dec <= b * dec BY <2>4, <3>1, TimesMonotone
    <3> QED BY <3>2 DEF a, b
  <2>16. /\ Weight(Decremented(f, dec), DOMAIN Decremented(f, dec)) \in Nat
         /\ Weight(Decremented(f, dec), DOMAIN Decremented(f, dec)) + Cardinality(E) * dec
              <= Weight(f, D)
    <3>1. E \in SUBSET D /\ (\A k \in E : f[k] >= dec) /\ \A k \in D : f[k] > dec => k \in E
      BY <1>2, <2>4
    <3> HIDE DEF E, D, f
    <3> QED BY <1>2, <2>4, <3>1, DecrementLoses
  <2>17. Weighs(n) \in Nat /\ Weighs(n) + Cardinality(E) * dec <= Weighs(s)
    BY <2>6, <2>16 DEF Weighs
  <2>18. dec * (C + 1) = (C + 1) * dec /\ (C + 1) * dec \in Int /\ Cardinality(E) * dec \in Int
    <3> HIDE DEF E, C
    <3> QED BY <1>1, <2>4, <2>11
  <2>19. Weighs(n) + dec * (C + 1) <= Weighs(s) + 0
    <3>1. Weighs(s) \in Nat BY CountersType
    <3> HIDE DEF E, C
    <3> QED BY <2>15, <2>17, <2>18, <3>1
  <2>20. ASSUME NEW k \in Keys
         PROVE  /\ CountOf(n, k) <= truth[k]
                /\ truth[k] - CountOf(n, k) <= truth[k] - CountOf(s, k) + dec
    <3>1. CountOf(n, k) <= CountOf(s, k) /\ CountOf(s, k) <= CountOf(n, k) + dec
      BY <2>7 DEF IsDecrement
    <3>2. CountOf(n, k) \in Nat /\ CountOf(s, k) \in Nat BY <2>8, CountersType
    <3>3. CountOf(s, k) <= truth[k] /\ truth[k] \in Nat BY DEF CountersFit
    <3> QED BY <2>4, <3>1, <3>2, <3>3
  <2>21. n.total = s.total + 0 BY <1>2
  <2>22. CountersFit(n, truth)
    BY <2>4, <2>8, <2>19, <2>20, <2>21, FitByLoss
  <2> QED BY <2>8, <2>13, <2>22
<1> QED BY <1>4, <1>5

(* A merge of two summaries that fit, fits. *)
LEMMA MergeFits ==
  ASSUME NEW m, CountersShape(m), NEW o, CountersShape(o),
         NEW f \in [Keys -> Nat], NEW g \in [Keys -> Nat], CountersFit(m, f), CountersFit(o, g)
  PROVE  /\ CountersShape(MergeCounters(m, o))
         /\ Cardinality(DOMAIN MergeCounters(m, o).counts) <= CounterCapacity
         /\ CountersFit(MergeCounters(m, o), AddedUp(f, g))
<1> DEFINE s == [counts |-> [k \in DOMAIN m.counts \cup DOMAIN o.counts |->
                              CountOf(m, k) + CountOf(o, k)],
                 total |-> m.total + o.total]
           n == MergeCounters(m, o)
<1>1. IsSum(s, m, o) BY DEF IsSum
<1>2. /\ n.counts = TrimToCapacity(s.counts) /\ n.total = s.total
      /\ n = [counts |-> n.counts, total |-> n.total]
  BY DEF MergeCounters
<1>3. AddedUp(f, g) \in [Keys -> Nat] BY DEF AddedUp
<1> HIDE DEF s, n
<1>4. CountersShape(s) /\ CountersFit(s, AddedUp(f, g)) BY <1>1, SumsFit
<1> DEFINE h == AddedUp(f, g)
<1> HIDE DEF h
<1>5. /\ CountersShape(n) /\ Cardinality(DOMAIN n.counts) <= CounterCapacity
      /\ CountersFit(n, h)
  <2>1. h \in [Keys -> Nat] /\ CountersFit(s, h) BY <1>3, <1>4 DEF h
  <2> QED BY <1>2, <1>4, <2>1, TrimFits
<1> QED BY <1>5 DEF n, h

(* Induction up to n: P is the set of numbers that are fine. *)
LEMMA UpTo ==
  ASSUME NEW n \in Nat, NEW P, 0 \in P, \A m \in 1 .. n : m - 1 \in P => m \in P
  PROVE  \A m \in 0 .. n : m \in P
<1> DEFINE T == {m \in 0 .. n : m \notin P}
<1> SUFFICES ASSUME T # {} PROVE FALSE
  OBVIOUS
<1>0. T \in SUBSET Nat /\ T # {}
  OBVIOUS
<1> HIDE DEF T
<1>1. PICK m \in T : \A y \in T : m <= y
  BY <1>0, LeastNat
<1> USE DEF T
<1>2. m \in 1 .. n /\ m - 1 \in 0 .. n /\ ~ (m <= m - 1)
  BY <1>1
<1>3. m - 1 \in P
  BY <1>1, <1>2
<1> QED
  BY <1>1, <1>2, <1>3

(* The largest of some of the numbers 1 .. n is one of them. *)
LEMMA MaxIn ==
  ASSUME NEW n \in Nat, NEW t \in SUBSET (1 .. n), t # {}
  PROVE  Max(t) \in t
<1>1. IsFiniteSet(1 .. n) BY FS_Interval
<1>2. IsFiniteSet(t) BY <1>1, FS_Subset, Zenon
<1>4. t \in SUBSET Nat OBVIOUS
<1>3. \E x \in t : \A y \in t : x >= y BY <1>2, <1>4, GreatestNat
<1> QED BY <1>3, Zenon DEF Max

(* The largest of 1 .. m, and of a set that has m + 1 besides. *)
LEMMA MaxOfInitial ==
  ASSUME NEW m \in Nat \ {0}, NEW t \in SUBSET (1 .. m), m \in t
  PROVE  Max(t) = m
<1> DEFINE P(x) == \A y \in t : x >= y
<1>1. m \in t /\ P(m)
  OBVIOUS
<1>2. \A x \in t : P(x) => x = m
  OBVIOUS
<1> HIDE DEF P
<1>3. Max(t) = CHOOSE x \in t : P(x)
  BY DEF Max, P
<1> QED
  BY <1>1, <1>2, <1>3

(* Entries of a snapshot, and what reading them one by one makes. *)
EntriesOf(f, key, n) == [i \in 1 .. n |-> <<key[i], f[key[i]]>>]

ReadEntries(entries) ==
  FoldLeft(LAMBDA counts, e : WithCount(counts, e[1], e[2]), EmptyCounters.counts, entries)

Enumerates(key, n, D) == key \in [1 .. n -> D] /\ \A k \in D : \E i \in 1 .. n : key[i] = k

(* Reading the counters one by one, in any order of their keys, gives them *)
(* back: after some of them the summary has exactly those.                 *)
LEMMA ReadCountersIs ==
  ASSUME NEW D, NEW f, NEW n \in Nat, NEW key, Enumerates(key, n, D), f = [k \in D |-> f[k]]
  PROVE  ReadEntries(EntriesOf(f, key, n)) = f
<1> DEFINE entries == EntriesOf(f, key, n)
<1>0. key \in [1 .. n -> D] /\ \A k \in D : \E i \in 1 .. n : key[i] = k BY DEF Enumerates
<1> DEFINE base == EmptyCounters.counts
           Part(t) == [k \in {key[i] : i \in t} |-> f[k]]
           Eq(g) == g = [t \in SUBSET DOMAIN entries |->
                           IF t = {} THEN base
                           ELSE WithCount(g[t \ {Max(t)}], entries[Max(t)][1], entries[Max(t)][2])]
           G == CHOOSE g : Eq(g)
           h == [t \in SUBSET (1 .. n) |-> Part(t)]
<1>1. ReadEntries(entries) = G[DOMAIN entries]
  BY Zenon DEF ReadEntries, FoldLeft, MapThenFoldSet
<1>2. DOMAIN entries = 1 .. n /\ \A i \in 1 .. n : entries[i][1] = key[i] /\ entries[i][2] = f[key[i]]
  BY DEF EntriesOf
<1>3. Part({}) = base BY DEF EmptyCounters
<1>4. ASSUME NEW t \in SUBSET (1 .. n), NEW i \in t
      PROVE  Part(t) = WithCount(Part(t \ {i}), entries[i][1], entries[i][2])
  <2>1. i \in 1 .. n OBVIOUS
  <2>2. WithCount(Part(t \ {i}), key[i], f[key[i]])
          = [k \in {key[j] : j \in t \ {i}} \cup {key[i]} |->
               IF k = key[i] THEN f[key[i]] ELSE Part(t \ {i})[k]]
    BY DEF WithCount
  <2>3. {key[j] : j \in t \ {i}} \cup {key[i]} = {key[j] : j \in t} OBVIOUS
  <2>4. \A k \in {key[j] : j \in t} :
          (IF k = key[i] THEN f[key[i]] ELSE Part(t \ {i})[k]) = f[k]
    OBVIOUS
  <2>5. WithCount(Part(t \ {i}), key[i], f[key[i]]) = Part(t) BY <2>2, <2>3, <2>4
  <2> QED BY <1>2, <2>1, <2>5
<1> HIDE DEF Part, base, entries
<1>5. Eq(h)
  <2>1. ASSUME NEW t \in SUBSET (1 .. n)
        PROVE  h[t] = IF t = {} THEN base
                      ELSE WithCount(h[t \ {Max(t)}], entries[Max(t)][1], entries[Max(t)][2])
    <3>1. CASE t = {} BY <1>3, <3>1
    <3>2. CASE t # {}
      <4>1. Max(t) \in t BY <3>2, MaxIn
      <4>2. h[t] = Part(t) /\ h[t \ {Max(t)}] = Part(t \ {Max(t)}) OBVIOUS
      <4>3. Part(t) = WithCount(Part(t \ {Max(t)}), entries[Max(t)][1], entries[Max(t)][2])
        BY <1>4, <4>1
      <4> QED BY <3>2, <4>2, <4>3
    <3> QED BY <3>1, <3>2
  <2>2. h = [t \in SUBSET (1 .. n) |-> h[t]] OBVIOUS
  <2> HIDE DEF h
  <2>3. [t \in SUBSET (1 .. n) |-> h[t]]
          = [t \in SUBSET (1 .. n) |->
               IF t = {} THEN base
               ELSE WithCount(h[t \ {Max(t)}], entries[Max(t)][1], entries[Max(t)][2])]
    BY <2>1
  <2> QED BY <1>2, <2>2, <2>3, Zenon
<1>6. Eq(G)
  <2> HIDE DEF Eq, h
  <2> QED BY <1>5
<1>7. \A t \in SUBSET (1 .. n) :
        G[t] = IF t = {} THEN base
               ELSE WithCount(G[t \ {Max(t)}], entries[Max(t)][1], entries[Max(t)][2])
  <2> HIDE DEF G
  <2> QED BY <1>2, <1>6, Zenon
<1> HIDE DEF G, Eq, h
<1> DEFINE P == {m \in 0 .. n : G[1 .. m] = Part(1 .. m)}
<1>8. 0 \in P
  <2>1. 1 .. 0 = {} /\ {} \in SUBSET (1 .. n) /\ 0 \in 0 .. n OBVIOUS
  <2> QED BY <1>3, <1>7, <2>1
<1>9. ASSUME NEW m \in 1 .. n, m - 1 \in P PROVE m \in P
  <2>1. /\ 1 .. m \in SUBSET (1 .. n) /\ m \in 1 .. m /\ 1 .. m # {} /\ m \in Nat \ {0}
        /\ (1 .. m) \ {m} = 1 .. m - 1
    OBVIOUS
  <2>2. Max(1 .. m) = m BY <2>1, MaxOfInitial
  <2> DEFINE u == 1 .. m
  <2>6. u \in SUBSET (1 .. n) /\ u # {} /\ Max(u) = m /\ u \ {m} = 1 .. m - 1 BY <2>1, <2>2
  <2> HIDE DEF u
  <2>7. G[u] = WithCount(G[u \ {Max(u)}], entries[Max(u)][1], entries[Max(u)][2])
    BY <1>7, <2>6, Zenon
  <2>8. G[u] = WithCount(G[1 .. m - 1], entries[m][1], entries[m][2]) BY <2>6, <2>7, Zenon
  <2>3. G[1 .. m] = WithCount(G[1 .. m - 1], entries[m][1], entries[m][2]) BY <2>8, Zenon DEF u
  <2>4. G[1 .. m - 1] = Part(1 .. m - 1) BY <1>9
  <2>5. Part(1 .. m) = WithCount(Part(1 .. m - 1), entries[m][1], entries[m][2])
    BY <1>4, <2>1
  <2> QED BY <2>3, <2>4, <2>5
<1> HIDE DEF P
<1>10. n \in P BY <1>8, <1>9, UpTo
<1>11. G[1 .. n] = Part(1 .. n) BY <1>10 DEF P
<1>12. {key[i] : i \in 1 .. n} = D BY <1>0
<1>13. Part(1 .. n) = f BY <1>12 DEF Part
<1> QED BY <1>1, <1>2, <1>11, <1>13 DEF entries

(* Key order is a strict order, and the keys below a key are counted by it. *)
LEMMA KeyOrder ==
  ASSUME NEW D \in SUBSET Keys
  PROVE  LET R == {p \in D \X D : p[1] < p[2]}
         IN  /\ StrictOrder(R, D)
             /\ \A k \in D : Above(R, D, k) = {j \in D : j < k}
<1> DEFINE R == {p \in D \X D : p[1] < p[2]}
<1>1. D \subseteq Nat BY KeysAssumption
<1>2. \A a, b \in D : <<a, b>> \in R <=> a < b OBVIOUS
<1> HIDE DEF R
<1>3. StrictOrder(R, D) BY <1>1, <1>2 DEF StrictOrder
<1>4. \A k \in D : Above(R, D, k) = {j \in D : j < k} BY <1>2 DEF Above
<1> QED BY <1>3, <1>4 DEF R

(* The keys of a finite set in order. *)
KeyAt(D) ==
  [i \in 1 .. Cardinality(D) |-> CHOOSE k \in D : Cardinality({j \in D : j < k}) = i - 1]

(* They are all there. *)
LEMMA KeysInOrder ==
  ASSUME NEW D \in SUBSET Keys, IsFiniteSet(D)
  PROVE  Enumerates(KeyAt(D), Cardinality(D), D)
<1> DEFINE key == KeyAt(D)
           R == {p \in D \X D : p[1] < p[2]}
           n == Cardinality(D)
           rank(k) == Cardinality({j \in D : j < k})
<1>1. StrictOrder(R, D) /\ \A k \in D : Above(R, D, k) = {j \in D : j < k} BY KeyOrder
<1>2. n \in Nat BY FS_CardinalityType
<1> HIDE DEF R
<1>3. \A k \in D : rank(k) = Cardinality(Above(R, D, k)) BY <1>1
<1>4. \A i \in 0 .. n - 1 : \E k \in D : rank(k) = i
  <2>1. \A i \in 0 .. n - 1 : \E k \in D : Cardinality(Above(R, D, k)) = i
    BY <1>1, RanksFill
  <2> QED BY <1>3, <2>1
<1>5. \A k \in D : rank(k) \in 0 .. n - 1 BY <1>1, <1>3, RankRises
<1>6. \A j, k \in D : rank(j) = rank(k) => j = k
  <2> SUFFICES ASSUME NEW j \in D, NEW k \in D, rank(j) = rank(k), j # k PROVE FALSE OBVIOUS
  <2>1. <<j, k>> \in R \/ <<k, j>> \in R BY <1>1 DEF StrictOrder
  <2>2. rank(j) < rank(k) \/ rank(k) < rank(j) BY <1>1, <1>3, <2>1, RankRises
  <2> QED BY <1>5, <2>2
<1> HIDE DEF rank
<1>7. \A i \in 1 .. n : key[i] = CHOOSE k \in D : rank(k) = i - 1 BY DEF rank, KeyAt
<1>8. ASSUME NEW i \in 1 .. n PROVE key[i] \in D /\ rank(key[i]) = i - 1
  <2>1. i - 1 \in 0 .. n - 1 BY <1>2
  <2>2. \E k \in D : rank(k) = i - 1 BY <1>4, <2>1
  <2> QED BY <1>7, <2>2
<1>9. key \in [1 .. n -> D] BY <1>8 DEF KeyAt
<1>10. ASSUME NEW k \in D PROVE \E i \in 1 .. n : key[i] = k
  <2>1. rank(k) + 1 \in 1 .. n /\ (rank(k) + 1) - 1 = rank(k) BY <1>2, <1>5
  <2>2. key[rank(k) + 1] \in D /\ rank(key[rank(k) + 1]) = rank(k) BY <1>8, <2>1
  <2> QED BY <1>6, <2>1, <2>2
<1> QED BY <1>9, <1>10 DEF Enumerates

(* A snapshot of the counters is read back as it was. *)
LEMMA RestoreCountersIs ==
  ASSUME NEW m, CountersShape(m)
  PROVE  ReadCounters(WriteCounters(m)) = m
<1> DEFINE D == DOMAIN m.counts
           n == Cardinality(D)
           f == m.counts
           entries == EntriesOf(f, KeyAt(D), n)
<1>1. D \in SUBSET Keys /\ IsFiniteSet(D) /\ f = [k \in D |-> f[k]] BY DEF CountersShape
<1>2. n \in Nat BY <1>1, FS_CardinalityType
<1>3. WriteCounters(m) = [total |-> m.total, entries |-> entries]
  BY Zenon DEF WriteCounters, EntriesOf, KeyAt
<1>4. Enumerates(KeyAt(D), n, D) BY <1>1, KeysInOrder
<1>5. ReadEntries(entries) = f
  <2> DEFINE key == KeyAt(D)
  <2>1. Enumerates(key, n, D) BY <1>4
  <2>2. ReadEntries(EntriesOf(f, key, n)) = f
    <3> HIDE DEF key, D, n, f
    <3> QED BY <1>1, <1>2, <2>1, ReadCountersIs
  <2> QED BY <2>2
<1>6. ReadCounters(WriteCounters(m)) =
        [counts |-> ReadEntries(WriteCounters(m).entries), total |-> WriteCounters(m).total]
  BY Zenon DEF ReadCounters, ReadEntries
<1>7. WriteCounters(m).entries = entries /\ WriteCounters(m).total = m.total
  <2> HIDE DEF entries
  <2> QED BY <1>3
<1>8. ReadCounters(WriteCounters(m)) = [counts |-> f, total |-> m.total]
  <2> HIDE DEF entries, f
  <2> QED BY <1>5, <1>6, <1>7, Zenon
<1> QED BY <1>8 DEF CountersShape

(* The inductive invariant of the summaries. *)
CountersGood(m, truth) ==
  /\ CountersShape(m) /\ CountersFit(m, truth)
  /\ Cardinality(DOMAIN m.counts) <= CounterCapacity

MisraInv ==
  /\ misra = [r \in Replica |-> misra[r]]
  /\ \A r \in Replica : CountersGood(misra[r], exact[r].counts)

(* An update, whichever way it goes. *)
LEMMA AddCountGood ==
  ASSUME NEW m, NEW truth \in [Keys -> Nat], CountersGood(m, truth), NEW k \in Keys, NEW w \in Nat
  PROVE  CountersGood(AddCount(m, k, w), [truth EXCEPT ![k] = @ + w])
<1>1. CountersShape(m) /\ CountersFit(m, truth) /\ Cardinality(DOMAIN m.counts) <= CounterCapacity
  BY DEF CountersGood
<1>2. Cardinality(DOMAIN m.counts) \in Nat /\ CounterCapacity \in Nat
  BY <1>1, CountersType, CounterAssumption
<1>3. CASE k \in DOMAIN m.counts BY <1>1, <1>3, AddCounted DEF CountersGood
<1>4. CASE k \notin DOMAIN m.counts /\ Cardinality(DOMAIN m.counts) < CounterCapacity
  BY <1>1, <1>4, AddFresh DEF CountersGood
<1>5. CASE k \notin DOMAIN m.counts /\ Cardinality(DOMAIN m.counts) = CounterCapacity
  BY <1>1, <1>5, AddFull DEF CountersGood
<1> QED BY <1>1, <1>2, <1>3, <1>4, <1>5

(* A step that replaces the summary and the truth of one replica. *)
LEMMA MisraReplace ==
  ASSUME MisraInv, ExactInv, NEW q \in Replica, NEW m, NEW e, CountersGood(m, e.counts),
         misra' = [misra EXCEPT ![q] = m], exact' = [exact EXCEPT ![q] = e]
  PROVE  MisraInv'
<1>1. DOMAIN misra = Replica /\ DOMAIN exact = Replica BY DEF MisraInv, ExactInv
<1>2. misra' = [r \in Replica |-> misra'[r]] BY <1>1
<1>3. ASSUME NEW r \in Replica PROVE CountersGood(misra'[r], exact'[r].counts)
  <2>1. CASE r = q
    <3>1. misra'[r] = m /\ exact'[r] = e BY <1>1, <2>1
    <3> QED BY <3>1
  <2>2. CASE r # q
    <3>1. misra'[r] = misra[r] /\ exact'[r] = exact[r] BY <1>1, <2>2
    <3> QED BY <3>1 DEF MisraInv
  <2> QED BY <2>1, <2>2
<1> QED BY <1>2, <1>3 DEF MisraInv

(* The summaries keep fitting at every step. *)
LEMMA MisraStep ==
  ASSUME ExactInv, MisraInv, Next
  PROVE  MisraInv'
<1>0. \A r \in Replica : exact[r].counts \in [Keys -> Nat] /\ exact[r] \in Exact BY DEF ExactInv, Exact
<1>1. CASE \E r \in Replica, k \in Keys : \E w \in Weights[k] : UpdateCounts(r, k, w)
  <2>1. PICK r \in Replica, k \in Keys : \E w \in Weights[k] : UpdateCounts(r, k, w) BY <1>1
  <2>2. PICK w \in Weights[k] : UpdateCounts(r, k, w) BY <2>1
  <2>3. w \in Nat BY SketchesAssumption
  <2> DEFINE m == AddCount(misra[r], k, w)
             e == ExactAdd(exact[r], k, w)
             truth == exact[r].counts
  <2>4. misra' = [misra EXCEPT ![r] = m] /\ exact' = [exact EXCEPT ![r] = e]
    BY <2>2 DEF UpdateCounts
  <2>5. e.counts = [truth EXCEPT ![k] = @ + w] BY <1>0, <2>3, ExactAddIs
  <2>6. CountersGood(misra[r], truth) /\ truth \in [Keys -> Nat] BY <1>0 DEF MisraInv
  <2>7. CountersGood(m, [truth EXCEPT ![k] = @ + w])
    <3> HIDE DEF truth
    <3> QED BY <2>3, <2>6, AddCountGood
  <2> HIDE DEF m, e, truth
  <2> QED BY <2>4, <2>5, <2>7, MisraReplace
<1>2. CASE \E r, o \in Replica : MergeCounts(r, o)
  <2>1. PICK r \in Replica, o \in Replica : MergeCounts(r, o) BY <1>2
  <2> DEFINE m == MergeCounters(misra[r], misra[o])
             e == ExactMerge(exact[r], exact[o])
             f == exact[r].counts
             g == exact[o].counts
  <2>4. misra' = [misra EXCEPT ![r] = m] /\ exact' = [exact EXCEPT ![r] = e]
    BY <2>1 DEF MergeCounts
  <2>5. e.counts = AddedUp(f, g) BY <1>0, ExactMergeIs, Zenon DEF AddedUp
  <2>6. /\ CountersGood(misra[r], f) /\ f \in [Keys -> Nat]
        /\ CountersGood(misra[o], g) /\ g \in [Keys -> Nat]
    BY <1>0 DEF MisraInv
  <2>7. CountersGood(m, AddedUp(f, g))
    <3> HIDE DEF f, g
    <3> QED BY <2>6, MergeFits DEF CountersGood
  <2> HIDE DEF m, e, f, g
  <2> QED BY <2>4, <2>5, <2>7, MisraReplace
<1>3. CASE \E r \in Replica : RestoreCounts(r)
  <2>1. PICK r \in Replica : RestoreCounts(r) BY <1>3
  <2>2. misra' = [misra EXCEPT ![r] = ReadCounters(WriteCounters(misra[r]))] /\ exact' = exact
    BY <2>1 DEF RestoreCounts
  <2>3. ReadCounters(WriteCounters(misra[r])) = misra[r]
    BY RestoreCountersIs DEF MisraInv, CountersGood
  <2>4. misra' = misra BY <2>2, <2>3 DEF MisraInv
  <2> QED BY <2>2, <2>4 DEF MisraInv
<1>4. CASE \E r \in Replica : ResetCounts(r)
  <2>1. PICK r \in Replica : ResetCounts(r) BY <1>4
  <2>2. misra' = [misra EXCEPT ![r] = EmptyCounters] /\ exact' = [exact EXCEPT ![r] = EmptyExact]
    BY <2>1 DEF ResetCounts
  <2>3. CountersGood(EmptyCounters, EmptyExact.counts)
    BY EmptyCountersFit, EmptyExactIs DEF CountersGood
  <2> QED BY <2>2, <2>3, MisraReplace
<1>5. CASE CountsStay
  <2>1. misra' = misra /\ \A r \in Replica : exact'[r].counts = exact[r].counts
    BY <1>5 DEF CountsStay, counting
  <2> QED BY <2>1 DEF MisraInv
<1> QED BY CountingCases, <1>1, <1>2, <1>3, <1>4, <1>5

(* Every summary Misra-Gries can reach through updates, merges, trims,     *)
(* snapshots and resets never overcounts a key, and undercounts none by    *)
(* more than total weight / (capacity + 1), for every capacity, key set    *)
(* and choice of weights.                                                  *)
THEOREM MisraGriesBounds == Spec => []MisraGriesSound
<1>1. Init => ExactInv /\ MisraInv
  <2> SUFFICES ASSUME Init PROVE ExactInv /\ MisraInv OBVIOUS
  <2>1. ExactInv BY TablesInit
  <2>2. CountersGood(EmptyCounters, EmptyExact.counts)
    BY EmptyCountersFit, EmptyExactIs DEF CountersGood
  <2>3. MisraInv BY <2>2 DEF Init, MisraInv
  <2> QED BY <2>1, <2>3
<1>2. (ExactInv /\ MisraInv) /\ [Next]_vars => (ExactInv /\ MisraInv)'
  <2> SUFFICES ASSUME ExactInv, MisraInv, [Next]_vars PROVE (ExactInv /\ MisraInv)' OBVIOUS
  <2>1. CASE Next BY <2>1, ExactStep, MisraStep
  <2>2. CASE UNCHANGED vars BY <2>2 DEF vars, counting, ExactInv, MisraInv
  <2> QED BY <2>1, <2>2
<1>3. ExactInv /\ MisraInv => MisraGriesSound
  <2> SUFFICES ASSUME ExactInv, MisraInv, NEW r \in Replica
               PROVE  CountersSound(misra[r], exact[r].counts)
    BY DEF MisraGriesSound
  <2> DEFINE m == misra[r]
             truth == exact[r].counts
  <2>1. CountersShape(m) /\ CountersFit(m, truth) /\ Cardinality(DOMAIN m.counts) <= CounterCapacity
    BY DEF MisraInv, CountersGood
  <2>2. truth \in [Keys -> Nat] BY DEF ExactInv, Exact
  <2> HIDE DEF m, truth
  <2>3. ASSUME NEW k \in Keys
        PROVE  (truth[k] - CountOf(m, k)) * (CounterCapacity + 1) <= m.total
    <3> DEFINE x == (truth[k] - CountOf(m, k)) * (CounterCapacity + 1)
    <3>1. CountOf(m, k) \in Nat /\ truth[k] \in Nat /\ CounterCapacity \in Nat
          /\ Weighs(m) \in Nat /\ m.total \in Nat
      BY <2>1, <2>2, CountersType, CounterAssumption DEF CountersShape
    <3>2. x + Weighs(m) <= m.total BY <2>1 DEF CountersFit
    <3>3. x \in Int BY <3>1
    <3> HIDE DEF x
    <3>4. x <= m.total BY <3>1, <3>2, <3>3
    <3> QED BY <3>4 DEF x
  <2>4. CountersSound(m, truth) BY <2>1, <2>3 DEF CountersSound, CountersFit
  <2> QED BY <2>4 DEF m, truth
<1> QED BY <1>1, <1>2, <1>3, PTL DEF Spec

-------------------------------------------------------------------------------
(* SpaceSaving. *)

(* The shape of a summary: finitely many keys, with an entry each. *)
SummaryShape(s) ==
  /\ s = [entries |-> s.entries, total |-> s.total]
  /\ IsFiniteSet(Tracked(s)) /\ Tracked(s) \subseteq Keys
  /\ s.entries \in [Tracked(s) -> Entry]
  /\ s.total \in Nat

CountsIn(s) == [k \in Tracked(s) |-> s.entries[k].count]

Held(s) == Weight(CountsIn(s), Tracked(s))

(* What the promises of a summary rest on: the counts it holds add up to no*)
(* more than the weight it was given, so that the minimum of a full summary*)
(* is at most total / capacity.                                            *)
SummaryFit(s, truth) ==
  /\ Cardinality(Tracked(s)) <= Capacity
  /\ \A k \in Tracked(s) :
       /\ truth[k] <= s.entries[k].count
       /\ s.entries[k].count <= truth[k] + s.entries[k].error
       /\ s.entries[k].error <= s.entries[k].count
       /\ s.entries[k].error * Capacity <= s.total
  /\ \A k \in Keys \ Tracked(s) : truth[k] <= Unseen(s)
  /\ Held(s) <= s.total

SummaryGood(s, truth) == SummaryShape(s) /\ SummaryFit(s, truth)

(* The parts of a summary are of their types. *)
LEMMA SummaryType ==
  ASSUME NEW s, SummaryShape(s)
  PROVE  /\ Cardinality(Tracked(s)) \in Nat /\ IsFiniteSet(Tracked(s)) /\ Tracked(s) \subseteq Keys
         /\ s.total \in Nat /\ Held(s) \in Nat /\ Capacity \in Nat /\ Capacity >= 1
         /\ DOMAIN s.entries = Tracked(s)
         /\ \A k \in Tracked(s) :
              /\ s.entries[k] \in Entry /\ s.entries[k].count \in Nat /\ s.entries[k].error \in Nat
              /\ CountsIn(s)[k] = s.entries[k].count /\ CountsIn(s)[k] \in Nat
<1>1. IsFiniteSet(Tracked(s)) /\ Tracked(s) \subseteq Keys /\ s.total \in Nat
      /\ s.entries \in [Tracked(s) -> Entry]
  BY DEF SummaryShape
<1>2. Cardinality(Tracked(s)) \in Nat BY <1>1, FS_CardinalityType
<1>3. ASSUME NEW k \in Tracked(s)
      PROVE  /\ s.entries[k] \in Entry /\ s.entries[k].count \in Nat /\ s.entries[k].error \in Nat
             /\ CountsIn(s)[k] = s.entries[k].count /\ CountsIn(s)[k] \in Nat
  BY <1>1 DEF Entry, CountsIn
<1>4. Held(s) \in Nat
  <2>1. \A k \in Tracked(s) : CountsIn(s)[k] \in Nat BY <1>3
  <2> QED BY <1>1, <2>1, AreaFinite DEF Held
<1>5. Capacity \in Nat /\ Capacity >= 1 BY SummaryAssumption
<1> QED BY <1>1, <1>2, <1>3, <1>4, <1>5

(* The order of the heap is a strict order of the tracked keys. *)
LEMMA SlotOrder ==
  ASSUME NEW s, SummaryShape(s)
  PROVE  LET R == {p \in Tracked(s) \X Tracked(s) : SlotIsLess(s.entries, p[1], p[2])}
         IN  /\ StrictOrder(R, Tracked(s))
             /\ \A a, b \in Tracked(s) : <<a, b>> \in R <=> SlotIsLess(s.entries, a, b)
<1> DEFINE D == Tracked(s)
           R == {p \in D \X D : SlotIsLess(s.entries, p[1], p[2])}
           c(a) == s.entries[a].count
           d(a) == Digest[a]
<1>1. \A a, b \in D : <<a, b>> \in R <=> SlotIsLess(s.entries, a, b) OBVIOUS
<1>2. \A a \in D : c(a) \in Nat /\ d(a) \in Nat /\ a \in Nat
  BY SummaryType, SummaryAssumption, KeysAssumption
<1>3. \A a, b \in D : SlotIsLess(s.entries, a, b) <=>
        \/ c(a) < c(b)
        \/ c(a) = c(b) /\ (d(a) < d(b) \/ (d(a) = d(b) /\ a < b))
  BY DEF SlotIsLess
<1> HIDE DEF R, c, d, D
<1>4. \A a \in D : <<a, a>> \notin R BY <1>1, <1>2, <1>3
<1>5. \A a, b \in D : a # b => (<<a, b>> \in R \/ <<b, a>> \in R) BY <1>1, <1>2, <1>3
<1>6. ASSUME NEW x \in D, NEW y \in D, NEW z \in D, <<x, y>> \in R, <<y, z>> \in R
      PROVE  <<x, z>> \in R
  <2>1. SlotIsLess(s.entries, x, y) /\ SlotIsLess(s.entries, y, z) BY <1>1, <1>6
  <2> QED BY <1>1, <1>2, <1>3, <2>1
<1>7. StrictOrder(R, D) BY <1>4, <1>5, <1>6 DEF StrictOrder
<1> QED BY <1>1, <1>7 DEF R, D

(* The minimum slot of a summary that tracks anything. *)
LEMMA MinimumIs ==
  ASSUME NEW s, SummaryShape(s), Tracked(s) # {}
  PROVE  /\ MinimumSlot(s) \in Tracked(s)
         /\ \A j \in Tracked(s) : s.entries[MinimumSlot(s)].count <= s.entries[j].count
         /\ MinimumCount(s) = s.entries[MinimumSlot(s)].count
         /\ MinimumCount(s) \in Nat
<1> DEFINE D == Tracked(s)
           R == {p \in D \X D : SlotIsLess(s.entries, p[1], p[2])}
<1>1. StrictOrder(R, D) /\ \A a, b \in D : <<a, b>> \in R <=> SlotIsLess(s.entries, a, b)
  BY SlotOrder, Zenon
<1>2. \E k \in D : \A j \in D \ {k} : <<k, j>> \in R
  <2> HIDE DEF R
  <2> QED BY <1>1, SummaryType, FirstOne
<1>3. \E k \in D : \A j \in D \ {k} : SlotIsLess(s.entries, k, j) BY <1>1, <1>2
<1>4. /\ MinimumSlot(s) \in D
      /\ \A j \in D \ {MinimumSlot(s)} : SlotIsLess(s.entries, MinimumSlot(s), j)
  BY <1>3 DEF MinimumSlot
<1>5. \A j \in D : s.entries[j].count \in Nat BY SummaryType
<1>6. \A j \in D : s.entries[MinimumSlot(s)].count <= s.entries[j].count
  BY <1>4, <1>5 DEF SlotIsLess
<1>7. MinimumCount(s) = s.entries[MinimumSlot(s)].count BY DEF MinimumCount
<1> QED BY <1>4, <1>5, <1>6, <1>7

(* What a key that is not tracked may have counted: at most every count,   *)
(* and the largest such bound for a full summary.                          *)
LEMMA UnseenIs ==
  ASSUME NEW s, SummaryShape(s)
  PROVE  /\ Unseen(s) \in Nat
         /\ \A k \in Tracked(s) : Unseen(s) <= s.entries[k].count
         /\ ~Full(s) => Unseen(s) = 0
         /\ Full(s) => Tracked(s) # {} /\ Unseen(s) = s.entries[MinimumSlot(s)].count
<1>1. Full(s) => Tracked(s) # {} BY SummaryType, FS_EmptySet DEF Full
<1>2. CASE Full(s) BY <1>1, <1>2, MinimumIs DEF Unseen
<1>3. CASE ~Full(s)
  <2>1. Unseen(s) = 0 BY <1>3 DEF Unseen
  <2>2. \A k \in Tracked(s) : s.entries[k].count \in Nat BY SummaryType
  <2> QED BY <1>3, <2>1, <2>2
<1> QED BY <1>2, <1>3

(* A bound that no count of a full summary is below is no more than what   *)
(* is unseen.                                                              *)
LEMMA UnseenAtLeast ==
  ASSUME NEW s, SummaryShape(s), Full(s), NEW u \in Nat, \A k \in Tracked(s) : u <= s.entries[k].count
  PROVE  u <= Unseen(s)
BY UnseenIs, MinimumIs

(* What is unseen is within total / capacity. *)
LEMMA UnseenBound ==
  ASSUME NEW s, NEW truth, SummaryGood(s, truth)
  PROVE  Unseen(s) * Capacity <= s.total
<1>1. SummaryShape(s) /\ SummaryFit(s, truth) BY DEF SummaryGood
<1> DEFINE u == Unseen(s)
           D == Tracked(s)
           same == [k \in D |-> u]
<1>2. u \in Nat /\ \A k \in D : u <= s.entries[k].count BY <1>1, UnseenIs
<1>3. CASE Full(s)
  <2>1. Cardinality(D) = Capacity BY <1>1, <1>3, SummaryType DEF Full, SummaryFit
  <2>2. IsFiniteSet(D) /\ \A k \in D : CountsIn(s)[k] \in Nat BY <1>1, SummaryType
  <2>3. \A k \in D : same[k] = u /\ same[k] \in Nat /\ same[k] <= CountsIn(s)[k]
    BY <1>1, <1>2, SummaryType
  <2> HIDE DEF same, D, u
  <2>4. Weight(same, D) = Cardinality(D) * u BY <1>2, <2>2, <2>3, WeightConstant
  <2>5. D \in SUBSET D /\ \A k \in D : same[k] \in Nat /\ same[k] <= CountsIn(s)[k] BY <2>3
  <2>6. Weight(same, D) <= Weight(CountsIn(s), D) BY <2>2, <2>5, WeightMonotone
  <2>7. Weight(CountsIn(s), D) <= s.total BY <1>1 DEF SummaryFit, Held, D
  <2>8. Held(s) \in Nat /\ s.total \in Nat /\ Capacity \in Nat BY <1>1, SummaryType
  <2>9. Capacity * u \in Nat /\ u * Capacity = Capacity * u BY <1>2, <2>8
  <2>10. Capacity * u <= Weight(CountsIn(s), D) BY <2>1, <2>4, <2>6
  <2>11. Weight(CountsIn(s), D) \in Nat BY <2>8 DEF Held, D
  <2>12. u * Capacity <= s.total BY <2>7, <2>8, <2>9, <2>10, <2>11
  <2> QED BY <2>12 DEF u
<1>4. CASE ~Full(s)
  <2>1. u = 0 BY <1>1, <1>4, UnseenIs
  <2> QED BY <1>1, <2>1, SummaryType
<1> QED BY <1>3, <1>4

(* An empty summary has tracked, and promises, nothing. *)
LEMMA EmptySummaryGood == SummaryGood(EmptySummary, NoCounts)
<1> DEFINE s == EmptySummary
<1>1. Tracked(s) = {} /\ s.total = 0 /\ s = [entries |-> s.entries, total |-> s.total]
      /\ s.entries \in [{} -> Entry]
  BY DEF EmptySummary, Tracked
<1>2. SummaryShape(s) BY <1>1, FS_EmptySet DEF SummaryShape
<1>3. Cardinality(Tracked(s)) = 0 BY <1>1, FS_EmptySet
<1>4. Capacity \in Nat /\ Capacity >= 1 BY SummaryAssumption
<1>5. ~Full(s) BY <1>3, <1>4 DEF Full
<1>6. Unseen(s) = 0 BY <1>2, <1>5, UnseenIs
<1>7. Held(s) = 0 BY <1>1, WeightEmpty DEF Held
<1>8. \A k \in Keys : NoCounts[k] = 0 BY DEF NoCounts
<1> HIDE DEF s
<1>9. SummaryFit(s, NoCounts) BY <1>1, <1>3, <1>4, <1>6, <1>7, <1>8 DEF SummaryFit
<1> QED BY <1>2, <1>9 DEF SummaryGood, s

(* A tracked key: its count grows by the weight, its error stays. *)
LEMMA AddTracked ==
  ASSUME NEW s, NEW truth \in [Keys -> Nat], SummaryGood(s, truth), NEW k \in Tracked(s), NEW w \in Nat
  PROVE  SummaryGood(AddKey(s, k, w), [truth EXCEPT ![k] = @ + w])
<1> DEFINE D == Tracked(s)
           x == [s.entries EXCEPT ![k].count = @ + w]
           n == [entries |-> x, total |-> s.total + w]
           new == [truth EXCEPT ![k] = @ + w]
<1>0. SummaryShape(s) /\ SummaryFit(s, truth) BY DEF SummaryGood
<1>1. AddKey(s, k, w) = n BY DEF AddKey
<1>2. /\ IsFiniteSet(D) /\ D \subseteq Keys /\ s.entries \in [D -> Entry] /\ s.total \in Nat
      /\ Cardinality(D) \in Nat /\ Capacity \in Nat /\ Held(s) \in Nat
  BY <1>0, SummaryType DEF SummaryShape
<1>3. x \in [D -> Entry] /\ DOMAIN x = D BY <1>2 DEF Entry
<1>4. \A j \in D : /\ x[j].count = IF j = k THEN s.entries[j].count + w ELSE s.entries[j].count
                   /\ x[j].error = s.entries[j].error
                   /\ s.entries[j].count \in Nat /\ s.entries[j].error \in Nat
  BY <1>2 DEF Entry
<1>5. n.entries = x /\ n.total = s.total + w /\ n = [entries |-> n.entries, total |-> n.total]
  OBVIOUS
<1>13. k \in D OBVIOUS
<1> HIDE DEF n, x, D
<1>6. Tracked(n) = D BY <1>3, <1>5 DEF Tracked
<1>7. SummaryShape(n) BY <1>2, <1>3, <1>5, <1>6 DEF SummaryShape
<1>8. \A j \in D : CountsIn(s)[j] = s.entries[j].count /\ CountsIn(n)[j] = x[j].count
  BY <1>5, <1>6 DEF CountsIn, D
<1>9. Held(n) = Held(s) + w
  <2>1. \A j \in D : /\ CountsIn(s)[j] \in Nat
                     /\ CountsIn(n)[j] = IF j = k THEN CountsIn(s)[j] + w ELSE CountsIn(s)[j]
    BY <1>4, <1>8
  <2> DEFINE f == CountsIn(s)
             g == CountsIn(n)
  <2>3. IsFiniteSet(D) /\ k \in D BY <1>2, <1>13
  <2>4. \A j \in D : f[j] \in Nat /\ g[j] = IF j = k THEN f[j] + w ELSE f[j] BY <2>1
  <2> HIDE DEF f, g
  <2>5. Weight(g, D) = Weight(f, D) + w BY <2>3, <2>4, WeightRaise
  <2>2. Weight(CountsIn(n), D) = Weight(CountsIn(s), D) + w BY <2>5 DEF f, g
  <2> QED BY <1>6, <2>2 DEF Held, D
<1>10. Unseen(s) \in Nat /\ Unseen(s) <= Unseen(n) /\ Unseen(n) \in Nat
  <2>1. Unseen(s) \in Nat /\ \A j \in D : Unseen(s) <= s.entries[j].count BY <1>0, UnseenIs DEF D
  <2>2. Unseen(n) \in Nat BY <1>7, UnseenIs
  <2>3. Full(n) <=> Full(s) BY <1>6 DEF Full, D
  <2>4. CASE Full(s)
    <3>1. \A j \in D : x[j].count \in Nat /\ x[j].count >= s.entries[j].count BY <1>4
    <3>2. \A j \in D : Unseen(s) <= x[j].count BY <1>4, <2>1, <3>1
    <3>3. Unseen(s) <= Unseen(n) BY <1>5, <1>6, <1>7, <2>1, <2>3, <2>4, <3>2, UnseenAtLeast
    <3> QED BY <2>1, <2>2, <3>3
  <2>5. CASE ~Full(s)
    <3>1. Unseen(s) = 0 BY <1>0, <2>5, UnseenIs
    <3> QED BY <2>2, <3>1
  <2> QED BY <2>4, <2>5
<1>11. \A j \in Keys : truth[j] \in Nat /\ new[j] = IF j = k THEN truth[j] + w ELSE truth[j]
  BY <1>2, <1>13, RaisedTruth
<1> HIDE DEF new
<1>12. SummaryFit(n, new)
  <2>1. Cardinality(Tracked(n)) <= Capacity BY <1>0, <1>6 DEF SummaryFit, D
  <2>2. ASSUME NEW j \in Tracked(n)
        PROVE  /\ new[j] <= n.entries[j].count
               /\ n.entries[j].count <= new[j] + n.entries[j].error
               /\ n.entries[j].error <= n.entries[j].count
               /\ n.entries[j].error * Capacity <= n.total
    <3>1. j \in D /\ j \in Keys BY <1>2, <1>6
    <3>2. /\ truth[j] <= s.entries[j].count
          /\ s.entries[j].count <= truth[j] + s.entries[j].error
          /\ s.entries[j].error <= s.entries[j].count
          /\ s.entries[j].error * Capacity <= s.total
      BY <1>0, <3>1 DEF SummaryFit, D
    <3> DEFINE e == s.entries[j].error * Capacity
    <3>3. e \in Nat BY <1>2, <1>4, <3>1
    <3>4. n.entries[j].error * Capacity = e BY <1>4, <1>5, <3>1
    <3> HIDE DEF e
    <3>5. e <= s.total BY <3>2 DEF e
    <3>6. e <= n.total BY <1>2, <1>5, <3>3, <3>5
    <3>7. n.entries[j].error * Capacity <= n.total BY <3>4, <3>6
    <3>8. /\ n.entries[j].count = IF j = k THEN s.entries[j].count + w ELSE s.entries[j].count
          /\ n.entries[j].error = s.entries[j].error
          /\ s.entries[j].count \in Nat /\ s.entries[j].error \in Nat
      BY <1>4, <1>5, <3>1
    <3> QED BY <1>11, <3>1, <3>2, <3>7, <3>8
  <2>3. ASSUME NEW j \in Keys \ Tracked(n) PROVE new[j] <= Unseen(n)
    <3>1. j \notin D /\ j # k BY <1>6, <1>13
    <3>2. truth[j] <= Unseen(s) BY <1>0, <3>1 DEF SummaryFit, D
    <3> QED BY <1>10, <1>11, <3>1, <3>2
  <2>4. Held(n) <= n.total
    <3>1. Held(s) <= s.total BY <1>0 DEF SummaryFit
    <3> QED BY <1>2, <1>5, <1>9, <3>1
  <2> QED BY <2>1, <2>2, <2>3, <2>4 DEF SummaryFit
<1> QED BY <1>1, <1>7, <1>12 DEF SummaryGood, new

(* n holds the entries y of S and an entry e of k. *)
EntryAdded(n, S, y, k, e, total) ==
  /\ SummaryShape(n) /\ Tracked(n) = S \cup {k} /\ n.total = total
  /\ Cardinality(Tracked(n)) = Cardinality(S) + 1
  /\ \A j \in S : n.entries[j] = y[j]
  /\ n.entries[k] = e
  /\ Held(n) = Weight([j \in S |-> y[j].count], S) + e.count

(* A new entry beside others: shape and weight. *)
LEMMA WithEntryIs ==
  ASSUME NEW S \in SUBSET Keys, IsFiniteSet(S), NEW y \in [S -> Entry], NEW k \in Keys, k \notin S,
         NEW e \in Entry, NEW total \in Nat,
         NEW n, n = [entries |-> WithEntry(y, k, e), total |-> total]
  PROVE  EntryAdded(n, S, y, k, e, total)
<1> DEFINE x == WithEntry(y, k, e)
           c == [j \in S |-> y[j].count]
<1>1. x = [j \in S \cup {k} |-> IF j = k THEN e ELSE y[j]] BY DEF WithEntry
<1>2. x \in [S \cup {k} -> Entry] /\ DOMAIN x = S \cup {k} BY <1>1
<1>3. x[k] = e /\ \A j \in S : x[j] = y[j] BY <1>1
<1>4. n.entries = x /\ n.total = total /\ n = [entries |-> n.entries, total |-> n.total] OBVIOUS
<1>5. IsFiniteSet(S \cup {k}) /\ Cardinality(S \cup {k}) = Cardinality(S) + 1 BY FS_AddElement
<1> HIDE DEF x
<1>6. Tracked(n) = S \cup {k} BY <1>2, <1>4 DEF Tracked
<1>7. SummaryShape(n) BY <1>2, <1>4, <1>5, <1>6 DEF SummaryShape
<1>8. \A j \in S \cup {k} : CountsIn(n)[j] = x[j].count /\ CountsIn(n)[j] \in Nat
  BY <1>2, <1>4, <1>6 DEF CountsIn, Entry
<1>9. Weight(CountsIn(n), S \cup {k}) = Weight(CountsIn(n), S) + CountsIn(n)[k]
  BY <1>8, WeightAdd
<1>10. \A j \in S : CountsIn(n)[j] = c[j] BY <1>3, <1>8
<1> HIDE DEF c
<1>11. Weight(CountsIn(n), S) = Weight(c, S) BY <1>10, WeightSame
<1>12. CountsIn(n)[k] = e.count BY <1>3, <1>8
<1>13. Held(n) = Weight(c, S) + e.count BY <1>6, <1>9, <1>11, <1>12 DEF Held
<1> QED BY <1>3, <1>4, <1>5, <1>6, <1>7, <1>13 DEF c, EntryAdded

(* A new key while there is room: counted from now, with no error, which is*)
(* exact, as a summary that is not full has dropped nothing.               *)
LEMMA AddUntracked ==
  ASSUME NEW s, NEW truth \in [Keys -> Nat], SummaryGood(s, truth), ~Full(s),
         NEW k \in Keys, k \notin Tracked(s), NEW w \in Nat
  PROVE  SummaryGood(AddKey(s, k, w), [truth EXCEPT ![k] = @ + w])
<1> DEFINE D == Tracked(s)
           e == [count |-> w, error |-> 0]
           t == s.total + w
           n == [entries |-> WithEntry(s.entries, k, e), total |-> t]
           new == [truth EXCEPT ![k] = @ + w]
<1>0. SummaryShape(s) /\ SummaryFit(s, truth) BY DEF SummaryGood
<1>1. AddKey(s, k, w) = n BY DEF AddKey
<1>2. /\ IsFiniteSet(D) /\ D \in SUBSET Keys /\ s.entries \in [D -> Entry] /\ s.total \in Nat
      /\ Cardinality(D) \in Nat /\ Capacity \in Nat /\ Held(s) \in Nat /\ t \in Nat
  BY <1>0, SummaryType DEF SummaryShape
<1>3. e \in Entry /\ e.count = w /\ e.error = 0 BY DEF Entry
<1>4. k \notin D OBVIOUS
<1>5. Held(s) = Weight([j \in D |-> s.entries[j].count], D) BY DEF Held, CountsIn
<1>6. n = [entries |-> WithEntry(s.entries, k, e), total |-> t] OBVIOUS
<1> HIDE DEF n, e, D, t
<1>7. /\ SummaryShape(n) /\ Tracked(n) = D \cup {k} /\ n.total = t
      /\ Cardinality(Tracked(n)) = Cardinality(D) + 1
      /\ \A j \in D : n.entries[j] = s.entries[j]
      /\ n.entries[k] = e
      /\ Held(n) = Held(s) + e.count
  <2> DEFINE y == s.entries
  <2>1. y \in [D -> Entry] BY <1>2
  <2>2. n = [entries |-> WithEntry(y, k, e), total |-> t] BY <1>6
  <2>3. Held(s) = Weight([j \in D |-> y[j].count], D) BY <1>5
  <2> HIDE DEF y
  <2>4. /\ SummaryShape(n) /\ Tracked(n) = D \cup {k} /\ n.total = t
        /\ Cardinality(Tracked(n)) = Cardinality(D) + 1
        /\ \A j \in D : n.entries[j] = y[j]
        /\ n.entries[k] = e
        /\ Held(n) = Weight([j \in D |-> y[j].count], D) + e.count
    <3>1. EntryAdded(n, D, y, k, e, t) BY <1>2, <1>3, <1>4, <2>1, <2>2, WithEntryIs
    <3> QED BY <3>1 DEF EntryAdded
  <2> QED BY <2>3, <2>4 DEF y
<1>8. Unseen(s) = 0 /\ \A j \in Keys \ D : truth[j] = 0
  <2>1. Unseen(s) = 0 BY <1>0, UnseenIs
  <2>2. \A j \in Keys \ D : truth[j] <= 0 /\ truth[j] \in Nat BY <1>0, <2>1 DEF SummaryFit, D
  <2> QED BY <2>1, <2>2
<1>9. Unseen(n) \in Nat BY <1>7, UnseenIs
<1>10. t = s.total + w BY DEF t
<1>11. \A j \in Keys : truth[j] \in Nat /\ new[j] = IF j = k THEN truth[j] + w ELSE truth[j]
  BY RaisedTruth
<1> HIDE DEF new
<1>12. SummaryFit(n, new)
  <2>1. Cardinality(Tracked(n)) <= Capacity BY <1>2, <1>7 DEF Full, D
  <2>2. ASSUME NEW j \in Tracked(n)
        PROVE  /\ new[j] <= n.entries[j].count
               /\ n.entries[j].count <= new[j] + n.entries[j].error
               /\ n.entries[j].error <= n.entries[j].count
               /\ n.entries[j].error * Capacity <= n.total
    <3>1. CASE j = k
      <4>1. n.entries[j].count = w /\ n.entries[j].error = 0 BY <1>3, <1>7, <3>1
      <4>2. new[j] = w BY <1>4, <1>8, <1>11, <3>1
      <4>3. 0 * Capacity <= n.total BY <1>2, <1>7
      <4> QED BY <4>1, <4>2, <4>3
    <3>2. CASE j # k
      <4>1. j \in D /\ j \in Keys BY <1>2, <1>7, <3>2
      <4>2. /\ truth[j] <= s.entries[j].count
            /\ s.entries[j].count <= truth[j] + s.entries[j].error
            /\ s.entries[j].error <= s.entries[j].count
            /\ s.entries[j].error * Capacity <= s.total
        BY <1>0, <4>1 DEF SummaryFit, D
      <4>3. n.entries[j] = s.entries[j] /\ new[j] = truth[j] BY <1>7, <1>11, <3>2, <4>1
      <4>4. s.entries[j].error \in Nat BY <1>0, <4>1, SummaryType DEF D
      <4>5. s.entries[j].error * Capacity \in Nat BY <1>2, <4>4
      <4>6. s.entries[j].error * Capacity <= n.total BY <1>2, <1>7, <1>10, <4>2, <4>5
      <4> QED BY <4>2, <4>3, <4>6
    <3> QED BY <3>1, <3>2
  <2>3. ASSUME NEW j \in Keys \ Tracked(n) PROVE new[j] <= Unseen(n)
    <3>1. j \in Keys \ D /\ j # k BY <1>7
    <3>2. new[j] = 0 BY <1>8, <1>11, <3>1
    <3> QED BY <1>9, <3>2
  <2>4. Held(n) <= n.total
    <3>1. Held(s) <= s.total BY <1>0 DEF SummaryFit
    <3> QED BY <1>2, <1>3, <1>7, <1>10, <3>1
  <2> QED BY <2>1, <2>2, <2>3, <2>4 DEF SummaryFit
<1> QED BY <1>1, <1>7, <1>12 DEF SummaryGood, new

(* A new key in a full summary: it takes the minimum's slot and inherits   *)
(* its count, as error.                                                    *)
LEMMA AddEvicting ==
  ASSUME NEW s, NEW truth \in [Keys -> Nat], SummaryGood(s, truth), Full(s),
         NEW k \in Keys, k \notin Tracked(s), NEW w \in Nat
  PROVE  SummaryGood(AddKey(s, k, w), [truth EXCEPT ![k] = @ + w])
<1> DEFINE D == Tracked(s)
           min == MinimumCount(s)
           out == MinimumSlot(s)
           S == D \ {out}
           y == [j \in S |-> s.entries[j]]
           e == [count |-> min + w, error |-> min]
           t == s.total + w
           n == [entries |-> WithEntry(y, k, e), total |-> t]
           new == [truth EXCEPT ![k] = @ + w]
<1>0. SummaryShape(s) /\ SummaryFit(s, truth) BY DEF SummaryGood
<1>1. AddKey(s, k, w) = n BY DEF AddKey
<1>2. /\ IsFiniteSet(D) /\ D \in SUBSET Keys /\ s.entries \in [D -> Entry] /\ s.total \in Nat
      /\ Cardinality(D) \in Nat /\ Capacity \in Nat /\ Held(s) \in Nat /\ t \in Nat
  BY <1>0, SummaryType DEF SummaryShape
<1>3. /\ D # {} /\ out \in D /\ min \in Nat /\ min = s.entries[out].count /\ min = Unseen(s)
      /\ \A j \in D : min <= s.entries[j].count
  <2>1. Tracked(s) # {} /\ Unseen(s) = s.entries[MinimumSlot(s)].count BY <1>0, UnseenIs
  <2> QED BY <1>0, <2>1, MinimumIs
<1>4. e \in Entry /\ e.count = min + w /\ e.error = min BY <1>3 DEF Entry
<1>5. k \notin S /\ S \in SUBSET Keys /\ y \in [S -> Entry] /\ \A j \in S : y[j] = s.entries[j]
  BY <1>2
<1>6. IsFiniteSet(S) /\ Cardinality(S) = Cardinality(D) - 1 BY <1>2, <1>3, FS_RemoveElement
<1>7. S \cup {out} = D /\ out \notin S BY <1>3
<1>8. n = [entries |-> WithEntry(y, k, e), total |-> t] OBVIOUS
<1>9. t = s.total + w OBVIOUS
<1>10. \A j \in D : /\ s.entries[j].count \in Nat /\ s.entries[j].error \in Nat
                    /\ CountsIn(s)[j] = s.entries[j].count /\ CountsIn(s)[j] \in Nat
  BY <1>0, SummaryType
<1>25. Cardinality(D) = Capacity BY <1>0, <1>2 DEF Full, SummaryFit
<1> HIDE DEF n, e, S, t, y, min, out
<1>11. /\ SummaryShape(n) /\ Tracked(n) = S \cup {k} /\ n.total = t
       /\ Cardinality(Tracked(n)) = Cardinality(S) + 1
       /\ \A j \in S : n.entries[j] = y[j]
       /\ n.entries[k] = e
       /\ Held(n) = Weight([j \in S |-> y[j].count], S) + e.count
  <2>1. EntryAdded(n, S, y, k, e, t) BY <1>2, <1>4, <1>5, <1>6, <1>8, WithEntryIs
  <2> QED BY <2>1 DEF EntryAdded
<1>12. Held(s) = Weight([j \in S |-> y[j].count], S) + min
       /\ Weight([j \in S |-> y[j].count], S) \in Nat
  <2> DEFINE c == [j \in S |-> y[j].count]
  <2>1. \A j \in S : CountsIn(s)[j] = c[j] BY <1>5, <1>7, <1>10
  <2>5. \A j \in S : c[j] \in Nat BY <1>7, <1>10, <2>1
  <2> HIDE DEF c
  <2>2. Weight(CountsIn(s), S) = Weight(c, S) BY <2>1, WeightSame
  <2>3. \A j \in S \cup {out} : CountsIn(s)[j] \in Nat BY <1>7, <1>10
  <2>4. Weight(CountsIn(s), S \cup {out}) = Weight(CountsIn(s), S) + CountsIn(s)[out]
    BY <1>6, <1>7, <2>3, WeightAdd
  <2>6. Weight(c, S) \in Nat BY <1>6, <2>5, AreaFinite
  <2>7. CountsIn(s)[out] = min BY <1>3, <1>10
  <2>8. Held(s) = Weight(c, S) + min BY <1>7, <2>2, <2>4, <2>7 DEF Held
  <2> QED BY <2>6, <2>8 DEF c
<1>13. Cardinality(Tracked(n)) = Capacity BY <1>2, <1>6, <1>11, <1>25
<1>14. Full(n) BY <1>2, <1>13 DEF Full
<1>15. \A j \in Tracked(n) : min <= n.entries[j].count
  <2>1. \A j \in S : n.entries[j].count = s.entries[j].count /\ j \in D BY <1>5, <1>7, <1>11
  <2>2. n.entries[k].count = min + w BY <1>4, <1>11
  <2> QED BY <1>3, <1>11, <2>1, <2>2
<1>16. min <= Unseen(n) /\ Unseen(n) \in Nat
  BY <1>3, <1>11, <1>14, <1>15, UnseenAtLeast, UnseenIs
<1>17. \A j \in Keys : truth[j] \in Nat /\ new[j] = IF j = k THEN truth[j] + w ELSE truth[j]
  BY RaisedTruth
<1>18. min * Capacity <= s.total /\ min * Capacity \in Nat
  <2>1. Unseen(s) * Capacity <= s.total BY UnseenBound
  <2> QED BY <1>2, <1>3, <2>1
<1> HIDE DEF new
<1>19. SummaryFit(n, new)
  <2>1. Cardinality(Tracked(n)) <= Capacity BY <1>2, <1>13
  <2>2. ASSUME NEW j \in Tracked(n)
        PROVE  /\ new[j] <= n.entries[j].count
               /\ n.entries[j].count <= new[j] + n.entries[j].error
               /\ n.entries[j].error <= n.entries[j].count
               /\ n.entries[j].error * Capacity <= n.total
    <3>1. CASE j = k
      <4>1. n.entries[j].count = min + w /\ n.entries[j].error = min BY <1>4, <1>11, <3>1
      <4>2. truth[k] <= min /\ truth[k] \in Nat BY <1>0, <1>3, <1>17 DEF SummaryFit
      <4>3. new[j] = truth[k] + w BY <1>17, <3>1
      <4>4. min * Capacity <= n.total BY <1>2, <1>9, <1>11, <1>18
      <4> QED BY <1>3, <4>1, <4>2, <4>3, <4>4
    <3>2. CASE j # k
      <4>1. j \in S /\ j \in D /\ j \in Keys BY <1>5, <1>7, <1>11, <3>2
      <4>2. /\ truth[j] <= s.entries[j].count
            /\ s.entries[j].count <= truth[j] + s.entries[j].error
            /\ s.entries[j].error <= s.entries[j].count
            /\ s.entries[j].error * Capacity <= s.total
        BY <1>0, <4>1 DEF SummaryFit
      <4>3. n.entries[j] = s.entries[j] /\ new[j] = truth[j] BY <1>5, <1>11, <1>17, <3>2, <4>1
      <4>4. s.entries[j].error \in Nat BY <1>10, <4>1
      <4>5. s.entries[j].error * Capacity \in Nat BY <1>2, <4>4
      <4>6. s.entries[j].error * Capacity <= n.total BY <1>2, <1>9, <1>11, <4>2, <4>5
      <4> QED BY <4>2, <4>3, <4>6
    <3> QED BY <3>1, <3>2
  <2>3. ASSUME NEW j \in Keys \ Tracked(n) PROVE new[j] <= Unseen(n)
    <3>1. j \notin S /\ j # k BY <1>11
    <3>2. new[j] = truth[j] /\ truth[j] \in Nat BY <1>17, <3>1
    <3>3. truth[j] <= min
      <4>1. CASE j = out BY <1>0, <1>3, <4>1 DEF SummaryFit
      <4>2. CASE j # out
        <5>1. j \notin D BY <1>7, <3>1, <4>2
        <5> QED BY <1>0, <1>3, <5>1 DEF SummaryFit
      <4> QED BY <4>1, <4>2
    <3> QED BY <1>3, <1>16, <3>2, <3>3
  <2>4. Held(n) <= n.total
    <3>1. Held(s) <= s.total BY <1>0 DEF SummaryFit
    <3> HIDE DEF D
    <3> QED BY <1>2, <1>3, <1>4, <1>9, <1>11, <1>12, <3>1
  <2> QED BY <2>1, <2>2, <2>3, <2>4 DEF SummaryFit
<1> QED BY <1>1, <1>11, <1>19 DEF SummaryGood, new

(* An update of any key keeps the promises. *)
LEMMA AddKeyGood ==
  ASSUME NEW s, NEW truth \in [Keys -> Nat], SummaryGood(s, truth), NEW k \in Keys, NEW w \in Nat
  PROVE  SummaryGood(AddKey(s, k, w), [truth EXCEPT ![k] = @ + w])
BY AddTracked, AddUntracked, AddEvicting

(* What a merge charges a key for on one side: a count no smaller than     *)
(* what is unseen there, an upper bound of the key's weight, off by no more*)
(* than the error.                                                         *)
IsCharge(c, s, t) ==
  /\ c.count \in Nat /\ c.error \in Nat
  /\ t <= c.count /\ c.count <= t + c.error
  /\ c.error <= c.count
  /\ c.error * Capacity <= s.total
  /\ Unseen(s) <= c.count

(* A merge charges every key within the promises of the side. *)
LEMMA ChargedIs ==
  ASSUME NEW s, NEW truth \in [Keys -> Nat], SummaryGood(s, truth), NEW k \in Keys
  PROVE  IsCharge(Charged(s, k), s, truth[k])
<1>1. SummaryShape(s) /\ SummaryFit(s, truth) BY DEF SummaryGood
<1>2. Unseen(s) \in Nat /\ \A j \in Tracked(s) : Unseen(s) <= s.entries[j].count BY <1>1, UnseenIs
<1>3. truth[k] \in Nat OBVIOUS
<1>4. CASE k \in Tracked(s)
  <2>1. Charged(s, k) = s.entries[k] BY <1>4 DEF Charged
  <2>2. s.entries[k].count \in Nat /\ s.entries[k].error \in Nat BY <1>1, <1>4, SummaryType
  <2>3. /\ truth[k] <= s.entries[k].count
        /\ s.entries[k].count <= truth[k] + s.entries[k].error
        /\ s.entries[k].error <= s.entries[k].count
        /\ s.entries[k].error * Capacity <= s.total
    BY <1>1, <1>4 DEF SummaryFit
  <2>4. IsCharge(s.entries[k], s, truth[k]) BY <1>2, <1>4, <2>2, <2>3 DEF IsCharge
  <2> QED BY <2>1, <2>4
<1>5. CASE k \notin Tracked(s)
  <2> DEFINE u == Unseen(s)
             c == [count |-> u, error |-> u]
  <2>1. Charged(s, k) = c BY <1>5 DEF Charged
  <2>2. truth[k] <= u BY <1>1, <1>5 DEF SummaryFit
  <2>3. u * Capacity <= s.total BY UnseenBound
  <2>4. c.count = u /\ c.error = u OBVIOUS
  <2>5. u \in Nat /\ u = Unseen(s) BY <1>2
  <2> HIDE DEF u, c
  <2>6. IsCharge(c, s, truth[k])
    <3>1. c.count \in Nat /\ c.error \in Nat BY <2>4, <2>5
    <3>2. truth[k] <= c.count /\ c.count <= truth[k] + c.error /\ c.error <= c.count
      BY <1>3, <2>2, <2>4, <2>5
    <3>3. c.error * Capacity <= s.total BY <2>3, <2>4
    <3>4. Unseen(s) <= c.count BY <2>4, <2>5
    <3> QED BY <3>1, <3>2, <3>3, <3>4 DEF IsCharge
  <2> QED BY <2>1, <2>6
<1> QED BY <1>4, <1>5

(* What a summary charges at most Capacity keys adds up to no more than it *)
(* holds: the untracked ones among them are charged what as many tracked   *)
(* ones, left out, hold at least.                                          *)
LEMMA ChargedWeight ==
  ASSUME NEW s, NEW truth \in [Keys -> Nat], SummaryGood(s, truth),
         NEW K \in SUBSET Keys, IsFiniteSet(K), Cardinality(K) <= Capacity,
         NEW c, \A k \in K : c[k] = Charged(s, k).count
  PROVE  Weight(c, K) <= s.total
<1>1. SummaryShape(s) /\ SummaryFit(s, truth) BY DEF SummaryGood
<1> DEFINE D == Tracked(s)
           f == CountsIn(s)
           u == Unseen(s)
           A == K \cap D
           B == K \ D
           C == D \ K
<1>2. IsFiniteSet(D) /\ \A k \in D : f[k] \in Nat /\ f[k] = s.entries[k].count BY <1>1, SummaryType
<1>3. u \in Nat /\ \A k \in D : u <= f[k] BY <1>1, <1>2, UnseenIs
<1>4. \A k \in A : c[k] = f[k] BY <1>2 DEF Charged
<1>5. \A k \in B : c[k] = u BY DEF Charged
<1>6. Weight(f, D) <= s.total /\ s.total \in Nat BY <1>1, SummaryType DEF SummaryFit, Held
<1>7. Full(s) => Cardinality(D) = Capacity BY <1>1, SummaryType DEF Full, SummaryFit
<1>8. ~Full(s) => u = 0 BY <1>1, UnseenIs
<1>9. Cardinality(K) \in Nat /\ Capacity \in Nat BY FS_CardinalityType, SummaryAssumption
<1> HIDE DEF D, f, u
<1>10. /\ IsFiniteSet(A) /\ IsFiniteSet(B) /\ IsFiniteSet(C)
       /\ A \cup B = K /\ A \cup C = D /\ A \cap B = {} /\ A \cap C = {}
  BY <1>2, FS_Subset
<1>11. \A k \in A : c[k] \in Nat /\ f[k] \in Nat BY <1>2, <1>4
<1>12. \A k \in B : c[k] \in Nat BY <1>3, <1>5
<1>13. \A k \in C : f[k] \in Nat /\ u <= f[k] BY <1>2, <1>3
<1> HIDE DEF A, B, C
<1>14. Weight(c, A) = Weight(f, A) BY <1>4, WeightSame
<1>15. Weight(c, K) = Weight(c, A) + Weight(c, B)
  <2>1. \A k \in A \cup B : c[k] \in Nat BY <1>11, <1>12
  <2>2. Weight(c, A \cup B) = Weight(c, A) + Weight(c, B) BY <1>10, <2>1, WeightUnion
  <2> QED BY <1>10, <2>2
<1>16. Weight(f, D) = Weight(f, A) + Weight(f, C)
  <2>1. \A k \in A \cup C : f[k] \in Nat BY <1>11, <1>13
  <2>2. Weight(f, A \cup C) = Weight(f, A) + Weight(f, C) BY <1>10, <2>1, WeightUnion
  <2> QED BY <1>10, <2>2
<1>17. Weight(c, B) = Cardinality(B) * u BY <1>3, <1>5, <1>10, WeightConstant
<1>18. Cardinality(C) * u <= Weight(f, C)
  <2> DEFINE same == [k \in C |-> u]
  <2>1. C \in SUBSET C /\ \A k \in C : same[k] = u /\ same[k] \in Nat /\ same[k] <= f[k] BY <1>3, <1>13
  <2> HIDE DEF same
  <2>2. Weight(same, C) = Cardinality(C) * u BY <1>3, <1>10, <2>1, WeightConstant
  <2>3. Weight(same, C) <= Weight(f, C) BY <1>10, <1>13, <2>1, WeightMonotone
  <2> QED BY <2>2, <2>3
<1>19. /\ Weight(f, A) \in Nat /\ Weight(f, C) \in Nat
       /\ Cardinality(A) \in Nat /\ Cardinality(B) \in Nat /\ Cardinality(C) \in Nat
  BY <1>10, <1>11, <1>13, AreaFinite, FS_CardinalityType
<1>20. Cardinality(B) * u <= Cardinality(C) * u
  <2>1. CASE Full(s)
    <3>1. Cardinality(K) = Cardinality(A) + Cardinality(B) BY <1>10, DisjointUnion
    <3>2. Cardinality(D) = Cardinality(A) + Cardinality(C) BY <1>10, DisjointUnion
    <3>3. Cardinality(B) <= Cardinality(C) BY <1>7, <1>9, <1>19, <2>1, <3>1, <3>2
    <3> QED BY <1>3, <1>19, <3>3
  <2>2. CASE ~Full(s)
    <3>1. Cardinality(B) * u = 0 /\ Cardinality(C) * u = 0 BY <1>8, <1>19, <2>2
    <3> QED BY <3>1
  <2> QED BY <2>1, <2>2
<1> DEFINE b == Cardinality(B) * u
           d == Cardinality(C) * u
<1>21. b \in Nat /\ d \in Nat /\ b <= d /\ Weight(c, B) = b /\ d <= Weight(f, C)
  BY <1>3, <1>17, <1>18, <1>19, <1>20
<1> HIDE DEF b, d
<1> QED BY <1>6, <1>14, <1>15, <1>16, <1>19, <1>21

(* The order of the merged entries, count downwards and then key, is a     *)
(* strict order.                                                           *)
LEMMA OutranksOrder ==
  ASSUME NEW x, NEW D \in SUBSET Keys, \A k \in D : x[k].count \in Nat
  PROVE  LET R == {p \in D \X D : Outranks(x, p[1], p[2])}
         IN  /\ StrictOrder(R, D)
             /\ \A a, b \in D : <<a, b>> \in R <=> Outranks(x, a, b)
             /\ \A k \in D : Above(R, D, k) = {j \in D : Outranks(x, j, k)}
<1> DEFINE R == {p \in D \X D : Outranks(x, p[1], p[2])}
           c(a) == x[a].count
<1>1. \A a, b \in D : <<a, b>> \in R <=> Outranks(x, a, b) OBVIOUS
<1>2. \A a \in D : c(a) \in Nat /\ a \in Nat BY KeysAssumption
<1>3. \A a, b \in D : Outranks(x, a, b) <=> c(a) > c(b) \/ (c(a) = c(b) /\ a < b)
  BY DEF Outranks
<1> HIDE DEF R, c
<1>4. \A a \in D : <<a, a>> \notin R BY <1>1, <1>2, <1>3
<1>5. \A a, b \in D : a # b => (<<a, b>> \in R \/ <<b, a>> \in R) BY <1>1, <1>2, <1>3
<1>6. ASSUME NEW a \in D, NEW b \in D, NEW d \in D, <<a, b>> \in R, <<b, d>> \in R
      PROVE  <<a, d>> \in R
  <2>1. Outranks(x, a, b) /\ Outranks(x, b, d) BY <1>1, <1>6
  <2> QED BY <1>1, <1>2, <1>3, <2>1
<1>7. StrictOrder(R, D) BY <1>4, <1>5, <1>6 DEF StrictOrder
<1>8. \A k \in D : Above(R, D, k) = {j \in D : Outranks(x, j, k)} BY <1>1 DEF Above
<1> QED BY <1>1, <1>7, <1>8, Zenon DEF R

(* The keys a merge keeps of the entries x of D. *)
KeptOf(x, D) == {k \in D : Cardinality({j \in D : Outranks(x, j, k)}) < Capacity}

AreLargest(kept, x, D) ==
  /\ kept \subseteq D /\ IsFiniteSet(kept) /\ Cardinality(kept) <= Capacity
  /\ Cardinality(kept) < Capacity => kept = D
  /\ \A j \in kept, k \in D \ kept : x[k].count <= x[j].count

(* The entries a merge keeps: at most Capacity, all of them when there are *)
(* no more, and otherwise Capacity whose counts none of the others exceeds.*)
LEMMA KeptOnes ==
  ASSUME NEW x, NEW D \in SUBSET Keys, IsFiniteSet(D), \A k \in D : x[k].count \in Nat
  PROVE  AreLargest(KeptOf(x, D), x, D)
<1> DEFINE R == {p \in D \X D : Outranks(x, p[1], p[2])}
           K == {k \in D : Cardinality(Above(R, D, k)) < Capacity}
<1>1. /\ StrictOrder(R, D) /\ \A a, b \in D : <<a, b>> \in R <=> Outranks(x, a, b)
      /\ \A k \in D : Above(R, D, k) = {j \in D : Outranks(x, j, k)}
  BY OutranksOrder, Zenon
<1> HIDE DEF R
<1>2. KeptOf(x, D) = K BY <1>1 DEF KeptOf
<1>3. Capacity \in Nat /\ Cardinality(D) \in Nat BY SummaryAssumption, FS_CardinalityType
<1>4. /\ IsFiniteSet(K)
      /\ Cardinality(K) = IF Cardinality(D) < Capacity THEN Cardinality(D) ELSE Capacity
      /\ Cardinality(D) <= Capacity => K = D
  BY <1>1, <1>3, FirstOnes, Zenon
<1>5. ASSUME NEW j \in K, NEW k \in D \ K PROVE x[k].count <= x[j].count
  <2>1. /\ j \in D /\ k \in D
        /\ Cardinality(Above(R, D, j)) < Capacity /\ ~ (Cardinality(Above(R, D, k)) < Capacity)
    OBVIOUS
  <2>2. <<j, k>> \in R BY <1>1, <1>3, <2>1, FirstBeforeRest
  <2>3. Outranks(x, j, k) BY <1>1, <2>1, <2>2
  <2>4. x[j].count \in Nat /\ x[k].count \in Nat BY <2>1
  <2> QED BY <2>3, <2>4 DEF Outranks
<1>6. K \subseteq D OBVIOUS
<1> HIDE DEF K
<1>7. Cardinality(K) <= Capacity /\ (Cardinality(K) < Capacity => K = D) BY <1>3, <1>4
<1>8. AreLargest(K, x, D) BY <1>4, <1>5, <1>6, <1>7 DEF AreLargest
<1> QED BY <1>2, <1>8

(* The sum of two charges is a charge of the merged summary. *)
LEMMA ChargesAdd ==
  ASSUME NEW c, NEW d, NEW e, NEW s, NEW o, NEW a \in Nat, NEW b \in Nat,
         s.total \in Nat, o.total \in Nat,
         IsCharge(c, s, a), IsCharge(d, o, b), Unseen(s) \in Nat, Unseen(o) \in Nat,
         e.count = c.count + d.count, e.error = c.error + d.error
  PROVE  /\ e.count \in Nat /\ e.error \in Nat
         /\ a + b <= e.count /\ e.count <= (a + b) + e.error /\ e.error <= e.count
         /\ e.error * Capacity <= s.total + o.total
         /\ Unseen(s) + Unseen(o) <= e.count
<1>1. /\ c.count \in Nat /\ c.error \in Nat /\ d.count \in Nat /\ d.error \in Nat
      /\ a <= c.count /\ c.count <= a + c.error /\ c.error <= c.count
      /\ b <= d.count /\ d.count <= b + d.error /\ d.error <= d.count
      /\ Unseen(s) <= c.count /\ Unseen(o) <= d.count
  BY DEF IsCharge
<1>2. Capacity \in Nat BY SummaryAssumption
<1> DEFINE p == c.error * Capacity
           q == d.error * Capacity
           r == e.error * Capacity
<1>3. p \in Nat /\ q \in Nat /\ r = p + q BY <1>1, <1>2
<1>4. p <= s.total /\ q <= o.total BY DEF IsCharge
<1> HIDE DEF p, q, r
<1>5. r <= s.total + o.total BY <1>3, <1>4
<1> QED BY <1>1, <1>5 DEF r

(* The merge of two summaries keeps the promises for the summed weights. *)
LEMMA MergeGood ==
  ASSUME NEW s, NEW o, NEW f \in [Keys -> Nat], NEW g \in [Keys -> Nat],
         SummaryGood(s, f), SummaryGood(o, g)
  PROVE  SummaryGood(MergeSummaries(s, o), AddedUp(f, g))
<1> DEFINE D == Tracked(s) \cup Tracked(o)
           x == Summed(s, o)
           kept == KeptOf(x, D)
           n == [entries |-> [k \in kept |-> x[k]], total |-> s.total + o.total]
           new == AddedUp(f, g)
<1>1. SummaryShape(s) /\ SummaryFit(s, f) /\ SummaryShape(o) /\ SummaryFit(o, g) BY DEF SummaryGood
<1>2. DOMAIN x = D BY DEF Summed
<1>3. MergeSummaries(s, o) = n BY <1>2 DEF MergeSummaries, KeptOf
<1>4. /\ IsFiniteSet(D) /\ D \subseteq Keys /\ s.total \in Nat /\ o.total \in Nat
      /\ Capacity \in Nat /\ Capacity >= 1
  BY <1>1, SummaryType, FS_Union
<1>5. Unseen(s) \in Nat /\ Unseen(o) \in Nat BY <1>1, UnseenIs
<1>6. \A k \in D : x[k] = [count |-> Charged(s, k).count + Charged(o, k).count,
                           error |-> Charged(s, k).error + Charged(o, k).error]
  BY DEF Summed
<1>20. \A k \in D : /\ x[k].count = Charged(s, k).count + Charged(o, k).count
                    /\ x[k].error = Charged(s, k).error + Charged(o, k).error
                    /\ x[k] = [count |-> x[k].count, error |-> x[k].error]
  <2> SUFFICES ASSUME NEW k \in D
               PROVE  /\ x[k].count = Charged(s, k).count + Charged(o, k).count
                      /\ x[k].error = Charged(s, k).error + Charged(o, k).error
                      /\ x[k] = [count |-> x[k].count, error |-> x[k].error]
    BY Zenon
  <2> DEFINE p == Charged(s, k).count + Charged(o, k).count
             q == Charged(s, k).error + Charged(o, k).error
             e == x[k]
  <2>1. e = [count |-> p, error |-> q] BY <1>6
  <2> HIDE DEF p, q, e
  <2>2. e.count = p /\ e.error = q /\ e = [count |-> e.count, error |-> e.error] BY <2>1
  <2> QED BY <2>2 DEF p, q, e
<1>7. \A k \in Keys : new[k] = f[k] + g[k] /\ f[k] \in Nat /\ g[k] \in Nat BY DEF AddedUp
<1> HIDE DEF x, D, new
<1>8. \A k \in D : IsCharge(Charged(s, k), s, f[k]) /\ IsCharge(Charged(o, k), o, g[k])
  BY <1>4, ChargedIs
<1>9. ASSUME NEW k \in D
      PROVE  /\ x[k].count \in Nat /\ x[k].error \in Nat
             /\ new[k] <= x[k].count /\ x[k].count <= new[k] + x[k].error
             /\ x[k].error <= x[k].count
             /\ x[k].error * Capacity <= s.total + o.total
             /\ Unseen(s) + Unseen(o) <= x[k].count
  <2> DEFINE c == Charged(s, k)
             d == Charged(o, k)
             e == x[k]
             a == f[k]
             b == g[k]
  <2>1. IsCharge(c, s, a) /\ IsCharge(d, o, b) BY <1>8
  <2>2. e.count = c.count + d.count /\ e.error = c.error + d.error BY <1>20
  <2>3. a \in Nat /\ b \in Nat /\ new[k] = a + b BY <1>4, <1>7
  <2> HIDE DEF c, d, e, a, b
  <2>4. /\ e.count \in Nat /\ e.error \in Nat
        /\ a + b <= e.count /\ e.count <= (a + b) + e.error /\ e.error <= e.count
        /\ e.error * Capacity <= s.total + o.total
        /\ Unseen(s) + Unseen(o) <= e.count
    BY <1>4, <1>5, <2>1, <2>2, <2>3, ChargesAdd
  <2> QED BY <2>3, <2>4 DEF e
<1>10. \A k \in D : x[k] \in Entry
  <2> SUFFICES ASSUME NEW k \in D PROVE x[k] \in Entry OBVIOUS
  <2>1. x[k].count \in Nat /\ x[k].error \in Nat BY <1>9
  <2>2. x[k] = [count |-> x[k].count, error |-> x[k].error] BY <1>20
  <2> QED BY <2>1, <2>2 DEF Entry
<1>11. /\ kept \subseteq D /\ IsFiniteSet(kept) /\ Cardinality(kept) <= Capacity
       /\ Cardinality(kept) < Capacity => kept = D
       /\ \A j \in kept, k \in D \ kept : x[k].count <= x[j].count
  <2>1. \A k \in D : x[k].count \in Nat BY <1>9
  <2>2. D \in SUBSET Keys /\ IsFiniteSet(D) BY <1>4
  <2>3. AreLargest(kept, x, D) BY <2>1, <2>2, KeptOnes
  <2> HIDE DEF kept
  <2> QED BY <2>3 DEF AreLargest
<1>12. /\ n.entries = [k \in kept |-> x[k]] /\ n.total = s.total + o.total
       /\ n = [entries |-> n.entries, total |-> n.total]
  OBVIOUS
<1> HIDE DEF kept, n
<1>13. Tracked(n) = kept /\ \A k \in kept : n.entries[k] = x[k] BY <1>12 DEF Tracked
<1>14. SummaryShape(n)
  <2>1. n.entries \in [kept -> Entry] BY <1>10, <1>11, <1>12
  <2>2. n.total \in Nat BY <1>4, <1>12
  <2>3. kept \subseteq Keys BY <1>4, <1>11
  <2> QED BY <1>11, <1>12, <1>13, <2>1, <2>2, <2>3 DEF SummaryShape
<1>15. Held(n) <= n.total
  <2> DEFINE p == [k \in kept |-> Charged(s, k).count]
             q == [k \in kept |-> Charged(o, k).count]
             h == CountsIn(n)
  <2>1. \A k \in kept : p[k] = Charged(s, k).count /\ q[k] = Charged(o, k).count OBVIOUS
  <2>2. \A k \in kept : Charged(s, k).count \in Nat /\ Charged(o, k).count \in Nat
    BY <1>8, <1>11 DEF IsCharge
  <2>3. \A k \in kept : h[k] = x[k].count BY <1>13 DEF CountsIn
  <2>4. \A k \in kept : x[k].count = Charged(s, k).count + Charged(o, k).count BY <1>11, <1>20
  <2>5. kept \in SUBSET Keys /\ IsFiniteSet(kept) /\ Cardinality(kept) <= Capacity BY <1>4, <1>11
  <2> HIDE DEF p, q, h
  <2>6. Weight(p, kept) <= s.total BY <2>1, <2>5, ChargedWeight
  <2>7. Weight(q, kept) <= o.total BY <2>1, <2>5, ChargedWeight
  <2>8. \A k \in kept : p[k] \in Nat /\ q[k] \in Nat /\ h[k] = p[k] + q[k] BY <2>1, <2>2, <2>3, <2>4
  <2>9. Weight(h, kept) = Weight(p, kept) + Weight(q, kept) BY <2>5, <2>8, WeightSum
  <2>10. Weight(p, kept) \in Nat /\ Weight(q, kept) \in Nat BY <2>5, <2>8, AreaFinite
  <2>11. Held(n) = Weight(h, kept) BY <1>13 DEF Held, h
  <2> QED BY <1>4, <1>12, <2>6, <2>7, <2>9, <2>10, <2>11
<1>16. ASSUME NEW k \in Keys \ Tracked(n) PROVE new[k] <= Unseen(n)
  <2>0. Unseen(n) \in Nat /\ new[k] \in Nat BY <1>7, <1>14, UnseenIs
  <2>1. CASE k \in D
    <3>1. k \in D \ kept BY <1>13, <2>1
    <3>2. Full(n)
      <4>1. Cardinality(kept) \in Nat BY <1>11, FS_CardinalityType
      <4> QED BY <1>4, <1>11, <1>13, <3>1, <4>1 DEF Full
    <3> DEFINE u == x[k].count
    <3>3. u \in Nat /\ new[k] <= u BY <1>9, <2>1
    <3>4. \A j \in Tracked(n) : u <= n.entries[j].count BY <1>11, <1>13, <3>1
    <3> HIDE DEF u
    <3>5. u <= Unseen(n) BY <1>14, <3>2, <3>3, <3>4, UnseenAtLeast
    <3> QED BY <2>0, <3>3, <3>5
  <2>2. CASE k \notin D
    <3> DEFINE u == Unseen(s) + Unseen(o)
    <3>1. f[k] <= Unseen(s) /\ g[k] <= Unseen(o) BY <1>1, <2>2 DEF SummaryFit, D
    <3>2. u \in Nat /\ new[k] <= u BY <1>5, <1>7, <3>1
    <3>3. CASE Full(n)
      <4>1. \A j \in kept : u <= x[j].count BY <1>9, <1>11
      <4>2. \A j \in Tracked(n) : u <= n.entries[j].count BY <1>13, <4>1
      <4> HIDE DEF u
      <4>3. u <= Unseen(n) BY <1>14, <3>2, <3>3, <4>2, UnseenAtLeast
      <4> QED BY <2>0, <3>2, <4>3
    <3>4. CASE ~Full(n)
      <4>1. Cardinality(kept) \in Nat BY <1>11, FS_CardinalityType
      <4>2. Cardinality(kept) < Capacity /\ kept = D BY <1>4, <1>11, <1>13, <3>4, <4>1 DEF Full
      <4>3. Tracked(s) \subseteq D /\ Tracked(o) \subseteq D BY DEF D
      <4>4. /\ Cardinality(Tracked(s)) <= Cardinality(D) /\ Cardinality(Tracked(o)) <= Cardinality(D)
            /\ Cardinality(Tracked(s)) \in Nat /\ Cardinality(Tracked(o)) \in Nat
        BY <1>1, <1>4, <4>3, FS_Subset, SummaryType
      <4>5. ~Full(s) /\ ~Full(o) BY <1>4, <4>1, <4>2, <4>4 DEF Full
      <4>6. Unseen(s) = 0 /\ Unseen(o) = 0 BY <1>1, <4>5, UnseenIs
      <4> QED BY <2>0, <3>2, <4>6
    <3> QED BY <3>3, <3>4
  <2> QED BY <2>1, <2>2
<1>17. ASSUME NEW k \in Tracked(n)
       PROVE  /\ new[k] <= n.entries[k].count
              /\ n.entries[k].count <= new[k] + n.entries[k].error
              /\ n.entries[k].error <= n.entries[k].count
              /\ n.entries[k].error * Capacity <= n.total
  <2>1. k \in D /\ n.entries[k] = x[k] BY <1>11, <1>13
  <2> QED BY <1>9, <1>12, <2>1
<1>18. SummaryFit(n, new) BY <1>11, <1>13, <1>15, <1>16, <1>17 DEF SummaryFit
<1>19. SummaryGood(n, new) BY <1>14, <1>18 DEF SummaryGood
<1> QED BY <1>3, <1>19 DEF new

(* Every summary keeps its promises of the weights it was built from. *)
SpaceInv ==
  /\ space = [r \in Replica |-> space[r]]
  /\ \A r \in Replica : SummaryGood(space[r], exact[r].counts)

(* A step that replaces the summary and the truth of one replica. *)
LEMMA SpaceReplace ==
  ASSUME SpaceInv, ExactInv, NEW q \in Replica, NEW s, NEW e, SummaryGood(s, e.counts),
         space' = [space EXCEPT ![q] = s], exact' = [exact EXCEPT ![q] = e]
  PROVE  SpaceInv'
<1>1. DOMAIN space = Replica /\ DOMAIN exact = Replica BY DEF SpaceInv, ExactInv
<1>2. space' = [r \in Replica |-> space'[r]] BY <1>1
<1>3. ASSUME NEW r \in Replica PROVE SummaryGood(space'[r], exact'[r].counts)
  <2>1. CASE r = q
    <3>1. space'[r] = s /\ exact'[r] = e BY <1>1, <2>1
    <3> QED BY <3>1
  <2>2. CASE r # q
    <3>1. space'[r] = space[r] /\ exact'[r] = exact[r] BY <1>1, <2>2
    <3> QED BY <3>1 DEF SpaceInv
  <2> QED BY <2>1, <2>2
<1> QED BY <1>2, <1>3 DEF SpaceInv

(* The summaries keep their promises at every step. *)
LEMMA SpaceStep ==
  ASSUME ExactInv, SpaceInv, Next
  PROVE  SpaceInv'
<1>0. \A r \in Replica : exact[r].counts \in [Keys -> Nat] /\ exact[r] \in Exact BY DEF ExactInv, Exact
<1>1. CASE \E r \in Replica, k \in Keys : \E w \in Weights[k] : UpdateCounts(r, k, w)
  <2>1. PICK r \in Replica, k \in Keys : \E w \in Weights[k] : UpdateCounts(r, k, w) BY <1>1
  <2>2. PICK w \in Weights[k] : UpdateCounts(r, k, w) BY <2>1
  <2>3. w \in Nat BY SketchesAssumption
  <2> DEFINE s == AddKey(space[r], k, w)
             e == ExactAdd(exact[r], k, w)
             truth == exact[r].counts
  <2>4. space' = [space EXCEPT ![r] = s] /\ exact' = [exact EXCEPT ![r] = e]
    BY <2>2 DEF UpdateCounts
  <2>5. e.counts = [truth EXCEPT ![k] = @ + w] BY <1>0, <2>3, ExactAddIs
  <2>6. SummaryGood(space[r], truth) /\ truth \in [Keys -> Nat] BY <1>0 DEF SpaceInv
  <2>7. SummaryGood(s, [truth EXCEPT ![k] = @ + w])
    <3> HIDE DEF truth
    <3> QED BY <2>3, <2>6, AddKeyGood
  <2> HIDE DEF s, e, truth
  <2> QED BY <2>4, <2>5, <2>7, SpaceReplace
<1>2. CASE \E r, o \in Replica : MergeCounts(r, o)
  <2>1. PICK r \in Replica, o \in Replica : MergeCounts(r, o) BY <1>2
  <2> DEFINE s == MergeSummaries(space[r], space[o])
             e == ExactMerge(exact[r], exact[o])
             f == exact[r].counts
             g == exact[o].counts
  <2>4. space' = [space EXCEPT ![r] = s] /\ exact' = [exact EXCEPT ![r] = e]
    BY <2>1 DEF MergeCounts
  <2>5. e.counts = AddedUp(f, g) BY <1>0, ExactMergeIs, Zenon DEF AddedUp
  <2>6. /\ SummaryGood(space[r], f) /\ f \in [Keys -> Nat]
        /\ SummaryGood(space[o], g) /\ g \in [Keys -> Nat]
    BY <1>0 DEF SpaceInv
  <2>7. SummaryGood(s, AddedUp(f, g))
    <3> HIDE DEF f, g
    <3> QED BY <2>6, MergeGood
  <2> HIDE DEF s, e, f, g
  <2> QED BY <2>4, <2>5, <2>7, SpaceReplace
<1>3. CASE \E r \in Replica : RestoreCounts(r)
  <2>1. space' = space /\ exact' = exact BY <1>3 DEF RestoreCounts
  <2> QED BY <2>1 DEF SpaceInv
<1>4. CASE \E r \in Replica : ResetCounts(r)
  <2>1. PICK r \in Replica : ResetCounts(r) BY <1>4
  <2>2. space' = [space EXCEPT ![r] = EmptySummary] /\ exact' = [exact EXCEPT ![r] = EmptyExact]
    BY <2>1 DEF ResetCounts
  <2>3. SummaryGood(EmptySummary, EmptyExact.counts) BY EmptySummaryGood, EmptyExactIs
  <2> QED BY <2>2, <2>3, SpaceReplace
<1>5. CASE CountsStay
  <2>1. space' = space /\ \A r \in Replica : exact'[r].counts = exact[r].counts
    BY <1>5 DEF CountsStay, counting
  <2> QED BY <2>1 DEF SpaceInv
<1> QED BY CountingCases, <1>1, <1>2, <1>3, <1>4, <1>5

(* Every summary SpaceSaving can reach through updates, evictions, merges, *)
(* snapshots and resets counts each tracked key from above, off by no more *)
(* than its recorded error; leaves untracked no key heavier than its       *)
(* minimum; keeps errors and minimum within total weight / capacity; and   *)
(* passes the checks of its own snapshot, for every capacity, key set,     *)
(* choice of weights and digest, colliding ones included.                  *)
THEOREM SpaceSavingBounds == Spec => []SpaceSavingSound
<1>1. Init => ExactInv /\ SpaceInv
  <2> SUFFICES ASSUME Init PROVE ExactInv /\ SpaceInv OBVIOUS
  <2>1. ExactInv BY TablesInit
  <2>2. SummaryGood(EmptySummary, EmptyExact.counts) BY EmptySummaryGood, EmptyExactIs
  <2>3. SpaceInv BY <2>2 DEF Init, SpaceInv
  <2> QED BY <2>1, <2>3
<1>2. (ExactInv /\ SpaceInv) /\ [Next]_vars => (ExactInv /\ SpaceInv)'
  <2> SUFFICES ASSUME ExactInv, SpaceInv, [Next]_vars PROVE (ExactInv /\ SpaceInv)' OBVIOUS
  <2>1. CASE Next BY <2>1, ExactStep, SpaceStep
  <2>2. CASE UNCHANGED vars BY <2>2 DEF vars, counting, ExactInv, SpaceInv
  <2> QED BY <2>1, <2>2
<1>3. ExactInv /\ SpaceInv => SpaceSavingSound
  <2> SUFFICES ASSUME ExactInv, SpaceInv, NEW r \in Replica
               PROVE  SummarySound(space[r], exact[r].counts) /\ SummaryAccepted(space[r])
    BY DEF SpaceSavingSound
  <2> DEFINE s == space[r]
             truth == exact[r].counts
  <2>1. SummaryGood(s, truth) BY DEF SpaceInv
  <2> HIDE DEF s, truth
  <2>2. SummaryFit(s, truth) BY <2>1 DEF SummaryGood
  <2>3. Unseen(s) * Capacity <= s.total BY <2>1, UnseenBound
  <2>4. SummarySound(s, truth) BY <2>2, <2>3 DEF SummaryFit, SummarySound
  <2>5. SummaryAccepted(s) BY <2>2 DEF SummaryFit, SummaryAccepted
  <2> QED BY <2>4, <2>5 DEF s, truth
<1> QED BY <1>1, <1>2, <1>3, PTL DEF Spec

-------------------------------------------------------------------------------
(* Folds over a finite set and recursions over 0 .. n, with the step given *)
(* as a function.                                                          *)

(* The element a fold takes first. *)
Pick(t) == CHOOSE x \in t : TRUE

IsFold(g, S, base, st) ==
  g = [t \in SUBSET S |-> IF t = {} THEN base ELSE st[<<Pick(t), g[t \ {Pick(t)}]>>]]

(* A nonempty set has a first element. *)
LEMMA PickIn == ASSUME NEW t, t # {} PROVE Pick(t) \in t
BY Zenon DEF Pick

(* Induction over the subsets of a finite set, along the picks: P is the   *)
(* set of the subsets that are fine.                                       *)
LEMMA SubsetInduction ==
  ASSUME NEW S, IsFiniteSet(S), NEW P, {} \in P,
         \A t \in SUBSET S : (t # {} /\ t \ {Pick(t)} \in P) => t \in P
  PROVE  \A t \in SUBSET S : t \in P
<1> DEFINE n == Cardinality(S)
           Q == {m \in 0 .. n : \A t \in SUBSET S : Cardinality(t) <= m => t \in P}
<1>1. n \in Nat /\ \A t \in SUBSET S : IsFiniteSet(t) /\ Cardinality(t) \in Nat /\ Cardinality(t) <= n
  BY FS_CardinalityType, FS_Subset
<1>2. 0 \in Q
  <2>1. \A t \in SUBSET S : Cardinality(t) <= 0 => t = {} BY <1>1, FS_EmptySet
  <2>2. \A t \in SUBSET S : Cardinality(t) <= 0 => t \in P BY <2>1
  <2>3. 0 \in 0 .. n BY <1>1
  <2> QED BY <2>2, <2>3
<1>3. ASSUME NEW m \in 1 .. n, m - 1 \in Q PROVE m \in Q
  <2> SUFFICES ASSUME NEW t \in SUBSET S, Cardinality(t) <= m PROVE t \in P
    BY <1>1
  <2>1. CASE t = {} BY <2>1
  <2>2. CASE t # {}
    <3> DEFINE x == Pick(t)
    <3>1. x \in t BY <2>2, PickIn
    <3> HIDE DEF x
    <3>2. Cardinality(t \ {x}) = Cardinality(t) - 1 BY <1>1, <3>1, FS_RemoveElement
    <3>3. t \ {x} \in SUBSET S /\ Cardinality(t \ {x}) <= m - 1 BY <1>1, <3>2
    <3>4. t \ {x} \in P BY <1>3, <3>3
    <3> QED BY <2>2, <3>4 DEF x
  <2> QED BY <2>1, <2>2
<1> HIDE DEF Q, n
<1>4. \A m \in 0 .. n : m \in Q BY <1>1, <1>2, <1>3, UpTo
<1>5. n \in Q BY <1>1, <1>4
<1> QED BY <1>1, <1>5 DEF Q

(* There is a fold over every finite set, and it stays among the values its*)
(* step stays among.                                                       *)
LEMMA FoldExists ==
  ASSUME NEW S, IsFiniteSet(S), NEW V, NEW base \in V, NEW st \in [S \X V -> V]
  PROVE  \E g \in [SUBSET S -> V] : IsFold(g, S, base, st)
<1> DEFINE n == Cardinality(S)
           Sub(m) == {t \in SUBSET S : Cardinality(t) <= m}
           Next1(g, t) == IF t = {} THEN base ELSE st[<<Pick(t), g[t \ {Pick(t)}]>>]
           Sol(g, m) == \A t \in Sub(m) : g[t] = Next1(g, t)
           P == {m \in 0 .. n : \E g \in [Sub(m) -> V] : Sol(g, m)}
<1>1. n \in Nat /\ \A t \in SUBSET S : IsFiniteSet(t) /\ Cardinality(t) \in Nat /\ Cardinality(t) <= n
  BY FS_CardinalityType, FS_Subset
<1>2. 0 \in P
  <2>1. \A t \in Sub(0) : t = {} BY <1>1, FS_EmptySet
  <2> DEFINE g == [t \in Sub(0) |-> base]
  <2>2. g \in [Sub(0) -> V] /\ Sol(g, 0) BY <2>1
  <2>3. 0 \in 0 .. n BY <1>1
  <2> HIDE DEF g, Sol, Sub, n
  <2> QED BY <2>2, <2>3
<1>5. ASSUME NEW t \in SUBSET S, t # {}
      PROVE  /\ Pick(t) \in t /\ Pick(t) \in S /\ t \ {Pick(t)} \in SUBSET S
             /\ Cardinality(t \ {Pick(t)}) = Cardinality(t) - 1
  <2> DEFINE x == Pick(t)
  <2>1. x \in t BY <1>5, PickIn
  <2> HIDE DEF x
  <2>2. Cardinality(t \ {x}) = Cardinality(t) - 1 BY <1>1, <2>1, FS_RemoveElement
  <2> QED BY <2>1, <2>2 DEF x
<1>3. ASSUME NEW m \in 1 .. n, m - 1 \in P PROVE m \in P
  <2>1. PICK g \in [Sub(m - 1) -> V] : Sol(g, m - 1) BY <1>3
  <2> DEFINE h == [t \in Sub(m) |-> Next1(g, t)]
  <2>2. ASSUME NEW t \in Sub(m), t # {}
        PROVE  Pick(t) \in S /\ t \ {Pick(t)} \in Sub(m - 1) /\ t \ {Pick(t)} \in Sub(m)
    <3>1. t \in SUBSET S /\ Cardinality(t) <= m /\ Cardinality(t) \in Nat BY <1>1
    <3>2. /\ Pick(t) \in S /\ t \ {Pick(t)} \in SUBSET S
          /\ Cardinality(t \ {Pick(t)}) = Cardinality(t) - 1
      BY <1>5, <2>2, <3>1
    <3>3. Cardinality(t \ {Pick(t)}) <= m - 1 /\ Cardinality(t \ {Pick(t)}) <= m BY <3>1, <3>2
    <3> QED BY <3>2, <3>3
  <2>3. h \in [Sub(m) -> V]
    <3> SUFFICES ASSUME NEW t \in Sub(m) PROVE Next1(g, t) \in V OBVIOUS
    <3>1. CASE t = {} BY <3>1
    <3>2. CASE t # {}
      <4> DEFINE x == Pick(t)
                 u == t \ {x}
      <4>1. x \in S /\ u \in Sub(m - 1) BY <2>2, <3>2
      <4>2. g[u] \in V BY <2>1, <4>1
      <4> HIDE DEF x, u
      <4>3. st[<<x, g[u]>>] \in V BY <4>1, <4>2
      <4> QED BY <3>2, <4>3 DEF x, u
    <3> QED BY <3>1, <3>2
  <2>4. \A t \in Sub(m - 1) : t \in Sub(m) /\ h[t] = g[t]
    <3> SUFFICES ASSUME NEW t \in Sub(m - 1) PROVE t \in Sub(m) /\ h[t] = g[t] OBVIOUS
    <3>1. t \in Sub(m) BY <1>1
    <3>2. h[t] = Next1(g, t) BY <3>1
    <3>3. g[t] = Next1(g, t) BY <2>1
    <3> QED BY <3>1, <3>2, <3>3
  <2>5. Sol(h, m)
    <3> SUFFICES ASSUME NEW t \in Sub(m) PROVE h[t] = Next1(h, t) OBVIOUS
    <3>1. h[t] = Next1(g, t) OBVIOUS
    <3>2. CASE t = {} BY <3>1, <3>2
    <3>3. CASE t # {}
      <4>1. h[t \ {Pick(t)}] = g[t \ {Pick(t)}] BY <2>2, <2>4, <3>3
      <4> HIDE DEF h
      <4> QED BY <3>1, <3>3, <4>1
    <3> QED BY <3>2, <3>3
  <2> HIDE DEF h, Sol, Sub
  <2> QED BY <2>3, <2>5
<1> HIDE DEF P
<1>4. n \in P
  <2> HIDE DEF n
  <2>1. \A m \in 0 .. n : m \in P BY <1>1, <1>2, <1>3, UpTo
  <2> QED BY <1>1, <2>1
<1>6. Sub(n) = SUBSET S BY <1>1
<1>7. PICK g \in [Sub(n) -> V] : Sol(g, n) BY <1>4 DEF P
<1>8. g \in [SUBSET S -> V] /\ \A t \in SUBSET S : g[t] = Next1(g, t) BY <1>6, <1>7
<1> HIDE DEF Sub, Sol, Next1
<1>9. g = [t \in SUBSET S |-> Next1(g, t)] BY <1>8
<1>10. IsFold(g, S, base, st) BY <1>9 DEF IsFold, Next1
<1> QED BY <1>8, <1>10

-------------------------------------------------------------------------------
(* HyperLogLog. *)

(* The register of index x after the hashes of A. *)
IsTop(m, A, x) ==
  /\ m \in 0 .. MaxRank
  /\ \A h \in A : h.index = x => h.rank <= m
  /\ m = 0 \/ \E h \in A : h.index = x /\ h.rank = m

(* s is the sketch of the set A of hashes. *)
IsHll(s, A) ==
  /\ s \in Storage /\ A \subseteq Hash
  /\ s.kind = "dense" => s.hashes = {} /\ s.registers = RegistersOf(A)
  /\ s.kind # "dense" => /\ s.hashes = A /\ s.registers = NoRegisters
                         /\ IsFiniteSet(A) /\ Cardinality(A) <= SparseLimit

(* The registers of a set of hashes hold the largest rank of each index. *)
LEMMA RegistersTop ==
  ASSUME NEW A \in SUBSET Hash
  PROVE  RegistersOf(A) \in [Index -> 0 .. MaxRank] /\ \A x \in Index : IsTop(RegistersOf(A)[x], A, x)
<1>1. ASSUME NEW x \in Index
      PROVE  RegistersOf(A)[x] \in 0 .. MaxRank /\ IsTop(RegistersOf(A)[x], A, x)
  <2> DEFINE T == {0} \cup {h.rank : h \in {g \in A : g.index = x}}
             m == RegistersOf(A)[x]
  <2>1. m = Max(T) BY DEF RegistersOf
  <2>2. MaxRank \in Nat BY HashAssumption
  <2>3. \A h \in A : h.rank \in 1 .. MaxRank BY DEF Hash
  <2>4. T \in SUBSET (0 .. MaxRank) /\ 0 \in T BY <2>2, <2>3
  <2>9. T \in SUBSET Nat BY <2>4
  <2>5. IsFiniteSet(T)
    <3> HIDE DEF T
    <3>1. IsFiniteSet(0 .. MaxRank) BY <2>2, FS_Interval
    <3> QED BY <2>4, <3>1, FS_Subset, Zenon
  <2>6. m \in T /\ \A y \in T : m >= y
    <3> HIDE DEF T, m
    <3>1. T # {} BY <2>4
    <3>2. \E y \in T : \A z \in T : y >= z BY <2>5, <2>9, <3>1, GreatestNat
    <3> QED BY <2>1, <3>2, Zenon DEF Max
  <2>7. m \in 0 .. MaxRank BY <2>4, <2>6
  <2> HIDE DEF m
  <2>8. \A h \in A : h.index = x => h.rank <= m BY <2>3, <2>6, <2>7
  <2>10. m = 0 \/ \E h \in A : h.index = x /\ h.rank = m BY <2>6
  <2> QED BY <2>7, <2>8, <2>10 DEF IsTop, m
<1>2. RegistersOf(A) = [x \in Index |-> RegistersOf(A)[x]] BY DEF RegistersOf
<1> QED BY <1>1, <1>2

(* Nothing else does. *)
LEMMA RegistersAre ==
  ASSUME NEW A \in SUBSET Hash, NEW r \in [Index -> 0 .. MaxRank],
         \A x \in Index : IsTop(r[x], A, x)
  PROVE  r = RegistersOf(A)
<1> DEFINE q == RegistersOf(A)
<1>1. q \in [Index -> 0 .. MaxRank] /\ \A x \in Index : IsTop(q[x], A, x) BY RegistersTop
<1> HIDE DEF q
<1>2. MaxRank \in Nat BY HashAssumption
<1>3. ASSUME NEW x \in Index PROVE r[x] = q[x]
  <2> DEFINE a == r[x]
             b == q[x]
  <2>1. IsTop(a, A, x) /\ IsTop(b, A, x) BY <1>1
  <2> HIDE DEF a, b
  <2>2. a \in Nat /\ b \in Nat BY <1>2, <2>1 DEF IsTop
  <2>3. a <= b BY <2>1, <2>2 DEF IsTop
  <2>4. b <= a BY <2>1, <2>2 DEF IsTop
  <2>5. a = b BY <2>2, <2>3, <2>4
  <2> QED BY <2>5 DEF a, b
<1>4. r = q BY <1>1, <1>3
<1> QED BY <1>4 DEF q

(* No hashes leave the registers empty. *)
LEMMA NoRegistersAre == NoRegisters = RegistersOf({}) /\ NoRegisters \in [Index -> 0 .. MaxRank]
<1>1. MaxRank \in Nat BY HashAssumption
<1>2. NoRegisters \in [Index -> 0 .. MaxRank] BY <1>1 DEF NoRegisters
<1>3. \A x \in Index : NoRegisters[x] = 0 BY DEF NoRegisters
<1>4. \A x \in Index : IsTop(NoRegisters[x], {}, x) BY <1>1, <1>3 DEF IsTop
<1>5. {} \in SUBSET Hash OBVIOUS
<1> QED BY <1>2, <1>4, <1>5, RegistersAre

(* Updating a register with one more hash. *)
LEMMA UpdateRegisterIs ==
  ASSUME NEW A \in SUBSET Hash, NEW h \in Hash
  PROVE  UpdateRegister(RegistersOf(A), h) = RegistersOf(A \cup {h})
<1> DEFINE r == RegistersOf(A)
           n == UpdateRegister(r, h)
           B == A \cup {h}
<1>1. r \in [Index -> 0 .. MaxRank] /\ \A x \in Index : IsTop(r[x], A, x) BY RegistersTop
<1>2. MaxRank \in Nat /\ h.index \in Index /\ h.rank \in 1 .. MaxRank BY HashAssumption DEF Hash
<1>3. n = [r EXCEPT ![h.index] = IF h.rank > @ THEN h.rank ELSE @] BY DEF UpdateRegister
<1> HIDE DEF r, n
<1>4. n \in [Index -> 0 .. MaxRank] BY <1>1, <1>2, <1>3
<1>5. ASSUME NEW x \in Index PROVE IsTop(n[x], B, x)
  <2> DEFINE a == r[x]
             b == n[x]
  <2>1. IsTop(a, A, x) /\ a \in 0 .. MaxRank BY <1>1
  <2>2. b = IF h.index = x /\ h.rank > a THEN h.rank ELSE a BY <1>1, <1>2, <1>3
  <2> HIDE DEF a, b
  <2>3. \A g \in A : g.rank \in Nat BY <1>2 DEF Hash
  <2>4. b \in 0 .. MaxRank /\ b >= a BY <1>2, <2>1, <2>2
  <2>5. \A g \in B : g.index = x => g.rank <= b
    <3>1. h.index = x => h.rank <= b BY <1>2, <2>1, <2>2
    <3>2. \A g \in A : g.index = x => g.rank <= b BY <1>2, <2>1, <2>3, <2>4 DEF IsTop
    <3> QED BY <3>1, <3>2
  <2>6. b = 0 \/ \E g \in B : g.index = x /\ g.rank = b
    <3>1. CASE h.index = x /\ h.rank > a BY <2>2, <3>1
    <3>2. CASE ~(h.index = x /\ h.rank > a)
      <4>1. b = a BY <2>2, <3>2
      <4> QED BY <2>1, <4>1 DEF IsTop
    <3> QED BY <3>1, <3>2
  <2>7. IsTop(b, B, x) BY <2>4, <2>5, <2>6 DEF IsTop
  <2> QED BY <2>7 DEF b
<1>6. B \in SUBSET Hash OBVIOUS
<1> HIDE DEF B
<1>7. n = RegistersOf(B) BY <1>4, <1>5, <1>6, RegistersAre
<1> QED BY <1>7 DEF n, r, B

(* Merging registers takes the larger of each. *)
LEMMA MergeRegistersIs ==
  ASSUME NEW A \in SUBSET Hash, NEW B \in SUBSET Hash, NEW n,
         n = [x \in Index |-> IF RegistersOf(B)[x] > RegistersOf(A)[x]
                              THEN RegistersOf(B)[x] ELSE RegistersOf(A)[x]]
  PROVE  n = RegistersOf(A \cup B)
<1> DEFINE r == RegistersOf(A)
           q == RegistersOf(B)
           C == A \cup B
<1>1. /\ r \in [Index -> 0 .. MaxRank] /\ \A x \in Index : IsTop(r[x], A, x)
      /\ q \in [Index -> 0 .. MaxRank] /\ \A x \in Index : IsTop(q[x], B, x)
  BY RegistersTop
<1>2. MaxRank \in Nat BY HashAssumption
<1>3. n = [x \in Index |-> IF q[x] > r[x] THEN q[x] ELSE r[x]] OBVIOUS
<1> HIDE DEF r, q
<1>4. n \in [Index -> 0 .. MaxRank] BY <1>1, <1>2, <1>3
<1>5. ASSUME NEW x \in Index PROVE IsTop(n[x], C, x)
  <2> DEFINE a == r[x]
             b == q[x]
             c == n[x]
  <2>1. IsTop(a, A, x) /\ IsTop(b, B, x) /\ a \in 0 .. MaxRank /\ b \in 0 .. MaxRank BY <1>1
  <2>2. c = IF b > a THEN b ELSE a BY <1>1, <1>3
  <2> HIDE DEF a, b, c
  <2>3. \A g \in C : g.rank \in Nat BY <1>2 DEF Hash
  <2>4. c \in 0 .. MaxRank /\ c >= a /\ c >= b BY <1>2, <2>1, <2>2
  <2>5. \A g \in C : g.index = x => g.rank <= c
    <3>1. \A g \in A : g.index = x => g.rank <= c BY <1>2, <2>1, <2>3, <2>4 DEF IsTop
    <3>2. \A g \in B : g.index = x => g.rank <= c BY <1>2, <2>1, <2>3, <2>4 DEF IsTop
    <3> QED BY <3>1, <3>2
  <2>6. c = 0 \/ \E g \in C : g.index = x /\ g.rank = c
    <3>1. CASE b > a
      <4>1. c = b BY <2>2, <3>1
      <4> QED BY <2>1, <4>1 DEF IsTop
    <3>2. CASE ~ (b > a)
      <4>1. c = a BY <2>2, <3>2
      <4> QED BY <2>1, <4>1 DEF IsTop
    <3> QED BY <3>1, <3>2
  <2>7. IsTop(c, C, x) BY <2>4, <2>5, <2>6 DEF IsTop
  <2> QED BY <2>7 DEF c
<1>6. C \in SUBSET Hash OBVIOUS
<1> HIDE DEF C
<1>7. n = RegistersOf(C) BY <1>4, <1>5, <1>6, RegistersAre
<1> QED BY <1>7 DEF C

(* The parts of a sketch are of their types. *)
LEMMA HllType ==
  ASSUME NEW s \in Storage
  PROVE  /\ s.kind \in {"empty", "singleton", "sparse", "dense"}
         /\ s.hashes \in SUBSET Hash /\ s.registers \in [Index -> 0 .. MaxRank]
         /\ s = [kind |-> s.kind, hashes |-> s.hashes, registers |-> s.registers]
BY DEF Storage

(* Going dense keeps what the sketch is of. *)
LEMMA EnsureDenseIs ==
  ASSUME NEW s, NEW A, IsHll(s, A)
  PROVE  EnsureDense(s) = [kind |-> "dense", hashes |-> {}, registers |-> RegistersOf(A)]
<1>1. s \in Storage BY DEF IsHll
<1>2. CASE s.kind = "dense"
  <2>1. EnsureDense(s) = s BY <1>2 DEF EnsureDense
  <2>2. s.hashes = {} /\ s.registers = RegistersOf(A) BY <1>2 DEF IsHll
  <2> QED BY <1>1, <1>2, <2>1, <2>2, HllType
<1>3. CASE s.kind # "dense"
  <2>1. s.hashes = A BY <1>3 DEF IsHll
  <2> QED BY <1>3, <2>1 DEF EnsureDense
<1> QED BY <1>2, <1>3

(* A dense sketch of A. *)
LEMMA DenseIs ==
  ASSUME NEW A \in SUBSET Hash, NEW n, n = [kind |-> "dense", hashes |-> {}, registers |-> RegistersOf(A)]
  PROVE  IsHll(n, A)
<1>1. RegistersOf(A) \in [Index -> 0 .. MaxRank] BY RegistersTop
<1>2. n \in Storage BY <1>1 DEF Storage
<1>3. n.kind = "dense" /\ n.hashes = {} /\ n.registers = RegistersOf(A) OBVIOUS
<1> QED BY <1>2, <1>3 DEF IsHll

(* A sketch that keeps the hashes themselves. *)
LEMMA SparseIs ==
  ASSUME NEW A \in SUBSET Hash, IsFiniteSet(A), Cardinality(A) <= SparseLimit,
         NEW kind \in {"empty", "singleton", "sparse"},
         NEW n, n = [kind |-> kind, hashes |-> A, registers |-> NoRegisters]
  PROVE  IsHll(n, A)
<1>1. n \in Storage BY NoRegistersAre DEF Storage
<1>2. n.kind # "dense" /\ n.hashes = A /\ n.registers = NoRegisters OBVIOUS
<1> QED BY <1>1, <1>2 DEF IsHll

(* One more hash, in any representation. *)
LEMMA InsertHashIs ==
  ASSUME NEW s, NEW A, IsHll(s, A), NEW h \in Hash
  PROVE  IsHll(InsertHash(s, h), A \cup {h})
<1> DEFINE n == InsertHash(s, h)
           B == A \cup {h}
           sparse == IF s.kind = "empty" THEN "singleton" ELSE "sparse"
<1>1. s \in Storage /\ A \in SUBSET Hash /\ B \in SUBSET Hash BY DEF IsHll
<1>2. CASE s.kind # "dense" /\ h \in s.hashes
  <2>1. n = s BY <1>2 DEF InsertHash
  <2>2. s.hashes = A BY <1>2 DEF IsHll
  <2>3. B = A BY <1>2, <2>2
  <2> QED BY <2>1, <2>3
<1>3. CASE s.kind # "dense" /\ h \notin s.hashes /\ Cardinality(s.hashes) < SparseLimit
  <2>1. n = [s EXCEPT !.kind = sparse, !.hashes = @ \cup {h}] BY <1>3 DEF InsertHash
  <2>2. s.hashes = A /\ s.registers = NoRegisters /\ IsFiniteSet(A) BY <1>3 DEF IsHll
  <2>3. n = [kind |-> sparse, hashes |-> B, registers |-> NoRegisters] BY <1>1, <2>1, <2>2, HllType
  <2>4. IsFiniteSet(B) /\ Cardinality(B) = Cardinality(A) + 1 BY <1>3, <2>2, FS_AddElement
  <2>5. Cardinality(A) \in Nat /\ SparseLimit \in Nat BY <2>2, FS_CardinalityType, HashAssumption
  <2>6. Cardinality(B) <= SparseLimit BY <1>3, <2>2, <2>4, <2>5
  <2>7. sparse \in {"empty", "singleton", "sparse"} OBVIOUS
  <2> HIDE DEF n, B, sparse
  <2>8. IsHll(n, B) BY <1>1, <2>3, <2>4, <2>6, <2>7, SparseIs
  <2> QED BY <2>8 DEF n, B
<1>4. CASE ~ (s.kind # "dense" /\ h \in s.hashes)
           /\ ~ (s.kind # "dense" /\ Cardinality(s.hashes) < SparseLimit)
  <2>1. n = [EnsureDense(s) EXCEPT !.registers = UpdateRegister(@, h)] BY <1>4 DEF InsertHash
  <2>2. EnsureDense(s) = [kind |-> "dense", hashes |-> {}, registers |-> RegistersOf(A)]
    BY EnsureDenseIs
  <2>3. n = [kind |-> "dense", hashes |-> {}, registers |-> UpdateRegister(RegistersOf(A), h)]
    BY <2>1, <2>2
  <2>4. UpdateRegister(RegistersOf(A), h) = RegistersOf(B) BY <1>1, UpdateRegisterIs
  <2>5. n = [kind |-> "dense", hashes |-> {}, registers |-> RegistersOf(B)] BY <2>3, <2>4
  <2> HIDE DEF n, B
  <2>6. IsHll(n, B) BY <1>1, <2>5, DenseIs
  <2> QED BY <2>6 DEF n, B
<1> QED BY <1>2, <1>3, <1>4

(* The type of a step, for any sketch. *)
LEMMA InsertHashType ==
  ASSUME NEW s \in Storage, NEW h \in Hash
  PROVE  InsertHash(s, h) \in Storage
<1> DEFINE n == InsertHash(s, h)
           sparse == IF s.kind = "empty" THEN "singleton" ELSE "sparse"
           d == EnsureDense(s)
           r == UpdateRegister(d.registers, h)
<1>1. CASE s.kind # "dense" /\ h \in s.hashes BY <1>1 DEF InsertHash
<1>2. CASE s.kind # "dense" /\ h \notin s.hashes /\ Cardinality(s.hashes) < SparseLimit
  <2>1. n = [s EXCEPT !.kind = sparse, !.hashes = @ \cup {h}] BY <1>2 DEF InsertHash
  <2>2. sparse \in {"empty", "singleton", "sparse", "dense"} OBVIOUS
  <2> HIDE DEF sparse, n
  <2>5. s = [kind |-> s.kind, hashes |-> s.hashes, registers |-> s.registers] BY HllType
  <2>3. n = [kind |-> sparse, hashes |-> s.hashes \cup {h}, registers |-> s.registers]
    BY <2>1, <2>5
  <2>4. n \in Storage BY <2>2, <2>3, HllType DEF Storage
  <2> QED BY <2>4 DEF n
<1>3. CASE ~ (s.kind # "dense" /\ h \in s.hashes)
           /\ ~ (s.kind # "dense" /\ Cardinality(s.hashes) < SparseLimit)
  <2>1. n = [d EXCEPT !.registers = UpdateRegister(@, h)] BY <1>3 DEF InsertHash
  <2>2. d \in Storage
    <3>1. s.hashes \in SUBSET Hash BY HllType
    <3>2. RegistersOf(s.hashes) \in [Index -> 0 .. MaxRank] BY <3>1, RegistersTop
    <3> QED BY <3>2 DEF EnsureDense, Storage
  <2>3. d.registers \in [Index -> 0 .. MaxRank] BY <2>2, HllType
  <2>4. h.index \in Index /\ h.rank \in 1 .. MaxRank /\ MaxRank \in Nat BY HashAssumption DEF Hash
  <2> HIDE DEF d
  <2>5. r \in [Index -> 0 .. MaxRank] BY <2>3, <2>4 DEF UpdateRegister
  <2>6. n = [d EXCEPT !.registers = r] BY <2>1, <2>2 DEF Storage
  <2> HIDE DEF n, r
  <2>7. n \in Storage BY <2>2, <2>5, <2>6 DEF Storage
  <2> QED BY <2>7 DEF n
<1> QED BY <1>1, <1>2, <1>3

(* Inserting the hashes of a set one by one. *)
InsertAll(s, H) == FoldSet(LAMBDA h, acc : InsertHash(acc, h), s, H)

(* In whatever order, that gives the sketch of them all. *)
LEMMA InsertAllIs ==
  ASSUME NEW s, NEW A, IsHll(s, A), NEW H \in SUBSET Hash, IsFiniteSet(H)
  PROVE  IsHll(InsertAll(s, H), A \cup H)
<1> DEFINE st == [p \in H \X Storage |-> InsertHash(p[2], p[1])]
           Eq(g) == g = [t \in SUBSET H |-> IF t = {} THEN s
                                            ELSE InsertHash(g[t \ {Pick(t)}], Pick(t))]
           G == CHOOSE g : Eq(g)
<1>0. s \in Storage BY DEF IsHll
<1>1. InsertAll(s, H) = G[H]
  BY Zenon DEF InsertAll, FoldSet, MapThenFoldSet, Pick
<1>2. st \in [H \X Storage -> Storage]
  <2> SUFFICES ASSUME NEW p \in H \X Storage PROVE InsertHash(p[2], p[1]) \in Storage OBVIOUS
  <2>1. p[1] \in Hash /\ p[2] \in Storage OBVIOUS
  <2> QED BY <2>1, InsertHashType
<1>3. \A h \in H, v \in Storage : st[<<h, v>>] = InsertHash(v, h) OBVIOUS
<1> HIDE DEF st
<1>4. \E g : Eq(g)
  <2>1. PICK g \in [SUBSET H -> Storage] : IsFold(g, H, s, st) BY <1>0, <1>2, FoldExists
  <2>2. ASSUME NEW t \in SUBSET H
        PROVE  g[t] = IF t = {} THEN s ELSE InsertHash(g[t \ {Pick(t)}], Pick(t))
    <3>1. g[t] = IF t = {} THEN s ELSE st[<<Pick(t), g[t \ {Pick(t)}]>>] BY <2>1, Zenon DEF IsFold
    <3>2. CASE t = {} BY <3>1, <3>2
    <3>3. CASE t # {}
      <4> DEFINE x == Pick(t)
                 v == g[t \ {x}]
      <4>1. x \in t BY <3>3, PickIn
      <4> HIDE DEF x
      <4>2. x \in H /\ t \ {x} \in SUBSET H BY <4>1
      <4>3. v \in Storage BY <4>2
      <4> HIDE DEF v
      <4>4. st[<<x, v>>] = InsertHash(v, x) BY <1>3, <4>2, <4>3
      <4> QED BY <3>1, <3>3, <4>4 DEF x, v
    <3> QED BY <3>2, <3>3
  <2>3. g = [t \in SUBSET H |-> g[t]] OBVIOUS
  <2>4. [t \in SUBSET H |-> g[t]] = [t \in SUBSET H |-> IF t = {} THEN s
                                            ELSE InsertHash(g[t \ {Pick(t)}], Pick(t))]
    BY <2>2
  <2> QED BY <2>3, <2>4, Zenon
<1>5. Eq(G)
  <2> HIDE DEF Eq
  <2> QED BY <1>4, Zenon
<1>6. \A t \in SUBSET H : G[t] = IF t = {} THEN s ELSE InsertHash(G[t \ {Pick(t)}], Pick(t))
  <2> HIDE DEF G
  <2> QED BY <1>5, Zenon
<1> HIDE DEF G
<1> DEFINE P == {t \in SUBSET H : IsHll(G[t], A \cup t)}
<1>7. {} \in P
  <2>1. G[{}] = s /\ A \cup {} = A BY <1>6
  <2> QED BY <2>1
<1>8. ASSUME NEW t \in SUBSET H, t # {}, t \ {Pick(t)} \in P PROVE t \in P
  <2> DEFINE x == Pick(t)
             u == t \ {x}
             B == A \cup u
  <2>1. x \in t /\ u \in P /\ G[t] = InsertHash(G[u], x) BY <1>6, <1>8, PickIn
  <2>2. IsHll(G[u], B) BY <2>1
  <2>3. B \cup {x} = A \cup t /\ x \in Hash BY <2>1
  <2> HIDE DEF x, u, B
  <2>4. IsHll(InsertHash(G[u], x), B \cup {x}) BY <2>2, <2>3, InsertHashIs
  <2> QED BY <2>1, <2>3, <2>4
<1> HIDE DEF P
<1>9. \A t \in SUBSET H : t \in P BY <1>7, <1>8, SubsetInduction
<1>10. H \in P BY <1>9
<1> QED BY <1>1, <1>10 DEF P

(* A merge is of the hashes of both sides. *)
LEMMA MergeHllIs ==
  ASSUME NEW s, NEW A, IsHll(s, A), NEW o, NEW B, IsHll(o, B)
  PROVE  IsHll(MergeHll(s, o), A \cup B)
<1>1. A \in SUBSET Hash /\ B \in SUBSET Hash /\ o \in Storage BY DEF IsHll
<1>2. CASE o.kind = "dense"
  <2> DEFINE r == RegistersOf(A)
             q == RegistersOf(B)
             n == [x \in Index |-> IF q[x] > r[x] THEN q[x] ELSE r[x]]
             m == MergeHll(s, o)
  <2>1. o.registers = q BY <1>2 DEF IsHll
  <2>2. EnsureDense(s) = [kind |-> "dense", hashes |-> {}, registers |-> r] BY EnsureDenseIs
  <2>3. m = [EnsureDense(s) EXCEPT !.registers =
               [x \in Index |-> IF o.registers[x] > @[x] THEN o.registers[x] ELSE @[x]]]
    BY <1>2 DEF MergeHll
  <2>4. m = [kind |-> "dense", hashes |-> {}, registers |-> n] BY <2>1, <2>2, <2>3
  <2>5. n = RegistersOf(A \cup B) BY <1>1, MergeRegistersIs
  <2>6. m = [kind |-> "dense", hashes |-> {}, registers |-> RegistersOf(A \cup B)] BY <2>4, <2>5
  <2>7. A \cup B \in SUBSET Hash BY <1>1
  <2> HIDE DEF m
  <2>8. IsHll(m, A \cup B) BY <2>6, <2>7, DenseIs
  <2> QED BY <2>8 DEF m
<1>3. CASE o.kind # "dense"
  <2>1. o.hashes = B /\ IsFiniteSet(B) BY <1>3 DEF IsHll
  <2>2. MergeHll(s, o) = InsertAll(s, B) BY <1>3, <2>1, Zenon DEF MergeHll, InsertAll
  <2> QED BY <1>1, <2>1, <2>2, InsertAllIs
<1> QED BY <1>2, <1>3

(* A snapshot is read back as the same sketch. *)
LEMMA RestoreHllIs ==
  ASSUME NEW s, NEW A, IsHll(s, A)
  PROVE  IsHll(RestoreHll(s), A)
<1> DEFINE c == Cardinality(s.hashes)
           kind == IF s.kind = "dense" THEN s.kind
                   ELSE CASE c = 0 -> "empty" [] c = 1 -> "singleton" [] OTHER -> "sparse"
           n == RestoreHll(s)
<1>1. s \in Storage BY DEF IsHll
<1>2. n = [s EXCEPT !.kind = kind] BY <1>1, HllType DEF RestoreHll
<1>3. kind \in {"empty", "singleton", "sparse", "dense"} /\ (kind = "dense" <=> s.kind = "dense")
  OBVIOUS
<1> HIDE DEF kind, n
<1>4. /\ n.kind = kind /\ n.hashes = s.hashes /\ n.registers = s.registers /\ n \in Storage
  BY <1>1, <1>2, <1>3 DEF Storage
<1>5. IsHll(n, A) BY <1>3, <1>4 DEF IsHll
<1> QED BY <1>5 DEF n

(* A reset sketch is of nothing. *)
LEMMA ResetHllIs ==
  ASSUME NEW s \in Storage
  PROVE  IsHll(ResetHll(s), {})
<1> DEFINE n == ResetHll(s)
           kind == IF s.kind = "singleton" THEN "empty" ELSE s.kind
<1>0. s = [kind |-> s.kind, hashes |-> s.hashes, registers |-> s.registers] BY HllType
<1>6. n = [s EXCEPT !.kind = kind, !.hashes = {}, !.registers = NoRegisters] BY <1>0 DEF ResetHll
<1>7. kind \in {"empty", "singleton", "sparse", "dense"} BY HllType
<1> HIDE DEF n, kind
<1>8. n = [kind |-> kind, hashes |-> {}, registers |-> NoRegisters] BY <1>0, <1>6
<1>1. n.kind = kind /\ n.hashes = {} /\ n.registers = NoRegisters BY <1>8
<1>2. n \in Storage
  BY <1>7, <1>8, NoRegistersAre DEF Storage
<1>3. IsFiniteSet({}) /\ Cardinality({}) = 0 BY FS_EmptySet
<1>4. 0 <= SparseLimit BY HashAssumption
<1>5. IsHll(n, {}) BY <1>1, <1>2, <1>3, <1>4, NoRegistersAre DEF IsHll
<1> QED BY <1>5 DEF n

(* So is a new one. *)
LEMMA EmptyHllIs == IsHll(EmptyHll, {})
<1>1. {} \in SUBSET Hash /\ IsFiniteSet({}) /\ Cardinality({}) = 0 BY FS_EmptySet
<1>2. Cardinality({}) <= SparseLimit BY <1>1, HashAssumption
<1>3. "empty" \in {"empty", "singleton", "sparse"} OBVIOUS
<1>4. EmptyHll = [kind |-> "empty", hashes |-> {}, registers |-> NoRegisters] BY DEF EmptyHll
<1> QED BY <1>1, <1>2, <1>3, <1>4, SparseIs

(* The sum the estimate of a dense sketch is made from. *)
Deficit(s, S) == MapThenSumSet(LAMBDA x : 2 ^ (MaxRank - s.registers[x]), S)

(* It is a number. *)
LEMMA DeficitType ==
  ASSUME NEW s \in Storage, NEW S \in SUBSET Index
  PROVE  Deficit(s, S) \in Int
<1> DEFINE w(x) == 2 ^ (MaxRank - s.registers[x])
           st == [p \in S \X Int |-> w(p[1]) + p[2]]
           Eq(g) == g = [t \in SUBSET S |-> IF t = {} THEN 0 ELSE w(Pick(t)) + g[t \ {Pick(t)}]]
           G == CHOOSE g : Eq(g)
<1>0. IsFiniteSet(S) BY HashAssumption, FS_Subset
<1>1. Deficit(s, S) = G[S]
  BY Zenon DEF Deficit, MapThenSumSet, MapThenFoldSet, Pick
<1>2. \A x \in S : w(x) \in Int
  <2>1. MaxRank \in Nat BY HashAssumption
  <2>2. \A x \in S : s.registers[x] \in 0 .. MaxRank BY HllType
  <2>3. \A x \in S : MaxRank - s.registers[x] \in Nat BY <2>1, <2>2
  <2> QED BY <2>3
<1> HIDE DEF w
<1>3. st \in [S \X Int -> Int] /\ 0 \in Int BY <1>2
<1>4. \A x \in S, v \in Int : st[<<x, v>>] = w(x) + v OBVIOUS
<1> HIDE DEF st
<1>5. \E g : Eq(g)
  <2>1. PICK g \in [SUBSET S -> Int] : IsFold(g, S, 0, st) BY <1>0, <1>3, FoldExists
  <2>2. ASSUME NEW t \in SUBSET S
        PROVE  g[t] = IF t = {} THEN 0 ELSE w(Pick(t)) + g[t \ {Pick(t)}]
    <3>1. g[t] = IF t = {} THEN 0 ELSE st[<<Pick(t), g[t \ {Pick(t)}]>>] BY <2>1, Zenon DEF IsFold
    <3>2. CASE t = {} BY <3>1, <3>2
    <3>3. CASE t # {}
      <4> DEFINE x == Pick(t)
                 v == g[t \ {x}]
      <4>1. x \in t BY <3>3, PickIn
      <4> HIDE DEF x
      <4>2. x \in S /\ t \ {x} \in SUBSET S BY <4>1
      <4>3. v \in Int BY <4>2
      <4> HIDE DEF v
      <4>4. st[<<x, v>>] = w(x) + v BY <1>4, <4>2, <4>3
      <4> QED BY <3>1, <3>3, <4>4 DEF x, v
    <3> QED BY <3>2, <3>3
  <2>3. g = [t \in SUBSET S |-> g[t]] OBVIOUS
  <2>4. [t \in SUBSET S |-> g[t]]
          = [t \in SUBSET S |-> IF t = {} THEN 0 ELSE w(Pick(t)) + g[t \ {Pick(t)}]]
    BY <2>2
  <2> QED BY <2>3, <2>4, Zenon
<1>6. Eq(G)
  <2> HIDE DEF Eq
  <2> QED BY <1>5, Zenon
<1>7. \A t \in SUBSET S : G[t] = IF t = {} THEN 0 ELSE w(Pick(t)) + G[t \ {Pick(t)}]
  <2> HIDE DEF G
  <2> QED BY <1>6, Zenon
<1> HIDE DEF G
<1> DEFINE P == {t \in SUBSET S : G[t] \in Int}
<1>8. {} \in P BY <1>7
<1>9. ASSUME NEW t \in SUBSET S, t # {}, t \ {Pick(t)} \in P PROVE t \in P
  <2> DEFINE x == Pick(t)
             v == G[t \ {x}]
  <2>1. x \in S /\ v \in Int /\ G[t] = w(x) + v BY <1>7, <1>9, PickIn
  <2> HIDE DEF x, v
  <2>2. w(x) \in Int BY <1>2, <2>1
  <2> QED BY <2>1, <2>2
<1> HIDE DEF P
<1>10. \A t \in SUBSET S : t \in P BY <1>0, <1>8, <1>9, SubsetInduction
<1>11. S \in P BY <1>10
<1> QED BY <1>1, <1>11 DEF P

(* Estimates can be compared. *)
LEMMA EstimateType ==
  ASSUME NEW s, NEW A, IsHll(s, A)
  PROVE  CardinalityOf(s) \in Int
<1> DEFINE S == {x \in Index : s.registers[x] > 0}
<1>1. s \in Storage BY DEF IsHll
<1>2. CardinalityOf(s) = IF s.kind # "dense" THEN 100 * Cardinality(s.hashes)
                         ELSE IF S = {} THEN 0
                              ELSE 100 * Cardinality(S) + 2 ^ MaxRank * Cardinality(S) - Deficit(s, S)
  BY Zenon DEF CardinalityOf, Deficit
<1>3. CASE s.kind # "dense"
  <2>1. IsFiniteSet(s.hashes) BY <1>3 DEF IsHll
  <2>2. Cardinality(s.hashes) \in Nat BY <2>1, FS_CardinalityType
  <2> QED BY <1>2, <1>3, <2>2
<1>4. CASE s.kind = "dense"
  <2>1. S \in SUBSET Index OBVIOUS
  <2> HIDE DEF S
  <2>2. IsFiniteSet(S) BY <2>1, HashAssumption, FS_Subset
  <2>3. Cardinality(S) \in Nat BY <2>2, FS_CardinalityType
  <2>4. Deficit(s, S) \in Int BY <1>1, <2>1, DeficitType
  <2> DEFINE q == 2 ^ MaxRank
             d == Deficit(s, S)
             c == Cardinality(S)
  <2>5. q \in Int BY HashAssumption
  <2>6. CardinalityOf(s) = IF S = {} THEN 0 ELSE 100 * c + q * c - d BY <1>2, <1>4
  <2>7. d \in Int /\ c \in Nat BY <2>3, <2>4
  <2> HIDE DEF q, d, c
  <2> QED BY <2>5, <2>6, <2>7
<1> QED BY <1>3, <1>4

(* The sketch of the first item of a key, and its estimate. *)
LEMMA FirstItemIs ==
  ASSUME NEW item \in Items
  PROVE  /\ IsHll(InsertItem(EmptyHll, item), {HashOf[item]})
         /\ CardinalityOf(InsertItem(EmptyHll, item)) = 100
<1> DEFINE h == HashOf[item]
           n == InsertItem(EmptyHll, item)
<1>1. h \in Hash /\ SparseLimit \in Nat /\ SparseLimit > 0 BY HashAssumption
<1>2. n = InsertHash(EmptyHll, h) BY DEF InsertItem
<1>3. IsHll(n, {h})
  <2>1. {} \cup {h} = {h} OBVIOUS
  <2> HIDE DEF h, n
  <2>2. IsHll(n, {} \cup {h}) BY <1>1, <1>2, EmptyHllIs, InsertHashIs
  <2> QED BY <2>1, <2>2
<1>4. n.kind = "singleton" /\ n.hashes = {h}
  <2>1. EmptyHll.kind = "empty" /\ EmptyHll.hashes = {} BY DEF EmptyHll
  <2>2. Cardinality(EmptyHll.hashes) = 0 BY <2>1, FS_EmptySet
  <2>3. n = [EmptyHll EXCEPT !.kind = "singleton", !.hashes = @ \cup {h}]
    BY <1>1, <1>2, <2>1, <2>2 DEF InsertHash
  <2> QED BY <2>3 DEF EmptyHll
<1>5. Cardinality({h}) = 1 BY FS_Singleton
<1>6. n.kind # "dense" BY <1>4
<1> HIDE DEF n, h
<1>7. CardinalityOf(n) = 100 * Cardinality(n.hashes) BY <1>6, Zenon DEF CardinalityOf
<1>8. CardinalityOf(n) = 100 BY <1>4, <1>5, <1>7
<1> QED BY <1>3, <1>8 DEF n, h

-------------------------------------------------------------------------------
(* HllMap. *)

Slot == [hll : Storage, cached : Int, dirty : BOOLEAN]

(* A slot has the sketch of some hashes, *)
SlotSound(s) ==
  /\ s \in Slot
  /\ \E A \in SUBSET Hash : IsHll(s.hll, A)

(* and a cached estimate that is current unless the slot is dirty. *)
SlotGood(s) == SlotSound(s) /\ (~s.dirty => s.cached = CardinalityOf(s.hll))

(* A map that is consistent with its heap of candidates. *)
MapShape(m) ==
  /\ m = [map |-> m.map, heap |-> m.heap, evicted |-> m.evicted]
  /\ m.map = [k \in DOMAIN m.map |-> m.map[k]]
  /\ IsFiniteSet(DOMAIN m.map) /\ DOMAIN m.map \subseteq Keys
  /\ \A k \in DOMAIN m.map : SlotGood(m.map[k])
  /\ OneCandidateEach(m)
  /\ m.evicted \in Nat

(* The order of the heap. *)
IsBefore(c, d) == c.cardinality < d.cardinality \/ (c.cardinality = d.cardinality /\ c.key < d.key)

(* The candidate of a key. *)
Cand(m, k) == [cardinality |-> m.map[k].cached, key |-> k]

(* The parts of a slot. *)
LEMMA SlotType ==
  ASSUME NEW s, SlotSound(s)
  PROVE  /\ s.hll \in Storage /\ s.cached \in Int /\ s.dirty \in BOOLEAN
         /\ CardinalityOf(s.hll) \in Int
         /\ s = [hll |-> s.hll, cached |-> s.cached, dirty |-> s.dirty]
<1>1. s \in Slot BY DEF SlotSound
<1>2. PICK A \in SUBSET Hash : IsHll(s.hll, A) BY DEF SlotSound
<1>3. CardinalityOf(s.hll) \in Int BY <1>2, EstimateType
<1> QED BY <1>1, <1>3 DEF Slot

(* The heap has one candidate for each key, in as many as there are keys. *)
LEMMA CandidatesAre ==
  ASSUME NEW m, MapShape(m)
  PROVE  /\ \A c \in m.heap : c.key \in DOMAIN m.map /\ c = Cand(m, c.key)
         /\ \A k \in DOMAIN m.map : Cand(m, k) \in m.heap
         /\ IsFiniteSet(m.heap) /\ Cardinality(m.heap) = Cardinality(DOMAIN m.map)
<1> DEFINE D == DOMAIN m.map
           f == [k \in D |-> Cand(m, k)]
<1>1. m.heap = {Cand(m, k) : k \in D} BY DEF MapShape, OneCandidateEach, Cand
<1>2. \A k \in D : Cand(m, k).key = k BY DEF Cand
<1>3. IsFiniteSet(D) BY DEF MapShape
<1>4. f \in Bijection(D, m.heap)
  <2>1. f \in [D -> m.heap] BY <1>1
  <2>2. \A i, j \in D : f[i] = f[j] => i = j BY <1>2
  <2>3. \A c \in m.heap : \E k \in D : f[k] = c BY <1>1
  <2>4. f \in Injection(D, m.heap) BY <2>1, <2>2 DEF Injection, IsInjective
  <2>5. f \in Surjection(D, m.heap) BY <2>1, <2>3 DEF Surjection
  <2> QED BY <2>4, <2>5 DEF Bijection
<1>5. IsFiniteSet(m.heap) /\ Cardinality(m.heap) = Cardinality(D)
  <2> HIDE DEF f, D
  <2> QED BY <1>3, <1>4, FS_Bijection DEF ExistsBijection
<1> QED BY <1>1, <1>2, <1>5

(* The order of the heap is a strict order of the candidates. *)
LEMMA CandidateOrder ==
  ASSUME NEW H, \A c \in H : c.cardinality \in Int /\ c.key \in Nat,
         \A c, d \in H : c.key = d.key => c = d
  PROVE  LET R == {p \in H \X H : IsBefore(p[1], p[2])}
         IN  /\ StrictOrder(R, H)
             /\ \A c, d \in H : <<c, d>> \in R <=> IsBefore(c, d)
<1> DEFINE R == {p \in H \X H : IsBefore(p[1], p[2])}
<1>1. \A c, d \in H : <<c, d>> \in R <=> IsBefore(c, d)
  OBVIOUS
<1> HIDE DEF R
<1>2. \A c \in H : <<c, c>> \notin R BY <1>1 DEF IsBefore
<1>3. \A c, d \in H : c # d => (<<c, d>> \in R \/ <<d, c>> \in R)
  <2> SUFFICES ASSUME NEW c \in H, NEW d \in H, c # d PROVE <<c, d>> \in R \/ <<d, c>> \in R
    OBVIOUS
  <2>1. c.key # d.key OBVIOUS
  <2> QED BY <1>1, <2>1 DEF IsBefore
<1>4. ASSUME NEW a \in H, NEW b \in H, NEW c \in H, <<a, b>> \in R, <<b, c>> \in R
      PROVE  <<a, c>> \in R
  BY <1>1, <1>4 DEF IsBefore
<1>5. StrictOrder(R, H) BY <1>2, <1>3, <1>4 DEF StrictOrder
<1> QED BY <1>1, <1>5, Zenon DEF R

(* The candidate that is taken is that of a key with the smallest cached   *)
(* estimate.                                                               *)
LEMMA CandidateIs ==
  ASSUME NEW m, MapShape(m), DOMAIN m.map # {}
  PROVE  \E k \in DOMAIN m.map :
           /\ Candidate(m.heap) = Cand(m, k)
           /\ \A j \in DOMAIN m.map : m.map[k].cached <= m.map[j].cached
<1> DEFINE H == m.heap
           D == DOMAIN m.map
           R == {p \in H \X H : IsBefore(p[1], p[2])}
<1>1. /\ \A c \in H : c.key \in D /\ c = Cand(m, c.key)
      /\ \A k \in D : Cand(m, k) \in H
      /\ IsFiniteSet(H)
  BY CandidatesAre
<1>2. \A k \in D : m.map[k].cached \in Int /\ k \in Nat
  BY SlotType, KeysAssumption DEF MapShape, SlotGood
<1>3. \A k \in D : Cand(m, k).cardinality = m.map[k].cached /\ Cand(m, k).key = k BY DEF Cand
<1>4. \A c \in H : c.cardinality \in Int /\ c.key \in Nat BY <1>1, <1>2, <1>3
<1>5. \A c, d \in H : c.key = d.key => c = d BY <1>1
<1>6. H # {} BY <1>1
<1> HIDE DEF H, D
<1>7. StrictOrder(R, H) /\ \A c, d \in H : <<c, d>> \in R <=> IsBefore(c, d)
  BY <1>4, <1>5, CandidateOrder, Zenon
<1>8. \E c \in H : \A d \in H \ {c} : <<c, d>> \in R
  <2> HIDE DEF R
  <2> QED BY <1>1, <1>6, <1>7, FirstOne
<1>9. \E c \in H : \A d \in H \ {c} : IsBefore(c, d)
  <2>1. PICK c \in H : \A d \in H \ {c} : <<c, d>> \in R BY <1>8
  <2> HIDE DEF R
  <2>2. \A d \in H \ {c} : IsBefore(c, d) BY <1>7, <2>1
  <2> QED BY <2>2
<1>10. Candidate(H) = CHOOSE c \in H : \A d \in H \ {c} : IsBefore(c, d) BY Zenon DEF Candidate, IsBefore
<1> DEFINE c == Candidate(H)
<1>11. c \in H /\ \A d \in H \ {c} : IsBefore(c, d)
  <2> QED BY <1>9, <1>10, Zenon
<1> HIDE DEF c
<1>12. c.key \in D /\ c = Cand(m, c.key) BY <1>1, <1>11
<1>13. \A d \in H : c.cardinality <= d.cardinality BY <1>4, <1>11 DEF IsBefore
<1>14. \A j \in D : m.map[c.key].cached <= m.map[j].cached BY <1>1, <1>3, <1>12, <1>13
<1> QED BY <1>12, <1>14 DEF c, H, D

(* Slots with a stale estimate. *)
Dirty(m) == {k \in DOMAIN m.map : m.map[k].dirty}

(* n is m, but for estimates that were refreshed. *)
SameMap(n, m) ==
  /\ MapShape(n) /\ DOMAIN n.map = DOMAIN m.map
  /\ \A k \in DOMAIN m.map : n.map[k].hll = m.map[k].hll
  /\ n.evicted = m.evicted
  /\ Fallen(m) = {} => Fallen(n) = {}

(* n is m, but for such estimates, without k. *)
WithoutKey(n, m, k) ==
  /\ k \in DOMAIN m.map
  /\ MapShape(n) /\ DOMAIN n.map = DOMAIN m.map \ {k}
  /\ \A j \in DOMAIN n.map : n.map[j].hll = m.map[j].hll
  /\ n.evicted = m.evicted + 1
  /\ Fallen(m) = {} => k \in TrueMinimum(m)

(* The state of the eviction of m after i rounds: over, or with at least i *)
(* slots refreshed.                                                        *)
RoundState(e, m, i) ==
  /\ e = [m |-> e.m, done |-> e.done] /\ e.done \in BOOLEAN
  /\ e.done => \E k \in DOMAIN m.map : WithoutKey(e.m, m, k)
  /\ ~e.done => /\ SameMap(e.m, m)
                /\ Cardinality(Dirty(e.m)) + i <= Cardinality(DOMAIN m.map)

(* A refreshed slot has a current estimate of the same sketch. *)
LEMMA RefreshedIs ==
  ASSUME NEW s, SlotSound(s)
  PROVE  /\ SlotGood(Refreshed(s)) /\ Refreshed(s).hll = s.hll
         /\ Refreshed(s).cached = CardinalityOf(s.hll) /\ Refreshed(s).dirty = FALSE
<1> DEFINE n == Refreshed(s)
           c == CardinalityOf(s.hll)
<1>1. /\ s = [hll |-> s.hll, cached |-> s.cached, dirty |-> s.dirty] /\ c \in Int
      /\ s.hll \in Storage
  BY SlotType
<1>2. n = [s EXCEPT !.cached = c, !.dirty = FALSE] BY DEF Refreshed
<1>5. c = CardinalityOf(s.hll) OBVIOUS
<1> HIDE DEF n, c
<1>3. n = [hll |-> s.hll, cached |-> c, dirty |-> FALSE] BY <1>1, <1>2
<1>4. n \in Slot /\ n.hll = s.hll /\ n.cached = c /\ n.dirty = FALSE BY <1>1, <1>3 DEF Slot
<1>6. SlotGood(n) BY <1>4, <1>5 DEF SlotGood, SlotSound
<1> QED BY <1>4, <1>5, <1>6 DEF n

(* Replacing a slot together with its candidate. *)
LEMMA ReplaceSlot ==
  ASSUME NEW m, MapShape(m), NEW k \in DOMAIN m.map, NEW s, SlotGood(s),
         NEW n, n = [map |-> [m.map EXCEPT ![k] = s],
                     heap |-> (m.heap \ {Cand(m, k)}) \cup {[cardinality |-> s.cached, key |-> k]},
                     evicted |-> m.evicted]
  PROVE  /\ MapShape(n) /\ DOMAIN n.map = DOMAIN m.map /\ n.evicted = m.evicted
         /\ n.map[k] = s /\ \A j \in DOMAIN m.map : j # k => n.map[j] = m.map[j]
<1> DEFINE D == DOMAIN m.map
<1>0. /\ m.map = [j \in D |-> m.map[j]] /\ IsFiniteSet(D) /\ D \subseteq Keys /\ m.evicted \in Nat
      /\ \A j \in D : SlotGood(m.map[j])
  BY DEF MapShape
<1>1. /\ n.map = [m.map EXCEPT ![k] = s] /\ n.evicted = m.evicted
      /\ n.heap = (m.heap \ {Cand(m, k)}) \cup {[cardinality |-> s.cached, key |-> k]}
      /\ n = [map |-> n.map, heap |-> n.heap, evicted |-> n.evicted]
  OBVIOUS
<1>2. DOMAIN n.map = D /\ n.map = [j \in D |-> n.map[j]] BY <1>0, <1>1
<1>3. n.map[k] = s /\ \A j \in D : j # k => n.map[j] = m.map[j] BY <1>0, <1>1
<1>4. m.heap = {Cand(m, j) : j \in D} BY DEF MapShape, OneCandidateEach, Cand
<1> HIDE DEF D
<1>5. n.heap = {Cand(n, j) : j \in D}
  <2>1. \A j \in D : Cand(m, j).key = j BY DEF Cand
  <2>6. k \in D BY DEF D
  <2>2. m.heap \ {Cand(m, k)} = {Cand(m, j) : j \in D \ {k}} BY <1>4, <2>1, <2>6
  <2>3. Cand(n, k) = [cardinality |-> s.cached, key |-> k] BY <1>3 DEF Cand
  <2>4. \A j \in D \ {k} : Cand(n, j) = Cand(m, j) BY <1>3 DEF Cand
  <2>5. n.heap = {Cand(m, j) : j \in D \ {k}} \cup {Cand(n, k)} BY <1>1, <2>2, <2>3
  <2> QED BY <2>4, <2>5, <2>6
<1>6. OneCandidateEach(n) BY <1>2, <1>5 DEF OneCandidateEach, Cand
<1>7. \A j \in D : SlotGood(n.map[j]) BY <1>0, <1>3
<1>8. MapShape(n) BY <1>0, <1>1, <1>2, <1>6, <1>7 DEF MapShape
<1> QED BY <1>1, <1>2, <1>3, <1>8 DEF D

SlotRemoved(n, m, k) ==
  /\ MapShape(n) /\ DOMAIN n.map = DOMAIN m.map \ {k} /\ n.evicted = m.evicted + 1
  /\ \A j \in DOMAIN n.map : n.map[j] = m.map[j]

(* Taking a slot away together with its candidate. *)
LEMMA RemoveSlot ==
  ASSUME NEW m, MapShape(m), NEW k \in DOMAIN m.map,
         NEW n, n = [map |-> WithoutSlot(m.map, k), heap |-> m.heap \ {Cand(m, k)},
                     evicted |-> m.evicted + 1]
  PROVE  SlotRemoved(n, m, k)
<1> DEFINE D == DOMAIN m.map
           E == D \ {k}
<1>0. IsFiniteSet(D) /\ D \subseteq Keys /\ m.evicted \in Nat /\ \A j \in D : SlotGood(m.map[j])
  BY DEF MapShape
<1>1. /\ n.map = [j \in E |-> m.map[j]] /\ n.evicted = m.evicted + 1
      /\ n.heap = m.heap \ {Cand(m, k)}
      /\ n = [map |-> n.map, heap |-> n.heap, evicted |-> n.evicted]
  BY DEF WithoutSlot
<1>2. DOMAIN n.map = E /\ n.map = [j \in E |-> n.map[j]] /\ \A j \in E : n.map[j] = m.map[j] BY <1>1
<1>3. IsFiniteSet(E) /\ E \subseteq Keys BY <1>0, FS_RemoveElement
<1>4. m.heap = {Cand(m, j) : j \in D} BY DEF MapShape, OneCandidateEach, Cand
<1>5. n.heap = {Cand(n, j) : j \in E}
  <2>1. \A j \in D : Cand(m, j).key = j BY DEF Cand
  <2>2. m.heap \ {Cand(m, k)} = {Cand(m, j) : j \in E} BY <1>4, <2>1
  <2>3. \A j \in E : Cand(n, j) = Cand(m, j) BY <1>2 DEF Cand
  <2> HIDE DEF D, E
  <2> QED BY <1>1, <2>2, <2>3
<1>6. OneCandidateEach(n) BY <1>2, <1>5 DEF OneCandidateEach, Cand
<1>7. \A j \in E : SlotGood(n.map[j]) BY <1>0, <1>2
<1>8. n.evicted \in Nat BY <1>0, <1>1
<1> HIDE DEF E
<1>9. MapShape(n) BY <1>1, <1>2, <1>3, <1>6, <1>7, <1>8 DEF MapShape
<1> QED BY <1>1, <1>2, <1>9 DEF E, SlotRemoved

(* A round keeps the state: a stale candidate is refreshed, which leaves   *)
(* one stale slot less; a current one has the smallest estimate of all when*)
(* no estimate has fallen.                                                 *)
LEMMA RoundStep ==
  ASSUME NEW m, MapShape(m), DOMAIN m.map # {}, NEW e, NEW i \in Nat, RoundState(e, m, i)
  PROVE  RoundState(EvictRound(e), m, i + 1)
<1>1. e = [m |-> e.m, done |-> e.done] /\ e.done \in BOOLEAN BY DEF RoundState
<1>2. CASE e.done
  <2>1. EvictRound(e) = e BY <1>2 DEF EvictRound
  <2> QED BY <1>2, <2>1 DEF RoundState
<1>3. CASE ~e.done
  <2> DEFINE n == e.m
             D == DOMAIN n.map
  <2>1. SameMap(n, m) /\ Cardinality(Dirty(n)) + i <= Cardinality(DOMAIN m.map)
    BY <1>3 DEF RoundState
  <2>2. MapShape(n) /\ D = DOMAIN m.map /\ D # {} BY <2>1 DEF SameMap
  <2>3. PICK k \in D : /\ Candidate(n.heap) = Cand(n, k)
                       /\ \A j \in D : n.map[k].cached <= n.map[j].cached
    BY <2>2, CandidateIs
  <2> DEFINE c == Candidate(n.heap)
             slot == n.map[k]
             rest == n.heap \ {c}
             r == Refreshed(slot)
             f == EvictRound(e)
  <2>4. c = Cand(n, k) /\ c.key = k /\ c.cardinality = slot.cached BY <2>3 DEF Cand
  <2>5. /\ n = [map |-> n.map, heap |-> n.heap, evicted |-> n.evicted]
        /\ \A j \in D : SlotGood(n.map[j])
        /\ IsFiniteSet(D)
    BY <2>2 DEF MapShape
  <2>6. SlotGood(slot) /\ SlotSound(slot) /\ slot.dirty \in BOOLEAN BY <2>5, SlotType DEF SlotGood
  <2>7. CASE slot.dirty
    <3> DEFINE o == [map |-> [n.map EXCEPT ![k] = r],
                     heap |-> (n.heap \ {Cand(n, k)}) \cup {[cardinality |-> r.cached, key |-> k]},
                     evicted |-> n.evicted]
    <3>1. f = [e EXCEPT !.m.map[k] = r,
                        !.m.heap = rest \cup {[cardinality |-> r.cached, key |-> k]}]
      BY <1>3, <2>4, <2>7 DEF EvictRound
    <3>2. f = [m |-> o, done |-> FALSE]
      <4>1. e = [m |-> n, done |-> FALSE] BY <1>1, <1>3
      <4> HIDE DEF n, r, c
      <4> QED BY <2>4, <2>5, <3>1, <4>1
    <3>3. /\ SlotGood(r) /\ r.hll = slot.hll /\ r.cached = CardinalityOf(slot.hll) /\ r.dirty = FALSE
      BY <2>6, RefreshedIs
    <3>4. /\ MapShape(o) /\ DOMAIN o.map = DOMAIN n.map /\ o.evicted = n.evicted
          /\ o.map[k] = r /\ \A j \in DOMAIN n.map : j # k => o.map[j] = n.map[j]
      <4> HIDE DEF r, n
      <4>1. o = [map |-> [n.map EXCEPT ![k] = r],
                 heap |-> (n.heap \ {Cand(n, k)}) \cup {[cardinality |-> r.cached, key |-> k]},
                 evicted |-> n.evicted]
        OBVIOUS
      <4> HIDE DEF o
      <4> QED BY <2>2, <3>3, <4>1, ReplaceSlot
    <3> HIDE DEF o
    <3>5. \A j \in D : o.map[j].hll = n.map[j].hll BY <3>3, <3>4
    <3>6. Fallen(n) = {} => Fallen(o) = {}
      <4> SUFFICES ASSUME Fallen(n) = {}, NEW j \in D
                   PROVE  ~ (CardinalityOf(o.map[j].hll) < o.map[j].cached)
        BY <3>4 DEF Fallen
      <4>1. CASE j = k
        <5>1. o.map[j].cached = CardinalityOf(o.map[j].hll) BY <3>3, <3>4, <4>1
        <5>2. SlotGood(o.map[j]) BY <3>3, <3>4, <4>1
        <5>3. o.map[j].cached \in Int BY <5>2, SlotType DEF SlotGood
        <5> QED BY <5>1, <5>3
      <4>2. CASE j # k
        <5>1. o.map[j] = n.map[j] BY <3>4, <4>2
        <5> QED BY <5>1 DEF Fallen
      <4> QED BY <4>1, <4>2
    <3>7. SameMap(o, m)
      <4>1. \A j \in DOMAIN m.map : o.map[j].hll = m.map[j].hll BY <2>1, <2>2, <3>5 DEF SameMap
      <4>2. o.evicted = m.evicted BY <2>1, <3>4 DEF SameMap
      <4>3. Fallen(m) = {} => Fallen(o) = {} BY <2>1, <3>6 DEF SameMap
      <4> QED BY <2>2, <3>4, <4>1, <4>2, <4>3 DEF SameMap
    <3>8. Dirty(o) = Dirty(n) \ {k} /\ k \in Dirty(n) BY <2>7, <3>3, <3>4 DEF Dirty
    <3>9. IsFiniteSet(Dirty(n)) BY <2>5, FS_Subset DEF Dirty
    <3>10. Cardinality(Dirty(o)) = Cardinality(Dirty(n)) - 1 BY <3>8, <3>9, FS_RemoveElement
    <3>11. Cardinality(Dirty(n)) \in Nat BY <3>9, FS_CardinalityType
    <3>12. Cardinality(Dirty(o)) + (i + 1) <= Cardinality(DOMAIN m.map)
      <4>1. Cardinality(Dirty(o)) + (i + 1) = Cardinality(Dirty(n)) + i BY <3>10, <3>11
      <4> QED BY <2>1, <4>1
    <3>13. f.m = o /\ f.done = FALSE /\ f = [m |-> f.m, done |-> f.done] BY <3>2
    <3> HIDE DEF f
    <3>14. RoundState(f, m, i + 1) BY <3>7, <3>12, <3>13 DEF RoundState
    <3> QED BY <3>14 DEF f
  <2>8. CASE ~slot.dirty
    <3> DEFINE o == [map |-> WithoutSlot(n.map, k), heap |-> n.heap \ {Cand(n, k)},
                     evicted |-> n.evicted + 1]
    <3>1. f = [m |-> o, done |-> TRUE]
      <4>1. c.key \in DOMAIN e.m.map /\ ~ (slot.dirty \/ slot.cached # c.cardinality) BY <2>4, <2>8
      <4> QED BY <1>3, <2>4, <4>1 DEF EvictRound
    <3>2. /\ MapShape(o) /\ DOMAIN o.map = DOMAIN n.map \ {k} /\ o.evicted = n.evicted + 1
          /\ \A j \in DOMAIN o.map : o.map[j] = n.map[j]
      <4> HIDE DEF n
      <4>1. o = [map |-> WithoutSlot(n.map, k), heap |-> n.heap \ {Cand(n, k)},
                 evicted |-> n.evicted + 1]
        OBVIOUS
      <4>2. MapShape(n) /\ k \in DOMAIN n.map BY <2>2
      <4> HIDE DEF o
      <4>3. SlotRemoved(o, n, k) BY <4>1, <4>2, RemoveSlot
      <4> QED BY <4>3 DEF SlotRemoved
    <3> HIDE DEF o
    <3>3. Fallen(m) = {} => k \in TrueMinimum(m)
      <4> SUFFICES ASSUME Fallen(m) = {}, NEW j \in DOMAIN m.map
                   PROVE  CardinalityOf(m.map[k].hll) <= CardinalityOf(m.map[j].hll)
        BY <2>2 DEF TrueMinimum
      <4>1. Fallen(n) = {} BY <2>1 DEF SameMap
      <4>2. m.map[k].hll = n.map[k].hll /\ m.map[j].hll = n.map[j].hll /\ j \in D
        BY <2>1, <2>2 DEF SameMap
      <4> DEFINE a == CardinalityOf(n.map[k].hll)
                 b == CardinalityOf(n.map[j].hll)
                 p == n.map[k].cached
                 q == n.map[j].cached
      <4>3. p = a BY <2>6, <2>8 DEF SlotGood
      <4>4. p <= q BY <2>3, <4>2
      <4>5. ~ (b < q) BY <4>1, <4>2 DEF Fallen
      <4>6. SlotGood(n.map[j]) /\ SlotGood(n.map[k]) BY <2>5, <4>2
      <4>7. a \in Int /\ b \in Int /\ p \in Int /\ q \in Int BY <4>6, SlotType DEF SlotGood
      <4> HIDE DEF a, b, p, q
      <4>8. a <= b BY <4>3, <4>4, <4>5, <4>7
      <4> QED BY <4>2, <4>8 DEF a, b
    <3>4. WithoutKey(o, m, k)
      <4>1. DOMAIN o.map = DOMAIN m.map \ {k} /\ k \in DOMAIN m.map BY <2>2, <3>2
      <4>2. \A j \in DOMAIN o.map : o.map[j].hll = m.map[j].hll BY <2>1, <3>2, <4>1 DEF SameMap
      <4>3. o.evicted = m.evicted + 1 BY <2>1, <3>2 DEF SameMap
      <4> QED BY <3>2, <3>3, <4>1, <4>2, <4>3 DEF WithoutKey
    <3>5. f.m = o /\ f.done = TRUE /\ f = [m |-> f.m, done |-> f.done] /\ k \in DOMAIN m.map
      BY <2>2, <3>1
    <3> HIDE DEF f
    <3>6. RoundState(f, m, i + 1) BY <3>4, <3>5 DEF RoundState
    <3> QED BY <3>6 DEF f
  <2> QED BY <2>6, <2>7, <2>8
<1> QED BY <1>1, <1>2, <1>3

(* The rounds of an eviction. *)
AreRounds(f, m, n) ==
  f = [i \in 0 .. n |-> IF i = 0 THEN [m |-> m, done |-> FALSE] ELSE EvictRound(f[i - 1])]

(* There are any number of them. *)
LEMMA RoundsExist ==
  ASSUME NEW m, NEW n \in Nat
  PROVE  \E f : AreRounds(f, m, n)
<1> DEFINE P == {j \in 0 .. n : \E f : AreRounds(f, m, j)}
           base == [m |-> m, done |-> FALSE]
<1>1. 0 \in P
  <2> DEFINE f == [i \in 0 .. 0 |-> base]
  <2>1. AreRounds(f, m, 0)
    <3>1. \A i \in 0 .. 0 : i = 0 OBVIOUS
    <3>2. f = [i \in 0 .. 0 |-> IF i = 0 THEN base ELSE EvictRound(f[i - 1])] BY <3>1
    <3> QED BY <3>2, Zenon DEF AreRounds
  <2>2. 0 \in 0 .. n OBVIOUS
  <2> HIDE DEF f
  <2> QED BY <2>1, <2>2
<1>2. ASSUME NEW j \in 1 .. n, j - 1 \in P PROVE j \in P
  <2>1. PICK f : AreRounds(f, m, j - 1) BY <1>2
  <2> DEFINE h == [i \in 0 .. j |-> IF i = j THEN EvictRound(f[j - 1]) ELSE f[i]]
  <2>2. \A i \in 0 .. j - 1 : f[i] = IF i = 0 THEN base ELSE EvictRound(f[i - 1])
    BY <2>1, Zenon DEF AreRounds
  <2>3. ASSUME NEW i \in 0 .. j PROVE h[i] = IF i = 0 THEN base ELSE EvictRound(h[i - 1])
    <3>1. CASE i = j
      <4>1. h[j] = EvictRound(f[j - 1]) /\ h[j - 1] = f[j - 1] /\ j # 0 OBVIOUS
      <4> HIDE DEF h
      <4> QED BY <3>1, <4>1
    <3>2. CASE i # j
      <4>1. i \in 0 .. j - 1 /\ h[i] = f[i] BY <3>2
      <4>2. i # 0 => h[i - 1] = f[i - 1] BY <3>2
      <4> HIDE DEF h
      <4> QED BY <2>2, <4>1, <4>2
    <3> QED BY <3>1, <3>2
  <2>4. h = [i \in 0 .. j |-> h[i]] OBVIOUS
  <2> HIDE DEF h
  <2>5. [i \in 0 .. j |-> h[i]] = [i \in 0 .. j |-> IF i = 0 THEN base ELSE EvictRound(h[i - 1])]
    BY <2>3
  <2>6. AreRounds(h, m, j) BY <2>4, <2>5, Zenon DEF AreRounds
  <2> QED BY <2>6
<1> HIDE DEF P
<1>3. \A j \in 0 .. n : j \in P BY <1>1, <1>2, UpTo
<1>4. n \in P BY <1>3
<1> QED BY <1>4 DEF P

(* An eviction takes one key away, and of the smallest estimate when none  *)
(* has fallen; its bound on the rounds is enough.                          *)
LEMMA EvictSmallestIs ==
  ASSUME NEW m, MapShape(m), DOMAIN m.map # {}
  PROVE  \E k \in DOMAIN m.map : WithoutKey(EvictSmallest(m), m, k)
<1> DEFINE n == 2 * Cardinality(m.heap)
           c == Cardinality(DOMAIN m.map)
           G == CHOOSE f : AreRounds(f, m, n)
<1>1. EvictSmallest(m) = G[n].m BY Zenon DEF EvictSmallest, AreRounds
<1>2. IsFiniteSet(DOMAIN m.map) /\ Cardinality(m.heap) = c BY CandidatesAre DEF MapShape
<1>3. c \in Nat /\ c # 0 /\ n = 2 * c BY <1>2, FS_CardinalityType, FS_EmptySet
<1> HIDE DEF c
<1>4. n \in Nat BY <1>3
<1> HIDE DEF n
<1>5. AreRounds(G, m, n) BY <1>4, RoundsExist, Zenon
<1> HIDE DEF G
<1>6. \A i \in 0 .. n : G[i] = IF i = 0 THEN [m |-> m, done |-> FALSE] ELSE EvictRound(G[i - 1])
  BY <1>5, Zenon DEF AreRounds
<1> DEFINE P == {i \in 0 .. n : RoundState(G[i], m, i)}
<1>7. 0 \in P
  <2>1. 0 \in 0 .. n BY <1>4
  <2> DEFINE b == [m |-> m, done |-> FALSE]
  <2>2. G[0] = b BY <1>6, <2>1
  <2>3. b.m = m /\ b.done = FALSE /\ b = [m |-> b.m, done |-> b.done] OBVIOUS
  <2>4. SameMap(m, m) BY DEF SameMap
  <2>5. Cardinality(Dirty(m)) \in Nat /\ Cardinality(Dirty(m)) <= Cardinality(DOMAIN m.map)
    <3>1. Dirty(m) \in SUBSET DOMAIN m.map BY DEF Dirty
    <3> QED BY <1>2, <3>1, FS_Subset, FS_CardinalityType
  <2>6. Cardinality(Dirty(m)) + 0 <= Cardinality(DOMAIN m.map) BY <2>5
  <2> HIDE DEF b
  <2>7. RoundState(b, m, 0) BY <2>3, <2>4, <2>6 DEF RoundState
  <2> QED BY <2>1, <2>2, <2>7
<1>8. ASSUME NEW i \in 1 .. n, i - 1 \in P PROVE i \in P
  <2>1. i - 1 \in Nat /\ i \in 0 .. n /\ i # 0 /\ (i - 1) + 1 = i BY <1>4
  <2>2. RoundState(G[i - 1], m, i - 1) BY <1>8
  <2>3. G[i] = EvictRound(G[i - 1]) BY <1>6, <2>1
  <2> DEFINE j == i - 1
             e == G[j]
  <2>4. j \in Nat /\ j + 1 = i /\ RoundState(e, m, j) /\ G[i] = EvictRound(e) BY <2>1, <2>2, <2>3
  <2> HIDE DEF j, e
  <2>5. RoundState(EvictRound(e), m, j + 1) BY <2>4, RoundStep
  <2>6. RoundState(G[i], m, i) BY <2>4, <2>5
  <2> QED BY <2>1, <2>6
<1> HIDE DEF P
<1>9. \A i \in 0 .. n : i \in P BY <1>4, <1>7, <1>8, UpTo
<1>10. n \in P BY <1>4, <1>9
<1>11. RoundState(G[n], m, n) BY <1>10 DEF P
<1>12. G[n].done
  <2> SUFFICES ASSUME ~G[n].done PROVE FALSE OBVIOUS
  <2> DEFINE o == G[n].m
  <2>1. SameMap(o, m) /\ Cardinality(Dirty(o)) + n <= c BY <1>11 DEF RoundState, c
  <2>2. IsFiniteSet(DOMAIN o.map) BY <2>1 DEF SameMap, MapShape
  <2>3. Dirty(o) \in SUBSET DOMAIN o.map BY DEF Dirty
  <2>4. Cardinality(Dirty(o)) \in Nat BY <2>2, <2>3, FS_Subset, FS_CardinalityType
  <2> QED BY <1>3, <2>1, <2>4
<1>13. \E k \in DOMAIN m.map : WithoutKey(G[n].m, m, k) BY <1>11, <1>12 DEF RoundState
<1> QED BY <1>1, <1>13

HashesOf(items) == {HashOf[i] : i \in items}

(* What the map counts of the items D of each key, when the evictions that *)
(* could have lost some number ev.                                         *)
Counted(m, D, ev) ==
  /\ \A k \in DOMAIN m.map : \E items \in SUBSET D[k] :
       IsHll(m.map[k].hll, HashesOf(items)) /\ (ev = 0 => items = D[k])
  /\ ev = 0 => \A k \in Keys \ DOMAIN m.map : D[k] = {}

MapGood(m, D) ==
  /\ MapShape(m) /\ Cardinality(DOMAIN m.map) <= MaxKeys
  /\ Counted(m, D, m.evicted)

(* An eviction leaves the other keys what they have. *)
LEMMA EvictCounted ==
  ASSUME NEW m, NEW n, NEW k, WithoutKey(n, m, k), NEW D, NEW ev, NEW fv, Counted(m, D, ev), fv # 0
  PROVE  Counted(n, D, fv)
<1>1. \A j \in DOMAIN n.map : j \in DOMAIN m.map /\ n.map[j].hll = m.map[j].hll BY DEF WithoutKey
<1>2. \A j \in DOMAIN n.map : \E items \in SUBSET D[j] : IsHll(n.map[j].hll, HashesOf(items))
  BY <1>1 DEF Counted
<1> QED BY <1>2 DEF Counted

SlotAdded(n, m, k, s) ==
  /\ MapShape(n) /\ DOMAIN n.map = DOMAIN m.map \cup {k} /\ n.evicted = m.evicted
  /\ n.map[k] = s /\ \A j \in DOMAIN m.map : n.map[j] = m.map[j]
  /\ Cardinality(DOMAIN n.map) = Cardinality(DOMAIN m.map) + 1

(* A new slot together with its candidate. *)
LEMMA AddSlot ==
  ASSUME NEW m, MapShape(m), NEW k \in Keys, k \notin DOMAIN m.map, NEW s, SlotGood(s),
         NEW n, n = [map |-> WithSlot(m.map, k, s),
                     heap |-> m.heap \cup {[cardinality |-> s.cached, key |-> k]},
                     evicted |-> m.evicted]
  PROVE  SlotAdded(n, m, k, s)
<1> DEFINE D == DOMAIN m.map
           E == D \cup {k}
<1>0. IsFiniteSet(D) /\ D \subseteq Keys /\ m.evicted \in Nat /\ \A j \in D : SlotGood(m.map[j])
  BY DEF MapShape
<1>1. /\ n.map = [j \in E |-> IF j = k THEN s ELSE m.map[j]] /\ n.evicted = m.evicted
      /\ n.heap = m.heap \cup {[cardinality |-> s.cached, key |-> k]}
      /\ n = [map |-> n.map, heap |-> n.heap, evicted |-> n.evicted]
  BY DEF WithSlot
<1>2. /\ DOMAIN n.map = E /\ n.map = [j \in E |-> n.map[j]]
      /\ n.map[k] = s /\ \A j \in D : n.map[j] = m.map[j]
  BY <1>1
<1>3. IsFiniteSet(E) /\ E \subseteq Keys /\ Cardinality(E) = Cardinality(D) + 1 BY <1>0, FS_AddElement
<1>4. m.heap = {Cand(m, j) : j \in D} BY DEF MapShape, OneCandidateEach, Cand
<1>5. n.heap = {Cand(n, j) : j \in E}
  <2>1. Cand(n, k) = [cardinality |-> s.cached, key |-> k] BY <1>2 DEF Cand
  <2>2. \A j \in D : Cand(n, j) = Cand(m, j) BY <1>2 DEF Cand
  <2> HIDE DEF D
  <2>3. {Cand(n, j) : j \in D} = {Cand(m, j) : j \in D} BY <2>2
  <2>4. {Cand(n, j) : j \in D \cup {k}} = {Cand(n, j) : j \in D} \cup {Cand(n, k)} OBVIOUS
  <2> QED BY <1>1, <1>4, <2>1, <2>3, <2>4
<1>6. OneCandidateEach(n) BY <1>2, <1>5 DEF OneCandidateEach, Cand
<1>7. \A j \in E : SlotGood(n.map[j]) BY <1>0, <1>2
<1>8. n.evicted \in Nat BY <1>0, <1>1
<1>10. MapShape(n)
  <2> HIDE DEF E
  <2> QED BY <1>1, <1>2, <1>3, <1>6, <1>7, <1>8 DEF MapShape
<1> QED BY <1>1, <1>2, <1>3, <1>10 DEF SlotAdded

(* An item of a key the map has. *)
LEMMA InsertKnown ==
  ASSUME NEW m, NEW D \in [Keys -> SUBSET Items], MapGood(m, D),
         NEW k \in DOMAIN m.map, NEW item \in Items
  PROVE  MapGood(InsertPair(m, k, item), [D EXCEPT ![k] = @ \cup {item}])
<1> DEFINE old == m.map[k]
           x == InsertItem(old.hll, item)
           s == [hll |-> x, cached |-> old.cached, dirty |-> TRUE]
           n == InsertPair(m, k, item)
           new == [D EXCEPT ![k] = @ \cup {item}]
           h == HashOf[item]
<1>0. MapShape(m) /\ Cardinality(DOMAIN m.map) <= MaxKeys /\ Counted(m, D, m.evicted) BY DEF MapGood
<1>1. /\ m = [map |-> m.map, heap |-> m.heap, evicted |-> m.evicted]
      /\ m.map = [j \in DOMAIN m.map |-> m.map[j]] /\ DOMAIN m.map \subseteq Keys
      /\ SlotSound(old)
  BY <1>0 DEF MapShape, SlotGood
<1>2. old = [hll |-> old.hll, cached |-> old.cached, dirty |-> old.dirty] /\ old.cached \in Int
  BY <1>1, SlotType
<1>3. h \in Hash /\ k \in Keys BY <1>1, HashAssumption
<1>4. PICK items \in SUBSET D[k] :
        IsHll(old.hll, HashesOf(items)) /\ (m.evicted = 0 => items = D[k])
  BY <1>0 DEF Counted
<1>5. IsHll(x, HashesOf(items \cup {item}))
  <2>1. x = InsertHash(old.hll, h) BY DEF InsertItem
  <2>2. HashesOf(items \cup {item}) = HashesOf(items) \cup {h} BY DEF HashesOf
  <2> HIDE DEF h, x, old
  <2>3. IsHll(x, HashesOf(items) \cup {h}) BY <1>3, <1>4, <2>1, InsertHashIs
  <2> QED BY <2>2, <2>3
<1>6. SlotGood(s)
  <2>1. x \in Storage /\ HashesOf(items \cup {item}) \in SUBSET Hash BY <1>5 DEF IsHll
  <2>2. s \in Slot BY <1>2, <2>1 DEF Slot
  <2>3. s.hll = x /\ s.dirty = TRUE OBVIOUS
  <2> HIDE DEF s, x
  <2> QED BY <1>5, <2>1, <2>2, <2>3 DEF SlotGood, SlotSound
<1>7. n = [m EXCEPT !.map[k].hll = InsertItem(@, item), !.map[k].dirty = TRUE] BY DEF InsertPair
<1>8. n = [map |-> [m.map EXCEPT ![k] = s], heap |-> m.heap, evicted |-> m.evicted]
  <2>1. n = [map |-> [m.map EXCEPT ![k] = [@ EXCEPT !.hll = x, !.dirty = TRUE]],
             heap |-> m.heap, evicted |-> m.evicted]
    <3> DEFINE f == m.map
               b == m.heap
               c == m.evicted
               g == [f EXCEPT ![k] = [f[k] EXCEPT !.hll = x, !.dirty = TRUE]]
    <3>1. m = [map |-> f, heap |-> b, evicted |-> c] /\ f = [j \in DOMAIN f |-> f[j]] BY <1>1
    <3>2. x = InsertItem(f[k].hll, item) /\ k \in DOMAIN f OBVIOUS
    <3> HIDE DEF x, f, b, c, n
    <3>3. n = [m EXCEPT !.map[k].hll = x, !.map[k].dirty = TRUE] BY <1>7, <3>1, <3>2
    <3>4. n = [map |-> g, heap |-> b, evicted |-> c] BY <3>1, <3>2, <3>3
    <3> QED BY <3>4 DEF f, b, c
  <2>2. [old EXCEPT !.hll = x, !.dirty = TRUE] = s
    <3> DEFINE a == old.hll
               b == old.cached
               c == old.dirty
               u == [old EXCEPT !.hll = x, !.dirty = TRUE]
    <3>1. old = [hll |-> a, cached |-> b, dirty |-> c] BY <1>2
    <3>2. s = [hll |-> x, cached |-> b, dirty |-> TRUE] OBVIOUS
    <3>4. u = [old EXCEPT !.hll = x, !.dirty = TRUE] OBVIOUS
    <3> HIDE DEF x, old, a, b, c, s, u
    <3>3. u = [hll |-> x, cached |-> b, dirty |-> TRUE] BY <3>1, <3>4
    <3> QED BY <3>2, <3>3 DEF u
  <2>3. [m.map EXCEPT ![k] = [@ EXCEPT !.hll = x, !.dirty = TRUE]] = [m.map EXCEPT ![k] = s]
    BY <2>2
  <2> QED BY <2>1, <2>3
<1>9. (m.heap \ {Cand(m, k)}) \cup {[cardinality |-> s.cached, key |-> k]} = m.heap
  <2>1. Cand(m, k) \in m.heap BY <1>0, CandidatesAre
  <2>2. Cand(m, k) = [cardinality |-> s.cached, key |-> k] BY DEF Cand
  <2> QED BY <2>1, <2>2
<1>10. s.hll = x OBVIOUS
<1> HIDE DEF n, s
<1>11. /\ MapShape(n) /\ DOMAIN n.map = DOMAIN m.map /\ n.evicted = m.evicted
       /\ n.map[k] = s /\ \A j \in DOMAIN m.map : j # k => n.map[j] = m.map[j]
  <2>1. n = [map |-> [m.map EXCEPT ![k] = s],
             heap |-> (m.heap \ {Cand(m, k)}) \cup {[cardinality |-> s.cached, key |-> k]},
             evicted |-> m.evicted]
    BY <1>8, <1>9
  <2> QED BY <1>0, <1>6, <2>1, ReplaceSlot
<1>12. /\ new[k] = D[k] \cup {item} /\ \A j \in Keys : j # k => new[j] = D[j] BY <1>3
<1> HIDE DEF new
<1>13. Counted(n, new, n.evicted)
  <2>1. ASSUME NEW j \in DOMAIN n.map
        PROVE  \E it \in SUBSET new[j] :
                 IsHll(n.map[j].hll, HashesOf(it)) /\ (n.evicted = 0 => it = new[j])
    <3>1. CASE j = k
      <4>1. items \cup {item} \in SUBSET new[j] BY <1>12, <3>1
      <4>2. IsHll(n.map[j].hll, HashesOf(items \cup {item})) BY <1>5, <1>10, <1>11, <3>1
      <4>3. n.evicted = 0 => items \cup {item} = new[j] BY <1>4, <1>11, <1>12, <3>1
      <4> QED BY <4>1, <4>2, <4>3
    <3>2. CASE j # k
      <4>1. new[j] = D[j] /\ n.map[j] = m.map[j] /\ j \in DOMAIN m.map BY <1>1, <1>11, <1>12, <3>2
      <4> QED BY <1>0, <1>11, <4>1 DEF Counted
    <3> QED BY <3>1, <3>2
  <2>2. n.evicted = 0 => \A j \in Keys \ DOMAIN n.map : new[j] = {} BY <1>0, <1>11, <1>12 DEF Counted
  <2> QED BY <2>1, <2>2 DEF Counted
<1>14. MapGood(n, new) BY <1>0, <1>11, <1>13 DEF MapGood
<1> QED BY <1>14 DEF n, new

(* The first item of a key the map does not have, once there is room. *)
LEMMA InsertInRoom ==
  ASSUME NEW m, MapShape(m), Cardinality(DOMAIN m.map) < MaxKeys,
         NEW D \in [Keys -> SUBSET Items], Counted(m, D, m.evicted),
         NEW k \in Keys, k \notin DOMAIN m.map, NEW item \in Items,
         NEW s, s = [hll |-> InsertItem(EmptyHll, item), cached |-> 100, dirty |-> FALSE],
         NEW n, n = [map |-> WithSlot(m.map, k, s),
                     heap |-> m.heap \cup {[cardinality |-> 100, key |-> k]}, evicted |-> m.evicted]
  PROVE  MapGood(n, [D EXCEPT ![k] = @ \cup {item}])
<1> DEFINE x == InsertItem(EmptyHll, item)
           new == [D EXCEPT ![k] = @ \cup {item}]
<1>1. IsHll(x, {HashOf[item]}) /\ CardinalityOf(x) = 100 BY FirstItemIs
<1>2. {HashOf[item]} = HashesOf({item}) BY DEF HashesOf
<1> HIDE DEF x
<1>3. x \in Storage /\ {HashOf[item]} \in SUBSET Hash BY <1>1 DEF IsHll
<1>4. s = [hll |-> x, cached |-> 100, dirty |-> FALSE] BY DEF x
<1>5. s \in Slot /\ s.hll = x /\ s.cached = 100 /\ s.dirty = FALSE BY <1>3, <1>4 DEF Slot
<1>6. SlotGood(s) BY <1>1, <1>3, <1>5 DEF SlotGood, SlotSound
<1>7. SlotAdded(n, m, k, s)
  <2>1. n = [map |-> WithSlot(m.map, k, s),
             heap |-> m.heap \cup {[cardinality |-> s.cached, key |-> k]}, evicted |-> m.evicted]
    BY <1>5
  <2> QED BY <1>6, <2>1, AddSlot
<1>8. new[k] = D[k] \cup {item} /\ \A j \in Keys : j # k => new[j] = D[j] OBVIOUS
<1> HIDE DEF new
<1>9. /\ MapShape(n) /\ DOMAIN n.map = DOMAIN m.map \cup {k} /\ n.evicted = m.evicted
      /\ n.map[k] = s /\ \A j \in DOMAIN m.map : n.map[j] = m.map[j]
      /\ Cardinality(DOMAIN n.map) = Cardinality(DOMAIN m.map) + 1
  BY <1>7 DEF SlotAdded
<1>10. Cardinality(DOMAIN n.map) <= MaxKeys
  <2>1. IsFiniteSet(DOMAIN m.map) BY DEF MapShape
  <2>2. Cardinality(DOMAIN m.map) \in Nat /\ MaxKeys \in Nat
    BY <2>1, FS_CardinalityType, MaxKeysAssumption
  <2> QED BY <1>9, <2>2
<1>11. Counted(n, new, n.evicted)
  <2>1. ASSUME NEW j \in DOMAIN n.map
        PROVE  \E it \in SUBSET new[j] :
                 IsHll(n.map[j].hll, HashesOf(it)) /\ (n.evicted = 0 => it = new[j])
    <3>1. CASE j = k
      <4>1. {item} \in SUBSET new[j] BY <1>8, <3>1
      <4>2. IsHll(n.map[j].hll, HashesOf({item})) BY <1>1, <1>2, <1>5, <1>9, <3>1
      <4>3. n.evicted = 0 => D[k] = {} BY <1>9 DEF Counted
      <4>4. n.evicted = 0 => {item} = new[j] BY <1>8, <3>1, <4>3
      <4> QED BY <4>1, <4>2, <4>4
    <3>2. CASE j # k
      <4>1. j \in DOMAIN m.map /\ j \in Keys BY <1>9, <3>2 DEF MapShape
      <4>2. new[j] = D[j] /\ n.map[j] = m.map[j] BY <1>8, <1>9, <3>2, <4>1
      <4> QED BY <1>9, <4>1, <4>2 DEF Counted
    <3> QED BY <3>1, <3>2
  <2>2. n.evicted = 0 => \A j \in Keys \ DOMAIN n.map : new[j] = {} BY <1>8, <1>9 DEF Counted
  <2> QED BY <2>1, <2>2 DEF Counted
<1>12. MapGood(n, new) BY <1>9, <1>10, <1>11 DEF MapGood
<1> QED BY <1>12 DEF new

(* A new key, which may have to make room first. *)
LEMMA InsertUnknown ==
  ASSUME NEW m, NEW D \in [Keys -> SUBSET Items], MapGood(m, D),
         NEW k \in Keys, k \notin DOMAIN m.map, NEW item \in Items
  PROVE  MapGood(InsertPair(m, k, item), [D EXCEPT ![k] = @ \cup {item}])
<1> DEFINE s == [hll |-> InsertItem(EmptyHll, item), cached |-> 100, dirty |-> FALSE]
           room == IF Cardinality(DOMAIN m.map) >= MaxKeys THEN EvictSmallest(m) ELSE m
           n == [map |-> WithSlot(room.map, k, s),
                 heap |-> room.heap \cup {[cardinality |-> 100, key |-> k]}, evicted |-> room.evicted]
<1>0. MapShape(m) /\ Cardinality(DOMAIN m.map) <= MaxKeys /\ Counted(m, D, m.evicted) BY DEF MapGood
<1>1. IsFiniteSet(DOMAIN m.map) /\ m.evicted \in Nat BY <1>0 DEF MapShape
<1>2. Cardinality(DOMAIN m.map) \in Nat /\ MaxKeys \in Nat /\ MaxKeys > 0
  BY <1>1, FS_CardinalityType, MaxKeysAssumption
<1>3. MapShape(room) /\ Cardinality(DOMAIN room.map) < MaxKeys /\ Counted(room, D, room.evicted)
      /\ k \notin DOMAIN room.map
  <2>1. CASE Cardinality(DOMAIN m.map) >= MaxKeys
    <3> DEFINE o == EvictSmallest(m)
    <3>1. room = o BY <2>1
    <3>2. DOMAIN m.map # {} BY <1>2, <2>1, FS_EmptySet
    <3>3. PICK j \in DOMAIN m.map : WithoutKey(o, m, j) BY <1>0, <3>2, EvictSmallestIs
    <3> HIDE DEF o
    <3>4. MapShape(o) /\ DOMAIN o.map = DOMAIN m.map \ {j} /\ o.evicted = m.evicted + 1
      BY <3>3 DEF WithoutKey
    <3>5. Cardinality(DOMAIN o.map) = Cardinality(DOMAIN m.map) - 1 BY <1>1, <3>4, FS_RemoveElement
    <3>6. Cardinality(DOMAIN o.map) < MaxKeys BY <1>0, <1>2, <3>5
    <3>7. o.evicted # 0 BY <1>1, <3>4
    <3>8. Counted(o, D, o.evicted) BY <1>0, <3>3, <3>7, EvictCounted
    <3> QED BY <3>1, <3>4, <3>6, <3>8
  <2>2. CASE ~ (Cardinality(DOMAIN m.map) >= MaxKeys) BY <1>0, <1>2, <2>2
  <2> QED BY <2>1, <2>2
<1>4. InsertPair(m, k, item) = n
  <2>1. InsertPair(m, k, item) = [room EXCEPT !.map = WithSlot(@, k, s),
                                              !.heap = @ \cup {[cardinality |-> 100, key |-> k]}]
    BY DEF InsertPair
  <2>2. room = [map |-> room.map, heap |-> room.heap, evicted |-> room.evicted] BY <1>3 DEF MapShape
  <2> HIDE DEF room, s
  <2> QED BY <2>1, <2>2
<1>5. n = [map |-> WithSlot(room.map, k, s),
           heap |-> room.heap \cup {[cardinality |-> 100, key |-> k]}, evicted |-> room.evicted]
  OBVIOUS
<1>6. s = [hll |-> InsertItem(EmptyHll, item), cached |-> 100, dirty |-> FALSE] OBVIOUS
<1> HIDE DEF room, n, s
<1>7. MapGood(n, [D EXCEPT ![k] = @ \cup {item}]) BY <1>3, <1>5, <1>6, InsertInRoom
<1> QED BY <1>4, <1>7

(* What a rebuild starts from: a map with sound slots and any candidates. *)
MapSound(m) ==
  /\ m = [map |-> m.map, heap |-> m.heap, evicted |-> m.evicted]
  /\ m.map = [k \in DOMAIN m.map |-> m.map[k]]
  /\ IsFiniteSet(DOMAIN m.map) /\ DOMAIN m.map \subseteq Keys
  /\ \A k \in DOMAIN m.map : SlotSound(m.map[k])
  /\ m.evicted \in Nat

IsRebuilt(n, m) ==
  /\ MapShape(n) /\ DOMAIN n.map = DOMAIN m.map /\ n.evicted = m.evicted
  /\ \A k \in DOMAIN m.map : n.map[k].hll = m.map[k].hll

(* A rebuild refreshes every slot and makes its candidate. *)
LEMMA RebuildIs ==
  ASSUME NEW m, MapSound(m)
  PROVE  IsRebuilt(RebuildEvictionHeap(m), m)
<1> DEFINE D == DOMAIN m.map
           f == [k \in D |-> Refreshed(m.map[k])]
           C == {[cardinality |-> f[k].cached, key |-> k] : k \in D}
           n == RebuildEvictionHeap(m)
<1>0. /\ m = [map |-> m.map, heap |-> m.heap, evicted |-> m.evicted]
      /\ IsFiniteSet(D) /\ D \subseteq Keys /\ m.evicted \in Nat
      /\ \A k \in D : SlotSound(m.map[k])
  BY DEF MapSound
<1>1. n = [m EXCEPT !.map = f, !.heap = C] BY DEF RebuildEvictionHeap
<1>2. DOMAIN f = D /\ f = [k \in D |-> f[k]] /\ \A k \in D : f[k] = Refreshed(m.map[k]) OBVIOUS
<1>3. \A k \in D : SlotGood(f[k]) /\ f[k].hll = m.map[k].hll BY <1>0, <1>2, RefreshedIs
<1>4. C = {[cardinality |-> f[k].cached, key |-> k] : k \in D} OBVIOUS
<1> HIDE DEF n, C, f
<1>5. n.map = f /\ n.heap = C /\ n.evicted = m.evicted
      /\ n = [map |-> n.map, heap |-> n.heap, evicted |-> n.evicted]
  BY <1>0, <1>1
<1>6. OneCandidateEach(n) BY <1>2, <1>4, <1>5 DEF OneCandidateEach
<1>7. MapShape(n) BY <1>0, <1>2, <1>3, <1>5, <1>6 DEF MapShape
<1>8. IsRebuilt(n, m) BY <1>2, <1>3, <1>5, <1>7 DEF IsRebuilt
<1> QED BY <1>8 DEF n

(* A snapshot of the map is read back with the same sketches. *)
LEMMA RestoreMapGood ==
  ASSUME NEW m, NEW D \in [Keys -> SUBSET Items], MapGood(m, D)
  PROVE  MapGood(RestoreMap(m), D)
<1> DEFINE K == DOMAIN m.map
           f == [k \in K |-> [m.map[k] EXCEPT !.hll = RestoreHll(@)]]
           p == [m EXCEPT !.map = f]
           n == RestoreMap(m)
<1>0. MapShape(m) /\ Cardinality(K) <= MaxKeys /\ Counted(m, D, m.evicted) BY DEF MapGood
<1>1. /\ m = [map |-> m.map, heap |-> m.heap, evicted |-> m.evicted]
      /\ IsFiniteSet(K) /\ K \subseteq Keys /\ m.evicted \in Nat
      /\ \A k \in K : SlotSound(m.map[k])
  BY <1>0 DEF MapShape, SlotGood
<1>2. n = RebuildEvictionHeap(p) BY DEF RestoreMap
<1>3. ASSUME NEW k \in K
      PROVE  /\ f[k].hll = RestoreHll(m.map[k].hll)
             /\ \A A : IsHll(m.map[k].hll, A) => IsHll(f[k].hll, A)
             /\ SlotSound(f[k])
  <2> DEFINE s == m.map[k]
             x == RestoreHll(s.hll)
             t == f[k]
             b == s.cached
             c == s.dirty
             a == s.hll
  <2>1. SlotSound(s) BY <1>1
  <2>2. s = [hll |-> a, cached |-> b, dirty |-> c] /\ b \in Int /\ c \in BOOLEAN BY <2>1, SlotType
  <2>3. t = [s EXCEPT !.hll = RestoreHll(@)] OBVIOUS
  <2>4. t = [s EXCEPT !.hll = x] BY <2>2, <2>3
  <2>5. \A A : IsHll(a, A) => IsHll(x, A) BY RestoreHllIs
  <2>6. PICK A \in SUBSET Hash : IsHll(a, A) BY <2>1 DEF SlotSound
  <2>7. IsHll(x, A) BY <2>5, <2>6
  <2>8. x \in Storage BY <2>7 DEF IsHll
  <2> HIDE DEF t, x, b, c, a, s
  <2>9. t = [hll |-> x, cached |-> b, dirty |-> c] BY <2>2, <2>4
  <2>10. t \in Slot /\ t.hll = x BY <2>2, <2>8, <2>9 DEF Slot
  <2>11. SlotSound(t) BY <2>7, <2>10 DEF SlotSound
  <2> QED BY <2>5, <2>10, <2>11 DEF t, x, a, s
<1>4. DOMAIN f = K /\ f = [k \in K |-> f[k]] OBVIOUS
<1>5. p = [m EXCEPT !.map = f] OBVIOUS
<1> HIDE DEF f, p, n
<1>6. p.map = f /\ p.evicted = m.evicted /\ p = [map |-> p.map, heap |-> p.heap, evicted |-> p.evicted]
  BY <1>1, <1>5
<1>7. MapSound(p) BY <1>1, <1>3, <1>4, <1>6 DEF MapSound
<1>8. IsRebuilt(n, p) BY <1>2, <1>7, RebuildIs
<1>9. /\ MapShape(n) /\ DOMAIN n.map = K /\ n.evicted = m.evicted
      /\ \A k \in K : n.map[k].hll = f[k].hll
  BY <1>4, <1>6, <1>8 DEF IsRebuilt
<1>10. Counted(n, D, n.evicted)
  <2>1. ASSUME NEW k \in DOMAIN n.map
        PROVE  \E it \in SUBSET D[k] :
                 IsHll(n.map[k].hll, HashesOf(it)) /\ (n.evicted = 0 => it = D[k])
    <3>1. PICK it \in SUBSET D[k] :
            IsHll(m.map[k].hll, HashesOf(it)) /\ (m.evicted = 0 => it = D[k])
      BY <1>0, <1>9 DEF Counted
    <3>2. IsHll(n.map[k].hll, HashesOf(it)) BY <1>3, <1>9, <3>1
    <3> QED BY <1>9, <3>1, <3>2
  <2>2. n.evicted = 0 => \A k \in Keys \ DOMAIN n.map : D[k] = {} BY <1>0, <1>9 DEF Counted
  <2> QED BY <2>1, <2>2 DEF Counted
<1>11. MapGood(n, D) BY <1>0, <1>9, <1>10 DEF MapGood
<1> QED BY <1>11 DEF n

(* The slots of both maps, with the items D of the one and E of the other. *)
SlotsMerged(p, m, o, U) ==
  /\ MapSound(p) /\ p.evicted = m.evicted
  /\ Counted(p, U, m.evicted + o.evicted)

(* A slot that waits to be refreshed. *)
LEMMA SlotOf ==
  ASSUME NEW x \in Storage, NEW b \in Int, NEW u, u = [hll |-> x, cached |-> b, dirty |-> TRUE]
  PROVE  u \in Slot /\ u.hll = x
BY DEF Slot

(* The slot of a key that both maps have. *)
LEMMA SlotOfBoth ==
  ASSUME NEW s, SlotSound(s), NEW t, SlotSound(t), NEW u,
         u = [s EXCEPT !.hll = MergeHll(@, t.hll), !.dirty = TRUE]
  PROVE  /\ SlotSound(u)
         /\ \A A, B : IsHll(s.hll, A) /\ IsHll(t.hll, B) => IsHll(u.hll, A \cup B)
<1> DEFINE a == s.hll
           b == s.cached
           c == s.dirty
           x == MergeHll(a, t.hll)
<1>1. s = [hll |-> a, cached |-> b, dirty |-> c] /\ b \in Int BY SlotType
<1>2. PICK A \in SUBSET Hash : IsHll(a, A) BY DEF SlotSound
<1>3. PICK B \in SUBSET Hash : IsHll(t.hll, B) BY DEF SlotSound
<1>4. IsHll(x, A \cup B) BY <1>2, <1>3, MergeHllIs
<1>5. \A F, G : IsHll(a, F) /\ IsHll(t.hll, G) => IsHll(x, F \cup G) BY MergeHllIs
<1>6. u = [s EXCEPT !.hll = x, !.dirty = TRUE] BY <1>1
<1>7. x \in Storage BY <1>4 DEF IsHll
<1> HIDE DEF x, b, c, a
<1>8. u = [hll |-> x, cached |-> b, dirty |-> TRUE] BY <1>1, <1>6
<1>9. u \in Slot /\ u.hll = x
  BY <1>1, <1>7, <1>8, SlotOf
<1>10. A \cup B \in SUBSET Hash BY <1>2, <1>3
<1>11. SlotSound(u) BY <1>4, <1>9, <1>10 DEF SlotSound
<1> QED BY <1>5, <1>9, <1>11 DEF a

(* Merging the slots: a key has the items it has in either map. *)
LEMMA MergeSlotsIs ==
  ASSUME NEW m, MapShape(m), NEW o, MapShape(o),
         NEW D \in [Keys -> SUBSET Items], Counted(m, D, m.evicted),
         NEW E \in [Keys -> SUBSET Items], Counted(o, E, o.evicted),
         NEW U, U = [k \in Keys |-> D[k] \cup E[k]],
         NEW p, p = [m EXCEPT !.map = MergeSlots(m, o)]
  PROVE  SlotsMerged(p, m, o, U)
<1> DEFINE f == MergeSlots(m, o)
           K == DOMAIN m.map
           L == DOMAIN o.map
           ev == m.evicted + o.evicted
<1>1. /\ m = [map |-> m.map, heap |-> m.heap, evicted |-> m.evicted]
      /\ IsFiniteSet(K) /\ K \subseteq Keys /\ m.evicted \in Nat
      /\ \A k \in K : SlotSound(m.map[k])
  BY DEF MapShape, SlotGood
<1>2. /\ IsFiniteSet(L) /\ L \subseteq Keys /\ o.evicted \in Nat
      /\ \A k \in L : SlotSound(o.map[k])
  BY DEF MapShape, SlotGood
<1>3. DOMAIN f = K \cup L /\ f = [k \in K \cup L |-> f[k]] BY DEF MergeSlots
<1>4. \A k \in K \cup L :
        /\ k \notin K => f[k] = o.map[k]
        /\ k \in K /\ k \notin L => f[k] = m.map[k]
        /\ k \in K /\ k \in L =>
             f[k] = [m.map[k] EXCEPT !.hll = MergeHll(@, o.map[k].hll), !.dirty = TRUE]
  BY DEF MergeSlots
<1> HIDE DEF f
<1>5. p = [m EXCEPT !.map = f] BY DEF f
<1>6. p.map = f /\ p.evicted = m.evicted /\ p = [map |-> p.map, heap |-> p.heap, evicted |-> p.evicted]
  BY <1>1, <1>5
<1>7. IsFiniteSet(K \cup L) /\ K \cup L \subseteq Keys BY <1>1, <1>2, FS_Union
<1>8. ev \in Nat /\ (ev = 0 => m.evicted = 0 /\ o.evicted = 0) BY <1>1, <1>2
<1> HIDE DEF ev
<1>9. ASSUME NEW k \in K \cup L
      PROVE  /\ SlotSound(f[k])
             /\ \E it \in SUBSET U[k] : IsHll(f[k].hll, HashesOf(it)) /\ (ev = 0 => it = U[k])
  <2>0. k \in Keys /\ U[k] = D[k] \cup E[k] BY <1>7
  <2>1. CASE k \notin K
    <3>1. k \in L /\ f[k] = o.map[k] BY <1>4, <2>1
    <3>2. PICK it \in SUBSET E[k] : IsHll(o.map[k].hll, HashesOf(it)) /\ (o.evicted = 0 => it = E[k])
      BY <3>1 DEF Counted
    <3>3. ev = 0 => D[k] = {} BY <1>8, <2>0, <2>1 DEF Counted
    <3>4. it \in SUBSET U[k] /\ (ev = 0 => it = U[k]) BY <1>8, <2>0, <3>2, <3>3
    <3> QED BY <1>2, <3>1, <3>2, <3>4
  <2>2. CASE k \in K /\ k \notin L
    <3>1. f[k] = m.map[k] BY <1>4, <2>2
    <3>2. PICK it \in SUBSET D[k] : IsHll(m.map[k].hll, HashesOf(it)) /\ (m.evicted = 0 => it = D[k])
      BY <2>2 DEF Counted
    <3>3. ev = 0 => E[k] = {} BY <1>8, <2>0, <2>2 DEF Counted
    <3>4. it \in SUBSET U[k] /\ (ev = 0 => it = U[k]) BY <1>8, <2>0, <3>2, <3>3
    <3> QED BY <1>1, <2>2, <3>1, <3>2, <3>4
  <2>3. CASE k \in K /\ k \in L
    <3>1. PICK it \in SUBSET D[k] : IsHll(m.map[k].hll, HashesOf(it)) /\ (m.evicted = 0 => it = D[k])
      BY <2>3 DEF Counted
    <3>2. PICK iu \in SUBSET E[k] : IsHll(o.map[k].hll, HashesOf(iu)) /\ (o.evicted = 0 => iu = E[k])
      BY <2>3 DEF Counted
    <3> DEFINE s == m.map[k]
               t == o.map[k]
               u == f[k]
    <3>3. SlotSound(s) /\ SlotSound(t) BY <1>1, <1>2, <2>3
    <3>4. u = [s EXCEPT !.hll = MergeHll(@, t.hll), !.dirty = TRUE] BY <1>4, <2>3
    <3>5. IsHll(s.hll, HashesOf(it)) /\ IsHll(t.hll, HashesOf(iu)) BY <3>1, <3>2
    <3> HIDE DEF s, t, u
    <3>6. /\ SlotSound(u)
          /\ \A A, B : IsHll(s.hll, A) /\ IsHll(t.hll, B) => IsHll(u.hll, A \cup B)
      BY <3>3, <3>4, SlotOfBoth
    <3>7. IsHll(u.hll, HashesOf(it) \cup HashesOf(iu)) BY <3>5, <3>6
    <3>8. HashesOf(it) \cup HashesOf(iu) = HashesOf(it \cup iu) BY DEF HashesOf
    <3>9. it \cup iu \in SUBSET U[k] /\ (ev = 0 => it \cup iu = U[k]) BY <1>8, <2>0, <3>1, <3>2
    <3>10. IsHll(u.hll, HashesOf(it \cup iu)) BY <3>7, <3>8
    <3> QED BY <3>6, <3>9, <3>10 DEF u
  <2> QED BY <2>1, <2>2, <2>3
<1>10. MapSound(p) BY <1>1, <1>3, <1>6, <1>7, <1>9 DEF MapSound
<1>11. ASSUME ev = 0, NEW k \in Keys \ (K \cup L) PROVE U[k] = {}
  <2>1. D[k] = {} /\ E[k] = {} BY <1>8, <1>11 DEF Counted
  <2> QED BY <2>1
<1>12. Counted(p, U, ev) BY <1>3, <1>6, <1>9, <1>11 DEF Counted
<1> QED BY <1>6, <1>10, <1>12 DEF SlotsMerged, ev

(* Rebuilding changes nothing of what is counted. *)
LEMMA RebuiltCounted ==
  ASSUME NEW n, NEW m, IsRebuilt(n, m), NEW D, NEW ev, Counted(m, D, ev)
  PROVE  Counted(n, D, ev)
BY DEF IsRebuilt, Counted

(* The evictions of a merge. *)
AreEvictions(f, m, n) ==
  f = [i \in 0 .. n |-> IF i = 0 THEN m ELSE EvictSmallest(f[i - 1])]

(* There are any number of them. *)
LEMMA EvictionsExist ==
  ASSUME NEW m, NEW n \in Nat
  PROVE  \E f : AreEvictions(f, m, n)
<1> DEFINE P == {j \in 0 .. n : \E f : AreEvictions(f, m, j)}
<1>1. 0 \in P
  <2> DEFINE f == [i \in 0 .. 0 |-> m]
  <2>1. AreEvictions(f, m, 0)
    <3>1. \A i \in 0 .. 0 : i = 0 OBVIOUS
    <3>2. f = [i \in 0 .. 0 |-> IF i = 0 THEN m ELSE EvictSmallest(f[i - 1])] BY <3>1
    <3> QED BY <3>2, Zenon DEF AreEvictions
  <2>2. 0 \in 0 .. n OBVIOUS
  <2> HIDE DEF f
  <2> QED BY <2>1, <2>2
<1>2. ASSUME NEW j \in 1 .. n, j - 1 \in P PROVE j \in P
  <2>1. PICK f : AreEvictions(f, m, j - 1) BY <1>2
  <2> DEFINE h == [i \in 0 .. j |-> IF i = j THEN EvictSmallest(f[j - 1]) ELSE f[i]]
  <2>2. \A i \in 0 .. j - 1 : f[i] = IF i = 0 THEN m ELSE EvictSmallest(f[i - 1])
    BY <2>1, Zenon DEF AreEvictions
  <2>3. ASSUME NEW i \in 0 .. j PROVE h[i] = IF i = 0 THEN m ELSE EvictSmallest(h[i - 1])
    <3>1. CASE i = j
      <4>1. h[j] = EvictSmallest(f[j - 1]) /\ h[j - 1] = f[j - 1] /\ j # 0 OBVIOUS
      <4> HIDE DEF h
      <4> QED BY <3>1, <4>1
    <3>2. CASE i # j
      <4>1. i \in 0 .. j - 1 /\ h[i] = f[i] BY <3>2
      <4>2. i # 0 => h[i - 1] = f[i - 1] BY <3>2
      <4> HIDE DEF h
      <4> QED BY <2>2, <4>1, <4>2
    <3> QED BY <3>1, <3>2
  <2>4. h = [i \in 0 .. j |-> h[i]] OBVIOUS
  <2> HIDE DEF h
  <2>5. [i \in 0 .. j |-> h[i]] = [i \in 0 .. j |-> IF i = 0 THEN m ELSE EvictSmallest(h[i - 1])]
    BY <2>3
  <2>6. AreEvictions(h, m, j) BY <2>4, <2>5, Zenon DEF AreEvictions
  <2> QED BY <2>6
<1> HIDE DEF P
<1>3. \A j \in 0 .. n : j \in P BY <1>1, <1>2, UpTo
<1>4. n \in P BY <1>3
<1> QED BY <1>4 DEF P

(* After i evictions. *)
Thinned(x, c, U, oe, i) ==
  /\ MapShape(x) /\ Cardinality(DOMAIN x.map) = c - i
  /\ Counted(x, U, x.evicted + oe)

(* One more. *)
LEMMA ThinStep ==
  ASSUME NEW x, NEW c \in Nat, NEW U, NEW oe \in Nat, NEW i \in Nat, Thinned(x, c, U, oe, i), i < c
  PROVE  Thinned(EvictSmallest(x), c, U, oe, i + 1)
<1> DEFINE y == EvictSmallest(x)
<1>1. MapShape(x) /\ Cardinality(DOMAIN x.map) = c - i /\ Counted(x, U, x.evicted + oe) BY DEF Thinned
<1>2. IsFiniteSet(DOMAIN x.map) /\ x.evicted \in Nat BY <1>1 DEF MapShape
<1>3. DOMAIN x.map # {} BY <1>1, FS_EmptySet
<1>4. PICK k \in DOMAIN x.map : WithoutKey(y, x, k) BY <1>1, <1>3, EvictSmallestIs
<1> HIDE DEF y
<1>5. MapShape(y) /\ DOMAIN y.map = DOMAIN x.map \ {k} /\ y.evicted = x.evicted + 1
  BY <1>4 DEF WithoutKey
<1>6. Cardinality(DOMAIN y.map) = Cardinality(DOMAIN x.map) - 1 BY <1>2, <1>5, FS_RemoveElement
<1>7. Cardinality(DOMAIN y.map) = c - (i + 1) BY <1>1, <1>6
<1>8. y.evicted + oe # 0 BY <1>2, <1>5
<1>9. Counted(y, U, y.evicted + oe) BY <1>1, <1>4, <1>8, EvictCounted
<1>10. Thinned(y, c, U, oe, i + 1) BY <1>5, <1>7, <1>9 DEF Thinned
<1> QED BY <1>10 DEF y

(* A merge counts for each key what either map counts, and evicts down to  *)
(* max_keys.                                                               *)
LEMMA MergeMapsGood ==
  ASSUME NEW m, NEW o, NEW D \in [Keys -> SUBSET Items], MapGood(m, D),
         NEW E \in [Keys -> SUBSET Items], MapGood(o, E),
         NEW U, U = [k \in Keys |-> D[k] \cup E[k]]
  PROVE  MapGood(MergeMaps(m, o), U)
<1> DEFINE p == [m EXCEPT !.map = MergeSlots(m, o)]
           full == RebuildEvictionHeap(p)
           c == Cardinality(DOMAIN full.map)
           excess == IF c > MaxKeys THEN c - MaxKeys ELSE 0
           G == CHOOSE f : AreEvictions(f, full, excess)
           oe == o.evicted
<1>1. MergeMaps(m, o) = [G[excess] EXCEPT !.evicted = @ + oe]
  BY Zenon DEF MergeMaps, AreEvictions
<1>2. MapShape(m) /\ MapShape(o) /\ Counted(m, D, m.evicted) /\ Counted(o, E, o.evicted) BY DEF MapGood
<1>3. oe \in Nat BY <1>2 DEF MapShape
<1>4. p = [m EXCEPT !.map = MergeSlots(m, o)] OBVIOUS
<1> HIDE DEF p
<1>5. SlotsMerged(p, m, o, U) BY <1>2, <1>4, MergeSlotsIs
<1>6. MapSound(p) /\ p.evicted = m.evicted /\ Counted(p, U, m.evicted + oe) BY <1>5 DEF SlotsMerged
<1>7. IsRebuilt(full, p) BY <1>6, RebuildIs
<1> HIDE DEF full
<1>8. Counted(full, U, m.evicted + oe) BY <1>6, <1>7, RebuiltCounted
<1>9. MapShape(full) /\ full.evicted = m.evicted BY <1>6, <1>7 DEF IsRebuilt
<1>10. IsFiniteSet(DOMAIN full.map) BY <1>9 DEF MapShape
<1>11. c \in Nat /\ MaxKeys \in Nat /\ MaxKeys > 0 BY <1>10, FS_CardinalityType, MaxKeysAssumption
<1>12. c = Cardinality(DOMAIN full.map) OBVIOUS
<1> HIDE DEF c
<1>13. excess \in Nat /\ (excess = 0 \/ excess < c) /\ c - excess <= MaxKeys BY <1>11
<1> HIDE DEF excess, oe
<1>14. AreEvictions(G, full, excess) BY <1>13, EvictionsExist, Zenon
<1> HIDE DEF G
<1>15. \A i \in 0 .. excess : G[i] = IF i = 0 THEN full ELSE EvictSmallest(G[i - 1])
  BY <1>14, Zenon DEF AreEvictions
<1> DEFINE P == {i \in 0 .. excess : Thinned(G[i], c, U, oe, i)}
<1>16. 0 \in P
  <2>1. 0 \in 0 .. excess BY <1>13
  <2>2. G[0] = full BY <1>15, <2>1
  <2>3. Cardinality(DOMAIN full.map) = c - 0 BY <1>11, <1>12
  <2>4. Thinned(full, c, U, oe, 0) BY <1>8, <1>9, <2>3 DEF Thinned
  <2> QED BY <2>1, <2>2, <2>4
<1>17. ASSUME NEW i \in 1 .. excess, i - 1 \in P PROVE i \in P
  <2> DEFINE j == i - 1
             x == G[j]
  <2>1. j \in Nat /\ j + 1 = i /\ i # 0 /\ i \in 0 .. excess /\ j < c BY <1>11, <1>13
  <2>2. Thinned(x, c, U, oe, j) BY <1>17
  <2>3. G[i] = EvictSmallest(x) BY <1>15, <2>1
  <2> HIDE DEF x, j
  <2>4. Thinned(EvictSmallest(x), c, U, oe, j + 1) BY <1>3, <1>11, <2>1, <2>2, ThinStep DEF oe
  <2>5. Thinned(G[i], c, U, oe, i) BY <2>1, <2>3, <2>4
  <2> QED BY <2>1, <2>5
<1> HIDE DEF P
<1>18. \A i \in 0 .. excess : i \in P BY <1>13, <1>16, <1>17, UpTo
<1>19. excess \in P BY <1>13, <1>18
<1> DEFINE x == G[excess]
           y == [x EXCEPT !.evicted = @ + oe]
<1>20. Thinned(x, c, U, oe, excess) BY <1>19 DEF P
<1>21. y = [x EXCEPT !.evicted = @ + oe] OBVIOUS
<1> HIDE DEF x, y
<1>22. MapShape(x) /\ Cardinality(DOMAIN x.map) <= MaxKeys /\ Counted(x, U, x.evicted + oe)
  BY <1>13, <1>20 DEF Thinned
<1>23. x = [map |-> x.map, heap |-> x.heap, evicted |-> x.evicted] /\ x.evicted \in Nat
  BY <1>22 DEF MapShape
<1>24. y = [x EXCEPT !.evicted = x.evicted + oe] BY <1>21, <1>23
<1> DEFINE ye == x.evicted + oe
<1>25. ye \in Nat BY <1>3, <1>23 DEF oe
<1>26. y = [map |-> x.map, heap |-> x.heap, evicted |-> ye] BY <1>23, <1>24
<1>27. Counted(x, U, ye) BY <1>22
<1> HIDE DEF ye
<1>28. y.map = x.map /\ y.heap = x.heap /\ y.evicted = ye /\ y = [map |-> y.map, heap |-> y.heap, evicted |-> y.evicted]
  BY <1>26
<1>29. MapShape(y) BY <1>22, <1>25, <1>28 DEF MapShape, OneCandidateEach
<1>30. Counted(y, U, y.evicted) BY <1>27, <1>28 DEF Counted
<1>31. MapGood(y, U) BY <1>22, <1>28, <1>29, <1>30 DEF MapGood
<1> QED BY <1>1, <1>31 DEF y, x

(* An empty map. *)
LEMMA EmptyMapGood ==
  ASSUME NEW D, D = [k \in Keys |-> {}]
  PROVE  MapGood(EmptyMap, D)
<1> DEFINE e == EmptyMap
           f == [k \in {} |-> EmptyHll]
<1>1. e = [map |-> f, heap |-> {}, evicted |-> 0] BY DEF EmptyMap
<1>2. DOMAIN f = {} /\ f = [k \in DOMAIN f |-> f[k]] OBVIOUS
<1> HIDE DEF e, f
<1>3. e.map = f /\ e.heap = {} /\ e.evicted = 0 /\ e = [map |-> e.map, heap |-> e.heap, evicted |-> e.evicted]
  BY <1>1
<1>4. IsFiniteSet({}) /\ Cardinality({}) = 0 BY FS_EmptySet
<1>5. OneCandidateEach(e) BY <1>2, <1>3 DEF OneCandidateEach
<1>6. MapShape(e) BY <1>2, <1>3, <1>4, <1>5 DEF MapShape
<1>7. Counted(e, D, e.evicted) BY <1>2, <1>3 DEF Counted
<1>8. Cardinality(DOMAIN e.map) <= MaxKeys BY <1>2, <1>3, <1>4, MaxKeysAssumption
<1>9. MapGood(e, D) BY <1>6, <1>7, <1>8 DEF MapGood
<1> QED BY <1>9 DEF e

(* An item, of a key the map has or not. *)
LEMMA InsertPairGood ==
  ASSUME NEW m, NEW D \in [Keys -> SUBSET Items], MapGood(m, D), NEW k \in Keys, NEW item \in Items
  PROVE  MapGood(InsertPair(m, k, item), [D EXCEPT ![k] = @ \cup {item}])
BY InsertKnown, InsertUnknown

-------------------------------------------------------------------------------
(* The sketches of distinct items. *)

(* The items of all keys. *)
AllItems(D) == UNION {D[k] : k \in Keys}

DistinctGood(s, m, D) == IsHll(s, HashesOf(AllItems(D))) /\ MapGood(m, D)

(* The inductive invariant of the sketches of distinct items. *)
DistinctInv ==
  /\ hll = [r \in Replica |-> hll[r]] /\ fanout = [r \in Replica |-> fanout[r]]
  /\ \A r \in Replica : DistinctGood(hll[r], fanout[r], exact[r].distinct)

(* A replica whose sketches and items are replaced by ones that agree. *)
LEMMA DistinctReplace ==
  ASSUME DistinctInv, ExactInv, NEW r \in Replica, NEW s, NEW m, NEW e,
         hll' = [hll EXCEPT ![r] = s], fanout' = [fanout EXCEPT ![r] = m],
         exact' = [exact EXCEPT ![r] = e], DistinctGood(s, m, e.distinct)
  PROVE  DistinctInv'
<1>1. exact = [q \in Replica |-> exact[q]] BY DEF ExactInv
<1>2. hll' = [q \in Replica |-> hll'[q]] /\ fanout' = [q \in Replica |-> fanout'[q]] BY DEF DistinctInv
<1>3. ASSUME NEW q \in Replica PROVE DistinctGood(hll'[q], fanout'[q], exact'[q].distinct)
  <2>1. CASE q = r
    <3>1. hll'[q] = s /\ fanout'[q] = m /\ exact'[q] = e BY <1>1, <2>1 DEF DistinctInv
    <3> QED BY <3>1
  <2>2. CASE q # r
    <3>1. hll'[q] = hll[q] /\ fanout'[q] = fanout[q] /\ exact'[q] = exact[q]
      BY <1>1, <2>2 DEF DistinctInv
    <3> QED BY <3>1 DEF DistinctInv
  <2> QED BY <2>1, <2>2
<1> QED BY <1>2, <1>3 DEF DistinctInv

(* The sketches of distinct items and the items of the ground truth stay. *)
DistinctStays ==
  UNCHANGED <<hll, fanout>> /\ \A r \in Replica : exact'[r].distinct = exact[r].distinct

(* Every step is one of the four on distinct items, or leaves them alone. *)
LEMMA DistinctCases ==
  ASSUME ExactInv, Next
  PROVE  \/ \E r \in Replica, k \in Keys, item \in Items : InsertDistinct(r, k, item)
         \/ \E r, o \in Replica : MergeDistinct(r, o)
         \/ \E r \in Replica : RestoreDistinct(r)
         \/ \E r \in Replica : ResetDistinct(r)
         \/ DistinctStays
<1>1. PICK r \in Replica :
    \/ \E k \in Keys : \E w \in Weights[k] : UpdateCounts(r, k, w)
    \/ \E o \in Replica \ {r} : MergeCounts(r, o)
    \/ RestoreCounts(r)
    \/ ResetCounts(r)
    \/ \E k \in Keys, item \in Items : InsertDistinct(r, k, item)
    \/ \E o \in Replica \ {r} : MergeDistinct(r, o)
    \/ RestoreDistinct(r)
    \/ ResetDistinct(r)
    \/ \E v \in Keys : InsertQuantile(r, v)
    \/ \E o \in Replica \ {r} : MergeQuantile(r, o)
    \/ RestoreQuantile(r)
    \/ ResetQuantile(r)
  BY Zenon DEF Next
<1>2. CASE \/ \E k \in Keys : \E w \in Weights[k] : UpdateCounts(r, k, w)
           \/ \E o \in Replica \ {r} : MergeCounts(r, o)
           \/ RestoreCounts(r) \/ ResetCounts(r)
           \/ \E v \in Keys : InsertQuantile(r, v)
           \/ \E o \in Replica \ {r} : MergeQuantile(r, o)
           \/ RestoreQuantile(r) \/ ResetQuantile(r)
  <2>1. family # "distinct" /\ family' = family /\ UNCHANGED <<hll, fanout>>
    BY <1>2 DEF UpdateCounts, MergeCounts, RestoreCounts, ResetCounts, InsertQuantile,
                MergeQuantile, RestoreQuantile, ResetQuantile, Operate
  <2>2. ExactInv' BY ExactStep
  <2>3. \A q \in Replica : exact'[q].distinct = exact[q].distinct BY <2>1, <2>2 DEF ExactInv
  <2> QED BY <2>1, <2>3 DEF DistinctStays
<1>3. CASE \/ \E k \in Keys, item \in Items : InsertDistinct(r, k, item)
           \/ \E o \in Replica \ {r} : MergeDistinct(r, o)
           \/ RestoreDistinct(r) \/ ResetDistinct(r)
  BY <1>3, Zenon
<1> QED BY <1>1, <1>2, <1>3, Zenon

(* One more item. *)
LEMMA InsertGood ==
  ASSUME NEW s, NEW m, NEW D \in [Keys -> SUBSET Items], DistinctGood(s, m, D),
         NEW k \in Keys, NEW item \in Items, NEW E, E = [D EXCEPT ![k] = @ \cup {item}]
  PROVE  DistinctGood(InsertItem(s, item), InsertPair(m, k, item), E)
<1>1. MapGood(InsertPair(m, k, item), E) BY InsertPairGood DEF DistinctGood
<1>2. AllItems(E) = AllItems(D) \cup {item} BY DEF AllItems
<1>3. HashesOf(AllItems(E)) = HashesOf(AllItems(D)) \cup {HashOf[item]} BY <1>2 DEF HashesOf
<1>4. HashOf[item] \in Hash BY HashAssumption
<1>5. IsHll(InsertItem(s, item), HashesOf(AllItems(E)))
  <2> DEFINE A == HashesOf(AllItems(D))
             h == HashOf[item]
  <2>1. IsHll(s, A) BY DEF DistinctGood
  <2>2. InsertItem(s, item) = InsertHash(s, h) BY DEF InsertItem
  <2>3. h \in Hash BY <1>4
  <2>4. HashesOf(AllItems(E)) = A \cup {h} BY <1>3
  <2> HIDE DEF A, h
  <2>5. IsHll(InsertHash(s, h), A \cup {h}) BY <2>1, <2>3, InsertHashIs
  <2> QED BY <2>2, <2>4, <2>5
<1> QED BY <1>1, <1>5 DEF DistinctGood

(* Two replicas merged. *)
LEMMA MergedGood ==
  ASSUME NEW s, NEW m, NEW D \in [Keys -> SUBSET Items], DistinctGood(s, m, D),
         NEW t, NEW o, NEW E \in [Keys -> SUBSET Items], DistinctGood(t, o, E),
         NEW U, U = [k \in Keys |-> D[k] \cup E[k]]
  PROVE  DistinctGood(MergeHll(s, t), MergeMaps(m, o), U)
<1>1. MapGood(MergeMaps(m, o), U) BY MergeMapsGood DEF DistinctGood
<1> DEFINE A == HashesOf(AllItems(D))
           B == HashesOf(AllItems(E))
<1>2. AllItems(U) = AllItems(D) \cup AllItems(E) BY DEF AllItems
<1>3. HashesOf(AllItems(U)) = A \cup B BY <1>2 DEF HashesOf
<1>4. IsHll(s, A) /\ IsHll(t, B) BY DEF DistinctGood
<1> HIDE DEF A, B
<1>5. IsHll(MergeHll(s, t), A \cup B) BY <1>4, MergeHllIs
<1>6. IsHll(MergeHll(s, t), HashesOf(AllItems(U))) BY <1>3, <1>5
<1> QED BY <1>1, <1>6 DEF DistinctGood

(* Nothing is counted where there is nothing. *)
LEMMA EmptyGood ==
  ASSUME NEW s, IsHll(s, {})
  PROVE  DistinctGood(s, EmptyMap, EmptyExact.distinct)
<1> DEFINE D == EmptyExact.distinct
<1>1. D = [k \in Keys |-> {}] BY DEF EmptyExact
<1>2. MapGood(EmptyMap, D)
  <2> HIDE DEF D
  <2> QED BY <1>1, EmptyMapGood
<1>3. HashesOf(AllItems(D)) = {} BY <1>1 DEF HashesOf, AllItems
<1> QED BY <1>2, <1>3 DEF DistinctGood

(* Every step keeps the invariant. *)
LEMMA DistinctStep ==
  ASSUME ExactInv, DistinctInv, Next
  PROVE  DistinctInv'
<1>0. \A r \in Replica : /\ exact[r].distinct \in [Keys -> SUBSET Items] /\ exact[r] \in Exact
                         /\ DistinctGood(hll[r], fanout[r], exact[r].distinct)
  BY DEF ExactInv, Exact, DistinctInv
<1>1. CASE \E r \in Replica, k \in Keys, item \in Items : InsertDistinct(r, k, item)
  <2>1. PICK r \in Replica, k \in Keys, item \in Items : InsertDistinct(r, k, item) BY <1>1
  <2> DEFINE s == InsertItem(hll[r], item)
             m == InsertPair(fanout[r], k, item)
             x == exact[r]
             e == ExactInsert(x, k, item)
             D == x.distinct
             E == e.distinct
             t == hll[r]
             n == fanout[r]
  <2>2. hll' = [hll EXCEPT ![r] = s] /\ fanout' = [fanout EXCEPT ![r] = m]
        /\ exact' = [exact EXCEPT ![r] = e]
    BY <2>1 DEF InsertDistinct
  <2>3. x \in Exact /\ D \in [Keys -> SUBSET Items] /\ DistinctGood(t, n, D) BY <1>0
  <2>4. E = [D EXCEPT ![k] = @ \cup {item}]
    <3> HIDE DEF x
    <3> QED BY <2>3, ExactInsertIs
  <2>5. DistinctGood(InsertItem(t, item), InsertPair(n, k, item), E)
    <3> HIDE DEF t, n, D, E
    <3> QED BY <2>3, <2>4, InsertGood
  <2>6. DistinctGood(s, m, e.distinct) BY <2>5
  <2> HIDE DEF s, m, e
  <2> QED BY <2>2, <2>6, DistinctReplace
<1>2. CASE \E r, o \in Replica : MergeDistinct(r, o)
  <2>1. PICK r \in Replica, o \in Replica : MergeDistinct(r, o) BY <1>2
  <2> DEFINE x == exact[r]
             y == exact[o]
             e == ExactMerge(x, y)
             D == x.distinct
             E == y.distinct
             U == e.distinct
             s == hll[r]
             t == hll[o]
             m == fanout[r]
             n == fanout[o]
             a == MergeHll(s, t)
             b == MergeMaps(m, n)
  <2>2. hll' = [hll EXCEPT ![r] = a] /\ fanout' = [fanout EXCEPT ![r] = b]
        /\ exact' = [exact EXCEPT ![r] = e]
    BY <2>1 DEF MergeDistinct
  <2>3. /\ x \in Exact /\ D \in [Keys -> SUBSET Items] /\ DistinctGood(s, m, D)
        /\ y \in Exact /\ E \in [Keys -> SUBSET Items] /\ DistinctGood(t, n, E)
    BY <1>0
  <2>4. U = [k \in Keys |-> D[k] \cup E[k]]
    <3> HIDE DEF x, y
    <3> QED BY <2>3, ExactMergeIs
  <2>5. DistinctGood(a, b, U)
    <3> HIDE DEF s, t, m, n, D, E, U
    <3> QED BY <2>3, <2>4, MergedGood
  <2> HIDE DEF a, b, e
  <2> QED BY <2>2, <2>5, DistinctReplace
<1>3. CASE \E r \in Replica : RestoreDistinct(r)
  <2>1. PICK r \in Replica : RestoreDistinct(r) BY <1>3
  <2> DEFINE s == RestoreHll(hll[r])
             m == RestoreMap(fanout[r])
             e == exact[r]
  <2>2. hll' = [hll EXCEPT ![r] = s] /\ fanout' = [fanout EXCEPT ![r] = m] /\ exact' = exact
    BY <2>1 DEF RestoreDistinct
  <2>3. exact' = [exact EXCEPT ![r] = e] BY <2>2 DEF ExactInv
  <2>4. DistinctGood(s, m, e.distinct) BY <1>0, RestoreHllIs, RestoreMapGood DEF DistinctGood
  <2> HIDE DEF s, m, e
  <2> QED BY <2>2, <2>3, <2>4, DistinctReplace
<1>4. CASE \E r \in Replica : ResetDistinct(r)
  <2>1. PICK r \in Replica : ResetDistinct(r) BY <1>4
  <2> DEFINE s == ResetHll(hll[r])
  <2>2. hll' = [hll EXCEPT ![r] = s] /\ fanout' = [fanout EXCEPT ![r] = EmptyMap]
        /\ exact' = [exact EXCEPT ![r] = EmptyExact]
    BY <2>1 DEF ResetDistinct
  <2>3. hll[r] \in Storage BY <1>0 DEF DistinctGood, IsHll
  <2>4. DistinctGood(s, EmptyMap, EmptyExact.distinct) BY <2>3, ResetHllIs, EmptyGood
  <2> HIDE DEF s
  <2> QED BY <2>2, <2>4, DistinctReplace
<1>5. CASE DistinctStays
  <2>1. hll' = hll /\ fanout' = fanout /\ \A r \in Replica : exact'[r].distinct = exact[r].distinct
    BY <1>5 DEF DistinctStays
  <2> QED BY <2>1 DEF DistinctInv
<1> QED BY DistinctCases, <1>1, <1>2, <1>3, <1>4, <1>5

(* The invariant of the distinct sketches holds. *)
LEMMA DistinctInvariant == Spec => [](ExactInv /\ DistinctInv)
<1>1. Init => ExactInv /\ DistinctInv
  <2> SUFFICES ASSUME Init PROVE ExactInv /\ DistinctInv OBVIOUS
  <2>1. ExactInv BY TablesInit
  <2>2. DistinctGood(EmptyHll, EmptyMap, EmptyExact.distinct) BY EmptyHllIs, EmptyGood
  <2>3. DistinctInv BY <2>2 DEF Init, DistinctInv
  <2> QED BY <2>1, <2>3
<1>2. (ExactInv /\ DistinctInv) /\ [Next]_vars => (ExactInv /\ DistinctInv)'
  <2> SUFFICES ASSUME ExactInv, DistinctInv, [Next]_vars PROVE (ExactInv /\ DistinctInv)' OBVIOUS
  <2>1. CASE Next BY <2>1, ExactStep, DistinctStep
  <2>2. CASE UNCHANGED vars BY <2>2 DEF vars, ExactInv, DistinctInv
  <2> QED BY <2>1, <2>2
<1> QED BY <1>1, <1>2, PTL DEF Spec

(* A sketch of hashes is accepted when its snapshot is read. *)
LEMMA IsHllAccepted ==
  ASSUME NEW s, NEW A, IsHll(s, A)
  PROVE  HllAccepted(s)
<1>1. s.registers \in [Index -> 0 .. MaxRank] BY HllType DEF IsHll
<1>2. MaxRank \in Nat /\ SparseLimit \in Nat BY HashAssumption
<1>3. \A x \in Index : s.registers[x] <= MaxRank BY <1>1, <1>2
<1>4. Cardinality(s.hashes) <= SparseLimit BY <1>2, FS_EmptySet DEF IsHll
<1> QED BY <1>3, <1>4 DEF HllAccepted

(* HyperLogLog depends on nothing but the set of items it was given,       *)
(* through any sequence of inserts, promotions to registers, merges,       *)
(* snapshots and resets, and HllMap counts for a key no item it did not get*)
(* and all of them before the first eviction.                              *)
THEOREM DistinctCountsExact == Spec => []DistinctExact
<1>1. ExactInv /\ DistinctInv => DistinctExact
  <2> SUFFICES ASSUME ExactInv, DistinctInv, NEW r \in Replica
               PROVE  /\ HllAccepted(hll[r])
                      /\ HllExact(hll[r], UNION {exact[r].distinct[k] : k \in Keys})
                      /\ \A k \in DOMAIN fanout[r].map :
                           \E items \in SUBSET exact[r].distinct[k] :
                             /\ HllExact(fanout[r].map[k].hll, items)
                             /\ fanout[r].evicted = 0 => items = exact[r].distinct[k]
    BY DEF DistinctExact
  <2> DEFINE D == exact[r].distinct
             s == hll[r]
             m == fanout[r]
  <2>1. IsHll(s, HashesOf(AllItems(D))) /\ MapGood(m, D) BY DEF DistinctInv, DistinctGood
  <2>2. HllAccepted(s) BY <2>1, IsHllAccepted
  <2>3. \A t, items : IsHll(t, HashesOf(items)) => HllExact(t, items)
    BY DEF IsHll, HllExact, HashesOf
  <2>4. HllExact(s, UNION {D[k] : k \in Keys}) BY <2>1, <2>3 DEF AllItems
  <2>5. \A k \in DOMAIN m.map : \E items \in SUBSET D[k] :
          IsHll(m.map[k].hll, HashesOf(items)) /\ (m.evicted = 0 => items = D[k])
    BY <2>1 DEF MapGood, Counted
  <2> HIDE DEF D, s, m
  <2>6. \A k \in DOMAIN m.map : \E items \in SUBSET D[k] :
          HllExact(m.map[k].hll, items) /\ (m.evicted = 0 => items = D[k])
    BY <2>3, <2>5
  <2> QED BY <2>2, <2>4, <2>6 DEF D, s, m
<1> QED BY <1>1, DistinctInvariant, PTL

(* HllMap stays within max_keys, every slot has its one eviction candidate *)
(* through refreshes, merges and snapshots, and the lazy refresh of        *)
(* evict_smallest finds a key of smallest estimate within its bound of     *)
(* rounds, unless some estimate has fallen below its cached value.         *)
THEOREM MapEvictionFindsSmallest == Spec => []MapEvictsSmallest
<1>1. ExactInv /\ DistinctInv => MapEvictsSmallest
  <2> SUFFICES ASSUME ExactInv, DistinctInv, NEW r \in Replica
               PROVE  /\ MapAccepted(fanout[r])
                      /\ OneCandidateEach(fanout[r])
                      /\ (fanout[r].map # EmptyMap.map /\ Fallen(fanout[r]) = {}) =>
                           DOMAIN fanout[r].map \ DOMAIN EvictSmallest(fanout[r]).map
                             \subseteq TrueMinimum(fanout[r])
    BY DEF MapEvictsSmallest
  <2> DEFINE m == fanout[r]
  <2>1. MapGood(m, exact[r].distinct) BY DEF DistinctInv, DistinctGood
  <2> HIDE DEF m
  <2>2. MapShape(m) /\ Cardinality(DOMAIN m.map) <= MaxKeys BY <2>1 DEF MapGood
  <2>3. \A k \in DOMAIN m.map : \E A \in SUBSET Hash : IsHll(m.map[k].hll, A)
    BY <2>2 DEF MapShape, SlotGood, SlotSound
  <2>4. MapAccepted(m) BY <2>2, <2>3, IsHllAccepted DEF MapAccepted
  <2>5. OneCandidateEach(m) BY <2>2 DEF MapShape
  <2>6. ASSUME m.map # EmptyMap.map, Fallen(m) = {}
        PROVE  DOMAIN m.map \ DOMAIN EvictSmallest(m).map \subseteq TrueMinimum(m)
    <3>1. DOMAIN m.map # {}
      <4>1. m.map = [k \in DOMAIN m.map |-> m.map[k]] BY <2>2 DEF MapShape
      <4>2. EmptyMap.map = [k \in {} |-> EmptyHll] BY DEF EmptyMap
      <4> DEFINE f == m.map
      <4>3. f = [k \in DOMAIN f |-> f[k]] BY <4>1
      <4> HIDE DEF f
      <4>4. DOMAIN f = {} => f = [k \in {} |-> EmptyHll] BY <4>3
      <4> QED BY <2>6, <4>2, <4>4 DEF f
    <3>2. PICK k \in DOMAIN m.map : WithoutKey(EvictSmallest(m), m, k) BY <2>2, <3>1, EvictSmallestIs
    <3> QED BY <2>6, <3>2 DEF WithoutKey
  <2> QED BY <2>4, <2>5, <2>6 DEF m
<1> QED BY <1>1, DistinctInvariant, PTL

-------------------------------------------------------------------------------
(* The slots, index and heap of SpaceSaving. *)

HeapSlot == [key : Keys, count : Nat, error : Nat, place : Nat]

(* n slots, each in one place of the heap and in the index. *)
HeapShape(h, n) ==
  /\ n \in Nat
  /\ h = [slots |-> h.slots, heap |-> h.heap, index |-> h.index]
  /\ h.slots \in [1 .. n -> HeapSlot] /\ h.heap \in [1 .. n -> 1 .. n]
  /\ \A i \in 1 .. n : h.slots[i].place \in 1 .. n /\ h.heap[h.slots[i].place] = i
  /\ \A a \in 1 .. n : h.slots[h.heap[a]].place = a
  /\ \A i, j \in 1 .. n : h.slots[i].key = h.slots[j].key => i = j
  /\ h.index = [d \in Range(Digest) |-> {i \in 1 .. n : Digest[h.slots[i].key] = d}]

(* The order of the slots. *)
SlotLess(x, y) ==
  \/ x.count < y.count
  \/ /\ x.count = y.count
     /\ \/ Digest[x.key] < Digest[y.key]
        \/ Digest[x.key] = Digest[y.key] /\ x.key < y.key

At(h, a) == h.slots[h.heap[a]]

(* The heap compares the slots it holds. *)
LEMMA HeapLessIs == ASSUME NEW h, NEW a, NEW b PROVE HeapIsLess(h, a, b) <=> SlotLess(At(h, a), At(h, b))
BY DEF HeapIsLess, SlotLess, At

(* Not to be less is a total preorder. *)
LEMMA SlotPreorder ==
  ASSUME NEW x \in HeapSlot, NEW y \in HeapSlot, NEW z \in HeapSlot
  PROVE  /\ SlotLess(x, y) => ~SlotLess(y, x)
         /\ ~SlotLess(x, y) /\ ~SlotLess(y, z) => ~SlotLess(x, z)
<1> DEFINE a == x.count
           b == y.count
           c == z.count
           d == Digest[x.key]
           e == Digest[y.key]
           f == Digest[z.key]
           i == x.key
           j == y.key
           k == z.key
<1>1. a \in Nat /\ b \in Nat /\ c \in Nat /\ i \in Nat /\ j \in Nat /\ k \in Nat
  BY KeysAssumption DEF HeapSlot
<1>2. d \in Nat /\ e \in Nat /\ f \in Nat BY SummaryAssumption DEF HeapSlot
<1>3. SlotLess(x, y) <=> (a < b \/ (a = b /\ (d < e \/ (d = e /\ i < j)))) BY DEF SlotLess
<1>4. SlotLess(y, x) <=> (b < a \/ (b = a /\ (e < d \/ (e = d /\ j < i)))) BY DEF SlotLess
<1>5. SlotLess(y, z) <=> (b < c \/ (b = c /\ (e < f \/ (e = f /\ j < k)))) BY DEF SlotLess
<1>6. SlotLess(x, z) <=> (a < c \/ (a = c /\ (d < f \/ (d = f /\ i < k)))) BY DEF SlotLess
<1> HIDE DEF a, b, c, d, e, f, i, j, k
<1> QED BY <1>1, <1>2, <1>3, <1>4, <1>5, <1>6

(* Two slots that differ in nothing but their places. *)
SameSlot(x, y) == x.key = y.key /\ x.count = y.count /\ x.error = y.error

SameSlots(g, h, n) == g.index = h.index /\ \A i \in 1 .. n : SameSlot(g.slots[i], h.slots[i])

(* The order does not look at places. *)
LEMMA SameOrder ==
  ASSUME NEW x, NEW y, NEW u, NEW v, SameSlot(x, u), SameSlot(y, v)
  PROVE  SlotLess(x, y) <=> SlotLess(u, v)
BY DEF SameSlot, SlotLess

Placed(w, v, c) == w \in HeapSlot /\ w.place = c /\ SameSlot(w, v)

(* A slot that is moved. *)
LEMMA PlacedIs ==
  ASSUME NEW v \in HeapSlot, NEW c \in Nat
  PROVE  Placed([v EXCEPT !.place = c], v, c)
<1> DEFINE k == v.key
           x == v.count
           e == v.error
           p == v.place
           w == [v EXCEPT !.place = c]
<1>1. v = [key |-> k, count |-> x, error |-> e, place |-> p] /\ k \in Keys /\ x \in Nat /\ e \in Nat
  BY DEF HeapSlot
<1>2. w = [v EXCEPT !.place = c] OBVIOUS
<1> HIDE DEF k, x, e, p, w
<1>3. w = [key |-> k, count |-> x, error |-> e, place |-> c] BY <1>1, <1>2
<1>4. w \in HeapSlot /\ w.place = c /\ w.key = k /\ w.count = x /\ w.error = e BY <1>1, <1>3 DEF HeapSlot
<1>5. Placed(w, v, c) BY <1>4 DEF Placed, SameSlot, k, x, e
<1> QED BY <1>5 DEF w

Other(c, a, b) == IF c = a THEN b ELSE IF c = b THEN a ELSE c

(* g is h with places a and b exchanged. *)
Swapped(g, h, n, a, b) ==
  /\ HeapShape(g, n) /\ SameSlots(g, h, n)
  /\ \A c \in 1 .. n : g.heap[c] = h.heap[Other(c, a, b)]

(* Where a slot is, and which is there. *)
LEMMA ShapeAt ==
  ASSUME NEW h, NEW n, HeapShape(h, n), NEW a \in 1 .. n
  PROVE  At(h, a) \in HeapSlot /\ h.heap[a] \in 1 .. n
BY DEF HeapShape, At

(* swap_heap keeps the places and the heap inverse to each other. *)
LEMMA SwapIs ==
  ASSUME NEW h, NEW n, HeapShape(h, n), NEW a \in 1 .. n, NEW b \in 1 .. n, a # b,
         NEW g, g = SwapHeap(h, a, b)
  PROVE  Swapped(g, h, n, a, b)
<1> DEFINE s == h.slots
           p == h.heap
           x == p[a]
           y == p[b]
           t == [s EXCEPT ![y].place = a, ![x].place = b]
           q == [p EXCEPT ![a] = y, ![b] = x]
<1>1. /\ h = [slots |-> s, heap |-> p, index |-> h.index] /\ n \in Nat
      /\ s \in [1 .. n -> HeapSlot] /\ p \in [1 .. n -> 1 .. n]
      /\ \A i \in 1 .. n : s[i].place \in 1 .. n /\ p[s[i].place] = i
      /\ \A c \in 1 .. n : s[p[c]].place = c
      /\ \A i, j \in 1 .. n : s[i].key = s[j].key => i = j
      /\ h.index = [d \in Range(Digest) |-> {i \in 1 .. n : Digest[s[i].key] = d}]
  BY DEF HeapShape
<1>2. g = [h EXCEPT !.heap = q, !.slots = t] BY <1>1 DEF SwapHeap
<1> HIDE DEF s, p
<1>3. x \in 1 .. n /\ y \in 1 .. n /\ x # y BY <1>1
<1> DEFINE u == h.index
<1> HIDE DEF x, y, q, t, u
<1>4. g = [slots |-> t, heap |-> q, index |-> u]
  <2>1. h = [slots |-> s, heap |-> p, index |-> u] BY <1>1 DEF u
  <2> QED BY <1>2, <2>1
<1>5. /\ q \in [1 .. n -> 1 .. n] /\ q[a] = y /\ q[b] = x
      /\ \A c \in 1 .. n : c # a /\ c # b => q[c] = p[c]
  BY <1>1, <1>3 DEF q
<1>6. /\ t = [s EXCEPT ![y] = [s[y] EXCEPT !.place = a], ![x] = [s[x] EXCEPT !.place = b]]
  BY <1>1, <1>3 DEF t
<1>7. ASSUME NEW v \in HeapSlot, NEW c \in 1 .. n
      PROVE  Placed([v EXCEPT !.place = c], v, c)
  BY <1>1, PlacedIs
<1>8. /\ t \in [1 .. n -> HeapSlot] /\ t[x].place = b /\ t[y].place = a
      /\ SameSlot(t[x], s[x]) /\ SameSlot(t[y], s[y])
      /\ \A i \in 1 .. n : i # x /\ i # y => t[i] = s[i]
  <2> DEFINE v == [s[y] EXCEPT !.place = a]
             w == [s[x] EXCEPT !.place = b]
  <2>1. Placed(v, s[y], a) /\ Placed(w, s[x], b) BY <1>1, <1>3, <1>7
  <2>2. t = [s EXCEPT ![y] = v, ![x] = w] BY <1>6
  <2> HIDE DEF v, w
  <2>3. v \in HeapSlot /\ w \in HeapSlot BY <2>1 DEF Placed
  <2>4. /\ t \in [1 .. n -> HeapSlot] /\ t[x] = w /\ t[y] = v
        /\ \A i \in 1 .. n : i # x /\ i # y => t[i] = s[i]
    BY <1>1, <1>3, <2>2, <2>3
  <2> QED BY <2>1, <2>4 DEF Placed
<1>9. \A i \in 1 .. n : SameSlot(t[i], s[i]) BY <1>8 DEF SameSlot
<1>10. g.slots = t /\ g.heap = q /\ g.index = u /\ g = [slots |-> g.slots, heap |-> g.heap, index |-> g.index]
  BY <1>4
<1>11. ASSUME NEW i \in 1 .. n PROVE t[i].place \in 1 .. n /\ q[t[i].place] = i
  <2>1. CASE i = x BY <1>5, <1>8, <2>1
  <2>2. CASE i = y BY <1>5, <1>8, <2>2
  <2>3. CASE i # x /\ i # y
    <3>1. t[i] = s[i] /\ s[i].place \in 1 .. n /\ p[s[i].place] = i BY <1>1, <1>8, <2>3
    <3>2. s[i].place # a /\ s[i].place # b BY <2>3, <3>1 DEF x, y
    <3> QED BY <1>5, <3>1, <3>2
  <2> QED BY <2>1, <2>2, <2>3
<1>12. ASSUME NEW c \in 1 .. n PROVE t[q[c]].place = c
  <2>1. CASE c = a BY <1>5, <1>8, <2>1
  <2>2. CASE c = b BY <1>5, <1>8, <2>2
  <2>3. CASE c # a /\ c # b
    <3>1. q[c] = p[c] /\ s[p[c]].place = c /\ p[c] \in 1 .. n BY <1>1, <1>5, <2>3
    <3>2. s[x].place = a /\ s[y].place = b BY <1>1 DEF x, y
    <3>3. p[c] # x /\ p[c] # y BY <2>3, <3>1, <3>2
    <3> QED BY <1>8, <3>1, <3>3
  <2> QED BY <2>1, <2>2, <2>3
<1>13. \A i, j \in 1 .. n : t[i].key = t[j].key => i = j BY <1>1, <1>9 DEF SameSlot
<1>14. u = [d \in Range(Digest) |-> {i \in 1 .. n : Digest[t[i].key] = d}]
  <2>1. \A d : {i \in 1 .. n : Digest[t[i].key] = d} = {i \in 1 .. n : Digest[s[i].key] = d}
    BY <1>9 DEF SameSlot
  <2> DEFINE F(d) == {i \in 1 .. n : Digest[t[i].key] = d}
             G(d) == {i \in 1 .. n : Digest[s[i].key] = d}
  <2>2. \A d : F(d) = G(d) BY <2>1
  <2>3. u = [d \in Range(Digest) |-> G(d)] BY <1>1 DEF u
  <2> HIDE DEF F, G
  <2>4. u = [d \in Range(Digest) |-> F(d)] BY <2>2, <2>3
  <2> QED BY <2>4 DEF F
<1>15. HeapShape(g, n) BY <1>1, <1>5, <1>8, <1>10, <1>11, <1>12, <1>13, <1>14 DEF HeapShape
<1>16. SameSlots(g, h, n) BY <1>9, <1>10 DEF SameSlots, s, u
<1>17. \A c \in 1 .. n : g.heap[c] = h.heap[Other(c, a, b)] BY <1>5, <1>10 DEF Other, x, y, p
<1> QED BY <1>15, <1>16, <1>17 DEF Swapped

(* The parent of a place. *)
Half(a) == a \div 2

(* No place holds less than its parent; *)
InOrder(h, n) == \A a \in 2 .. n : ~HeapIsLess(h, a, Half(a))

(* none below p holds less than the parent of p; *)
Below(h, n, p) == p > 1 => \A a \in 2 .. n : Half(a) = p => ~HeapIsLess(h, a, Half(p))

(* what is at p may have to move up, or down. *)
UpOrdered(h, n, p) == Below(h, n, p) /\ \A a \in 2 .. n : a # p => ~HeapIsLess(h, a, Half(a))

DownOrdered(h, n, p) == Below(h, n, p) /\ \A a \in 2 .. n : Half(a) # p => ~HeapIsLess(h, a, Half(a))

(* A parent comes before its children. *)
LEMMA HalfIs ==
  ASSUME NEW n \in Nat, NEW a \in 2 .. n
  PROVE  Half(a) \in 1 .. n /\ Half(a) < a /\ a \in 1 .. n
BY DEF Half

(* Comparisons after a swap are those of the places before it. *)
LEMMA SwapLess ==
  ASSUME NEW h, NEW n, HeapShape(h, n), NEW a \in 1 .. n, NEW b \in 1 .. n, NEW g, Swapped(g, h, n, a, b),
         NEW c \in 1 .. n, NEW d \in 1 .. n
  PROVE  HeapIsLess(g, c, d) <=> HeapIsLess(h, Other(c, a, b), Other(d, a, b))
<1>1. ASSUME NEW e \in 1 .. n PROVE SameSlot(At(g, e), At(h, Other(e, a, b)))
  <2>1. Other(e, a, b) \in 1 .. n BY DEF Other
  <2>2. h.heap[Other(e, a, b)] \in 1 .. n BY <2>1, ShapeAt
  <2>3. g.heap[e] = h.heap[Other(e, a, b)] BY DEF Swapped
  <2> QED BY <2>2, <2>3 DEF Swapped, SameSlots, At
<1>2. SameSlot(At(g, c), At(h, Other(c, a, b))) /\ SameSlot(At(g, d), At(h, Other(d, a, b))) BY <1>1
<1>3. SlotLess(At(g, c), At(g, d)) <=> SlotLess(At(h, Other(c, a, b)), At(h, Other(d, a, b)))
  BY <1>2, SameOrder
<1> QED BY <1>3, HeapLessIs

(* Not to be less is a total preorder of the places. *)
LEMMA PlaceOrder ==
  ASSUME NEW h, NEW n, HeapShape(h, n), NEW a \in 1 .. n, NEW b \in 1 .. n, NEW c \in 1 .. n
  PROVE  /\ HeapIsLess(h, a, b) => ~HeapIsLess(h, b, a)
         /\ ~HeapIsLess(h, a, b) /\ ~HeapIsLess(h, b, c) => ~HeapIsLess(h, a, c)
<1>1. At(h, a) \in HeapSlot /\ At(h, b) \in HeapSlot /\ At(h, c) \in HeapSlot BY ShapeAt
<1> QED BY <1>1, SlotPreorder, HeapLessIs

(* A step up. *)
LEMMA UpSwap ==
  ASSUME NEW h, NEW n, HeapShape(h, n), NEW p \in 2 .. n, UpOrdered(h, n, p), HeapIsLess(h, p, Half(p)),
         NEW g, Swapped(g, h, n, p, Half(p))
  PROVE  UpOrdered(g, n, Half(p))
<1> DEFINE q == Half(p)
           L(a, b) == HeapIsLess(h, a, b)
           o(a) == Other(a, p, q)
<1>0. n \in Nat BY DEF HeapShape
<1>1. q \in 1 .. n /\ p \in 1 .. n /\ q < p BY <1>0, HalfIs
<1>2. L(p, q) /\ ~L(q, p) BY <1>1, PlaceOrder
<1>3. \A a \in 2 .. n : a # p => ~L(a, Half(a)) BY DEF UpOrdered
<1>4. p > 1 => \A a \in 2 .. n : Half(a) = p => ~L(a, q) BY DEF UpOrdered, Below
<1>5. \A a, b \in 1 .. n : HeapIsLess(g, a, b) <=> L(o(a), o(b)) BY <1>1, SwapLess
<1>6. \A a, b, c \in 1 .. n : ~L(a, b) /\ ~L(b, c) => ~L(a, c) BY PlaceOrder
<1>7. o(p) = q /\ o(q) = p /\ \A a : a # p /\ a # q => o(a) = a BY DEF Other
<1> HIDE DEF q, L, o
<1>8. ASSUME NEW a \in 2 .. n, a # q PROVE ~HeapIsLess(g, a, Half(a))
  <2>1. Half(a) \in 1 .. n /\ a \in 1 .. n /\ Half(a) < a BY <1>0, HalfIs
  <2>2. HeapIsLess(g, a, Half(a)) <=> L(o(a), o(Half(a))) BY <1>5, <2>1
  <2>3. CASE a = p BY <1>2, <1>7, <2>2, <2>3 DEF q
  <2>4. CASE Half(a) = p
    <3>1. a # p BY <2>1, <2>4
    <3>2. ~L(a, q) BY <1>0, <1>4, <2>4
    <3> QED BY <1>7, <1>8, <2>2, <2>4, <3>1, <3>2
  <2>5. CASE a # p /\ Half(a) = q
    <3>1. ~L(a, q) BY <1>3, <2>5
    <3>2. ~L(a, p) BY <1>1, <1>2, <1>6, <2>1, <3>1
    <3> QED BY <1>7, <1>8, <2>2, <2>5, <3>2
  <2>6. CASE a # p /\ Half(a) # p /\ Half(a) # q
    <3>1. o(a) = a /\ o(Half(a)) = Half(a) BY <1>7, <1>8, <2>6
    <3> QED BY <1>3, <2>2, <2>6, <3>1
  <2> QED BY <2>3, <2>4, <2>5, <2>6
<1>9. ASSUME q > 1, NEW a \in 2 .. n, Half(a) = q PROVE ~HeapIsLess(g, a, Half(q))
  <2>1. Half(a) \in 1 .. n /\ a \in 1 .. n /\ Half(a) < a BY <1>0, HalfIs
  <2>2. q \in 2 .. n BY <1>1, <1>9
  <2>3. Half(q) \in 1 .. n /\ Half(q) < q BY <1>0, <2>2, HalfIs
  <2>4. HeapIsLess(g, a, Half(q)) <=> L(o(a), o(Half(q))) BY <1>5, <2>1, <2>3
  <2>5. o(Half(q)) = Half(q) BY <1>1, <1>7, <2>3
  <2>6. ~L(q, Half(q)) BY <1>1, <1>3, <2>2
  <2>7. CASE a = p BY <1>7, <2>4, <2>5, <2>6, <2>7
  <2>8. CASE a # p
    <3>1. a # q /\ o(a) = a BY <1>7, <1>9, <2>1, <2>8
    <3>2. ~L(a, q) BY <1>3, <1>9, <2>8
    <3>3. ~L(a, Half(q)) BY <1>1, <1>6, <2>1, <2>3, <2>6, <3>2
    <3> QED BY <2>4, <2>5, <3>1, <3>3
  <2> QED BY <2>7, <2>8
<1>10. UpOrdered(g, n, q) BY <1>8, <1>9 DEF UpOrdered, Below
<1> QED BY <1>10 DEF q

(* The smaller child of p. *)
IsChild(h, n, p, c) ==
  /\ c \in 2 .. n /\ Half(c) = p
  /\ \A a \in 2 .. n : Half(a) = p => ~HeapIsLess(h, a, c)

(* A step down. *)
LEMMA DownSwap ==
  ASSUME NEW h, NEW n, HeapShape(h, n), NEW p \in 1 .. n, DownOrdered(h, n, p),
         NEW c, IsChild(h, n, p, c), HeapIsLess(h, c, p), NEW g, Swapped(g, h, n, p, c)
  PROVE  DownOrdered(g, n, c)
<1> DEFINE L(a, b) == HeapIsLess(h, a, b)
           o(a) == Other(a, p, c)
<1>0. n \in Nat BY DEF HeapShape
<1>1. c \in 2 .. n /\ c \in 1 .. n /\ Half(c) = p /\ p < c BY <1>0, HalfIs DEF IsChild
<1>2. L(c, p) /\ ~L(p, c) BY <1>1, PlaceOrder
<1>3. \A a \in 2 .. n : Half(a) # p => ~L(a, Half(a)) BY DEF DownOrdered
<1>4. p > 1 => \A a \in 2 .. n : Half(a) = p => ~L(a, Half(p)) BY DEF DownOrdered, Below
<1>5. \A a, b \in 1 .. n : HeapIsLess(g, a, b) <=> L(o(a), o(b)) BY <1>1, SwapLess
<1>6. \A a \in 2 .. n : Half(a) = p => ~L(a, c) BY DEF IsChild
<1>7. o(p) = c /\ o(c) = p /\ \A a : a # p /\ a # c => o(a) = a BY DEF Other
<1> HIDE DEF L, o
<1>8. ASSUME NEW a \in 2 .. n, Half(a) # c PROVE ~HeapIsLess(g, a, Half(a))
  <2>1. Half(a) \in 1 .. n /\ a \in 1 .. n /\ Half(a) < a BY <1>0, HalfIs
  <2>2. HeapIsLess(g, a, Half(a)) <=> L(o(a), o(Half(a))) BY <1>5, <2>1
  <2>3. CASE a = c BY <1>1, <1>2, <1>7, <2>2, <2>3
  <2>4. CASE a # c /\ Half(a) = p
    <3>1. a # p BY <2>1, <2>4
    <3> QED BY <1>6, <1>7, <2>2, <2>4, <3>1
  <2>5. CASE a = p
    <3>1. Half(a) # p /\ Half(a) # c BY <1>1, <2>1, <2>5
    <3>2. o(Half(a)) = Half(p) BY <1>7, <2>5, <3>1
    <3>3. ~L(c, Half(p)) BY <1>0, <1>1, <1>4, <2>5
    <3> QED BY <1>7, <2>2, <2>5, <3>2, <3>3
  <2>6. CASE a # c /\ a # p /\ Half(a) # p
    <3>1. o(a) = a /\ o(Half(a)) = Half(a) BY <1>7, <1>8, <2>6
    <3> QED BY <1>3, <2>2, <2>6, <3>1
  <2> QED BY <2>3, <2>4, <2>5, <2>6
<1>9. ASSUME NEW a \in 2 .. n, Half(a) = c PROVE ~HeapIsLess(g, a, Half(c))
  <2>1. a \in 1 .. n /\ Half(a) < a BY <1>0, HalfIs
  <2>2. a # p /\ a # c BY <1>0, <1>1, <1>9, <2>1
  <2>3. HeapIsLess(g, a, p) <=> L(a, c) BY <1>5, <1>7, <2>1, <2>2
  <2>4. Half(a) # p BY <1>0, <1>1, <1>9
  <2>5. ~L(a, c) BY <1>3, <1>9, <2>4
  <2> QED BY <1>1, <2>3, <2>5
<1> QED BY <1>8, <1>9 DEF DownOrdered, Below

(* A round of sift_up and of sift_down. *)
UpStep(x) ==
  LET parent == x.at \div 2
  IN  IF x.at > 1 /\ HeapIsLess(x.h, x.at, parent)
      THEN [h |-> SwapHeap(x.h, x.at, parent), at |-> parent]
      ELSE x

DownStep(x, size) ==
  LET left     == 2 * x.at
      right    == left + 1
      smallest == IF right <= size /\ HeapIsLess(x.h, right, left) THEN right ELSE left
  IN  IF left <= size /\ HeapIsLess(x.h, smallest, x.at)
      THEN [h |-> SwapHeap(x.h, x.at, smallest), at |-> smallest]
      ELSE x

AreUps(f, x, n) == f = [i \in 0 .. n |-> IF i = 0 THEN x ELSE UpStep(f[i - 1])]

AreDowns(f, x, n, size) == f = [i \in 0 .. n |-> IF i = 0 THEN x ELSE DownStep(f[i - 1], size)]

(* sift_up is made of its rounds. *)
LEMMA SiftUpRounds ==
  ASSUME NEW h, NEW p, NEW n, n = Len(h.heap)
  PROVE  SiftUp(h, p) = (CHOOSE f : AreUps(f, [h |-> h, at |-> p], n))[n].h
BY Zenon DEF SiftUp, Iterate, AreUps, UpStep

(* sift_down is made of its rounds. *)
LEMMA SiftDownRounds ==
  ASSUME NEW h, NEW p, NEW n, n = Len(h.heap)
  PROVE  SiftDown(h, p) = (CHOOSE f : AreDowns(f, [h |-> h, at |-> p], n, n))[n].h
<1>1. SiftDown(h, p) = (CHOOSE f : AreDowns(f, [h |-> h, at |-> p], Len(h.heap), Len(h.heap)))[Len(h.heap)].h
  BY Zenon DEF SiftDown, Iterate, AreDowns, DownStep
<1> QED BY <1>1, Zenon

(* There are any number of rounds up. *)
LEMMA UpsExist ==
  ASSUME NEW m, NEW n \in Nat
  PROVE  \E f : AreUps(f, m, n)
<1> DEFINE P == {j \in 0 .. n : \E f : AreUps(f, m, j)}
<1>1. 0 \in P
  <2> DEFINE f == [i \in 0 .. 0 |-> m]
  <2>1. AreUps(f, m, 0)
    <3>1. \A i \in 0 .. 0 : i = 0 OBVIOUS
    <3>2. f = [i \in 0 .. 0 |-> IF i = 0 THEN m ELSE UpStep(f[i - 1])] BY <3>1
    <3> QED BY <3>2, Zenon DEF AreUps
  <2>2. 0 \in 0 .. n OBVIOUS
  <2> HIDE DEF f
  <2> QED BY <2>1, <2>2
<1>2. ASSUME NEW j \in 1 .. n, j - 1 \in P PROVE j \in P
  <2>1. PICK f : AreUps(f, m, j - 1) BY <1>2
  <2> DEFINE h == [i \in 0 .. j |-> IF i = j THEN UpStep(f[j - 1]) ELSE f[i]]
  <2>2. \A i \in 0 .. j - 1 : f[i] = IF i = 0 THEN m ELSE UpStep(f[i - 1])
    BY <2>1, Zenon DEF AreUps
  <2>3. ASSUME NEW i \in 0 .. j PROVE h[i] = IF i = 0 THEN m ELSE UpStep(h[i - 1])
    <3>1. CASE i = j
      <4>1. h[j] = UpStep(f[j - 1]) /\ h[j - 1] = f[j - 1] /\ j # 0 OBVIOUS
      <4> HIDE DEF h
      <4> QED BY <3>1, <4>1
    <3>2. CASE i # j
      <4>1. i \in 0 .. j - 1 /\ h[i] = f[i] BY <3>2
      <4>2. i # 0 => h[i - 1] = f[i - 1] BY <3>2
      <4> HIDE DEF h
      <4> QED BY <2>2, <4>1, <4>2
    <3> QED BY <3>1, <3>2
  <2>4. h = [i \in 0 .. j |-> h[i]] OBVIOUS
  <2> HIDE DEF h
  <2>5. [i \in 0 .. j |-> h[i]] = [i \in 0 .. j |-> IF i = 0 THEN m ELSE UpStep(h[i - 1])]
    BY <2>3
  <2>6. AreUps(h, m, j) BY <2>4, <2>5, Zenon DEF AreUps
  <2> QED BY <2>6
<1> HIDE DEF P
<1>3. \A j \in 0 .. n : j \in P BY <1>1, <1>2, UpTo
<1>4. n \in P BY <1>3
<1> QED BY <1>4 DEF P

(* There are any number of rounds down. *)
LEMMA DownsExist ==
  ASSUME NEW m, NEW size, NEW n \in Nat
  PROVE  \E f : AreDowns(f, m, n, size)
<1> DEFINE P == {j \in 0 .. n : \E f : AreDowns(f, m, j, size)}
<1>1. 0 \in P
  <2> DEFINE f == [i \in 0 .. 0 |-> m]
  <2>1. AreDowns(f, m, 0, size)
    <3>1. \A i \in 0 .. 0 : i = 0 OBVIOUS
    <3>2. f = [i \in 0 .. 0 |-> IF i = 0 THEN m ELSE DownStep(f[i - 1], size)] BY <3>1
    <3> QED BY <3>2, Zenon DEF AreDowns
  <2>2. 0 \in 0 .. n OBVIOUS
  <2> HIDE DEF f
  <2> QED BY <2>1, <2>2
<1>2. ASSUME NEW j \in 1 .. n, j - 1 \in P PROVE j \in P
  <2>1. PICK f : AreDowns(f, m, j - 1, size) BY <1>2
  <2> DEFINE h == [i \in 0 .. j |-> IF i = j THEN DownStep(f[j - 1], size) ELSE f[i]]
  <2>2. \A i \in 0 .. j - 1 : f[i] = IF i = 0 THEN m ELSE DownStep(f[i - 1], size)
    BY <2>1, Zenon DEF AreDowns
  <2>3. ASSUME NEW i \in 0 .. j PROVE h[i] = IF i = 0 THEN m ELSE DownStep(h[i - 1], size)
    <3>1. CASE i = j
      <4>1. h[j] = DownStep(f[j - 1], size) /\ h[j - 1] = f[j - 1] /\ j # 0 OBVIOUS
      <4> HIDE DEF h
      <4> QED BY <3>1, <4>1
    <3>2. CASE i # j
      <4>1. i \in 0 .. j - 1 /\ h[i] = f[i] BY <3>2
      <4>2. i # 0 => h[i - 1] = f[i - 1] BY <3>2
      <4> HIDE DEF h
      <4> QED BY <2>2, <4>1, <4>2
    <3> QED BY <3>1, <3>2
  <2>4. h = [i \in 0 .. j |-> h[i]] OBVIOUS
  <2> HIDE DEF h
  <2>5. [i \in 0 .. j |-> h[i]] = [i \in 0 .. j |-> IF i = 0 THEN m ELSE DownStep(h[i - 1], size)]
    BY <2>3
  <2>6. AreDowns(h, m, j, size) BY <2>4, <2>5, Zenon DEF AreDowns
  <2> QED BY <2>6
<1> HIDE DEF P
<1>3. \A j \in 0 .. n : j \in P BY <1>1, <1>2, UpTo
<1>4. n \in P BY <1>3
<1> QED BY <1>4 DEF P

(* After i rounds of a sift of h: the slots are still those of h, and      *)
(* either everything is in order or there are n - i rounds to go at most.  *)
UpState(x, h, n, i) ==
  /\ x = [h |-> x.h, at |-> x.at] /\ x.at \in 1 .. n
  /\ HeapShape(x.h, n) /\ SameSlots(x.h, h, n) /\ UpOrdered(x.h, n, x.at)
  /\ InOrder(x.h, n) \/ x.at + i <= n

DownState(x, h, n, i) ==
  /\ x = [h |-> x.h, at |-> x.at] /\ x.at \in 1 .. n
  /\ HeapShape(x.h, n) /\ SameSlots(x.h, h, n) /\ DownOrdered(x.h, n, x.at)
  /\ InOrder(x.h, n) \/ x.at > i

(* Slots that are the same stay the same through a swap. *)
LEMMA SameThrough ==
  ASSUME NEW f, NEW g, NEW h, NEW n, SameSlots(f, g, n), SameSlots(g, h, n)
  PROVE  SameSlots(f, h, n)
BY DEF SameSlots, SameSlot

(* A round up. *)
LEMMA UpRound ==
  ASSUME NEW x, NEW h, NEW n, NEW i \in Nat, UpState(x, h, n, i)
  PROVE  UpState(UpStep(x), h, n, i + 1)
<1> DEFINE p == x.at
           q == Half(p)
           f == x.h
           g == SwapHeap(f, p, q)
<1>1. /\ x = [h |-> f, at |-> p] /\ p \in 1 .. n
      /\ HeapShape(f, n) /\ SameSlots(f, h, n) /\ UpOrdered(f, n, p)
      /\ InOrder(f, n) \/ p + i <= n
  BY DEF UpState
<1>2. n \in Nat BY <1>1 DEF HeapShape
<1>3. UpStep(x) = IF p > 1 /\ HeapIsLess(f, p, q) THEN [h |-> g, at |-> q] ELSE x
  BY DEF UpStep, Half
<1> HIDE DEF p, f
<1>4. CASE p > 1 /\ HeapIsLess(f, p, q)
  <2>1. p \in 2 .. n BY <1>1, <1>2, <1>4
  <2>2. q \in 1 .. n /\ q < p BY <1>2, <2>1, HalfIs
  <2>3. Swapped(g, f, n, p, q) BY <1>1, <2>2, SwapIs
  <2> HIDE DEF g
  <2>4. UpOrdered(g, n, q)
    <3>1. Swapped(g, f, n, p, Half(p)) /\ HeapIsLess(f, p, Half(p)) BY <1>4, <2>3
    <3>2. UpOrdered(g, n, Half(p)) BY <1>1, <2>1, <3>1, UpSwap
    <3> QED BY <3>2
  <2>5. HeapShape(g, n) /\ SameSlots(g, f, n) BY <2>3 DEF Swapped
  <2>6. SameSlots(g, h, n) BY <1>1, <2>5, SameThrough
  <2>7. ~InOrder(f, n) BY <1>4, <2>1 DEF InOrder
  <2>8. q + (i + 1) <= n BY <1>1, <1>2, <2>1, <2>2, <2>7
  <2> DEFINE y == [h |-> g, at |-> q]
  <2>9. UpStep(x) = y BY <1>3, <1>4
  <2> HIDE DEF q
  <2>10. y.h = g /\ y.at = q /\ y = [h |-> y.h, at |-> y.at] OBVIOUS
  <2> HIDE DEF y
  <2>11. UpState(y, h, n, i + 1) BY <2>2, <2>4, <2>5, <2>6, <2>8, <2>10 DEF UpState
  <2> QED BY <2>9, <2>11
<1>5. CASE ~ (p > 1 /\ HeapIsLess(f, p, q))
  <2>1. UpStep(x) = x BY <1>3, <1>5
  <2>2. ASSUME NEW a \in 2 .. n PROVE ~HeapIsLess(f, a, Half(a))
    <3>1. a # p => ~HeapIsLess(f, a, Half(a)) BY <1>1 DEF UpOrdered
    <3>2. a > 1 BY <1>2
    <3> QED BY <1>5, <3>1, <3>2
  <2>3. InOrder(f, n) BY <2>2 DEF InOrder
  <2>4. UpState(x, h, n, i + 1) BY <1>1, <2>3 DEF UpState, f, p
  <2> QED BY <2>1, <2>4
<1> QED BY <1>4, <1>5

(* What is at p's children. *)
LEMMA ChildIs ==
  ASSUME NEW h, NEW n, HeapShape(h, n), NEW p \in 1 .. n, 2 * p <= n,
         NEW c, c = IF 2 * p + 1 <= n /\ HeapIsLess(h, 2 * p + 1, 2 * p) THEN 2 * p + 1 ELSE 2 * p
  PROVE  IsChild(h, n, p, c)
<1>0. n \in Nat BY DEF HeapShape
<1> DEFINE l == 2 * p
           r == l + 1
<1>1. l \in 1 .. n /\ l \in 2 .. n /\ Half(l) = p /\ (r <= n => r \in 2 .. n /\ r \in 1 .. n /\ Half(r) = p)
  BY <1>0 DEF Half
<1>2. \A a \in 2 .. n : Half(a) = p => a = l \/ a = r BY <1>0 DEF Half
<1>3. c = IF r <= n /\ HeapIsLess(h, r, l) THEN r ELSE l OBVIOUS
<1> HIDE DEF r, l
<1>4. ~HeapIsLess(h, l, l) BY <1>1, PlaceOrder
<1>5. CASE r <= n /\ HeapIsLess(h, r, l)
  <2>1. c = r /\ r \in 1 .. n BY <1>1, <1>3, <1>5
  <2>2. ~HeapIsLess(h, l, r) /\ ~HeapIsLess(h, r, r) BY <1>1, <1>5, <2>1, PlaceOrder
  <2> QED BY <1>1, <1>2, <1>5, <2>1, <2>2 DEF IsChild
<1>6. CASE ~ (r <= n /\ HeapIsLess(h, r, l))
  <2>1. c = l BY <1>3, <1>6
  <2>2. \A a \in 2 .. n : a = r => r <= n BY <1>0
  <2> QED BY <1>1, <1>2, <1>4, <1>6, <2>1, <2>2 DEF IsChild
<1> QED BY <1>5, <1>6

(* A round down. *)
LEMMA DownRound ==
  ASSUME NEW x, NEW h, NEW n, NEW i \in Nat, DownState(x, h, n, i)
  PROVE  DownState(DownStep(x, n), h, n, i + 1)
<1> DEFINE p == x.at
           f == x.h
           c == IF 2 * p + 1 <= n /\ HeapIsLess(f, 2 * p + 1, 2 * p) THEN 2 * p + 1 ELSE 2 * p
           g == SwapHeap(f, p, c)
<1>1. /\ x = [h |-> f, at |-> p] /\ p \in 1 .. n
      /\ HeapShape(f, n) /\ SameSlots(f, h, n) /\ DownOrdered(f, n, p)
      /\ InOrder(f, n) \/ p > i
  BY DEF DownState
<1>2. n \in Nat BY <1>1 DEF HeapShape
<1>3. DownStep(x, n) = IF 2 * p <= n /\ HeapIsLess(f, c, p) THEN [h |-> g, at |-> c] ELSE x
  BY DEF DownStep
<1> HIDE DEF p, f
<1>4. c = IF 2 * p + 1 <= n /\ HeapIsLess(f, 2 * p + 1, 2 * p) THEN 2 * p + 1 ELSE 2 * p OBVIOUS
<1> HIDE DEF c
<1>5. 2 * p <= n => IsChild(f, n, p, c) BY <1>1, <1>4, ChildIs
<1>6. CASE 2 * p <= n /\ HeapIsLess(f, c, p)
  <2>1. IsChild(f, n, p, c) BY <1>5, <1>6
  <2>2. c \in 2 .. n /\ Half(c) = p BY <2>1 DEF IsChild
  <2>3. c \in 1 .. n /\ p < c BY <1>2, <2>2, HalfIs
  <2>4. Swapped(g, f, n, p, c) BY <1>1, <1>2, <2>3, SwapIs
  <2> HIDE DEF g
  <2>5. DownOrdered(g, n, c) BY <1>1, <1>6, <2>1, <2>4, DownSwap
  <2>6. HeapShape(g, n) /\ SameSlots(g, f, n) BY <2>4 DEF Swapped
  <2>7. SameSlots(g, h, n) BY <1>1, <2>6, SameThrough
  <2>8. ~InOrder(f, n) BY <1>6, <2>2 DEF InOrder
  <2>9. c > i + 1 BY <1>1, <1>2, <2>2, <2>3, <2>8
  <2> DEFINE y == [h |-> g, at |-> c]
  <2>10. DownStep(x, n) = y BY <1>3, <1>6
  <2>11. y.h = g /\ y.at = c /\ y = [h |-> y.h, at |-> y.at] OBVIOUS
  <2> HIDE DEF y
  <2>12. DownState(y, h, n, i + 1) BY <2>3, <2>5, <2>6, <2>7, <2>9, <2>11 DEF DownState
  <2> QED BY <2>10, <2>12
<1>7. CASE ~ (2 * p <= n /\ HeapIsLess(f, c, p))
  <2>1. DownStep(x, n) = x BY <1>3, <1>7
  <2>2. ASSUME NEW a \in 2 .. n PROVE ~HeapIsLess(f, a, Half(a))
    <3>1. Half(a) # p => ~HeapIsLess(f, a, Half(a)) BY <1>1 DEF DownOrdered
    <3>2. CASE Half(a) = p
      <4>1. 2 * p <= n BY <1>2, <3>2 DEF Half
      <4>2. IsChild(f, n, p, c) BY <1>5, <4>1
      <4>3. ~HeapIsLess(f, a, c) /\ c \in 2 .. n BY <3>2, <4>2 DEF IsChild
      <4>4. ~HeapIsLess(f, c, p) BY <1>7, <4>1
      <4>5. a \in 1 .. n /\ c \in 1 .. n BY <1>2, <4>3
      <4>6. ~HeapIsLess(f, a, p) BY <1>1, <4>3, <4>4, <4>5, PlaceOrder
      <4> QED BY <3>2, <4>6
    <3> QED BY <3>1, <3>2
  <2>3. InOrder(f, n) BY <2>2 DEF InOrder
  <2>4. DownState(x, h, n, i + 1) BY <1>1, <2>3 DEF DownState, f, p
  <2> QED BY <2>1, <2>4
<1> QED BY <1>6, <1>7

(* A function from 1 .. n is a sequence of n elements. *)
LEMMA LenIs ==
  ASSUME NEW n \in Nat, NEW S, NEW s \in [1 .. n -> S]
  PROVE  Len(s) = n /\ s \in Seq(S)
OBVIOUS

(* g is h with everything in order. *)
Sifted(g, h, n) == HeapShape(g, n) /\ SameSlots(g, h, n) /\ InOrder(g, n)

(* sift_up puts what is at p in order. *)
LEMMA SiftUpIs ==
  ASSUME NEW h, NEW n, HeapShape(h, n), NEW p \in 1 .. n, UpOrdered(h, n, p)
  PROVE  Sifted(SiftUp(h, p), h, n)
<1> DEFINE b == [h |-> h, at |-> p]
           G == CHOOSE f : AreUps(f, b, n)
<1>1. n \in Nat /\ h.heap \in [1 .. n -> 1 .. n] BY DEF HeapShape
<1>2. n = Len(h.heap) BY <1>1, LenIs
<1>3. SiftUp(h, p) = G[n].h BY <1>2, SiftUpRounds
<1>4. b.h = h /\ b.at = p /\ b = [h |-> b.h, at |-> b.at] OBVIOUS
<1> HIDE DEF b
<1>5. AreUps(G, b, n) BY <1>1, UpsExist, Zenon
<1> HIDE DEF G
<1>6. \A i \in 0 .. n : G[i] = IF i = 0 THEN b ELSE UpStep(G[i - 1]) BY <1>5, Zenon DEF AreUps
<1> DEFINE P == {i \in 0 .. n : UpState(G[i], h, n, i)}
<1>7. 0 \in P
  <2>1. 0 \in 0 .. n BY <1>1
  <2>2. G[0] = b BY <1>6, <2>1
  <2>3. SameSlots(h, h, n) BY DEF SameSlots, SameSlot
  <2>4. p + 0 <= n BY <1>1
  <2>5. UpState(b, h, n, 0) BY <1>4, <2>3, <2>4 DEF UpState
  <2> QED BY <2>1, <2>2, <2>5
<1>8. ASSUME NEW i \in 1 .. n, i - 1 \in P PROVE i \in P
  <2> DEFINE j == i - 1
             x == G[j]
  <2>1. j \in Nat /\ j + 1 = i /\ i # 0 /\ i \in 0 .. n BY <1>1
  <2>2. UpState(x, h, n, j) BY <1>8
  <2>3. G[i] = UpStep(x) BY <1>6, <2>1
  <2> HIDE DEF x, j
  <2>4. UpState(UpStep(x), h, n, j + 1) BY <2>1, <2>2, UpRound
  <2>5. UpState(G[i], h, n, i) BY <2>1, <2>3, <2>4
  <2> QED BY <2>1, <2>5
<1> HIDE DEF P
<1>9. \A i \in 0 .. n : i \in P BY <1>1, <1>7, <1>8, UpTo
<1>10. UpState(G[n], h, n, n) BY <1>1, <1>9 DEF P
<1>11. InOrder(G[n].h, n) BY <1>1, <1>10 DEF UpState
<1>12. Sifted(G[n].h, h, n) BY <1>10, <1>11 DEF UpState, Sifted
<1> QED BY <1>3, <1>12

(* sift_down does the same downwards. *)
LEMMA SiftDownIs ==
  ASSUME NEW h, NEW n, HeapShape(h, n), NEW p \in 1 .. n, DownOrdered(h, n, p)
  PROVE  Sifted(SiftDown(h, p), h, n)
<1> DEFINE b == [h |-> h, at |-> p]
           G == CHOOSE f : AreDowns(f, b, n, n)
<1>1. n \in Nat /\ h.heap \in [1 .. n -> 1 .. n] BY DEF HeapShape
<1>2. n = Len(h.heap) BY <1>1, LenIs
<1>3. SiftDown(h, p) = G[n].h BY <1>2, SiftDownRounds
<1>4. b.h = h /\ b.at = p /\ b = [h |-> b.h, at |-> b.at] OBVIOUS
<1> HIDE DEF b
<1>5. AreDowns(G, b, n, n) BY <1>1, DownsExist, Zenon
<1> HIDE DEF G
<1>6. \A i \in 0 .. n : G[i] = IF i = 0 THEN b ELSE DownStep(G[i - 1], n) BY <1>5, Zenon DEF AreDowns
<1> DEFINE P == {i \in 0 .. n : DownState(G[i], h, n, i)}
<1>7. 0 \in P
  <2>1. 0 \in 0 .. n BY <1>1
  <2>2. G[0] = b BY <1>6, <2>1
  <2>3. SameSlots(h, h, n) BY DEF SameSlots, SameSlot
  <2>4. p > 0 BY <1>1
  <2>5. DownState(b, h, n, 0) BY <1>4, <2>3, <2>4 DEF DownState
  <2> QED BY <2>1, <2>2, <2>5
<1>8. ASSUME NEW i \in 1 .. n, i - 1 \in P PROVE i \in P
  <2> DEFINE j == i - 1
             x == G[j]
  <2>1. j \in Nat /\ j + 1 = i /\ i # 0 /\ i \in 0 .. n BY <1>1
  <2>2. DownState(x, h, n, j) BY <1>8
  <2>3. G[i] = DownStep(x, n) BY <1>6, <2>1
  <2> HIDE DEF x, j
  <2>4. DownState(DownStep(x, n), h, n, j + 1) BY <2>1, <2>2, DownRound
  <2>5. DownState(G[i], h, n, i) BY <2>1, <2>3, <2>4
  <2> QED BY <2>1, <2>5
<1> HIDE DEF P
<1>9. \A i \in 0 .. n : i \in P BY <1>1, <1>7, <1>8, UpTo
<1>10. DownState(G[n], h, n, n) BY <1>1, <1>9 DEF P
<1>11. InOrder(G[n].h, n) BY <1>1, <1>10 DEF DownState
<1>12. Sifted(G[n].h, h, n) BY <1>10, <1>11 DEF DownState, Sifted
<1> QED BY <1>3, <1>12

(* A heap in order that holds the entries. *)
Holds(h, n, entries) ==
  /\ HeapShape(h, n)
  /\ DOMAIN entries = {h.slots[i].key : i \in 1 .. n}
  /\ entries = [k \in DOMAIN entries |-> entries[k]]
  /\ \A i \in 1 .. n : entries[h.slots[i].key] = [count |-> h.slots[i].count, error |-> h.slots[i].error]

HoldsOrdered(h, n, entries) == Holds(h, n, entries) /\ InOrder(h, n)

(* Sifting keeps the entries. *)
LEMMA SiftedHolds ==
  ASSUME NEW g, NEW h, NEW n, Sifted(g, h, n), NEW entries, Holds(h, n, entries)
  PROVE  HoldsOrdered(g, n, entries)
<1>1. \A i \in 1 .. n : /\ g.slots[i].key = h.slots[i].key /\ g.slots[i].count = h.slots[i].count
                        /\ g.slots[i].error = h.slots[i].error
  BY DEF Sifted, SameSlots, SameSlot
<1>2. {g.slots[i].key : i \in 1 .. n} = {h.slots[i].key : i \in 1 .. n} BY <1>1
<1>3. \A i \in 1 .. n : entries[g.slots[i].key] = [count |-> g.slots[i].count, error |-> g.slots[i].error]
  BY <1>1 DEF Holds
<1>4. Holds(g, n, entries) BY <1>2, <1>3 DEF Holds, Sifted
<1> QED BY <1>4 DEF HoldsOrdered, Sifted

(* HeapEntries reads them. *)
LEMMA EntriesAre ==
  ASSUME NEW h, NEW n, NEW entries, Holds(h, n, entries)
  PROVE  HeapEntries(h) = entries
<1> DEFINE K == {h.slots[i].key : i \in 1 .. n}
           c(k) == CHOOSE i \in 1 .. n : h.slots[i].key = k
           v(k) == [count |-> h.slots[c(k)].count, error |-> h.slots[c(k)].error]
<1>1. h.slots \in [1 .. n -> HeapSlot] BY DEF Holds, HeapShape
<1>2. DOMAIN h.slots = 1 .. n BY <1>1
<1>3. HeapEntries(h) = [k \in K |-> v(k)] BY <1>2, Zenon DEF HeapEntries
<1>4. ASSUME NEW k \in K PROVE v(k) = entries[k]
  <2>1. \E i \in 1 .. n : h.slots[i].key = k OBVIOUS
  <2>2. c(k) \in 1 .. n /\ h.slots[c(k)].key = k BY <2>1, Zenon
  <2> HIDE DEF c
  <2>3. entries[h.slots[c(k)].key] = [count |-> h.slots[c(k)].count, error |-> h.slots[c(k)].error]
    BY <2>2 DEF Holds
  <2> QED BY <2>2, <2>3
<1> HIDE DEF v, K, c
<1>5. entries = [k \in K |-> entries[k]] BY DEF Holds, K
<1> QED BY <1>3, <1>4, <1>5

(* g is h but for slot i, which is v in the same place. *)
Changed(g, h, n, i, v) ==
  /\ HeapShape(g, n) /\ g.heap = h.heap /\ g.slots[i] = v
  /\ \A j \in 1 .. n : j # i => g.slots[j] = h.slots[j]

(* A slot with another key, count or error, when the index follows. *)
LEMMA ChangeSlot ==
  ASSUME NEW h, NEW n, HeapShape(h, n), NEW i \in 1 .. n, NEW v \in HeapSlot, v.place = h.slots[i].place,
         \A j \in 1 .. n : j # i => h.slots[j].key # v.key,
         NEW t, t = [h.slots EXCEPT ![i] = v], NEW x,
         x = [d \in Range(Digest) |-> {j \in 1 .. n : Digest[t[j].key] = d}],
         NEW g, g = [slots |-> t, heap |-> h.heap, index |-> x]
  PROVE  Changed(g, h, n, i, v)
<1> DEFINE s == h.slots
           p == h.heap
<1>1. /\ n \in Nat /\ s \in [1 .. n -> HeapSlot] /\ p \in [1 .. n -> 1 .. n]
      /\ \A j \in 1 .. n : s[j].place \in 1 .. n /\ p[s[j].place] = j
      /\ \A c \in 1 .. n : s[p[c]].place = c
      /\ \A j, k \in 1 .. n : s[j].key = s[k].key => j = k
  BY DEF HeapShape
<1>2. g.slots = t /\ g.heap = p /\ g.index = x /\ g = [slots |-> g.slots, heap |-> g.heap, index |-> g.index]
  OBVIOUS
<1>3. t \in [1 .. n -> HeapSlot] /\ t[i] = v /\ \A j \in 1 .. n : j # i => t[j] = s[j] BY <1>1
<1>4. \A j \in 1 .. n : t[j].place = s[j].place BY <1>3
<1>5. \A j, k \in 1 .. n : t[j].key = t[k].key => j = k BY <1>1, <1>3
<1>6. \A j \in 1 .. n : t[j].place \in 1 .. n /\ p[t[j].place] = j BY <1>1, <1>4
<1>7. \A c \in 1 .. n : t[p[c]].place = c BY <1>1, <1>4
<1> HIDE DEF s, p
<1>9. g.index = [d \in Range(Digest) |-> {j \in 1 .. n : Digest[g.slots[j].key] = d}] BY <1>2, Zenon
<1>10. /\ g.slots \in [1 .. n -> HeapSlot] /\ g.heap \in [1 .. n -> 1 .. n]
       /\ \A j \in 1 .. n : g.slots[j].place \in 1 .. n /\ g.heap[g.slots[j].place] = j
       /\ \A c \in 1 .. n : g.slots[g.heap[c]].place = c
       /\ \A j, k \in 1 .. n : g.slots[j].key = g.slots[k].key => j = k
  <2>1. g.slots \in [1 .. n -> HeapSlot] BY <1>2, <1>3, Zenon
  <2>2. g.heap \in [1 .. n -> 1 .. n] BY <1>1, <1>2, Zenon
  <2>3. \A j \in 1 .. n : g.slots[j].place \in 1 .. n /\ g.heap[g.slots[j].place] = j
    BY <1>2, <1>6, Zenon
  <2>4. \A c \in 1 .. n : g.slots[g.heap[c]].place = c BY <1>2, <1>7, Zenon
  <2>5. \A j, k \in 1 .. n : g.slots[j].key = g.slots[k].key => j = k BY <1>2, <1>5, Zenon
  <2> QED BY <2>1, <2>2, <2>3, <2>4, <2>5
<1>8. HeapShape(g, n) BY <1>1, <1>2, <1>9, <1>10, Zenon DEF HeapShape
<1> QED BY <1>2, <1>3, <1>8 DEF Changed, s, p

(* Comparisons away from the changed slot stay. *)
LEMMA ChangedLess ==
  ASSUME NEW g, NEW h, NEW n, HeapShape(h, n), NEW i \in 1 .. n, NEW v, Changed(g, h, n, i, v)
  PROVE  /\ \A a \in 1 .. n : a # h.slots[i].place => At(g, a) = At(h, a)
         /\ At(g, h.slots[i].place) = v /\ h.slots[i].place \in 1 .. n /\ At(h, h.slots[i].place) = h.slots[i]
<1>1. ASSUME NEW a \in 1 .. n, a # h.slots[i].place PROVE At(g, a) = At(h, a)
  <2>1. h.heap[a] \in 1 .. n /\ h.heap[a] # i BY <1>1 DEF HeapShape
  <2> QED BY <2>1 DEF Changed, At
<1>2. h.slots[i].place \in 1 .. n /\ h.heap[h.slots[i].place] = i BY DEF HeapShape
<1> QED BY <1>1, <1>2 DEF Changed, At

(* A slot that does not become less may have to move down. *)
LEMMA RaisedDown ==
  ASSUME NEW g, NEW h, NEW n, HeapShape(h, n), InOrder(h, n), NEW i \in 1 .. n, NEW v \in HeapSlot,
         Changed(g, h, n, i, v), ~SlotLess(v, h.slots[i])
  PROVE  DownOrdered(g, n, h.slots[i].place)
<1> DEFINE p == h.slots[i].place
           w == h.slots[i]
<1>0. n \in Nat /\ w \in HeapSlot BY DEF HeapShape
<1>1. /\ \A a \in 1 .. n : a # p => At(g, a) = At(h, a)
      /\ At(g, p) = v /\ p \in 1 .. n /\ At(h, p) = w
  BY ChangedLess
<1>2. \A a \in 2 .. n : ~HeapIsLess(h, a, Half(a)) BY DEF InOrder
<1> HIDE DEF p, w
<1>3. ASSUME NEW a \in 2 .. n, Half(a) # p PROVE ~HeapIsLess(g, a, Half(a))
  <2>1. Half(a) \in 1 .. n /\ a \in 1 .. n BY <1>0, HalfIs
  <2>2. At(g, Half(a)) = At(h, Half(a)) BY <1>1, <1>3, <2>1
  <2>3. CASE a # p
    <3>1. At(g, a) = At(h, a) BY <1>1, <2>1, <2>3
    <3> QED BY <1>2, <2>2, <3>1, HeapLessIs
  <2>4. CASE a = p
    <3> DEFINE u == At(h, Half(a))
    <3>1. u \in HeapSlot BY <2>1, ShapeAt
    <3>2. ~SlotLess(w, u) BY <1>1, <1>2, <2>4, HeapLessIs
    <3>3. ~SlotLess(v, w) BY DEF w
    <3>4. ~SlotLess(v, u)
      <4> HIDE DEF u
      <4> QED BY <1>0, <3>1, <3>2, <3>3, SlotPreorder
    <3> QED BY <1>1, <2>2, <2>4, <3>4, HeapLessIs
  <2> QED BY <2>3, <2>4
<1>4. ASSUME p > 1, NEW a \in 2 .. n, Half(a) = p PROVE ~HeapIsLess(g, a, Half(p))
  <2>1. Half(a) \in 1 .. n /\ a \in 1 .. n /\ p < a BY <1>0, <1>4, HalfIs
  <2>2. p \in 2 .. n BY <1>0, <1>1, <1>4
  <2>3. Half(p) \in 1 .. n /\ Half(p) < p BY <1>0, <2>2, HalfIs
  <2>4. ~HeapIsLess(h, a, p) /\ ~HeapIsLess(h, p, Half(p)) BY <1>2, <1>4, <2>2
  <2>5. ~HeapIsLess(h, a, Half(p)) BY <1>1, <2>1, <2>3, <2>4, PlaceOrder
  <2>6. a # p /\ Half(p) # p BY <1>0, <2>1, <2>2, <2>3
  <2>7. At(g, a) = At(h, a) /\ At(g, Half(p)) = At(h, Half(p)) BY <1>1, <2>1, <2>3, <2>6
  <2> QED BY <2>5, <2>7, HeapLessIs
<1>5. DownOrdered(g, n, p) BY <1>3, <1>4 DEF DownOrdered, Below
<1> QED BY <1>5 DEF p

(* Whatever comes to the root may have to move down. *)
LEMMA RootDown ==
  ASSUME NEW g, NEW h, NEW n, HeapShape(h, n), InOrder(h, n), NEW i \in 1 .. n, NEW v \in HeapSlot,
         Changed(g, h, n, i, v), h.slots[i].place = 1
  PROVE  DownOrdered(g, n, 1)
<1>0. n \in Nat BY DEF HeapShape
<1>1. \A a \in 1 .. n : a # 1 => At(g, a) = At(h, a) BY ChangedLess
<1>2. ASSUME NEW a \in 2 .. n, Half(a) # 1 PROVE ~HeapIsLess(g, a, Half(a))
  <2>1. Half(a) \in 1 .. n /\ a \in 1 .. n /\ a # 1 BY <1>0, HalfIs
  <2>2. At(g, a) = At(h, a) /\ At(g, Half(a)) = At(h, Half(a)) BY <1>1, <1>2, <2>1
  <2> QED BY <2>2, HeapLessIs DEF InOrder
<1> QED BY <1>2 DEF DownOrdered, Below

(* The root holds the least. *)
LEMMA RootLeast ==
  ASSUME NEW h, NEW n, HeapShape(h, n), InOrder(h, n), NEW a \in 1 .. n
  PROVE  ~HeapIsLess(h, a, 1)
<1>0. n \in Nat /\ 1 \in 1 .. n BY DEF HeapShape
<1> DEFINE P == {m \in 0 .. n : \A b \in 1 .. n : b <= m => ~HeapIsLess(h, b, 1)}
<1>1. 0 \in P BY <1>0
<1>2. ASSUME NEW m \in 1 .. n, m - 1 \in P PROVE m \in P
  <2>1. \A b \in 1 .. n : b <= m - 1 => ~HeapIsLess(h, b, 1) BY <1>2
  <2>2. ~HeapIsLess(h, m, 1)
    <3>1. CASE m = 1 BY <1>0, <3>1, PlaceOrder
    <3>2. CASE m # 1
      <4>1. m \in 2 .. n BY <1>0, <3>2
      <4>2. Half(m) \in 1 .. n /\ Half(m) < m BY <1>0, <4>1, HalfIs
      <4>3. Half(m) <= m - 1 BY <1>0, <4>2
      <4>4. ~HeapIsLess(h, m, Half(m)) BY <4>1 DEF InOrder
      <4>5. ~HeapIsLess(h, Half(m), 1) BY <2>1, <4>2, <4>3
      <4> QED BY <1>0, <4>2, <4>4, <4>5, PlaceOrder
    <3> QED BY <3>1, <3>2
  <2>3. ASSUME NEW b \in 1 .. n, b <= m PROVE ~HeapIsLess(h, b, 1)
    <3>1. CASE b = m BY <2>2, <3>1
    <3>2. CASE b # m
      <4>1. b <= m - 1 BY <1>0, <2>3, <3>2
      <4> QED BY <2>1, <4>1
    <3> QED BY <3>1, <3>2
  <2>4. m \in 0 .. n BY <1>0
  <2> QED BY <2>3, <2>4
<1> HIDE DEF P
<1>3. n \in P BY <1>0, <1>1, <1>2, UpTo
<1>4. a <= n BY <1>0
<1> QED BY <1>3, <1>4 DEF P

EntryOf(v) == [count |-> v.count, error |-> v.error]

EntryMoved(F, E, k, v) ==
  /\ F = [j \in DOMAIN F |-> F[j]] /\ DOMAIN F = (DOMAIN E \ {k}) \cup {v.key}
  /\ F[v.key] = EntryOf(v) /\ \A j \in DOMAIN E : j # k /\ j # v.key => F[j] = E[j]

(* The entries follow a change of a slot. *)
LEMMA ChangedHolds ==
  ASSUME NEW g, NEW h, NEW n, NEW E, Holds(h, n, E), NEW i \in 1 .. n, NEW v, Changed(g, h, n, i, v),
         NEW F, EntryMoved(F, E, h.slots[i].key, v)
  PROVE  Holds(g, n, F)
<1>0. /\ F = [j \in DOMAIN F |-> F[j]] /\ DOMAIN F = (DOMAIN E \ {h.slots[i].key}) \cup {v.key}
      /\ F[v.key] = EntryOf(v) /\ \A j \in DOMAIN E : j # h.slots[i].key /\ j # v.key => F[j] = E[j]
  BY DEF EntryMoved
<1> DEFINE s == h.slots
           t == g.slots
<1>1. /\ DOMAIN E = {s[j].key : j \in 1 .. n}
      /\ \A j \in 1 .. n : E[s[j].key] = EntryOf(s[j])
      /\ \A j, k \in 1 .. n : s[j].key = s[k].key => j = k
  BY DEF Holds, HeapShape, EntryOf
<1>2. /\ HeapShape(g, n) /\ t[i] = v /\ \A j \in 1 .. n : j # i => t[j] = s[j]
      /\ \A j, k \in 1 .. n : t[j].key = t[k].key => j = k
  BY DEF Changed, HeapShape
<1> HIDE DEF s, t
<1>3. ASSUME NEW j \in 1 .. n PROVE t[j].key \in DOMAIN F /\ F[t[j].key] = EntryOf(t[j])
  <2>1. CASE j = i BY <1>0, <1>2, <2>1
  <2>2. CASE j # i
    <3>1. t[j] = s[j] /\ s[j].key \in DOMAIN E BY <1>1, <1>2, <2>2
    <3>2. s[j].key # s[i].key BY <1>1, <2>2
    <3>3. s[j].key # v.key BY <1>2, <2>2, <3>1
    <3>4. s[j].key # h.slots[i].key BY <3>2 DEF s
    <3> QED BY <1>0, <1>1, <3>1, <3>3, <3>4
  <2> QED BY <2>1, <2>2
<1>4. ASSUME NEW k \in DOMAIN F PROVE \E j \in 1 .. n : t[j].key = k
  <2>1. CASE k = v.key BY <1>2, <2>1
  <2>2. CASE k # v.key
    <3>1. k \in DOMAIN E /\ k # s[i].key BY <1>0, <2>2 DEF s
    <3>2. PICK j \in 1 .. n : s[j].key = k BY <1>1, <3>1
    <3>3. j # i BY <3>1, <3>2
    <3> QED BY <1>2, <3>2, <3>3
  <2> QED BY <2>1, <2>2
<1>5. DOMAIN F = {t[j].key : j \in 1 .. n} BY <1>3, <1>4
<1> QED BY <1>0, <1>2, <1>3, <1>5 DEF Holds, EntryOf, t

(* The index finds a key in its slot. *)
LEMMA FindSlotIs ==
  ASSUME NEW h, NEW n, HeapShape(h, n), NEW k \in Keys
  PROVE  FindSlot(h, k) = {i \in 1 .. n : h.slots[i].key = k}
<1>1. Digest[k] \in Range(Digest) BY SummaryAssumption DEF Range
<1>2. h.index[Digest[k]] = {i \in 1 .. n : Digest[h.slots[i].key] = Digest[k]} BY <1>1 DEF HeapShape
<1> QED BY <1>2 DEF FindSlot

(* What the slots have. *)
LEMMA HoldsType ==
  ASSUME NEW h, NEW n, NEW E, Holds(h, n, E)
  PROVE  /\ n \in Nat /\ IsFiniteSet(DOMAIN E) /\ Cardinality(DOMAIN E) = n /\ DOMAIN E \subseteq Keys
         /\ Len(h.slots) = n /\ \A k \in DOMAIN E : E[k] \in Entry
         /\ DOMAIN E = {h.slots[i].key : i \in 1 .. n}
<1> DEFINE f == [i \in 1 .. n |-> h.slots[i].key]
<1>1. /\ n \in Nat /\ h.slots \in [1 .. n -> HeapSlot] /\ DOMAIN E = {h.slots[i].key : i \in 1 .. n}
      /\ \A i, j \in 1 .. n : h.slots[i].key = h.slots[j].key => i = j
      /\ \A i \in 1 .. n : E[h.slots[i].key] = [count |-> h.slots[i].count, error |-> h.slots[i].error]
  BY DEF Holds, HeapShape
<1>2. Len(h.slots) = n BY <1>1, LenIs
<1>3. DOMAIN E \subseteq Keys BY <1>1 DEF HeapSlot
<1>4. ASSUME NEW k \in DOMAIN E PROVE E[k] \in Entry
  <2>1. PICK i \in 1 .. n : h.slots[i].key = k BY <1>1
  <2>2. h.slots[i].count \in Nat /\ h.slots[i].error \in Nat BY <1>1 DEF HeapSlot
  <2>3. E[k] = [count |-> h.slots[i].count, error |-> h.slots[i].error] BY <1>1, <2>1
  <2> QED BY <2>2, <2>3 DEF Entry
<1>5. f \in Bijection(1 .. n, DOMAIN E)
  <2>1. f \in [1 .. n -> DOMAIN E] BY <1>1
  <2>2. \A a, b \in 1 .. n : f[a] = f[b] => a = b BY <1>1
  <2>3. \A k \in DOMAIN E : \E a \in 1 .. n : f[a] = k BY <1>1
  <2> HIDE DEF f
  <2> QED BY <2>1, <2>2, <2>3 DEF Bijection, Injection, Surjection, IsInjective
<1>6. IsFiniteSet(1 .. n) /\ Cardinality(1 .. n) = n BY <1>1, FS_Interval
<1> HIDE DEF f
<1>7. IsFiniteSet(DOMAIN E) /\ Cardinality(DOMAIN E) = n
  <2>1. ExistsBijection(1 .. n, DOMAIN E) BY <1>5 DEF ExistsBijection
  <2> QED BY <1>6, <2>1, FS_Bijection
<1> QED BY <1>1, <1>2, <1>3, <1>4, <1>7

(* A key the summary tracks. *)
LEMMA HeapRaise ==
  ASSUME NEW h, NEW n, NEW E, HoldsOrdered(h, n, E), NEW k \in DOMAIN E, NEW w \in Nat
  PROVE  HoldsOrdered(HeapAdd(h, k, w), n, [E EXCEPT ![k].count = @ + w])
<1> DEFINE i == CHOOSE i \in FindSlot(h, k) : TRUE
           o == h.slots[i]
           c == o.count
           e == o.error
           p == o.place
           v == [key |-> k, count |-> c + w, error |-> e, place |-> p]
           g == [h EXCEPT !.slots[i].count = @ + w]
           t == [h.slots EXCEPT ![i] = v]
           F == [E EXCEPT ![k].count = @ + w]
<1>0. Holds(h, n, E) /\ HeapShape(h, n) /\ InOrder(h, n) BY DEF HoldsOrdered, Holds
<1>1. k \in Keys /\ \A j \in DOMAIN E : E[j] \in Entry BY <1>0, HoldsType
<1>2. FindSlot(h, k) = {j \in 1 .. n : h.slots[j].key = k} BY <1>0, <1>1, FindSlotIs
<1>3. \E j \in 1 .. n : h.slots[j].key = k BY <1>0 DEF Holds
<1>4. FindSlot(h, k) # {} BY <1>2, <1>3
<1>5. i \in 1 .. n /\ o.key = k
  <2>1. i \in FindSlot(h, k) BY <1>4, Zenon
  <2> HIDE DEF i
  <2> QED BY <1>2, <2>1
<1>6. HeapAdd(h, k, w) = SiftDown(g, p) BY <1>4, Zenon DEF HeapAdd
<1> HIDE DEF i
<1>7. /\ h = [slots |-> h.slots, heap |-> h.heap, index |-> h.index] /\ h.slots \in [1 .. n -> HeapSlot]
      /\ \A j, l \in 1 .. n : h.slots[j].key = h.slots[l].key => j = l
      /\ h.index = [d \in Range(Digest) |-> {j \in 1 .. n : Digest[h.slots[j].key] = d}]
  BY <1>0 DEF HeapShape
<1>8. o = [key |-> k, count |-> c, error |-> e, place |-> p] /\ c \in Nat /\ e \in Nat /\ p \in Nat
  BY <1>5, <1>7 DEF HeapSlot
<1>9. v \in HeapSlot BY <1>1, <1>8 DEF HeapSlot
<1>10. v.key = k /\ v.count = c + w /\ v.error = e /\ v.place = p OBVIOUS
<1>11. g = [slots |-> t, heap |-> h.heap, index |-> h.index]
  <2> DEFINE s == h.slots
             x == h.heap
             y == h.index
  <2>1. h = [slots |-> s, heap |-> x, index |-> y] /\ s \in [1 .. n -> HeapSlot] BY <1>7
  <2>2. [s[i] EXCEPT !.count = c + w] = v
    <3> HIDE DEF c, e, p, s
    <3> QED BY <1>8 DEF s
  <2>3. g = [h EXCEPT !.slots = [s EXCEPT ![i] = [s[i] EXCEPT !.count = c + w]]]
    <3> HIDE DEF x, y
    <3> QED BY <1>5, <2>1
  <2>4. g = [h EXCEPT !.slots = t] BY <2>2, <2>3
  <2> HIDE DEF s, x, y, g, t
  <2>5. g = [slots |-> t, heap |-> x, index |-> y] BY <2>1, <2>4
  <2> QED BY <2>5 DEF x, y
<1>12. \A j \in 1 .. n : t[j].key = h.slots[j].key BY <1>5, <1>7, <1>10
<1>13. h.index = [d \in Range(Digest) |-> {j \in 1 .. n : Digest[t[j].key] = d}]
  <2> DEFINE A(d) == {j \in 1 .. n : Digest[t[j].key] = d}
             B(d) == {j \in 1 .. n : Digest[h.slots[j].key] = d}
  <2>1. \A d : A(d) = B(d) BY <1>12
  <2>2. h.index = [d \in Range(Digest) |-> B(d)] BY <1>7
  <2> HIDE DEF A, B
  <2>3. h.index = [d \in Range(Digest) |-> A(d)] BY <2>1, <2>2
  <2> QED BY <2>3 DEF A
<1>14. \A j \in 1 .. n : j # i => h.slots[j].key # v.key BY <1>5, <1>7, <1>10
<1>15. v.place = h.slots[i].place /\ t = [h.slots EXCEPT ![i] = v] OBVIOUS
<1>16. ~SlotLess(v, h.slots[i])
  <2>1. o.count = c /\ o.key = k /\ c + w >= c /\ c + w \in Nat BY <1>5, <1>8
  <2>2. Digest[k] \in Nat /\ k \in Nat BY <1>1, SummaryAssumption, KeysAssumption
  <2> HIDE DEF v, c
  <2> QED BY <1>8, <1>10, <2>1, <2>2 DEF SlotLess
<1>17. F = [j \in DOMAIN F |-> F[j]] /\ DOMAIN F = DOMAIN E /\ (\A j \in DOMAIN E : j # k => F[j] = E[j])
       /\ F[k] = [E[k] EXCEPT !.count = @ + w]
  OBVIOUS
<1>18. F[k] = [count |-> c + w, error |-> e]
  <2>1. E[k] = [count |-> c, error |-> e] BY <1>0, <1>5 DEF Holds
  <2> HIDE DEF F, c, e
  <2> QED BY <1>17, <2>1
<1> HIDE DEF g, t, v, o, F
<1>19. Changed(g, h, n, i, v)
  <2> DEFINE x == h.index
  <2>1. x = [d \in Range(Digest) |-> {j \in 1 .. n : Digest[t[j].key] = d}] BY <1>13
  <2>2. g = [slots |-> t, heap |-> h.heap, index |-> x] BY <1>11
  <2> HIDE DEF x, p, c, e
  <2> QED BY <1>0, <1>5, <1>9, <1>14, <1>15, <2>1, <2>2, ChangeSlot
<1>20. DownOrdered(g, n, p) BY <1>0, <1>5, <1>9, <1>16, <1>19, RaisedDown DEF o
<1>21. p \in 1 .. n BY <1>0, <1>5 DEF HeapShape, o
<1>22. Holds(g, n, F)
  <2>1. h.slots[i].key = k BY <1>5 DEF o
  <2>2. F[v.key] = EntryOf(v) BY <1>10, <1>18 DEF EntryOf
  <2>3. DOMAIN F = (DOMAIN E \ {h.slots[i].key}) \cup {v.key} BY <1>10, <1>17, <2>1
  <2>4. \A j \in DOMAIN E : j # h.slots[i].key /\ j # v.key => F[j] = E[j] BY <1>17, <2>1
  <2>5. F = [j \in DOMAIN F |-> F[j]] BY <1>17
  <2> HIDE DEF p, c, e
  <2>6. EntryMoved(F, E, h.slots[i].key, v) BY <2>2, <2>3, <2>4, <2>5 DEF EntryMoved
  <2> QED BY <1>0, <1>5, <1>19, <2>6, ChangedHolds
<1>23. HeapShape(g, n) BY <1>19 DEF Changed
<1>24. Sifted(SiftDown(g, p), g, n) BY <1>20, <1>21, <1>23, SiftDownIs
<1>25. HoldsOrdered(SiftDown(g, p), n, F) BY <1>22, <1>24, SiftedHolds
<1> QED BY <1>6, <1>25 DEF F

(* g is h with one more slot, at the end of the heap. *)
Extended(g, h, n, v) ==
  /\ HeapShape(g, n + 1) /\ g.slots[n + 1] = v /\ g.heap[n + 1] = n + 1
  /\ \A j \in 1 .. n : g.slots[j] = h.slots[j] /\ g.heap[j] = h.heap[j]

IsAppend(t, s, n, m, v, T) == t \in [1 .. m -> T] /\ t[m] = v /\ \A j \in 1 .. n : t[j] = s[j]

(* A sequence with one more element. *)
LEMMA AppendIs ==
  ASSUME NEW n \in Nat, NEW S, NEW s, s \in [1 .. n -> S], NEW T, S \subseteq T, NEW v, v \in T,
         NEW t, t = Append(s, v), NEW m, m = n + 1
  PROVE  IsAppend(t, s, n, m, v, T)
<1>1. s \in Seq(S) /\ Len(s) = n BY LenIs
<1>2. s \in Seq(T)
  <2>1. s \in [1 .. n -> T] OBVIOUS
  <2> QED BY <2>1, LenIs
<1>3. /\ t \in Seq(T) /\ Len(t) = n + 1 /\ t[n + 1] = v /\ \A j \in 1 .. n : t[j] = s[j]
  BY <1>1, <1>2, AppendProperties
<1>4. t \in [1 .. Len(t) -> T] BY <1>3, LenProperties
<1> QED BY <1>3, <1>4 DEF IsAppend

(* A new slot at the end of slots and heap, and in the index. *)
LEMMA ExtendSlots ==
  ASSUME NEW h, NEW n, HeapShape(h, n), NEW v \in HeapSlot, v.place = n + 1,
         \A j \in 1 .. n : h.slots[j].key # v.key,
         NEW t, t = Append(h.slots, v), NEW q, q = Append(h.heap, n + 1),
         NEW x, x = [h.index EXCEPT ![Digest[v.key]] = @ \cup {n + 1}],
         NEW g, g = [slots |-> t, heap |-> q, index |-> x]
  PROVE  Extended(g, h, n, v)
<1> DEFINE s == h.slots
           p == h.heap
           m == n + 1
           y == h.index
<1>1. /\ n \in Nat /\ s \in [1 .. n -> HeapSlot] /\ p \in [1 .. n -> 1 .. n]
      /\ \A j \in 1 .. n : s[j].place \in 1 .. n /\ p[s[j].place] = j
      /\ \A c \in 1 .. n : s[p[c]].place = c
      /\ \A j, k \in 1 .. n : s[j].key = s[k].key => j = k
      /\ y = [d \in Range(Digest) |-> {j \in 1 .. n : Digest[s[j].key] = d}]
  BY DEF HeapShape
<1>2. g.slots = t /\ g.heap = q /\ g.index = x /\ g = [slots |-> g.slots, heap |-> g.heap, index |-> g.index]
  OBVIOUS
<1>3. t = Append(s, v) /\ q = Append(p, m) /\ x = [y EXCEPT ![Digest[v.key]] = @ \cup {m}] /\ v.place = m
  OBVIOUS
<1>4. m \in 1 .. m /\ m \in Nat /\ 1 .. n \subseteq 1 .. m /\ m \notin 1 .. n
      /\ \A j \in 1 .. m : j = m \/ j \in 1 .. n
  BY <1>1
<1> HIDE DEF s, p, y
<1> HIDE DEF m
<1>a. m = n + 1 /\ n \in Nat BY <1>1 DEF m
<1>b. s \in [1 .. n -> HeapSlot] /\ HeapSlot \subseteq HeapSlot /\ v \in HeapSlot BY <1>1
<1>c. p \in [1 .. n -> 1 .. n] /\ 1 .. n \subseteq 1 .. m /\ m \in 1 .. m BY <1>1, <1>4
<1>d. IsAppend(t, s, n, m, v, HeapSlot) BY <1>3, <1>a, <1>b, AppendIs
<1>e. IsAppend(q, p, n, m, m, 1 .. m)
  <2> DEFINE M == 1 .. m
             N == 1 .. n
  <2>1. p \in [1 .. n -> N] /\ N \subseteq M /\ m \in M BY <1>c
  <2> HIDE DEF M, N
  <2>2. IsAppend(q, p, n, m, m, M) BY <1>3, <1>a, <2>1, AppendIs
  <2> QED BY <2>2 DEF M
<1>7. t \in [1 .. m -> HeapSlot] /\ t[m] = v /\ q \in [1 .. m -> 1 .. m] /\ q[m] = m BY <1>d, <1>e DEF IsAppend
<1>5. \A j \in 1 .. n : t[j] = s[j] BY <1>d DEF IsAppend
<1>6. \A j \in 1 .. n : q[j] = p[j] BY <1>e DEF IsAppend
<1>k. \A j \in 1 .. n : s[j].key # v.key BY DEF s
<1>8. ASSUME NEW j \in 1 .. m PROVE t[j].place \in 1 .. m /\ q[t[j].place] = j
  <2>1. CASE j = m
    <3>1. t[j].place = m BY <1>3, <1>7, <2>1, Zenon
    <3> QED BY <1>4, <1>7, <2>1, <3>1, Zenon
  <2>2. CASE j \in 1 .. n
    <3>1. t[j] = s[j] BY <1>5, <2>2
    <3>2. s[j].place \in 1 .. n /\ p[s[j].place] = j BY <1>1, <2>2
    <3>3. q[s[j].place] = p[s[j].place] BY <1>6, <3>2
    <3>4. s[j].place \in 1 .. m BY <1>4, <3>2, Zenon
    <3> QED BY <3>1, <3>2, <3>3, <3>4, Zenon
  <2> QED BY <1>4, <2>1, <2>2
<1>9. ASSUME NEW c \in 1 .. m PROVE t[q[c]].place = c
  <2>1. CASE c = m BY <1>3, <1>7, <2>1, Zenon
  <2>2. CASE c \in 1 .. n
    <3>1. q[c] = p[c] /\ p[c] \in 1 .. n BY <1>1, <1>6, <2>2
    <3>2. t[p[c]] = s[p[c]] /\ s[p[c]].place = c BY <1>1, <1>5, <2>2, <3>1
    <3> QED BY <3>1, <3>2, Zenon
  <2> QED BY <1>4, <2>1, <2>2
<1>10. ASSUME NEW j \in 1 .. m, NEW k \in 1 .. m, t[j].key = t[k].key PROVE j = k
  <2>1. CASE j \in 1 .. n /\ k \in 1 .. n BY <1>1, <1>5, <1>10, <2>1
  <2>2. CASE j = m /\ k = m BY <2>2
  <2>3. CASE j = m /\ k \in 1 .. n BY <1>5, <1>7, <1>10, <1>k, <2>3
  <2>4. CASE j \in 1 .. n /\ k = m BY <1>5, <1>7, <1>10, <1>k, <2>4
  <2> QED BY <1>4, <2>1, <2>2, <2>3, <2>4
<1>11. x = [d \in Range(Digest) |-> {j \in 1 .. m : Digest[t[j].key] = d}]
  <2> DEFINE A(d) == {j \in 1 .. m : Digest[t[j].key] = d}
             B(d) == {j \in 1 .. n : Digest[s[j].key] = d}
             e == Digest[v.key]
  <2>1. ASSUME NEW d, d # e PROVE A(d) = B(d)
    <3>1. ASSUME NEW j \in A(d) PROVE j \in B(d)
      <4>1. j # m BY <1>7, <2>1, <3>1, Zenon
      <4>2. j \in 1 .. n BY <1>4, <3>1, <4>1
      <4>3. t[j] = s[j] BY <1>5, <4>2
      <4> QED BY <3>1, <4>2, <4>3, Zenon
    <3>2. ASSUME NEW j \in B(d) PROVE j \in A(d)
      <4>1. j \in 1 .. n /\ j \in 1 .. m /\ t[j] = s[j] BY <1>4, <1>5, <3>2
      <4> QED BY <3>2, <4>1, Zenon
    <3> QED BY <3>1, <3>2
  <2>2. A(e) = B(e) \cup {m} BY <1>4, <1>5, <1>7
  <2>3. y = [d \in Range(Digest) |-> B(d)] BY <1>1
  <2>4. x = [y EXCEPT ![e] = @ \cup {m}] BY <1>3
  <2>5. e \in Range(Digest) BY SummaryAssumption DEF Range, HeapSlot
  <2> HIDE DEF A, B, e
  <2>6. x = [d \in Range(Digest) |-> IF d = e THEN B(e) \cup {m} ELSE B(d)] BY <2>3, <2>4, <2>5
  <2>7. x = [d \in Range(Digest) |-> A(d)] BY <2>1, <2>2, <2>6
  <2> QED BY <2>7 DEF A
<1>12. g.index = [d \in Range(Digest) |-> {j \in 1 .. m : Digest[g.slots[j].key] = d}] BY <1>2, <1>11, Zenon
<1>13. HeapShape(g, m)
  <2>1. g.slots \in [1 .. m -> HeapSlot] /\ g.heap \in [1 .. m -> 1 .. m] BY <1>2, <1>7, Zenon
  <2>2. \A j \in 1 .. m : g.slots[j].place \in 1 .. m /\ g.heap[g.slots[j].place] = j BY <1>2, <1>8, Zenon
  <2>3. \A c \in 1 .. m : g.slots[g.heap[c]].place = c BY <1>2, <1>9, Zenon
  <2>4. \A j, k \in 1 .. m : g.slots[j].key = g.slots[k].key => j = k BY <1>2, <1>10, Zenon
  <2> QED BY <1>2, <1>4, <1>12, <2>1, <2>2, <2>3, <2>4, Zenon DEF HeapShape
<1>14. g.slots[m] = v /\ g.heap[m] = m /\ \A j \in 1 .. n : g.slots[j] = s[j] /\ g.heap[j] = p[j]
  BY <1>2, <1>5, <1>6, <1>7, Zenon
<1> QED BY <1>13, <1>14, Zenon DEF Extended, s, p, m

(* The new slot may have to move up. *)
LEMMA ExtendedUp ==
  ASSUME NEW g, NEW h, NEW n, HeapShape(h, n), InOrder(h, n), NEW v, Extended(g, h, n, v)
  PROVE  UpOrdered(g, n + 1, n + 1)
<1>0. n \in Nat BY DEF HeapShape
<1>1. ASSUME NEW a \in 1 .. n PROVE At(g, a) = At(h, a)
  <2>1. h.heap[a] \in 1 .. n BY ShapeAt
  <2> QED BY <2>1 DEF Extended, At
<1>2. ASSUME NEW a \in 2 .. n + 1, a # n + 1 PROVE ~HeapIsLess(g, a, Half(a))
  <2>1. a \in 2 .. n BY <1>0, <1>2
  <2>2. a \in 1 .. n /\ Half(a) \in 1 .. n BY <1>0, <2>1, HalfIs
  <2>3. ~HeapIsLess(h, a, Half(a)) BY <2>1 DEF InOrder
  <2> QED BY <1>1, <2>2, <2>3, HeapLessIs
<1>3. ASSUME NEW a \in 2 .. n + 1 PROVE Half(a) # n + 1 BY <1>0 DEF Half
<1> QED BY <1>2, <1>3 DEF UpOrdered, Below

(* The entries follow. *)
LEMMA ExtendedHolds ==
  ASSUME NEW g, NEW h, NEW n, NEW E, Holds(h, n, E), NEW v, Extended(g, h, n, v),
         NEW F, F = [j \in DOMAIN F |-> F[j]], DOMAIN F = DOMAIN E \cup {v.key}, v.key \notin DOMAIN E,
         F[v.key] = EntryOf(v), \A j \in DOMAIN E : F[j] = E[j]
  PROVE  Holds(g, n + 1, F)
<1> DEFINE s == h.slots
           t == g.slots
           m == n + 1
<1>1. /\ n \in Nat /\ DOMAIN E = {s[j].key : j \in 1 .. n}
      /\ \A j \in 1 .. n : E[s[j].key] = EntryOf(s[j])
  BY DEF Holds, HeapShape, EntryOf
<1>2. HeapShape(g, m) /\ t[m] = v /\ \A j \in 1 .. n : t[j] = s[j] BY DEF Extended
<1>3. m \in 1 .. m /\ 1 .. n \subseteq 1 .. m /\ \A j \in 1 .. m : j = m \/ j \in 1 .. n BY <1>1
<1> HIDE DEF s, t, m
<1>4. ASSUME NEW j \in 1 .. m PROVE t[j].key \in DOMAIN F /\ F[t[j].key] = EntryOf(t[j])
  <2>1. CASE j = m BY <1>2, <2>1
  <2>2. CASE j \in 1 .. n
    <3>1. t[j] = s[j] /\ s[j].key \in DOMAIN E BY <1>1, <1>2, <2>2
    <3> QED BY <1>1, <2>2, <3>1
  <2> QED BY <1>3, <2>1, <2>2
<1>5. ASSUME NEW k \in DOMAIN F PROVE \E j \in 1 .. m : t[j].key = k
  <2>1. CASE k = v.key BY <1>2, <1>3, <2>1
  <2>2. CASE k # v.key
    <3>1. PICK j \in 1 .. n : s[j].key = k BY <1>1, <2>2
    <3> QED BY <1>2, <1>3, <3>1
  <2> QED BY <2>1, <2>2
<1>6. DOMAIN F = {t[j].key : j \in 1 .. m} BY <1>4, <1>5
<1>7. Holds(g, m, F) BY <1>2, <1>4, <1>6 DEF Holds, EntryOf, t
<1> QED BY <1>7 DEF m

(* insert_entry adds the entry. *)
LEMMA InsertEntryIs ==
  ASSUME NEW h, NEW n, NEW E, HoldsOrdered(h, n, E), NEW k \in Keys, k \notin DOMAIN E, NEW e \in Entry
  PROVE  HoldsOrdered(InsertEntry(h, k, e), n + 1, WithEntry(E, k, e))
<1> DEFINE m == n + 1
           v == [key |-> k, count |-> e.count, error |-> e.error, place |-> m]
           put == [h EXCEPT !.slots = Append(@, v), !.heap = Append(@, m)]
           t == Append(h.slots, v)
           q == Append(h.heap, m)
           x == [h.index EXCEPT ![Digest[k]] = @ \cup {m}]
           g == AddToIndex(put, Digest[k], m)
           F == WithEntry(E, k, e)
<1>0. Holds(h, n, E) /\ HeapShape(h, n) /\ InOrder(h, n) BY DEF HoldsOrdered, Holds
<1>1. n \in Nat /\ Len(h.slots) = n /\ DOMAIN E = {h.slots[i].key : i \in 1 .. n} BY <1>0, HoldsType
<1>2. InsertEntry(h, k, e) = SiftUp(g, m) BY <1>1 DEF InsertEntry
<1>3. v \in HeapSlot /\ v.key = k /\ v.count = e.count /\ v.error = e.error /\ v.place = m
  BY <1>1 DEF HeapSlot, Entry
<1>4. h = [slots |-> h.slots, heap |-> h.heap, index |-> h.index] BY <1>0 DEF HeapShape
<1>5. g = [slots |-> t, heap |-> q, index |-> x]
  <2> DEFINE a == h.slots
             b == h.heap
             c == h.index
  <2>1. h = [slots |-> a, heap |-> b, index |-> c] BY <1>4
  <2>2. put = [h EXCEPT !.slots = t, !.heap = q] BY <2>1
  <2> HIDE DEF put, t, q, v, m
  <2>3. g = [put EXCEPT !.index[Digest[k]] = @ \cup {m}] BY DEF AddToIndex
  <2> HIDE DEF g
  <2>4. put = [slots |-> t, heap |-> q, index |-> c]
    <3> HIDE DEF a, b, c
    <3> QED BY <2>1, <2>2
  <2>5. x = [c EXCEPT ![Digest[k]] = @ \cup {m}] OBVIOUS
  <2> HIDE DEF a, b, c, x
  <2> QED BY <2>3, <2>4, <2>5
<1>6. F = [j \in DOMAIN F |-> F[j]] /\ DOMAIN F = DOMAIN E \cup {k} /\ F[k] = e
      /\ \A j \in DOMAIN E : F[j] = E[j]
  BY DEF WithEntry
<1>7. t = Append(h.slots, v) /\ q = Append(h.heap, n + 1) /\ v.place = n + 1 OBVIOUS
<1>8. x = [h.index EXCEPT ![Digest[v.key]] = @ \cup {n + 1}] OBVIOUS
<1> HIDE DEF g, t, q, x, v, F
<1>9. \A j \in 1 .. n : h.slots[j].key # v.key BY <1>1, <1>3
<1>10. Extended(g, h, n, v) BY <1>0, <1>3, <1>5, <1>7, <1>8, <1>9, ExtendSlots
<1>11. UpOrdered(g, n + 1, n + 1) BY <1>0, <1>10, ExtendedUp
<1>12. F[v.key] = EntryOf(v)
  <2>1. e = [count |-> e.count, error |-> e.error] BY DEF Entry
  <2> QED BY <1>3, <1>6, <2>1 DEF EntryOf
<1>13. Holds(g, n + 1, F)
  <2>1. DOMAIN F = DOMAIN E \cup {v.key} /\ v.key \notin DOMAIN E BY <1>3, <1>6
  <2>2. F = [j \in DOMAIN F |-> F[j]] /\ \A j \in DOMAIN E : F[j] = E[j] BY <1>6
  <2> QED BY <1>0, <1>10, <1>12, <2>1, <2>2, ExtendedHolds
<1>14. HeapShape(g, n + 1) /\ n + 1 \in 1 .. n + 1 BY <1>1, <1>10 DEF Extended
<1>15. Sifted(SiftUp(g, n + 1), g, n + 1) BY <1>11, <1>14, SiftUpIs
<1>16. HoldsOrdered(SiftUp(g, n + 1), n + 1, F) BY <1>13, <1>15, SiftedHolds
<1> QED BY <1>2, <1>16 DEF F

(* Slots of different keys are comparable. *)
LEMMA SlotTotal ==
  ASSUME NEW x \in HeapSlot, NEW y \in HeapSlot, x.key # y.key, ~SlotLess(x, y)
  PROVE  SlotLess(y, x)
<1>1. x.count \in Nat /\ y.count \in Nat /\ x.key \in Keys /\ y.key \in Keys BY DEF HeapSlot
<1>2. Digest[x.key] \in Nat /\ Digest[y.key] \in Nat /\ x.key \in Nat /\ y.key \in Nat
  BY <1>1, SummaryAssumption, KeysAssumption
<1> QED BY <1>1, <1>2 DEF SlotLess

(* The slots are in the order of the entries. *)
LEMMA SlotLessIs ==
  ASSUME NEW x, NEW y, NEW E, E[x.key] = EntryOf(x), E[y.key] = EntryOf(y)
  PROVE  SlotLess(x, y) <=> SlotIsLess(E, x.key, y.key)
<1>1. E[x.key].count = x.count /\ E[y.key].count = y.count BY DEF EntryOf
<1> QED BY <1>1, Zenon DEF SlotLess, SlotIsLess

(* The root of the heap is the minimum of the summary. *)
LEMMA RootIsMinimum ==
  ASSUME NEW h, NEW n, NEW s, HoldsOrdered(h, n, s.entries), SummaryShape(s), n >= 1
  PROVE  /\ MinimumSlot(s) = At(h, 1).key /\ MinimumCount(s) = At(h, 1).count
         /\ At(h, 1) \in HeapSlot /\ h.heap[1] \in 1 .. n
<1> DEFINE E == s.entries
           r == At(h, 1)
<1>0. Holds(h, n, E) /\ HeapShape(h, n) /\ InOrder(h, n) BY DEF HoldsOrdered, Holds
<1>1. n \in Nat /\ 1 \in 1 .. n BY <1>0 DEF HeapShape
<1>2. r \in HeapSlot /\ h.heap[1] \in 1 .. n BY <1>0, <1>1, ShapeAt
<1>3. ASSUME NEW i \in 1 .. n
      PROVE  h.slots[i] \in HeapSlot /\ h.slots[i].key \in DOMAIN E /\ E[h.slots[i].key] = EntryOf(h.slots[i])
  BY <1>0 DEF Holds, HeapShape, EntryOf
<1>4. r.key \in DOMAIN E /\ E[r.key] = EntryOf(r)
  <2>1. r = h.slots[h.heap[1]] BY DEF At
  <2> HIDE DEF r, E
  <2> QED BY <1>2, <1>3, <2>1, Zenon
<1>5. ASSUME NEW j \in DOMAIN E, j # r.key PROVE SlotIsLess(E, r.key, j)
  <2>1. PICK i \in 1 .. n : h.slots[i].key = j BY <1>0 DEF Holds
  <2> DEFINE a == h.slots[i].place
             y == h.slots[i]
  <2>2. a \in 1 .. n /\ h.heap[a] = i BY <1>0 DEF HeapShape
  <2>3. ~HeapIsLess(h, a, 1) BY <1>0, <2>2, RootLeast
  <2>4. At(h, a) = y BY <2>2 DEF At
  <2>5. ~SlotLess(y, r) BY <2>3, <2>4, HeapLessIs
  <2>6. y \in HeapSlot /\ E[y.key] = EntryOf(y) /\ y.key = j BY <1>3, <2>1
  <2> HIDE DEF y, a, r, E
  <2>7. SlotLess(r, y) BY <1>2, <1>5, <2>5, <2>6, SlotTotal
  <2>8. SlotIsLess(E, r.key, y.key) BY <1>4, <2>6, <2>7, SlotLessIs
  <2> QED BY <2>6, <2>8
<1>6. Tracked(s) = DOMAIN E BY DEF Tracked
<1>7. ASSUME NEW k \in DOMAIN E, \A j \in DOMAIN E \ {k} : SlotIsLess(E, k, j), k # r.key PROVE FALSE
  <2>1. SlotIsLess(E, r.key, k) /\ SlotIsLess(E, k, r.key) BY <1>4, <1>5, <1>7
  <2>2. k \in Keys /\ r.key \in Keys /\ E[k].count \in Nat /\ E[r.key].count \in Nat
    BY <1>4, <1>6, SummaryType
  <2>3. k \in Nat /\ r.key \in Nat /\ Digest[k] \in Nat /\ Digest[r.key] \in Nat
    BY <2>2, SummaryAssumption, KeysAssumption
  <2> DEFINE l == r.key
  <2> HIDE DEF E, l, r
  <2>4. SlotIsLess(E, l, k) /\ SlotIsLess(E, k, l) /\ E[k].count \in Nat /\ E[l].count \in Nat
        /\ k \in Nat /\ l \in Nat /\ Digest[k] \in Nat /\ Digest[l] \in Nat BY <2>1, <2>2, <2>3 DEF l
  <2> QED BY <2>4 DEF SlotIsLess
<1>8. \A j \in DOMAIN E \ {r.key} : SlotIsLess(E, r.key, j) BY <1>5
<1>9. MinimumSlot(s) = CHOOSE k \in DOMAIN E : \A j \in DOMAIN E \ {k} : SlotIsLess(E, k, j)
  BY <1>6, Zenon DEF MinimumSlot
<1>10. MinimumSlot(s) = r.key
  <2> DEFINE Q(k) == k \in DOMAIN E /\ \A j \in DOMAIN E \ {k} : SlotIsLess(E, k, j)
  <2>1. Q(r.key) BY <1>4, <1>8
  <2>2. \A k : Q(k) => k = r.key BY <1>7
  <2>3. MinimumSlot(s) = CHOOSE k : Q(k) BY <1>9
  <2> HIDE DEF Q
  <2> QED BY <2>1, <2>2, <2>3
<1>11. MinimumCount(s) = E[MinimumSlot(s)].count BY <1>4, <1>6, MinimumIs
<1>12. E[r.key].count = r.count BY <1>4 DEF EntryOf
<1> QED BY <1>2, <1>10, <1>11, <1>12

(* Taking an element from one set and putting it into one. *)
LEMMA TwoExcepts ==
  ASSUME NEW R, NEW y, y = [d \in R |-> y[d]], NEW o \in R, NEW e \in R, NEW i,
         NEW z, z = [y EXCEPT ![o] = @ \ {i}], NEW x, x = [z EXCEPT ![e] = @ \cup {i}]
  PROVE  /\ x = [d \in R |-> x[d]]
         /\ \A d \in R : /\ \A j : j # i => (j \in x[d] <=> j \in y[d])
                         /\ d = e => i \in x[d]
                         /\ d # e => (i \in x[d] <=> (d # o /\ i \in y[d]))
<1>1. DOMAIN y = R OBVIOUS
<1>2. DOMAIN z = R /\ \A d \in R : z[d] = IF d = o THEN y[d] \ {i} ELSE y[d] BY <1>1
<1>3. DOMAIN x = R /\ \A d \in R : x[d] = IF d = e THEN z[d] \cup {i} ELSE z[d] BY <1>2
<1>4. x = [d \in R |-> x[d]]
  <2>1. x = [d \in DOMAIN x |-> x[d]]
    <3>1. x = [d \in DOMAIN z |-> IF d = e THEN z[d] \cup {i} ELSE z[d]] OBVIOUS
    <3> DEFINE V(d) == IF d = e THEN z[d] \cup {i} ELSE z[d]
    <3>2. x = [d \in DOMAIN z |-> V(d)] BY <3>1
    <3> HIDE DEF V
    <3> QED BY <3>2
  <2> QED BY <1>3, <2>1, Zenon
<1>5. ASSUME NEW d \in R
      PROVE  /\ \A j : j # i => (j \in x[d] <=> j \in y[d])
             /\ d = e => i \in x[d]
             /\ d # e => (i \in x[d] <=> (d # o /\ i \in y[d]))
  <2>1. z[d] = IF d = o THEN y[d] \ {i} ELSE y[d] BY <1>2
  <2>2. x[d] = IF d = e THEN z[d] \cup {i} ELSE z[d] BY <1>3
  <2> DEFINE X == x[d]
             Y == y[d]
             Z == z[d]
  <2>3. Z = (IF d = o THEN Y \ {i} ELSE Y) /\ X = (IF d = e THEN Z \cup {i} ELSE Z) BY <2>1, <2>2
  <2> HIDE DEF X, Y, Z
  <2>4. /\ \A j : j # i => (j \in X <=> j \in Y)
        /\ d = e => i \in X
        /\ d # e => (i \in X <=> (d # o /\ i \in Y))
    BY <2>3
  <2> QED BY <2>4 DEF X, Y
<1> QED BY <1>4, <1>5

IndexFits(x, t, n) == x = [d \in Range(Digest) |-> {j \in 1 .. n : Digest[t[j].key] = d}]

Replaced(t, s, i, v) == t = [s EXCEPT ![i] = v]

Moved(x, y, i, o, e) == x = [[y EXCEPT ![o] = @ \ {i}] EXCEPT ![e] = @ \cup {i}]

(* A slot that goes to another key moves in the index. *)
LEMMA IndexMoved ==
  ASSUME NEW n, NEW s, s \in [1 .. n -> HeapSlot], NEW i, i \in 1 .. n, NEW v, v \in HeapSlot,
         NEW t, Replaced(t, s, i, v), NEW y, IndexFits(y, s, n),
         NEW x, Moved(x, y, i, Digest[s[i].key], Digest[v.key])
  PROVE  IndexFits(x, t, n)
<1> DEFINE o == Digest[s[i].key]
           e == Digest[v.key]
<1>a. t = [s EXCEPT ![i] = v] BY DEF Replaced
<1>b. PICK z : z = [y EXCEPT ![o] = @ \ {i}] /\ x = [z EXCEPT ![e] = @ \cup {i}] BY DEF Moved
<1> DEFINE A(d) == {j \in 1 .. n : Digest[t[j].key] = d}
           B(d) == {j \in 1 .. n : Digest[s[j].key] = d}
           R == Range(Digest)
<1>1. e \in R /\ o \in R BY SummaryAssumption DEF Range, HeapSlot
<1>2. t[i] = v /\ \A j \in 1 .. n : j # i => t[j] = s[j] BY <1>a
<1>3. y = [d \in R |-> B(d)] BY DEF IndexFits
<1>4. \A d : /\ \A j : j # i => (j \in A(d) <=> j \in B(d))
             /\ i \in A(d) <=> d = e
             /\ i \in B(d) <=> d = o
  BY <1>2
<1> HIDE DEF A, B, R, o, e
<1>5. y = [d \in R |-> y[d]] /\ \A d \in R : y[d] = B(d) BY <1>3
<1>6. /\ x = [d \in R |-> x[d]]
      /\ \A d \in R : /\ \A j : j # i => (j \in x[d] <=> j \in y[d])
                      /\ d = e => i \in x[d]
                      /\ d # e => (i \in x[d] <=> (d # o /\ i \in y[d]))
  BY <1>1, <1>5, <1>b, TwoExcepts
<1>7. \A d \in R : x[d] = A(d)
  <2>1. ASSUME NEW d \in R, NEW j PROVE j \in x[d] <=> j \in A(d) BY <1>4, <1>5, <1>6
  <2> QED BY <2>1
<1>8. x = [d \in R |-> A(d)] BY <1>6, <1>7
<1> QED BY <1>8 DEF IndexFits, A, R

(* A slot with another key, count and error. *)
LEMMA Rewritten ==
  ASSUME NEW a, NEW b, NEW c, NEW p, NEW o, o = [key |-> a, count |-> b, error |-> c, place |-> p],
         NEW k, NEW f, NEW g, NEW x, x = [o EXCEPT !.key = k, !.count = f, !.error = g]
  PROVE  x = [key |-> k, count |-> f, error |-> g, place |-> p]
OBVIOUS

(* The same inside a heap. *)
LEMMA SlotRewritten ==
  ASSUME NEW a, NEW b, NEW z, NEW h, h = [slots |-> a, heap |-> b, index |-> z],
         NEW i, NEW k, NEW f, NEW g, NEW c, c = [a EXCEPT ![i].key = k, ![i].count = f, ![i].error = g],
         NEW x, x = [h EXCEPT !.slots[i].key = k, !.slots[i].count = f, !.slots[i].error = g]
  PROVE  x = [slots |-> c, heap |-> b, index |-> z]
OBVIOUS

(* replace_min gives the root's slot to another key. *)
LEMMA ReplaceMinIs ==
  ASSUME NEW h, NEW n, NEW s, HoldsOrdered(h, n, s.entries), SummaryShape(s), n >= 1,
         NEW k \in Keys, k \notin Tracked(s), NEW e \in Entry,
         NEW rest, rest = [j \in Tracked(s) \ {MinimumSlot(s)} |-> s.entries[j]]
  PROVE  HoldsOrdered(ReplaceMin(h, k, e), n, WithEntry(rest, k, e))
<1> DEFINE E == s.entries
           i == h.heap[1]
           o == h.slots[i]
           d1 == Digest[o.key]
           d2 == Digest[k]
           ec == e.count
           ee == e.error
           v == [key |-> k, count |-> ec, error |-> ee, place |-> 1]
           out == RemoveFromIndex(h, d1, i)
           into == [out EXCEPT !.slots[i].key = k, !.slots[i].count = ec, !.slots[i].error = ee]
           g == AddToIndex(into, d2, i)
           t == [h.slots EXCEPT ![i] = v]
           y == h.index
           x == [[y EXCEPT ![d1] = @ \ {i}] EXCEPT ![d2] = @ \cup {i}]
           F == WithEntry(rest, k, e)
<1>0. Holds(h, n, E) /\ HeapShape(h, n) /\ InOrder(h, n) BY DEF HoldsOrdered, Holds
<1>1. ReplaceMin(h, k, e) = SiftDown(g, 1) BY Zenon DEF ReplaceMin
<1>2. i \in 1 .. n /\ o \in HeapSlot /\ MinimumSlot(s) = o.key BY RootIsMinimum DEF At
<1>3. /\ n \in Nat /\ h = [slots |-> h.slots, heap |-> h.heap, index |-> h.index]
      /\ h.slots \in [1 .. n -> HeapSlot] /\ o.place = 1
      /\ \A j, l \in 1 .. n : h.slots[j].key = h.slots[l].key => j = l
      /\ y = [d \in Range(Digest) |-> {j \in 1 .. n : Digest[h.slots[j].key] = d}]
  BY <1>0 DEF HeapShape
<1>4. e = [count |-> ec, error |-> ee] /\ ec \in Nat /\ ee \in Nat BY DEF Entry
<1>5. v \in HeapSlot /\ v.key = k /\ v.count = ec /\ v.error = ee /\ v.place = 1 BY <1>4 DEF HeapSlot
<1>6. DOMAIN E = {h.slots[j].key : j \in 1 .. n} /\ Tracked(s) = DOMAIN E BY <1>0 DEF Holds, Tracked
<1>7. \A j \in 1 .. n : j # i => h.slots[j].key # v.key BY <1>5, <1>6
<1>8. g = [slots |-> t, heap |-> h.heap, index |-> x]
  <2> DEFINE a == h.slots
             b == h.heap
             z == [y EXCEPT ![d1] = @ \ {i}]
  <2>1. h = [slots |-> a, heap |-> b, index |-> y] /\ a \in [1 .. n -> HeapSlot] /\ o = a[i] BY <1>3
  <2>2. o = [key |-> o.key, count |-> o.count, error |-> o.error, place |-> 1]
    BY <1>2, <1>3 DEF HeapSlot
  <2>3. i \in DOMAIN a BY <1>2, <1>3
  <2>4. x = [z EXCEPT ![d2] = @ \cup {i}] OBVIOUS
  <2>5. out = [h EXCEPT !.index[d1] = @ \ {i}] BY DEF RemoveFromIndex
  <2>6. g = [into EXCEPT !.index[d2] = @ \cup {i}] BY DEF AddToIndex
  <2> HIDE DEF g, out
  <2>7. into = [out EXCEPT !.slots[i].key = k, !.slots[i].count = ec, !.slots[i].error = ee] OBVIOUS
  <2>8. t = [a EXCEPT ![i] = v] OBVIOUS
  <2> HIDE DEF into, x, d1, d2, ec, ee, a, b, y, t
  <2>9. out = [slots |-> a, heap |-> b, index |-> z]
    <3>1. h = [slots |-> a, heap |-> b, index |-> y] BY <2>1
    <3> HIDE DEF i
    <3> QED BY <2>5, <3>1
  <2> HIDE DEF z
  <2>10. into = [slots |-> t, heap |-> b, index |-> z]
    <3> DEFINE u == [o EXCEPT !.key = k, !.count = ec, !.error = ee]
    <3>1. u = v
      <4> DEFINE ok == o.key
                 oc == o.count
                 oe == o.error
      <4>1. o = [key |-> ok, count |-> oc, error |-> oe, place |-> 1] BY <2>2
      <4>2. u = [o EXCEPT !.key = k, !.count = ec, !.error = ee] OBVIOUS
      <4> HIDE DEF o, ok, oc, oe, u
      <4> QED BY <4>1, <4>2, Rewritten
    <3> DEFINE c == [a EXCEPT ![i].key = k, ![i].count = ec, ![i].error = ee]
    <3>2. c = t
      <4>1. c = [a EXCEPT ![i] = u]
        <5> HIDE DEF i, v
        <5> QED BY <2>1, <2>3
      <4> QED BY <3>1, <4>1, <2>8
    <3>3. c = [a EXCEPT ![i].key = k, ![i].count = ec, ![i].error = ee] OBVIOUS
    <3> HIDE DEF i, o, v, c
    <3>4. into = [slots |-> c, heap |-> b, index |-> z] BY <2>7, <2>9, <3>3, SlotRewritten
    <3> QED BY <3>2, <3>4
  <2>11. g = [slots |-> t, heap |-> b, index |-> x]
    <3> HIDE DEF i, o, v
    <3> QED BY <2>4, <2>6, <2>10
  <2> QED BY <2>11 DEF b
<1>9. x = [d \in Range(Digest) |-> {j \in 1 .. n : Digest[t[j].key] = d}]
  <2> DEFINE a == h.slots
  <2>1. a \in [1 .. n -> HeapSlot] /\ t = [a EXCEPT ![i] = v] /\ i \in 1 .. n /\ v \in HeapSlot BY <1>2, <1>3, <1>5
  <2>2. IndexFits(y, a, n) BY <1>3 DEF IndexFits
  <2>3. Moved(x, y, i, Digest[a[i].key], Digest[v.key]) BY DEF Moved
  <2>4. Replaced(t, a, i, v) BY <2>1 DEF Replaced
  <2> HIDE DEF a, t, x, y, v, i
  <2>5. IndexFits(x, t, n) BY <2>1, <2>2, <2>3, <2>4, IndexMoved
  <2> QED BY <2>5 DEF IndexFits
<1>10. DOMAIN F = (DOMAIN E \ {o.key}) \cup {k} /\ F = [j \in DOMAIN F |-> F[j]] /\ F[k] = e
       /\ \A j \in DOMAIN E : j # o.key /\ j # k => F[j] = E[j]
  BY <1>2, <1>6 DEF WithEntry
<1>11. t = [h.slots EXCEPT ![i] = v] /\ v.place = h.slots[i].place BY <1>3, <1>5
<1> HIDE DEF g, t, x, v, F, i
<1>12. Changed(g, h, n, i, v) BY <1>0, <1>2, <1>5, <1>7, <1>8, <1>9, <1>11, ChangeSlot
<1>13. h.slots[i].place = 1 BY <1>3
<1>14. DownOrdered(g, n, 1) BY <1>0, <1>2, <1>5, <1>12, <1>13, RootDown
<1>15. Holds(g, n, F)
  <2>1. F[v.key] = EntryOf(v) BY <1>4, <1>5, <1>10 DEF EntryOf
  <2>2. DOMAIN F = (DOMAIN E \ {h.slots[i].key}) \cup {v.key} BY <1>5, <1>10
  <2>3. \A j \in DOMAIN E : j # h.slots[i].key /\ j # v.key => F[j] = E[j] BY <1>5, <1>10
  <2>4. F = [j \in DOMAIN F |-> F[j]] BY <1>10
  <2> HIDE DEF E
  <2>5. EntryMoved(F, E, h.slots[i].key, v) BY <2>1, <2>2, <2>3, <2>4 DEF EntryMoved
  <2> QED BY <1>0, <1>2, <1>12, <2>5, ChangedHolds
<1>16. HeapShape(g, n) /\ 1 \in 1 .. n BY <1>3, <1>12 DEF Changed
<1>17. Sifted(SiftDown(g, 1), g, n) BY <1>14, <1>16, SiftDownIs
<1>18. HoldsOrdered(SiftDown(g, 1), n, F) BY <1>15, <1>17, SiftedHolds
<1> QED BY <1>1, <1>18 DEF F

(* add, whichever way it goes. *)
LEMMA HeapAddIs ==
  ASSUME NEW h, NEW n, NEW s, HoldsOrdered(h, n, s.entries), SummaryShape(s), NEW k \in Keys, NEW w \in Nat
  PROVE  \E m : HoldsOrdered(HeapAdd(h, k, w), m, AddKey(s, k, w).entries)
<1> DEFINE E == s.entries
           min == MinimumCount(s)
           rest == [j \in Tracked(s) \ {MinimumSlot(s)} |-> s.entries[j]]
           F == AddKey(s, k, w).entries
<1>0. Holds(h, n, E) /\ HeapShape(h, n) /\ InOrder(h, n) BY DEF HoldsOrdered, Holds
<1>1. n \in Nat /\ Cardinality(DOMAIN E) = n /\ Len(h.slots) = n /\ Tracked(s) = DOMAIN E
      /\ DOMAIN E = {h.slots[j].key : j \in 1 .. n}
  BY <1>0, HoldsType DEF Tracked
<1>2. F = IF k \in Tracked(s) THEN [s.entries EXCEPT ![k].count = @ + w]
          ELSE IF ~Full(s) THEN WithEntry(s.entries, k, [count |-> w, error |-> 0])
               ELSE WithEntry(rest, k, [count |-> min + w, error |-> min])
  BY DEF AddKey
<1>3. FindSlot(h, k) = {i \in 1 .. n : h.slots[i].key = k} BY <1>0, FindSlotIs
<1>4. CASE k \in Tracked(s)
  <2>1. F = [E EXCEPT ![k].count = @ + w] BY <1>2, <1>4
  <2>2. HoldsOrdered(HeapAdd(h, k, w), n, [E EXCEPT ![k].count = @ + w]) BY <1>1, <1>4, HeapRaise
  <2> HIDE DEF F
  <2> QED BY <2>1, <2>2 DEF F
<1>5. CASE k \notin Tracked(s) /\ n < Capacity
  <2>1. FindSlot(h, k) = {} /\ ~Full(s) BY <1>1, <1>3, <1>5, SummaryAssumption DEF Full
  <2>2. F = WithEntry(E, k, [count |-> w, error |-> 0]) BY <1>2, <1>5, <2>1
  <2>3. HeapAdd(h, k, w) = InsertEntry(h, k, [count |-> w, error |-> 0])
    BY <1>1, <1>5, <2>1, Zenon DEF HeapAdd
  <2> DEFINE e == [count |-> w, error |-> 0]
  <2>4. e \in Entry BY DEF Entry
  <2> HIDE DEF e
  <2>5. HoldsOrdered(InsertEntry(h, k, e), n + 1, WithEntry(E, k, e)) BY <1>1, <1>5, <2>4, InsertEntryIs
  <2> HIDE DEF F
  <2> QED BY <2>2, <2>3, <2>5 DEF e, F
<1>6. CASE k \notin Tracked(s) /\ ~(n < Capacity)
  <2>1. FindSlot(h, k) = {} BY <1>1, <1>3, <1>6
  <2>2. Full(s) /\ n >= 1 BY <1>1, <1>6, SummaryAssumption DEF Full
  <2>3. F = WithEntry(rest, k, [count |-> min + w, error |-> min]) BY <1>2, <1>6, <2>2
  <2>4. MinimumCount(s) = h.slots[h.heap[1]].count /\ At(h, 1) \in HeapSlot BY <2>2, RootIsMinimum DEF At
  <2>5. HeapAdd(h, k, w) = ReplaceMin(h, k, [count |-> min + w, error |-> min])
    BY <1>1, <1>6, <2>1, <2>4, Zenon DEF HeapAdd
  <2>6. min \in Nat BY <2>4 DEF At, HeapSlot
  <2> DEFINE e == [count |-> min + w, error |-> min]
  <2>7. e \in Entry BY <2>6 DEF Entry
  <2>8. rest = [j \in Tracked(s) \ {MinimumSlot(s)} |-> s.entries[j]] OBVIOUS
  <2> HIDE DEF e, rest
  <2>9. HoldsOrdered(ReplaceMin(h, k, e), n, WithEntry(rest, k, e)) BY <1>6, <2>2, <2>7, <2>8, ReplaceMinIs
  <2> HIDE DEF F
  <2> QED BY <2>3, <2>5, <2>9 DEF e, F
<1> QED BY <1>4, <1>5, <1>6

(* An empty heap holds no entries. *)
LEMMA EmptyHolds ==
  ASSUME NEW E, E = [k \in DOMAIN E |-> E[k]], DOMAIN E = {}
  PROVE  HoldsOrdered(EmptyHeap, 0, E)
<1> DEFINE h == EmptyHeap
           x == [d \in Range(Digest) |-> {}]
<1>1. h.slots = <<>> /\ h.heap = <<>> /\ h.index = x
      /\ h = [slots |-> h.slots, heap |-> h.heap, index |-> h.index]
  BY DEF EmptyHeap
<1>2. <<>> \in [1 .. 0 -> HeapSlot] /\ <<>> \in [1 .. 0 -> 1 .. 0]
  <2>1. <<>> \in Seq(HeapSlot) /\ <<>> \in Seq(1 .. 0) /\ Len(<<>>) = 0 OBVIOUS
  <2> QED BY <2>1, LenProperties
<1>3. \A i : i \notin 1 .. 0 OBVIOUS
<1>4. x = [d \in Range(Digest) |-> {i \in 1 .. 0 : Digest[h.slots[i].key] = d}]
  <2>1. \A d : {i \in 1 .. 0 : Digest[h.slots[i].key] = d} = {} BY <1>3
  <2> QED BY <2>1
<1> HIDE DEF h, x
<1>5. h.slots \in [1 .. 0 -> HeapSlot] /\ h.heap \in [1 .. 0 -> 1 .. 0] BY <1>1, <1>2
<1>6. h.index = [d \in Range(Digest) |-> {i \in 1 .. 0 : Digest[h.slots[i].key] = d}] BY <1>1, <1>4
<1>7. HeapShape(h, 0)
  <2>1. 0 \in Nat OBVIOUS
  <2> QED BY <1>1, <1>3, <1>5, <1>6, <2>1, Zenon DEF HeapShape
<1>8. DOMAIN E = {h.slots[i].key : i \in 1 .. 0} BY <1>3
<1>9. InOrder(h, 0) BY DEF InOrder
<1>10. Holds(h, 0, E) BY <1>3, <1>7, <1>8, Zenon DEF Holds
<1> QED BY <1>9, <1>10 DEF HoldsOrdered, h

(* What is filled in, for each set of places of the keys. *)
AreFills(g, E, key, n) ==
  g = [t \in SUBSET (1 .. n) |->
         IF t = {} THEN EmptyHeap ELSE InsertEntry(g[t \ {Max(t)}], key[Max(t)], E[key[Max(t)]])]

(* There is such a table. *)
LEMMA FillsExist ==
  ASSUME NEW E, NEW key, NEW n \in Nat
  PROVE  \E g : AreFills(g, E, key, n)
<1> DEFINE P == {m \in 0 .. n : \E g : AreFills(g, E, key, m)}
           S(g, t) == InsertEntry(g[t \ {Max(t)}], key[Max(t)], E[key[Max(t)]])
<1>1. 0 \in P
  <2> DEFINE g == [t \in SUBSET (1 .. 0) |-> EmptyHeap]
  <2>1. \A t \in SUBSET (1 .. 0) : t = {} OBVIOUS
  <2>2. g = [t \in SUBSET (1 .. 0) |-> IF t = {} THEN EmptyHeap ELSE S(g, t)] BY <2>1
  <2>3. AreFills(g, E, key, 0) BY <2>2, Zenon DEF AreFills
  <2>4. 0 \in 0 .. n OBVIOUS
  <2> HIDE DEF g
  <2> QED BY <2>3, <2>4
<1>2. ASSUME NEW m \in 1 .. n, m - 1 \in P PROVE m \in P
  <2>1. PICK g : AreFills(g, E, key, m - 1) BY <1>2
  <2> DEFINE h == [t \in SUBSET (1 .. m) |->
                     IF m \in t THEN InsertEntry(g[t \ {m}], key[m], E[key[m]]) ELSE g[t]]
  <2>2. \A t \in SUBSET (1 .. m - 1) : g[t] = IF t = {} THEN EmptyHeap ELSE S(g, t)
    BY <2>1, Zenon DEF AreFills
  <2>0. m \in Nat \ {0} /\ m - 1 \in Nat /\ \A t \in SUBSET (1 .. m - 1) : t \in SUBSET (1 .. m) /\ m \notin t OBVIOUS
  <2>a. \A t \in SUBSET (1 .. m) : m \notin t => t \in SUBSET (1 .. m - 1) OBVIOUS
  <2>3. ASSUME NEW t \in SUBSET (1 .. m) PROVE h[t] = IF t = {} THEN EmptyHeap ELSE S(h, t)
    <3>1. CASE m \in t
      <4>1. Max(t) = m BY <2>0, <3>1, MaxOfInitial
      <4>2. t \ {m} \in SUBSET (1 .. m) /\ m \notin t \ {m} OBVIOUS
      <4>3. h[t] = InsertEntry(g[t \ {m}], key[m], E[key[m]]) /\ h[t \ {m}] = g[t \ {m}] BY <3>1, <4>2
      <4> HIDE DEF h
      <4> QED BY <3>1, <4>1, <4>3
    <3>2. CASE m \notin t
      <4>1. t \in SUBSET (1 .. m - 1) /\ h[t] = g[t] BY <2>a, <3>2
      <4>2. CASE t = {}
        <5> HIDE DEF h
        <5> QED BY <2>2, <4>1, <4>2
      <4>3. CASE t # {}
        <5>1. Max(t) \in t BY <4>3, MaxIn
        <5>2. t \ {Max(t)} \in SUBSET (1 .. m) /\ m \notin t \ {Max(t)} BY <3>2
        <5>3. h[t \ {Max(t)}] = g[t \ {Max(t)}] BY <5>2
        <5> HIDE DEF h
        <5> QED BY <2>2, <4>1, <4>3, <5>3
      <4> QED BY <4>2, <4>3
    <3> QED BY <3>1, <3>2
  <2>4. h = [t \in SUBSET (1 .. m) |-> h[t]] OBVIOUS
  <2> HIDE DEF h
  <2>5. [t \in SUBSET (1 .. m) |-> h[t]] = [t \in SUBSET (1 .. m) |-> IF t = {} THEN EmptyHeap ELSE S(h, t)]
    BY <2>3
  <2>6. AreFills(h, E, key, m) BY <2>4, <2>5, Zenon DEF AreFills
  <2> QED BY <2>6
<1> HIDE DEF P
<1>3. \A m \in 0 .. n : m \in P BY <1>1, <1>2, UpTo
<1>4. n \in P BY <1>3
<1> QED BY <1>4 DEF P

(* The numbers up to m, without m. *)
LEMMA Initials ==
  ASSUME NEW n \in Nat, NEW m \in 1 .. n
  PROVE  /\ 1 .. m \in SUBSET (1 .. n) /\ m \in 1 .. m /\ 1 .. m # {} /\ m \in Nat \ {0}
         /\ (1 .. m) \ {m} = 1 .. m - 1
OBVIOUS

(* Filling an empty heap with the entries of distinct keys. *)
LEMMA FillHeapIs ==
  ASSUME NEW D \in SUBSET Keys, NEW E, E \in [D -> Entry], NEW n \in Nat, NEW key, Enumerates(key, n, D),
         \A i, j \in 1 .. n : key[i] = key[j] => i = j
  PROVE  HoldsOrdered(FillHeap(E, key), n, E)
<1> DEFINE Part(m) == [k \in {key[i] : i \in 1 .. m} |-> E[k]]
           G == CHOOSE g : AreFills(g, E, key, n)
<1>0. key \in [1 .. n -> D] /\ (\A k \in D : \E i \in 1 .. n : key[i] = k) /\ DOMAIN key = 1 .. n
  BY DEF Enumerates
<1>1. FillHeap(E, key) = G[1 .. n]
  <2>1. FillHeap(E, key) = (CHOOSE g : g = [t \in SUBSET DOMAIN key |->
           IF t = {} THEN EmptyHeap ELSE InsertEntry(g[t \ {Max(t)}], key[Max(t)], E[key[Max(t)]])])[DOMAIN key]
    BY Zenon DEF FillHeap, FoldLeft, MapThenFoldSet
  <2> QED BY <1>0, <2>1, Zenon DEF AreFills
<1>2. AreFills(G, E, key, n)
  <2>1. \E g : AreFills(g, E, key, n) BY FillsExist
  <2> QED BY <2>1, Zenon
<1> HIDE DEF G
<1>3. \A t \in SUBSET (1 .. n) :
        G[t] = IF t = {} THEN EmptyHeap ELSE InsertEntry(G[t \ {Max(t)}], key[Max(t)], E[key[Max(t)]])
  BY <1>2, Zenon DEF AreFills
<1> DEFINE P == {m \in 0 .. n : HoldsOrdered(G[1 .. m], m, Part(m))}
<1>4. 0 \in P
  <2>1. 1 .. 0 = {} /\ {} \in SUBSET (1 .. n) /\ 0 \in 0 .. n OBVIOUS
  <2>2. G[1 .. 0] = EmptyHeap BY <1>3, <2>1
  <2> DEFINE F == Part(0)
  <2>3. DOMAIN F = {} /\ F = [k \in DOMAIN F |-> F[k]] BY <2>1
  <2> HIDE DEF F
  <2>4. HoldsOrdered(EmptyHeap, 0, F) BY <2>3, EmptyHolds
  <2> QED BY <2>1, <2>2, <2>4 DEF F
<1>5. ASSUME NEW m \in 1 .. n, m - 1 \in P PROVE m \in P
  <2>1. /\ 1 .. m \in SUBSET (1 .. n) /\ m \in 1 .. m /\ 1 .. m # {} /\ m \in Nat \ {0}
        /\ (1 .. m) \ {m} = 1 .. m - 1
    BY Initials
  <2>2. Max(1 .. m) = m BY <2>1, MaxOfInitial
  <2> DEFINE u == 1 .. m
             l == m - 1
             k == key[m]
             e == E[k]
             H == G[1 .. l]
             F == Part(l)
  <2>3. u \in SUBSET (1 .. n) /\ u # {} /\ Max(u) = m /\ u \ {m} = 1 .. l BY <2>1, <2>2
  <2> HIDE DEF u
  <2>4. G[u] = InsertEntry(G[u \ {Max(u)}], key[Max(u)], E[key[Max(u)]]) BY <1>3, <2>3, Zenon
  <2>5. G[1 .. m] = InsertEntry(H, k, e) BY <2>3, <2>4, Zenon DEF u
  <2>6. HoldsOrdered(H, l, F) BY <1>5
  <2>7. k \in D /\ k \in Keys /\ e \in Entry BY <1>0
  <2>8. k \notin DOMAIN F
    <3>1. \A i \in 1 .. l : i \in 1 .. n /\ i # m OBVIOUS
    <3>2. \A i \in 1 .. l : key[i] # k BY <3>1
    <3> QED BY <3>2
  <2>9. WithEntry(F, k, e) = Part(m)
    <3>1. DOMAIN F \cup {k} = {key[i] : i \in 1 .. m}
      <4>1. \A i : i \in 1 .. m <=> (i \in 1 .. l \/ i = m) OBVIOUS
      <4>2. DOMAIN F = {key[i] : i \in 1 .. l} OBVIOUS
      <4> HIDE DEF F, l
      <4> QED BY <4>1, <4>2
    <3>2. \A j \in DOMAIN F : F[j] = E[j] OBVIOUS
    <3>3. WithEntry(F, k, e) = [j \in DOMAIN F \cup {k} |-> IF j = k THEN e ELSE F[j]] BY DEF WithEntry
    <3> HIDE DEF F
    <3>4. WithEntry(F, k, e) = [j \in DOMAIN F \cup {k} |-> E[j]] BY <3>2, <3>3
    <3> QED BY <3>1, <3>4
  <2>10. m = l + 1 /\ m \in 0 .. n OBVIOUS
  <2> HIDE DEF F, H, k, e, l
  <2>11. HoldsOrdered(InsertEntry(H, k, e), l + 1, WithEntry(F, k, e)) BY <2>6, <2>7, <2>8, InsertEntryIs
  <2>12. HoldsOrdered(InsertEntry(H, k, e), m, WithEntry(F, k, e)) BY <2>10, <2>11, Zenon
  <2> QED BY <2>5, <2>9, <2>10, <2>12, Zenon
<1> HIDE DEF P
<1>6. \A m \in 0 .. n : m \in P BY <1>4, <1>5, UpTo
<1>7. HoldsOrdered(G[1 .. n], n, Part(n)) BY <1>6 DEF P
<1>8. Part(n) = E
  <2>1. {key[i] : i \in 1 .. n} = D BY <1>0
  <2> QED BY <2>1
<1> QED BY <1>1, <1>7, <1>8, Zenon

HasRanks(key, n, R, D) ==
  /\ key = [i \in 1 .. n |-> key[i]]
  /\ \A i \in 1 .. n : key[i] \in D /\ Cardinality(Above(R, D, key[i])) = i - 1

EachOnce(key, n, D) == Enumerates(key, n, D) /\ \A i, j \in 1 .. n : key[i] = key[j] => i = j

(* One key for each rank, in order, are all the keys and each once. *)
LEMMA RankedKeys ==
  ASSUME NEW D, IsFiniteSet(D), NEW R, StrictOrder(R, D), NEW n, n = Cardinality(D),
         NEW key, HasRanks(key, n, R, D)
  PROVE  EachOnce(key, n, D)
<1> DEFINE rank(k) == Cardinality(Above(R, D, k))
<1>0. n \in Nat BY FS_CardinalityType
<1>1. /\ \A k \in D : rank(k) \in 0 .. n - 1
      /\ \A j, k \in D : <<j, k>> \in R => rank(j) < rank(k)
  BY RankRises
<1>2. \A j, k \in D : j # k => (<<j, k>> \in R \/ <<k, j>> \in R) BY DEF StrictOrder
<1>3. \A i \in 1 .. n : key[i] \in D /\ rank(key[i]) = i - 1 BY DEF HasRanks
<1> HIDE DEF rank
<1>4. ASSUME NEW i \in 1 .. n, NEW j \in 1 .. n, key[i] = key[j] PROVE i = j
  <2>1. i - 1 = j - 1 BY <1>3, <1>4
  <2> QED BY <1>0, <2>1
<1>5. ASSUME NEW k \in D PROVE \E i \in 1 .. n : key[i] = k
  <2> DEFINE i == rank(k) + 1
  <2>1. rank(k) \in 0 .. n - 1 BY <1>1
  <2>2. i \in 1 .. n /\ i - 1 = rank(k) BY <1>0, <2>1
  <2>3. key[i] \in D /\ rank(key[i]) = i - 1 BY <1>3, <2>2
  <2>4. key[i] = k
    <3> SUFFICES ASSUME key[i] # k PROVE FALSE OBVIOUS
    <3>1. rank(key[i]) = rank(k) BY <2>2, <2>3
    <3>2. rank(key[i]) < rank(k) \/ rank(k) < rank(key[i]) BY <1>1, <1>2, <2>3
    <3> HIDE DEF i
    <3> QED BY <2>1, <3>1, <3>2
  <2> QED BY <2>2, <2>4
<1>6. key \in [1 .. n -> D] BY <1>3 DEF HasRanks
<1> QED BY <1>4, <1>5, <1>6 DEF Enumerates, EachOnce

(* A merge fills the heap in the order of the counts. *)
LEMMA RankedByCount ==
  ASSUME NEW E, NEW D \in SUBSET Keys, IsFiniteSet(D), \A k \in D : E[k] \in Entry,
         E = [k \in D |-> E[k]]
  PROVE  HoldsOrdered(FillHeap(E, Ranked(D, LAMBDA j, k : Outranks(E, j, k))), Cardinality(D), E)
<1> DEFINE R == {p \in D \X D : Outranks(E, p[1], p[2])}
           n == Cardinality(D)
           key == Ranked(D, LAMBDA j, k : Outranks(E, j, k))
<1>1. \A k \in D : E[k].count \in Nat BY DEF Entry
<1>2. /\ StrictOrder(R, D) /\ \A a, b \in D : <<a, b>> \in R <=> Outranks(E, a, b)
      /\ \A k \in D : Above(R, D, k) = {j \in D : Outranks(E, j, k)}
  BY <1>1, OutranksOrder, Zenon
<1> HIDE DEF R
<1> DEFINE C(k) == Cardinality({j \in D : Outranks(E, j, k)})
<1>3. key = [i \in 1 .. n |-> CHOOSE k \in D : C(k) = i - 1] BY Zenon DEF Ranked
<1>4. \A i \in 0 .. n - 1 : \E k \in D : Cardinality(Above(R, D, k)) = i BY <1>2, RanksFill
<1>a. \A k \in D : Cardinality(Above(R, D, k)) = C(k) BY <1>2, Zenon
<1>0. n \in Nat BY FS_CardinalityType
<1> HIDE DEF key, n, C
<1>5. ASSUME NEW i \in 1 .. n PROVE key[i] \in D /\ Cardinality(Above(R, D, key[i])) = i - 1
  <2>1. i - 1 \in 0 .. n - 1 BY <1>0
  <2>2. PICK k \in D : Cardinality(Above(R, D, k)) = i - 1 BY <1>4, <2>1
  <2>3. C(k) = i - 1 BY <1>a, <2>2
  <2>4. key[i] = CHOOSE l \in D : C(l) = i - 1 BY <1>3
  <2>5. key[i] \in D /\ C(key[i]) = i - 1 BY <2>3, <2>4, Zenon
  <2> QED BY <1>a, <2>5
<1>6. key = [i \in 1 .. n |-> key[i]]
  <2> DEFINE V(i) == CHOOSE k \in D : C(k) = i - 1
  <2>1. key = [i \in 1 .. n |-> V(i)] BY <1>3
  <2> HIDE DEF V
  <2> QED BY <2>1
<1>b. n = Cardinality(D) BY DEF n
<1>c. HasRanks(key, n, R, D) BY <1>5, <1>6, Zenon DEF HasRanks
<1>7. EachOnce(key, n, D) BY <1>2, <1>b, <1>c, RankedKeys
<1>8. E \in [D -> Entry] OBVIOUS
<1>9. HoldsOrdered(FillHeap(E, key), n, E) BY <1>0, <1>7, <1>8, FillHeapIs DEF EachOnce
<1> QED BY <1>9 DEF key, n

(* from_snapshot fills it in key order. *)
LEMMA RankedByKey ==
  ASSUME NEW E, NEW D \in SUBSET Keys, IsFiniteSet(D), \A k \in D : E[k] \in Entry,
         E = [k \in D |-> E[k]]
  PROVE  HoldsOrdered(FillHeap(E, Ranked(D, LAMBDA j, k : j < k)), Cardinality(D), E)
<1> DEFINE R == {p \in D \X D : p[1] < p[2]}
           n == Cardinality(D)
           key == Ranked(D, LAMBDA j, k : j < k)
<1>1. \A k \in D : k \in Nat BY KeysAssumption
<1>2. StrictOrder(R, D) /\ \A k \in D : Above(R, D, k) = {j \in D : j < k}
  <2>1. \A a, b \in D : <<a, b>> \in R <=> a < b OBVIOUS
  <2> HIDE DEF R
  <2>2. StrictOrder(R, D) BY <1>1, <2>1 DEF StrictOrder
  <2> QED BY <2>1, <2>2 DEF Above
<1> HIDE DEF R
<1> DEFINE C(k) == Cardinality({j \in D : j < k})
<1>3. key = [i \in 1 .. n |-> CHOOSE k \in D : C(k) = i - 1] BY Zenon DEF Ranked
<1>4. \A i \in 0 .. n - 1 : \E k \in D : Cardinality(Above(R, D, k)) = i BY <1>2, RanksFill
<1>a. \A k \in D : Cardinality(Above(R, D, k)) = C(k) BY <1>2, Zenon
<1>0. n \in Nat BY FS_CardinalityType
<1> HIDE DEF key, n, C
<1>5. ASSUME NEW i \in 1 .. n PROVE key[i] \in D /\ Cardinality(Above(R, D, key[i])) = i - 1
  <2>1. i - 1 \in 0 .. n - 1 BY <1>0
  <2>2. PICK k \in D : Cardinality(Above(R, D, k)) = i - 1 BY <1>4, <2>1
  <2>3. C(k) = i - 1 BY <1>a, <2>2
  <2>4. key[i] = CHOOSE l \in D : C(l) = i - 1 BY <1>3
  <2>5. key[i] \in D /\ C(key[i]) = i - 1 BY <2>3, <2>4, Zenon
  <2> QED BY <1>a, <2>5
<1>6. key = [i \in 1 .. n |-> key[i]]
  <2> DEFINE V(i) == CHOOSE k \in D : C(k) = i - 1
  <2>1. key = [i \in 1 .. n |-> V(i)] BY <1>3
  <2> HIDE DEF V
  <2> QED BY <2>1
<1>b. n = Cardinality(D) BY DEF n
<1>c. HasRanks(key, n, R, D) BY <1>5, <1>6, Zenon DEF HasRanks
<1>7. EachOnce(key, n, D) BY <1>2, <1>b, <1>c, RankedKeys
<1>8. E \in [D -> Entry] OBVIOUS
<1>9. HoldsOrdered(FillHeap(E, key), n, E) BY <1>0, <1>7, <1>8, FillHeapIs DEF EachOnce
<1> QED BY <1>9 DEF key, n

Keeps(h, E) == \E n : HoldsOrdered(h, n, E)

(* A heap charges a key what its summary does. *)
LEMMA HeapChargedIs ==
  ASSUME NEW h, NEW s, Keeps(h, s.entries), SummaryShape(s), NEW k \in Keys
  PROVE  HeapCharged(h, k) = Charged(s, k) /\ (FindSlot(h, k) = {} <=> k \notin Tracked(s))
<1>0. PICK n : HoldsOrdered(h, n, s.entries) BY DEF Keeps
<1>1. Holds(h, n, s.entries) /\ HeapShape(h, n) BY <1>0 DEF HoldsOrdered, Holds
<1>2. n \in Nat /\ Cardinality(Tracked(s)) = n /\ Len(h.slots) = n
      /\ Tracked(s) = {h.slots[j].key : j \in 1 .. n}
  BY <1>1, HoldsType DEF Tracked
<1>3. FindSlot(h, k) = {i \in 1 .. n : h.slots[i].key = k} BY <1>1, FindSlotIs
<1>4. FindSlot(h, k) = {} <=> k \notin Tracked(s) BY <1>2, <1>3
<1>5. CASE k \in Tracked(s)
  <2> DEFINE i == CHOOSE i \in FindSlot(h, k) : TRUE
  <2>1. i \in FindSlot(h, k) BY <1>4, <1>5, Zenon
  <2>2. HeapCharged(h, k) = [count |-> h.slots[i].count, error |-> h.slots[i].error]
    BY <1>4, <1>5, Zenon DEF HeapCharged
  <2> HIDE DEF i
  <2>3. s.entries[k] = EntryOf(h.slots[i]) BY <1>1, <1>3, <2>1 DEF Holds, EntryOf
  <2>4. Charged(s, k) = s.entries[k] BY <1>5 DEF Charged
  <2> QED BY <1>4, <2>2, <2>3, <2>4 DEF EntryOf
<1>6. CASE k \notin Tracked(s)
  <2> DEFINE min == IF Len(h.slots) >= Capacity THEN h.slots[h.heap[1]].count ELSE 0
  <2>1. HeapCharged(h, k) = [count |-> min, error |-> min] BY <1>4, <1>6, Zenon DEF HeapCharged
  <2>2. min = Unseen(s)
    <3>1. CASE n >= Capacity
      <4>1. n >= 1 BY <1>2, <3>1, SummaryAssumption
      <4>2. MinimumCount(s) = h.slots[h.heap[1]].count BY <1>0, <4>1, RootIsMinimum DEF At
      <4> QED BY <1>2, <3>1, <4>2 DEF Unseen, Full
    <3>2. CASE ~(n >= Capacity) BY <1>2, <3>2 DEF Unseen, Full
    <3> QED BY <3>1, <3>2
  <2> HIDE DEF min
  <2>3. Charged(s, k) = [count |-> Unseen(s), error |-> Unseen(s)] BY <1>6 DEF Charged
  <2> QED BY <1>4, <2>1, <2>2, <2>3
<1> QED BY <1>5, <1>6

(* The walk over the slots of two heaps gives the union of their summaries.*)
LEMMA HeapUnionIs ==
  ASSUME NEW h, NEW g, NEW s, NEW o, Keeps(h, s.entries), Keeps(g, o.entries),
         SummaryShape(s), SummaryShape(o)
  PROVE  HeapUnion(h, g) = Summed(s, o)
<1>1. HeapEntries(h) = s.entries /\ HeapEntries(g) = o.entries
  <2>1. PICK n : HoldsOrdered(h, n, s.entries) BY DEF Keeps
  <2>2. PICK m : HoldsOrdered(g, m, o.entries) BY DEF Keeps
  <2> QED BY <2>1, <2>2, EntriesAre DEF HoldsOrdered
<1> DEFINE Plus(e, f) == [count |-> e.count + f.count, error |-> e.error + f.error]
           A(k) == IF k \in Tracked(s) THEN Plus(s.entries[k], HeapCharged(g, k))
                                       ELSE Plus(HeapCharged(h, k), o.entries[k])
           B(k) == Plus(Charged(s, k), Charged(o, k))
           T == Tracked(s) \cup {k \in Tracked(o) : FindSlot(h, k) = {}}
           U == Tracked(s) \cup Tracked(o)
<1>2. HeapUnion(h, g) = [k \in T |-> A(k)] BY <1>1, Zenon DEF HeapUnion, Tracked
<1>3. Summed(s, o) = [k \in U |-> B(k)] BY Zenon DEF Summed
<1>4. U \subseteq Keys BY DEF SummaryShape
<1>5. \A k \in Keys : /\ HeapCharged(h, k) = Charged(s, k) /\ HeapCharged(g, k) = Charged(o, k)
                      /\ FindSlot(h, k) = {} <=> k \notin Tracked(s)
  BY HeapChargedIs
<1>6. T = U BY <1>4, <1>5
<1>7. ASSUME NEW k \in U PROVE A(k) = B(k)
  <2>0. k \in Keys BY <1>4
  <2>1. CASE k \in Tracked(s)
    <3>1. A(k) = Plus(s.entries[k], HeapCharged(g, k)) BY <2>1, Zenon
    <3>2. Charged(s, k) = s.entries[k] BY <2>1 DEF Charged
    <3> HIDE DEF A
    <3> QED BY <1>5, <2>0, <3>1, <3>2, Zenon
  <2>2. CASE k \notin Tracked(s)
    <3>1. A(k) = Plus(HeapCharged(h, k), o.entries[k]) BY <2>2, Zenon
    <3>2. Charged(o, k) = o.entries[k] BY <1>7, <2>2 DEF Charged
    <3> HIDE DEF A
    <3> QED BY <1>5, <2>0, <3>1, <3>2, Zenon
  <2> QED BY <2>1, <2>2
<1> HIDE DEF A, B, T, U
<1> QED BY <1>2, <1>3, <1>6, <1>7

(* A merge of heaps holds the merge of their summaries. *)
LEMMA HeapMergeIs ==
  ASSUME NEW h, NEW g, NEW s, NEW o, Keeps(h, s.entries), Keeps(g, o.entries),
         SummaryShape(s), SummaryShape(o), NEW M, M = MergeSummaries(s, o), SummaryShape(M)
  PROVE  Keeps(HeapMerge(h, g), M.entries)
<1> DEFINE E == M.entries
           D == DOMAIN E
           Kept(a) == {k \in DOMAIN a : Cardinality({j \in DOMAIN a : Outranks(a, j, k)}) < Capacity}
           Best(a) == [k \in Kept(a) |-> a[k]]
           Filled(d, e) == FillHeap(e, Ranked(d, LAMBDA j, k : Outranks(e, j, k)))
<1>1. HeapUnion(h, g) = Summed(s, o) BY HeapUnionIs
<1>2. E = Best(Summed(s, o)) BY DEF MergeSummaries
<1>3. D = Kept(Summed(s, o))
  <2>1. DOMAIN Best(Summed(s, o)) = Kept(Summed(s, o)) BY Zenon
  <2> HIDE DEF E, Best, Kept
  <2> QED BY <1>2, <2>1
<1>4. HeapMerge(h, g) = Filled(Kept(HeapUnion(h, g)), Best(HeapUnion(h, g))) BY Zenon DEF HeapMerge
<1>5. HeapMerge(h, g) = FillHeap(E, Ranked(D, LAMBDA j, k : Outranks(E, j, k)))
  <2>1. Filled(D, E) = FillHeap(E, Ranked(D, LAMBDA j, k : Outranks(E, j, k))) OBVIOUS
  <2>2. HeapMerge(h, g) = Filled(D, E)
    <3> HIDE DEF Filled, E, D, Kept, Best
    <3> QED BY <1>1, <1>2, <1>3, <1>4
  <2> QED BY <2>1, <2>2, Zenon
<1>6. D \in SUBSET Keys /\ IsFiniteSet(D) /\ (\A k \in D : E[k] \in Entry) /\ E = [k \in D |-> E[k]]
  BY DEF SummaryShape, Tracked
<1> HIDE DEF E, D
<1>7. HoldsOrdered(FillHeap(E, Ranked(D, LAMBDA j, k : Outranks(E, j, k))), Cardinality(D), E)
  BY <1>6, RankedByCount
<1> QED BY <1>5, <1>7, Zenon DEF Keeps, E

(* A heap built from a snapshot holds what was written. *)
LEMMA HeapRestoreIs ==
  ASSUME NEW h, NEW E, Keeps(h, E)
  PROVE  Keeps(HeapRestore(h), E)
<1> DEFINE D == DOMAIN E
<1>1. PICK n : HoldsOrdered(h, n, E) BY DEF Keeps
<1>2. HeapEntries(h) = E BY <1>1, EntriesAre DEF HoldsOrdered
<1>3. D \in SUBSET Keys /\ IsFiniteSet(D) /\ (\A k \in D : E[k] \in Entry) /\ E = [k \in D |-> E[k]]
  <2>1. Holds(h, n, E) BY <1>1 DEF HoldsOrdered
  <2> QED BY <2>1, HoldsType DEF Holds
<1>4. HeapRestore(h) = FillHeap(E, Ranked(D, LAMBDA j, k : j < k)) BY <1>2, Zenon DEF HeapRestore
<1> HIDE DEF D
<1>5. HoldsOrdered(FillHeap(E, Ranked(D, LAMBDA j, k : j < k)), Cardinality(D), E) BY <1>3, RankedByKey
<1> QED BY <1>4, <1>5, Zenon DEF Keeps

(* An update keeps the heap in step with the summary. *)
LEMMA HeapAddKeeps ==
  ASSUME NEW h, NEW s, Keeps(h, s.entries), SummaryShape(s), NEW k \in Keys, NEW w \in Nat
  PROVE  Keeps(HeapAdd(h, k, w), AddKey(s, k, w).entries)
<1>1. PICK n : HoldsOrdered(h, n, s.entries) BY DEF Keeps
<1> QED BY <1>1, HeapAddIs DEF Keeps

(* Nothing holds nothing. *)
LEMMA EmptyKeeps == Keeps(EmptyHeap, EmptySummary.entries)
<1> DEFINE E == EmptySummary.entries
<1>1. DOMAIN E = {} /\ E = [k \in DOMAIN E |-> E[k]] BY DEF EmptySummary
<1> HIDE DEF E
<1> QED BY <1>1, EmptyHolds DEF Keeps, E

(* The heap of each replica holds its summary. *)
HeapInv ==
  /\ heap = [r \in Replica |-> heap[r]]
  /\ \A r \in Replica : Keeps(heap[r], space[r].entries)

(* A step that replaces the summary and the heap of one replica. *)
LEMMA HeapReplace ==
  ASSUME HeapInv, SpaceInv, NEW q \in Replica, NEW s, NEW h, Keeps(h, s.entries),
         space' = [space EXCEPT ![q] = s], heap' = [heap EXCEPT ![q] = h]
  PROVE  HeapInv'
<1>1. DOMAIN space = Replica /\ DOMAIN heap = Replica BY DEF SpaceInv, HeapInv
<1>2. heap' = [r \in Replica |-> heap'[r]] BY <1>1
<1>3. ASSUME NEW r \in Replica PROVE Keeps(heap'[r], space'[r].entries)
  <2>1. CASE r = q
    <3>1. space'[r] = s /\ heap'[r] = h BY <1>1, <2>1
    <3> QED BY <3>1
  <2>2. CASE r # q
    <3>1. space'[r] = space[r] /\ heap'[r] = heap[r] BY <1>1, <2>2
    <3> QED BY <3>1 DEF HeapInv
  <2> QED BY <2>1, <2>2
<1> QED BY <1>2, <1>3 DEF HeapInv

(* Every step keeps the heaps in step with the summaries. *)
LEMMA HeapStep ==
  ASSUME ExactInv, SpaceInv, HeapInv, Next
  PROVE  HeapInv'
<1>0. \A r \in Replica : SummaryShape(space[r]) /\ Keeps(heap[r], space[r].entries)
  BY DEF SpaceInv, HeapInv, SummaryGood
<1>1. CASE \E r \in Replica, k \in Keys : \E w \in Weights[k] : UpdateCounts(r, k, w)
  <2>1. PICK r \in Replica, k \in Keys : \E w \in Weights[k] : UpdateCounts(r, k, w) BY <1>1
  <2>2. PICK w \in Weights[k] : UpdateCounts(r, k, w) BY <2>1
  <2>3. w \in Nat BY SketchesAssumption
  <2> DEFINE s == AddKey(space[r], k, w)
             h == HeapAdd(heap[r], k, w)
  <2>4. space' = [space EXCEPT ![r] = s] /\ heap' = [heap EXCEPT ![r] = h] BY <2>2 DEF UpdateCounts
  <2>5. Keeps(h, s.entries) BY <1>0, <2>3, HeapAddKeeps
  <2> HIDE DEF s, h
  <2> QED BY <2>4, <2>5, HeapReplace
<1>2. CASE \E r, o \in Replica : MergeCounts(r, o)
  <2>1. PICK r \in Replica, o \in Replica : MergeCounts(r, o) BY <1>2
  <2> DEFINE s == MergeSummaries(space[r], space[o])
             h == HeapMerge(heap[r], heap[o])
  <2>2. space' = [space EXCEPT ![r] = s] /\ heap' = [heap EXCEPT ![r] = h] BY <2>1 DEF MergeCounts
  <2>3. SummaryShape(s)
    <3>1. SpaceInv' BY SpaceStep
    <3>2. space'[r] = s
      <4> HIDE DEF s
      <4> QED BY <2>2 DEF SpaceInv
    <3> HIDE DEF s
    <3> QED BY <3>1, <3>2 DEF SpaceInv, SummaryGood
  <2>4. /\ Keeps(heap[r], space[r].entries) /\ Keeps(heap[o], space[o].entries)
        /\ SummaryShape(space[r]) /\ SummaryShape(space[o])
    BY <1>0
  <2>5. s = MergeSummaries(space[r], space[o]) OBVIOUS
  <2> HIDE DEF s
  <2>6. Keeps(h, s.entries) BY <2>3, <2>4, <2>5, HeapMergeIs
  <2> HIDE DEF h
  <2> QED BY <2>2, <2>6, HeapReplace
<1>3. CASE \E r \in Replica : RestoreCounts(r)
  <2>1. PICK r \in Replica : RestoreCounts(r) BY <1>3
  <2> DEFINE s == space[r]
             h == HeapRestore(heap[r])
  <2>2. space' = space /\ heap' = [heap EXCEPT ![r] = h] BY <2>1 DEF RestoreCounts
  <2>3. space' = [space EXCEPT ![r] = s] BY <2>2 DEF SpaceInv
  <2>4. Keeps(h, s.entries) BY <1>0, HeapRestoreIs
  <2> HIDE DEF s, h
  <2> QED BY <2>2, <2>3, <2>4, HeapReplace
<1>4. CASE \E r \in Replica : ResetCounts(r)
  <2>1. PICK r \in Replica : ResetCounts(r) BY <1>4
  <2>2. space' = [space EXCEPT ![r] = EmptySummary] /\ heap' = [heap EXCEPT ![r] = EmptyHeap]
    BY <2>1 DEF ResetCounts
  <2> QED BY <2>2, EmptyKeeps, HeapReplace
<1>5. CASE CountsStay
  <2>1. space' = space /\ heap' = heap BY <1>5 DEF CountsStay, counting
  <2> QED BY <2>1 DEF HeapInv
<1> QED BY CountingCases, <1>1, <1>2, <1>3, <1>4, <1>5

(* A heap that keeps the entries is consistent. *)
LEMMA KeepsConsistent ==
  ASSUME NEW h, NEW E, Keeps(h, E)
  PROVE  HeapConsistent(h) /\ HeapEntries(h) = E
<1>1. PICK n : HoldsOrdered(h, n, E) BY DEF Keeps
<1>2. HeapShape(h, n) /\ InOrder(h, n) /\ Holds(h, n, E) BY <1>1 DEF HoldsOrdered, Holds
<1>3. /\ n \in Nat /\ h.slots \in [1 .. n -> HeapSlot] /\ h.heap \in [1 .. n -> 1 .. n]
      /\ \A i \in 1 .. n : h.slots[i].place \in 1 .. n /\ h.heap[h.slots[i].place] = i
      /\ h.index = [d \in Range(Digest) |-> {i \in 1 .. n : Digest[h.slots[i].key] = d}]
  BY <1>2 DEF HeapShape
<1>4. Len(h.slots) = n /\ Len(h.heap) = n BY <1>3, LenIs
<1>5. DOMAIN h.slots = 1 .. n BY <1>3
<1>6. \A d \in DOMAIN h.index : h.index[d] = {i \in 1 .. n : Digest[h.slots[i].key] = d}
  BY <1>3, Zenon
<1>7. \A a \in 2 .. n : ~HeapIsLess(h, a, a \div 2) BY <1>2 DEF InOrder, Half
<1>8. HeapConsistent(h)
  <2>1. Len(h.heap) = Len(h.slots) BY <1>4
  <2>2. \A i \in DOMAIN h.slots : h.heap[h.slots[i].place] = i BY <1>3, <1>5
  <2>3. \A d \in DOMAIN h.index : h.index[d] = {i \in DOMAIN h.slots : Digest[h.slots[i].key] = d}
    BY <1>5, <1>6, Zenon
  <2>4. \A a \in 2 .. Len(h.heap) : ~HeapIsLess(h, a, a \div 2) BY <1>4, <1>7, Zenon
  <2> QED BY <2>1, <2>2, <2>3, <2>4, Zenon DEF HeapConsistent
<1> QED BY <1>2, <1>8, EntriesAre

(* The slots, the digest index and the binary heap of SpaceSaving hold the *)
(* summary whose error bounds are proved: places and heap stay inverse,    *)
(* every slot is found under its digest, the root is the minimum that is   *)
(* evicted, and sift_up and sift_down restore the order after every update,*)
(* replacement, merge and snapshot, for every capacity and every digest,   *)
(* colliding ones included.                                                *)
THEOREM HeapHoldsTheSummary == Spec => []HeapHoldsSummary
<1> DEFINE Inv == ExactInv /\ SpaceInv /\ HeapInv
<1>1. Init => Inv
  <2> SUFFICES ASSUME Init PROVE Inv OBVIOUS
  <2>1. ExactInv BY TablesInit
  <2>2. SummaryGood(EmptySummary, EmptyExact.counts) BY EmptySummaryGood, EmptyExactIs
  <2>3. SpaceInv BY <2>2 DEF Init, SpaceInv
  <2>4. HeapInv BY EmptyKeeps DEF Init, HeapInv
  <2> QED BY <2>1, <2>3, <2>4
<1>2. Inv /\ [Next]_vars => Inv'
  <2> SUFFICES ASSUME Inv, [Next]_vars PROVE Inv' OBVIOUS
  <2>1. CASE Next BY <2>1, ExactStep, SpaceStep, HeapStep
  <2>2. CASE UNCHANGED vars BY <2>2 DEF vars, counting, ExactInv, SpaceInv, HeapInv
  <2> QED BY <2>1, <2>2
<1>3. Inv => HeapHoldsSummary BY KeepsConsistent DEF HeapInv, HeapHoldsSummary
<1> QED BY <1>1, <1>2, <1>3, PTL DEF Spec
===============================================================================
