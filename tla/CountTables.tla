------------------------------ MODULE CountTables -----------------------------
(***************************************************************************)
(* The hashed counter tables of flowsketch-algos: Count-Min with plain and *)
(* with conservative update, and CountSketch.  The hash functions are      *)
(* arbitrary constants: RowHashes gives a column and a sign per row.       *)
(***************************************************************************)
EXTENDS ExactCounter, Integers, FiniteSets

CONSTANTS
  Depth, Width, \* rows and columns of a table
  ColOf,        \* ColOf[r][k] : RowHashes::index
  SignOf        \* SignOf[r][k] : RowHashes::sign

Row == 0 .. Depth - 1
Col == 0 .. Width - 1

ASSUME TableAssumption ==
  /\ {Depth, Width} \subseteq Nat \ {0}
  /\ ColOf \in [Row -> [Keys -> Col]]
  /\ SignOf \in [Row -> [Keys -> {-1, 1}]]

ZeroTable == [r \in Row |-> [c \in Col |-> 0]]

Cell(t, r, k) == t[r][ColOf[r][k]]

(* estimate_u64: the smallest of the key's cells. *)
PointEstimate(t, k) ==
  CHOOSE m \in {Cell(t, r, k) : r \in Row} : \A r \in Row : m <= Cell(t, r, k)

AddPlain(t, k, w) ==
  [r \in Row |-> [c \in Col |-> IF c = ColOf[r][k] THEN t[r][c] + w ELSE t[r][c]]]

(* Mutant: rows are raised to the weight, not to the estimate plus it. *)
MutantRaiseRows(t, k, w) ==
  [r \in Row |-> [c \in Col |->
     IF c = ColOf[r][k] /\ t[r][c] < w THEN w ELSE t[r][c]]]

(* Each row is raised up to the new point estimate, never past it. *)
AddConservative(t, k, w) ==
  LET target == PointEstimate(t, k) + w
  IN  [r \in Row |-> [c \in Col |->
         IF c = ColOf[r][k] /\ t[r][c] < target THEN target ELSE t[r][c]]]

AddTables(t, u) == [r \in Row |-> [c \in Col |-> t[r][c] + u[r][c]]]

(* Snapshots hold the cells row by row. *)
WriteTable(t) == [i \in 0 .. Depth * Width - 1 |-> t[i \div Width][i % Width]]

ReadTable(cells) == [r \in Row |-> [c \in Col |-> cells[r * Width + c]]]

(* Count-Min never underestimates. *)
NeverUnder(t, truth) == \A k \in Keys : truth[k] <= PointEstimate(t, k)

-------------------------------------------------------------------------------
(* CountSketch: signed cells, and the median of the rows.                  *)

(* update hands its value over as an i64: below 2^63, which the weights    *)
(* are (packets, and bytes of one packet), that is the same number.        *)
AddSigned(t, k, w) ==
  [r \in Row |-> [c \in Col |->
     IF c = ColOf[r][k] THEN t[r][c] + SignOf[r][k] * w ELSE t[r][c]]]

RowEstimate(t, r, k) == SignOf[r][k] * Cell(t, r, k)

(* The n-th smallest of the rows' estimates, from 1. *)
NthEstimate(t, k, n) ==
  CHOOSE e \in {RowEstimate(t, r, k) : r \in Row} :
    /\ Cardinality({r \in Row : RowEstimate(t, r, k) < e}) < n
    /\ Cardinality({r \in Row : RowEstimate(t, r, k) <= e}) >= n

(* Division rounds toward zero. *)
Halved(x) == IF x >= 0 THEN x \div 2 ELSE -((-x) \div 2)

MedianEstimate(t, k) ==
  LET depth == Cardinality(Row)
      mid   == depth \div 2
  IN  IF depth % 2 = 1 THEN NthEstimate(t, k, mid + 1)
      ELSE Halved(NthEstimate(t, k, mid) + NthEstimate(t, k, mid + 1))

(* Rows in which a key shares its cell with no key of the stream. *)
CleanRow(truth, k) ==
  {r \in Row : \A j \in Keys \ {k} : ColOf[r][j] = ColOf[r][k] => truth[j] = 0}

(* A key that is alone in more than half of its rows is estimated exactly. *)
MedianSound(t, truth) ==
  \A k \in Keys :
    2 * Cardinality(CleanRow(truth, k)) > Cardinality(Row)
      => MedianEstimate(t, k) = truth[k]
===============================================================================
