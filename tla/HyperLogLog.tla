----------------------------- MODULE HyperLogLog ------------------------------
(***************************************************************************)
(* HyperLogLog of flowsketch-algos: an exact set of hashes while it is     *)
(* small, registers afterwards.  A 64-bit hash is a register index, a rank *)
(* (position of the leftmost 1 of the other bits) and a tag that tells     *)
(* hashes of equal index and rank apart.                                   *)
(***************************************************************************)
EXTENDS ExactCounter, FiniteSets, FiniteSetsExt

CONSTANTS
  Index,       \* register indices the items of the stream hash to
  MaxRank,     \* 64 - precision + 1
  SparseLimit, \* sparse_limit(precision): hashes kept before registers
  HashOf       \* HashOf[item] : hash64, a record of index, rank and tag

Hash == [index : Index, rank : 1 .. MaxRank, tag : Nat]

ASSUME HashAssumption ==
  /\ SparseLimit \in Nat \ {0} /\ MaxRank \in Nat \ {0} /\ IsFiniteSet(Index)
  /\ HashOf \in [Items -> Hash]

NoRegisters == [x \in Index |-> 0]

(* RegisterStorage: `hashes' is empty when dense, `registers' 0 otherwise. *)
Storage == [kind : {"empty", "singleton", "sparse", "dense"},
            hashes : SUBSET Hash, registers : [Index -> 0 .. MaxRank]]

EmptyHll == [kind |-> "empty", hashes |-> {}, registers |-> NoRegisters]

UpdateRegister(registers, h) ==
  [registers EXCEPT ![h.index] = IF h.rank > @ THEN h.rank ELSE @]

RegistersOf(hashes) ==
  [x \in Index |-> Max({0} \cup {h.rank : h \in {g \in hashes : g.index = x}})]

EnsureDense(s) ==
  IF s.kind = "dense" THEN s
  ELSE [kind |-> "dense", hashes |-> {}, registers |-> RegistersOf(s.hashes)]

(* Mutant: the hash that makes it dense is lost. *)
MutantInsertDropsHash(s, h) ==
  LET sparse == IF s.kind = "empty" THEN "singleton" ELSE "sparse"
  IN  IF s.kind # "dense" /\ h \in s.hashes THEN s
      ELSE IF s.kind # "dense" /\ Cardinality(s.hashes) < SparseLimit
           THEN [s EXCEPT !.kind = sparse, !.hashes = @ \cup {h}]
           ELSE IF s.kind # "dense" THEN EnsureDense(s)
                ELSE [s EXCEPT !.registers = UpdateRegister(@, h)]

(* A singleton becomes sparse only where the limit allows two hashes. *)
InsertHash(s, h) ==
  LET sparse == IF s.kind = "empty" THEN "singleton" ELSE "sparse"
  IN  IF s.kind # "dense" /\ h \in s.hashes THEN s
      ELSE IF s.kind # "dense" /\ Cardinality(s.hashes) < SparseLimit
           THEN [s EXCEPT !.kind = sparse, !.hashes = @ \cup {h}]
           ELSE [EnsureDense(s) EXCEPT !.registers = UpdateRegister(@, h)]

InsertItem(s, item) == InsertHash(s, HashOf[item])

MergeHll(s, o) ==
  IF o.kind = "dense"
  THEN [EnsureDense(s) EXCEPT !.registers =
          [x \in Index |-> IF o.registers[x] > @[x] THEN o.registers[x] ELSE @[x]]]
  ELSE FoldSet(LAMBDA h, acc : InsertHash(acc, h), s, o.hashes)

(* What to_snapshot writes and from_snapshot makes of it: the kind is found*)
(* again from the number of hashes.                                        *)
RestoreHll(s) ==
  [s EXCEPT !.kind = IF @ = "dense" THEN @
                     ELSE CASE Cardinality(s.hashes) = 0 -> "empty"
                            [] Cardinality(s.hashes) = 1 -> "singleton"
                            [] OTHER -> "sparse"]

HllAccepted(s) ==
  /\ Cardinality(s.hashes) <= SparseLimit
  /\ \A x \in Index : s.registers[x] <= MaxRank

ResetHll(s) ==
  [s EXCEPT !.kind = IF @ = "singleton" THEN "empty" ELSE @,
            !.hashes = {}, !.registers = NoRegisters]

(* Estimates in hundredths.  Exact while sparse.  With few of the registers*)
(* set, Ertl's estimator gives a little more than their number, and more   *)
(* for larger ranks: it decreases in the sum of 2^-rank.                   *)
CardinalityOf(s) ==
  LET set     == {x \in Index : s.registers[x] > 0}
      deficit == MapThenSumSet(LAMBDA x : 2 ^ (MaxRank - s.registers[x]), set)
  IN  IF s.kind # "dense" THEN 100 * Cardinality(s.hashes)
      ELSE IF set = {} THEN 0
           ELSE 100 * Cardinality(set) + 2 ^ MaxRank * Cardinality(set) - deficit

(* The sketch of a set of items is that of their hashes, whatever the order*)
(* of insertions, merges and snapshots: the hashes themselves or, for each *)
(* register, the largest rank.                                             *)
HllExact(s, items) ==
  LET hashes == {HashOf[i] : i \in items}
  IN  IF s.kind = "dense" THEN s.registers = RegistersOf(hashes)
                          ELSE s.hashes = hashes /\ s.registers = NoRegisters
===============================================================================
