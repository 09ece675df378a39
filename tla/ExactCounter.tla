----------------------------- MODULE ExactCounter -----------------------------
(***************************************************************************)
(* ExactCounter of flowsketch-algos, the ground truth the sketches are     *)
(* compared with: weight per key, and the distinct items per key.          *)
(***************************************************************************)
EXTENDS Naturals

CONSTANTS
  Keys,  \* group keys; their order is the byte order of the encoded keys
  Items  \* items counted by distinct-count queries

ASSUME KeysAssumption == Keys \subseteq Nat

EmptyExact == [counts   |-> [k \in Keys |-> 0],
               distinct |-> [k \in Keys |-> {}]]

ExactAdd(e, k, w) == [e EXCEPT !.counts[k] = @ + w]

ExactInsert(e, k, item) == [e EXCEPT !.distinct[k] = @ \cup {item}]

ExactMerge(e, o) ==
  [counts   |-> [k \in Keys |-> e.counts[k] + o.counts[k]],
   distinct |-> [k \in Keys |-> e.distinct[k] \cup o.distinct[k]]]
===============================================================================
