------------------------------ MODULE MCSketches ------------------------------
(* Keys 1 and 2 share a digest; in each row of the tables some keys share  *)
(* a column.  Three items hash to one register, two of them to one rank.   *)
EXTENDS Sketches

CONSTANTS a, b  \* two replicas

Symmetry == Permutations(Replica)

MCDigest == [k \in Keys |-> IF k <= 2 THEN 7 ELSE 3]

MCColOf  == [r \in Row |-> [k \in Keys |-> (k + r * (k \div 2)) % 2]]
MCSignOf == [r \in Row |-> [k \in Keys |-> IF (k + r + 1) % 3 = 0 THEN -1 ELSE 1]]

MCHashOf ==
  [i \in Items |-> [index |-> IF i <= 3 THEN 0 ELSE 1,
                    rank  |-> IF i = 3 THEN 3 ELSE 1,
                    tag   |-> i]]

MCWeights == [k \in Keys |-> IF k = 1 THEN {1, 2} ELSE {1}]

MCMaxOps == [frequency |-> 6, distinct |-> 4, quantile |-> 6]
===============================================================================
