------------------------------ MODULE MCGateway -------------------------------
(* Three nodes, two of them in one cache shard, and two queries that share *)
(* the budget and the node limit.  The windows share an end with different *)
(* starts, and a start with different ends.                                *)
EXTENDS Gateway

CONSTANTS n1, n2, n3

MCNode    == {n1, n2, n3}
MCShardOf == [n \in MCNode |-> IF n = n3 THEN 2 ELSE 1]

MCSnapshot ==
  {[start |-> 0, end |-> 2, copy |-> 1, bytes |-> 1],
   [start |-> 1, end |-> 2, copy |-> 1, bytes |-> 1],
   [start |-> 1, end |-> 3, copy |-> 1, bytes |-> 1],
   [start |-> 1, end |-> 3, copy |-> 2, bytes |-> 2]}
===============================================================================
