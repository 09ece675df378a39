---------------------------- MODULE MCGatewayPush -----------------------------
(* One agent, whose window slides once and is then refreshed twice; one   *)
(* copy is too large to be sent.                                          *)
EXTENDS GatewayPush

CONSTANT n1

MCNode    == {n1}
MCShardOf == [n \in MCNode |-> 1]

MCStream ==
  << [start |-> 0, end |-> 2, copy |-> 1, bytes |-> 1],
     [start |-> 1, end |-> 3, copy |-> 2, bytes |-> 1],
     [start |-> 1, end |-> 3, copy |-> 3, bytes |-> 3],
     [start |-> 1, end |-> 3, copy |-> 4, bytes |-> 2] >>

MCSnapshot == {MCStream[i] : i \in 1 .. Len(MCStream)}
===============================================================================
