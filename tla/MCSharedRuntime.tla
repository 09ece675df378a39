--------------------------- MODULE MCSharedRuntime ----------------------------
(* Two shards, batches of two events and a window of two slides; the       *)
(* timestamps allow staying, sliding, going back and jumping over the ring.*)
EXTENDS SharedRuntime

MCTs == {0, 1, 2, 4}
===============================================================================
