--------------------------- MODULE EngineRefinement ---------------------------
(***************************************************************************)
(* How the engine's ring of buckets maps to the abstract promise of        *)
(* SlidingWindows: newest and horizon are the back and the front of the    *)
(* ring, pending windows are the ones not drained yet.                     *)
(***************************************************************************)
EXTENDS QueryEngine, Integers

Newest == [q \in Query |->
  IF queries[q].buckets = <<>> THEN -1 ELSE BackStart(queries[q])]

Horizon == [q \in Query |->
  IF queries[q].buckets = <<>> THEN 0 ELSE FrontStart(queries[q])]

Late == [q \in Query |-> queries[q].late]

Pending == [q \in Query |-> queries[q].emitted]

Abstract == INSTANCE SlidingWindows WITH
  newest <- Newest, horizon <- Horizon, late <- Late, pending <- Pending

(* Every behaviour of the ring of buckets, with its slides, gaps and       *)
(* fast-forwards, is one of the windows computed from the events           *)
(* themselves: what advance_to_bucket and flush_window produce.            *)
ImplementsSlidingWindows == Abstract!Spec
===============================================================================
