----------------------------- MODULE WindowMerge ------------------------------
(***************************************************************************)
(* How the windows of independently fed engines become one output: states  *)
(* with the same (start, end) are merged, and the BTreeMap that holds them *)
(* is read in key order.  Used by ShardedQueryEngine::take_estimates and   *)
(* by publish_reports of the queue-local runtime.                          *)
(***************************************************************************)
EXTENDS WindowRing, FiniteSets

Bounds(w) == <<w.start, w.end>>

Windows(ws) == {ws[i] : i \in 1 .. Len(ws)}

Merged(windows) ==
  {[start |-> w.start, end |-> w.end,
    ids |-> UNION {v.ids : v \in {v \in windows : Bounds(v) = Bounds(w)}}]
     : w \in windows}

Before(v, w) == v.start < w.start \/ (v.start = w.start /\ v.end < w.end)

InKeyOrder(windows) ==
  CHOOSE ws \in [1 .. Cardinality(windows) -> windows] :
    \A i, j \in 1 .. Cardinality(windows) : i < j => Before(ws[i], ws[j])

(* Two engines completed windows with the same bounds, in the same order.  *)
SameBounds(vs, ws) ==
  /\ Len(vs) = Len(ws)
  /\ \A i \in 1 .. Len(vs) : Bounds(vs[i]) = Bounds(ws[i])
===============================================================================
