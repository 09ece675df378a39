-------------------------------- MODULE HllMap --------------------------------
(***************************************************************************)
(* HllMap of flowsketch-algos: a HyperLogLog for each of at most MaxKeys   *)
(* keys.  Eviction looks for the smallest estimate through a heap of       *)
(* estimates that are refreshed only when they come to the top.  The       *)
(* BinaryHeap is the set of its candidates, of which pop takes the least.  *)
(***************************************************************************)
EXTENDS HyperLogLog

CONSTANT MaxKeys  \* max_keys

ASSUME MaxKeysAssumption == MaxKeys \in Nat \ {0}

EmptyMap == [map |-> [k \in {} |-> EmptyHll], heap |-> {}, evicted |-> 0]

(* Smallest estimate first, smallest key among equals. *)
Candidate(heap) ==
  CHOOSE c \in heap : \A d \in heap \ {c} :
    \/ c.cardinality < d.cardinality
    \/ c.cardinality = d.cardinality /\ c.key < d.key

WithSlot(map, k, slot) ==
  [j \in DOMAIN map \cup {k} |-> IF j = k THEN slot ELSE map[j]]

WithoutSlot(map, k) == [j \in DOMAIN map \ {k} |-> map[j]]

Refreshed(slot) ==
  [slot EXCEPT !.cached = CardinalityOf(slot.hll), !.dirty = FALSE]

(* One round of the loop of evict_smallest.  A candidate without a slot is *)
(* skipped; a stale one is refreshed and put back; a current one is evicted.*)
EvictRound(e) ==
  LET c    == Candidate(e.m.heap)
      rest == e.m.heap \ {c}
      slot == e.m.map[c.key]
  IN  IF e.done THEN e
      ELSE IF c.key \notin DOMAIN e.m.map THEN [e EXCEPT !.m.heap = rest]
      ELSE IF slot.dirty \/ slot.cached # c.cardinality
           THEN [e EXCEPT !.m.map[c.key] = Refreshed(slot),
                          !.m.heap = rest \cup {[cardinality |-> Refreshed(slot).cached,
                                                 key |-> c.key]}]
           ELSE [m    |-> [map     |-> WithoutSlot(e.m.map, c.key),
                           heap    |-> rest,
                           evicted |-> e.m.evicted + 1],
                 done |-> TRUE]

(* Mutant: the first candidate goes, stale or not. *)
MutantEvictStale(m) ==
  LET c == Candidate(m.heap)
  IN  [map     |-> WithoutSlot(m.map, c.key),
       heap    |-> m.heap \ {c},
       evicted |-> m.evicted + 1]

(* Every candidate is refreshed or skipped at most once before one goes. *)
EvictSmallest(m) ==
  LET after[n \in 0 .. 2 * Cardinality(m.heap)] ==
        IF n = 0 THEN [m |-> m, done |-> FALSE] ELSE EvictRound(after[n - 1])
  IN  after[2 * Cardinality(m.heap)].m

InsertPair(m, k, item) ==
  LET room == IF Cardinality(DOMAIN m.map) >= MaxKeys THEN EvictSmallest(m) ELSE m
      slot == [hll |-> InsertItem(EmptyHll, item), cached |-> 100, dirty |-> FALSE]
  IN  IF k \in DOMAIN m.map
      THEN [m EXCEPT !.map[k].hll = InsertItem(@, item), !.map[k].dirty = TRUE]
      ELSE [room EXCEPT !.map  = WithSlot(@, k, slot),
                        !.heap = @ \cup {[cardinality |-> 100, key |-> k]}]

RebuildEvictionHeap(m) ==
  LET map == [k \in DOMAIN m.map |-> Refreshed(m.map[k])]
  IN  [m EXCEPT !.map = map,
                !.heap = {[cardinality |-> map[k].cached, key |-> k] : k \in DOMAIN map}]

MergeSlots(m, o) ==
  [k \in DOMAIN m.map \cup DOMAIN o.map |->
     IF k \notin DOMAIN m.map THEN o.map[k]
     ELSE IF k \notin DOMAIN o.map THEN m.map[k]
          ELSE [m.map[k] EXCEPT !.hll = MergeHll(@, o.map[k].hll), !.dirty = TRUE]]

MergeMaps(m, o) ==
  LET full   == RebuildEvictionHeap([m EXCEPT !.map = MergeSlots(m, o)])
      excess == IF Cardinality(DOMAIN full.map) > MaxKeys
                THEN Cardinality(DOMAIN full.map) - MaxKeys ELSE 0
      after[n \in 0 .. excess] == IF n = 0 THEN full ELSE EvictSmallest(after[n - 1])
  IN  [after[excess] EXCEPT !.evicted = @ + o.evicted]

RestoreMap(m) ==
  LET map == [k \in DOMAIN m.map |-> [m.map[k] EXCEPT !.hll = RestoreHll(@)]]
  IN  RebuildEvictionHeap([m EXCEPT !.map = map])

MapAccepted(m) ==
  /\ Cardinality(DOMAIN m.map) <= MaxKeys
  /\ \A k \in DOMAIN m.map : HllAccepted(m.map[k].hll)

(* Every slot has exactly one candidate, with its cached estimate. *)
OneCandidateEach(m) ==
  m.heap = {[cardinality |-> m.map[k].cached, key |-> k] : k \in DOMAIN m.map}

(* Estimates that are smaller than what is cached for them. *)
Fallen(m) == {k \in DOMAIN m.map : CardinalityOf(m.map[k].hll) < m.map[k].cached}

(* A key with the smallest estimate. *)
TrueMinimum(m) ==
  {k \in DOMAIN m.map :
     \A j \in DOMAIN m.map : CardinalityOf(m.map[k].hll) <= CardinalityOf(m.map[j].hll)}
===============================================================================
