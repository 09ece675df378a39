------------------------------- MODULE Sketches -------------------------------
(***************************************************************************)
(* The sketches of flowsketch-algos at work: replicas (the buckets of a    *)
(* ring, the shards of an engine, the nodes of a cluster) that are updated *)
(* each by its own stream, merged, reset and carried over by snapshots in  *)
(* any order, and ExactCounter beside them.  The `family' is the kind of   *)
(* query: it decides which sketches a stream feeds.                        *)
(***************************************************************************)
EXTENDS SpaceSavingHeap, MisraGries, CountTables, HllMap, Kll

CONSTANTS
  Replica,  \* sketch instances with one configuration
  Weights,  \* Weights[k] : weights of updates of key k
  MaxOps    \* bound on operations, per family

Family == {"frequency", "distinct", "quantile"}

ASSUME SketchesAssumption ==
  Weights \in [Keys -> SUBSET Nat] /\ MaxOps \in [Family -> Nat]

VARIABLES
  family,       \* what the streams are queried for
  exact,        \* ExactCounter of each replica
  space,        \* SpaceSaving of each replica
  heap,         \* the slots, index and heap it is kept in
  misra,        \* Misra-Gries
  plain,        \* Count-Min
  conservative, \* Count-Min with conservative update
  signed,       \* CountSketch
  hll,          \* HyperLogLog, of all items
  fanout,       \* HllMap
  kll,          \* KLL
  seen,         \* seen[r][v] : how often KLL was given v (history)
  ops           \* operations so far

counting == <<space, heap, misra, plain, conservative, signed>>
vars == <<family, exact, counting, hll, fanout, kll, seen, ops>>

Init ==
  /\ family \in Family
  /\ exact = [r \in Replica |-> EmptyExact]
  /\ space = [r \in Replica |-> EmptySummary]
  /\ heap = [r \in Replica |-> EmptyHeap]
  /\ misra = [r \in Replica |-> EmptyCounters]
  /\ plain = [r \in Replica |-> ZeroTable]
  /\ conservative = [r \in Replica |-> ZeroTable]
  /\ signed = [r \in Replica |-> ZeroTable]
  /\ hll = [r \in Replica |-> EmptyHll]
  /\ fanout = [r \in Replica |-> EmptyMap]
  /\ kll = [r \in Replica |-> EmptyKll]
  /\ seen = [r \in Replica |-> [v \in Keys |-> 0]]
  /\ ops = 0

Operate(f) == family = f /\ ops < MaxOps[f] /\ ops' = ops + 1 /\ UNCHANGED family

-------------------------------------------------------------------------------
(* Frequencies. *)
UpdateCounts(r, k, w) ==
  /\ Operate("frequency")
  /\ exact' = [exact EXCEPT ![r] = ExactAdd(@, k, w)]
  /\ space' = [space EXCEPT ![r] = AddKey(@, k, w)]
  /\ heap' = [heap EXCEPT ![r] = HeapAdd(@, k, w)]
  /\ misra' = [misra EXCEPT ![r] = AddCount(@, k, w)]
  /\ plain' = [plain EXCEPT ![r] = AddPlain(@, k, w)]
  /\ conservative' = [conservative EXCEPT ![r] = AddConservative(@, k, w)]
  /\ signed' = [signed EXCEPT ![r] = AddSigned(@, k, w)]
  /\ UNCHANGED <<hll, fanout, kll, seen>>

MergeCounts(r, o) ==
  /\ Operate("frequency")
  /\ exact' = [exact EXCEPT ![r] = ExactMerge(@, exact[o])]
  /\ space' = [space EXCEPT ![r] = MergeSummaries(@, space[o])]
  /\ heap' = [heap EXCEPT ![r] = HeapMerge(@, heap[o])]
  /\ misra' = [misra EXCEPT ![r] = MergeCounters(@, misra[o])]
  /\ plain' = [plain EXCEPT ![r] = AddTables(@, plain[o])]
  /\ conservative' = [conservative EXCEPT ![r] = AddTables(@, conservative[o])]
  /\ signed' = [signed EXCEPT ![r] = AddTables(@, signed[o])]
  /\ UNCHANGED <<hll, fanout, kll, seen>>

(* Written and read back; the heap is built anew. *)
RestoreCounts(r) ==
  LET Reread(t) == ReadTable(WriteTable(t))
  IN  /\ Operate("frequency")
      /\ SummaryAccepted(space[r]) /\ CountersAccepted(WriteCounters(misra[r]))
      /\ heap' = [heap EXCEPT ![r] = HeapRestore(@)]
      /\ misra' = [misra EXCEPT ![r] = ReadCounters(WriteCounters(@))]
      /\ plain' = [plain EXCEPT ![r] = Reread(@)]
      /\ conservative' = [conservative EXCEPT ![r] = Reread(@)]
      /\ signed' = [signed EXCEPT ![r] = Reread(@)]
      /\ UNCHANGED <<exact, space, hll, fanout, kll, seen>>

ResetCounts(r) ==
  /\ Operate("frequency")
  /\ exact' = [exact EXCEPT ![r] = EmptyExact]
  /\ space' = [space EXCEPT ![r] = EmptySummary]
  /\ heap' = [heap EXCEPT ![r] = EmptyHeap]
  /\ misra' = [misra EXCEPT ![r] = EmptyCounters]
  /\ plain' = [plain EXCEPT ![r] = ZeroTable]
  /\ conservative' = [conservative EXCEPT ![r] = ZeroTable]
  /\ signed' = [signed EXCEPT ![r] = ZeroTable]
  /\ UNCHANGED <<hll, fanout, kll, seen>>

-------------------------------------------------------------------------------
(* Distinct items. *)
InsertDistinct(r, k, item) ==
  /\ Operate("distinct")
  /\ exact' = [exact EXCEPT ![r] = ExactInsert(@, k, item)]
  /\ hll' = [hll EXCEPT ![r] = InsertItem(@, item)]
  /\ fanout' = [fanout EXCEPT ![r] = InsertPair(@, k, item)]
  /\ UNCHANGED <<counting, kll, seen>>

MergeDistinct(r, o) ==
  /\ Operate("distinct")
  /\ exact' = [exact EXCEPT ![r] = ExactMerge(@, exact[o])]
  /\ hll' = [hll EXCEPT ![r] = MergeHll(@, hll[o])]
  /\ fanout' = [fanout EXCEPT ![r] = MergeMaps(@, fanout[o])]
  /\ UNCHANGED <<counting, kll, seen>>

RestoreDistinct(r) ==
  /\ Operate("distinct")
  /\ HllAccepted(hll[r]) /\ MapAccepted(fanout[r])
  /\ hll' = [hll EXCEPT ![r] = RestoreHll(@)]
  /\ fanout' = [fanout EXCEPT ![r] = RestoreMap(@)]
  /\ UNCHANGED <<exact, counting, kll, seen>>

ResetDistinct(r) ==
  /\ Operate("distinct")
  /\ exact' = [exact EXCEPT ![r] = EmptyExact]
  /\ hll' = [hll EXCEPT ![r] = ResetHll(@)]
  /\ fanout' = [fanout EXCEPT ![r] = EmptyMap]
  /\ UNCHANGED <<counting, kll, seen>>

-------------------------------------------------------------------------------
(* Quantiles. *)
Bits == [1 .. MaxLevels -> {0, 1}]

InsertQuantile(r, v) ==
  /\ Operate("quantile")
  /\ seen' = [seen EXCEPT ![r][v] = @ + 1]
  /\ \E bits \in Bits : kll' = [kll EXCEPT ![r] = InsertValue(@, v, bits)]
  /\ UNCHANGED <<exact, counting, hll, fanout>>

MergeQuantile(r, o) ==
  /\ Operate("quantile")
  /\ seen' = [seen EXCEPT ![r] = [v \in Keys |-> @[v] + seen[o][v]]]
  /\ \E bits \in Bits : kll' = [kll EXCEPT ![r] = MergeKll(@, kll[o], bits)]
  /\ UNCHANGED <<exact, counting, hll, fanout>>

RestoreQuantile(r) ==
  LET written == WriteLevels(kll[r])
  IN  /\ Operate("quantile")
      /\ KllAccepted(written)
      /\ kll' = [kll EXCEPT ![r].levels = ReadLevels(written)]
      /\ UNCHANGED <<exact, counting, hll, fanout, seen>>

ResetQuantile(r) ==
  /\ Operate("quantile")
  /\ seen' = [seen EXCEPT ![r] = [v \in Keys |-> 0]]
  /\ kll' = [kll EXCEPT ![r] = EmptyKll]
  /\ UNCHANGED <<exact, counting, hll, fanout>>

Next ==
  \E r \in Replica :
    \/ \E k \in Keys : \E w \in Weights[k] : UpdateCounts(r, k, w)
    \/ \E o \in Replica \ {r} : MergeCounts(r, o)
    \/ RestoreCounts(r)
    \/ ResetCounts(r)
    \/ \E k \in Keys, item \in Items : InsertDistinct(r, k, item)
    \/ \E o \in Replica \ {r} : MergeDistinct(r, o)
    \/ RestoreDistinct(r)
    \/ ResetDistinct(r)
    \/ \E v \in Keys : InsertQuantile(r, v)
    \/ \E o \in Replica \ {r} : MergeQuantile(r, o)
    \/ RestoreQuantile(r)
    \/ ResetQuantile(r)

Spec == Init /\ [][Next]_vars

-------------------------------------------------------------------------------
(* Properties. *)

(* SpaceSaving keeps its promises through any sequence of updates,         *)
(* evictions and merges: counts bound the truth from above by at most their*)
(* recorded error, no key it has dropped is heavier than its minimum, and  *)
(* both errors stay within total weight / capacity.  Its snapshot is always*)
(* read back.                                                              *)
SpaceSavingSound ==
  \A r \in Replica : SummarySound(space[r], exact[r].counts) /\ SummaryAccepted(space[r])

(* The slots, the collision-aware index and the min-heap of the code hold  *)
(* the summary: every lookup, eviction and rebuild finds what SpaceSaving  *)
(* says, also when digests collide.                                        *)
HeapHoldsSummary ==
  \A r \in Replica : HeapConsistent(heap[r]) /\ HeapEntries(heap[r]) = space[r].entries

(* Misra-Gries never overcounts and undercounts by at most total weight /  *)
(* (capacity + 1), after merges, trims and snapshots as well.              *)
MisraGriesSound == \A r \in Replica : CountersSound(misra[r], exact[r].counts)

(* Count-Min never underestimates, with plain or conservative update and   *)
(* across merges and snapshots; CountSketch is exact for a key that is     *)
(* alone in most of its rows.                                              *)
TablesSound ==
  \A r \in Replica : /\ NeverUnder(plain[r], exact[r].counts)
                     /\ NeverUnder(conservative[r], exact[r].counts)
                     /\ MedianSound(signed[r], exact[r].counts)

(* HyperLogLog is a function of the set of items, whatever way they came   *)
(* and in whichever representation, and its snapshot is read back.  A key  *)
(* HllMap tracks counts no item it did not get, and all of them until the  *)
(* first eviction.                                                         *)
DistinctExact ==
  \A r \in Replica :
    /\ HllAccepted(hll[r])
    /\ HllExact(hll[r], UNION {exact[r].distinct[k] : k \in Keys})
    /\ \A k \in DOMAIN fanout[r].map :
         \E items \in SUBSET exact[r].distinct[k] :
           /\ HllExact(fanout[r].map[k].hll, items)
           /\ fanout[r].evicted = 0 => items = exact[r].distinct[k]

(* HllMap stays within max_keys and is read back, every slot has its one   *)
(* eviction candidate, and an eviction takes a key of smallest estimate    *)
(* unless some estimate has fallen below its cached value.                 *)
MapEvictsSmallest ==
  \A r \in Replica :
    /\ MapAccepted(fanout[r])
    /\ OneCandidateEach(fanout[r])
    /\ (fanout[r].map # EmptyMap.map /\ Fallen(fanout[r]) = {}) =>
         DOMAIN fanout[r].map \ DOMAIN EvictSmallest(fanout[r]).map
           \subseteq TrueMinimum(fanout[r])

(* KLL ranks are off by no more than its compactions account for, through  *)
(* any sequence of inserts, merges and snapshots, which are read back.     *)
KllRankBounded ==
  \A r \in Replica : RankSound(kll[r], seen[r]) /\ KllAccepted(WriteLevels(kll[r]))
===============================================================================
