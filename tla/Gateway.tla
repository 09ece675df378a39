------------------------------- MODULE Gateway --------------------------------
(***************************************************************************)
(* GatewayState of flowsketch-gateway: the newest window of every node for *)
(* every query, a byte budget and a node limit on what is kept, and a merge*)
(* cache of a fixed number of shards from which scrapes are answered.      *)
(*                                                                         *)
(* Every operation runs under the one mutex of GatewayData, so it is one   *)
(* action.  The content of a pushed window is a `copy'; a merged state is  *)
(* the set of [node, copy] it was merged from.  Validated states of equal  *)
(* bounds always merge, so shard_nodes[s] is the size of shards[s].        *)
(***************************************************************************)
EXTENDS Naturals, FiniteSets, FiniteSetsExt

CONSTANTS
  Node,        \* agents
  QueryCount,  \* configured plans, in the key order of the BTreeMap
  ShardCount,  \* MERGE_CACHE_SHARDS
  ShardOf,     \* ShardOf[n] : merge_shard(n), a hash of the node's name
  MaxNodes,    \* max_nodes
  MaxBytes,    \* max_retained_sketch_bytes
  StaleAfter,  \* stale_after, in clock ticks
  Snapshot,    \* window states a push may carry: [start, end, copy, bytes]
  None         \* no window, no cache

Query == 1 .. QueryCount
Shard == 1 .. ShardCount

(* A NodeWindow, with its age in place of the time it was received; a node *)
(* in a merged state; and a MergeCache.                                    *)
Window     == [start : Nat, end : Nat, copy : Nat, bytes : Nat, age : Nat]
Part       == [node : Node, copy : Nat]
MergeCache == [target : Nat \X Nat, shards : [Shard -> SUBSET Part],
               final : SUBSET Part]

ASSUME GatewayAssumption ==
  /\ {QueryCount, ShardCount, MaxNodes, MaxBytes, StaleAfter} \subseteq Nat \ {0}
  /\ IsFiniteSet(Node)
  /\ ShardOf \in [Node -> Shard]
  /\ Snapshot \subseteq [start : Nat, end : Nat, copy : Nat, bytes : Nat]

ASSUME NoneAssumption == None \notin Window /\ None \notin MergeCache

VARIABLES
  nodes,     \* nodes[q][n] : newest window of node n, with its age in ticks
  cache,     \* cache[q] : [target, shards, final] or None
  retained,  \* retained_sketch_bytes
  reply      \* what the last scrape returned

vars == <<nodes, cache, retained, reply>>

Init ==
  /\ nodes = [q \in Query |-> [n \in Node |-> None]]
  /\ cache = [q \in Query |-> None]
  /\ retained = 0
  /\ reply = None

-------------------------------------------------------------------------------
(* Which window, and the cache. *)
Known(perNode) == {n \in Node : perNode[n] # None}

Tracked(data) == UNION {Known(data[q]) : q \in Query}

Bounds(w) == <<w.start, w.end>>

(* The latest end; among its starts the one most nodes have, the earliest  *)
(* on a tie.                                                               *)
MaxEnd(perNode) == Max({perNode[n].end : n \in Known(perNode)})

Voters(perNode, start) ==
  {n \in Known(perNode) : Bounds(perNode[n]) = <<start, MaxEnd(perNode)>>}

MostVoted(perNode) ==
  LET starts == {perNode[n].start :
                   n \in {n \in Known(perNode) : perNode[n].end = MaxEnd(perNode)}}
  IN  {s \in starts : \A t \in starts :
         Cardinality(Voters(perNode, s)) >= Cardinality(Voters(perNode, t))}

SelectedWindow(perNode) == <<Min(MostVoted(perNode)), MaxEnd(perNode)>>

PartOf(perNode, n) == [node |-> n, copy |-> perNode[n].copy]

MergeCacheShard(perNode, target, s) ==
  {PartOf(perNode, n) : n \in {n \in Known(perNode) :
     ShardOf[n] = s /\ Bounds(perNode[n]) = target}}

(* Mutant: a new target keeps the shards that were merged for the old one. *)
MutantRefreshKeepsShards(perNode, old, changed) ==
  IF Known(perNode) = {}
    THEN None
    ELSE LET target == SelectedWindow(perNode)
         IN  [target |-> target,
              shards |-> [s \in Shard |->
                IF old = None \/ s \in changed
                  THEN MergeCacheShard(perNode, target, s) ELSE old.shards[s]],
              final |-> {}]

(* Rebuild the changed shards, or all of them when the target moved; the   *)
(* final merge is always forgotten.                                        *)
RefreshQueryCache(perNode, old, changed) ==
  IF Known(perNode) = {}
    THEN None
    ELSE LET target == SelectedWindow(perNode)
             all    == old = None \/ old.target # target
         IN  [target |-> target,
              shards |-> [s \in Shard |->
                IF all \/ s \in changed
                  THEN MergeCacheShard(perNode, target, s) ELSE old.shards[s]],
              final |-> {}]

RefreshChangedCaches(data, old, changed) ==
  [q \in Query |-> IF changed[q] = {} THEN old[q]
                   ELSE RefreshQueryCache(data[q], old[q], changed[q])]

-------------------------------------------------------------------------------
(* evict_stale: what stays, what it frees and which shards it touches. *)
IsStale(w) == w # None /\ w.age >= StaleAfter

Evicted == [q \in Query |->
  [n \in Node |-> IF IsStale(nodes[q][n]) THEN nodes[q][n] ELSE None]]

Live == [q \in Query |->
  [n \in Node |-> IF IsStale(nodes[q][n]) THEN None ELSE nodes[q][n]]]

BytesOf(w) == IF w = None THEN 0 ELSE w.bytes

(* The bytes of the stored windows, each a member of the set: a sum.       *)
BytesIn(data) ==
  UNION {{<<q, n>>} \X (1 .. BytesOf(data[q][n])) : q \in Query, n \in Node}

TotalBytes(data) == Cardinality(BytesIn(data))

(* Mutant: an evicted window's bytes are never given back.                 *)
MutantEvictKeepsBytes == retained

RetainedAfterEviction ==
  LET freed == TotalBytes(Evicted)
  IN  IF freed > retained THEN 0 ELSE retained - freed

CacheAfterEviction ==
  RefreshChangedCaches(Live, cache, [q \in Query |->
    {ShardOf[n] : n \in {n \in Node : IsStale(nodes[q][n])}}])

-------------------------------------------------------------------------------
(* apply_batch. *)

Admits(data, n) == n \in Tracked(data) \/ Cardinality(Tracked(data)) < MaxNodes

(* Mutant: every push replaces the stored window.                          *)
MutantNeverStale(w, s) == FALSE

(* Mutant: a push for the stored window itself is taken for a stale one.   *)
MutantSameIsStale(w, s) == w # None /\ w.end >= s.end

(* A push for an earlier window than the stored one only refreshes it. *)
StalePush(w, s) == w # None /\ w.end > s.end

Fits(bytes, w, s) ==
  BytesOf(w) <= bytes /\ (bytes - BytesOf(w)) + s.bytes <= MaxBytes

(* The queries of a batch are applied in key order against one budget:     *)
(* BytesAfter[i] is retained_sketch_bytes after the first i of them.       *)
Replaces(w, states, q, bytes) ==
  q \in DOMAIN states /\ ~StalePush(w, states[q]) /\ Fits(bytes, w, states[q])

BytesAfter(data, n, states) ==
  LET after[i \in 0 .. QueryCount] ==
        IF i = 0 THEN RetainedAfterEviction
        ELSE IF Replaces(data[i][n], states, i, after[i - 1])
          THEN (after[i - 1] - BytesOf(data[i][n])) + states[i].bytes
          ELSE after[i - 1]
  IN  after

Stored(s) == [start |-> s.start, end |-> s.end, copy |-> s.copy,
              bytes |-> s.bytes, age |-> 0]

(* A push of node n, with the states of the queries that passed validation:*)
(* entries that are unknown or do not validate are rejected before the     *)
(* lock and leave no trace.                                                *)
ApplyBatch(n, states) ==
  LET live     == Live
      bytes    == BytesAfter(live, n, states)
      replaced == {q \in Query : Replaces(live[q][n], states, q, bytes[q - 1])}
      older    == {q \in DOMAIN states : StalePush(live[q][n], states[q])}
      stored   == [q \in Query |->
        IF q \in replaced THEN [live[q] EXCEPT ![n] = Stored(states[q])]
        ELSE IF q \in older THEN [live[q] EXCEPT ![n].age = 0]
        ELSE live[q]]
  IN  /\ IF DOMAIN states = {}
           THEN UNCHANGED <<nodes, cache, retained>>
         ELSE IF ~Admits(live, n)
           THEN /\ nodes' = live /\ cache' = CacheAfterEviction
                /\ retained' = RetainedAfterEviction
           ELSE /\ nodes' = stored
                /\ cache' = RefreshChangedCaches(stored, CacheAfterEviction,
                     [q \in Query |-> IF q \in replaced THEN {ShardOf[n]} ELSE {}])
                /\ retained' = bytes[QueryCount]
      /\ reply' = None

-------------------------------------------------------------------------------
(* Scrapes. *)
PartsOf(c) == UNION {c.shards[s] : s \in Shard}

(* Mutant: whatever was merged for the target window is exported.          *)
MutantMergeSubset(data, c) == TRUE

MergeComplete(data, c) == Cardinality(PartsOf(c)) = Cardinality(Known(data))

(* The final merge is made once and kept until a node of the query changes.*)
Finalised(data, c) ==
  IF c # None /\ MergeComplete(data, c) /\ c.final = {}
    THEN [c EXCEPT !.final = PartsOf(c)]
    ELSE c

(* merged: evict, then answer every query from its cache, with an estimate *)
(* only when every known node is in it.                                    *)
Scrape ==
  LET live   == Live
      kept   == CacheAfterEviction
      merged == [q \in Query |-> Finalised(live[q], kept[q])]
      whole  == {q \in Query : merged[q] # None /\ MergeComplete(live[q], merged[q])}
  IN  /\ nodes' = live
      /\ retained' = RetainedAfterEviction
      /\ cache' = merged
      /\ reply' = [estimate |-> [q \in Query |->
                     IF q \in whole THEN merged[q].final ELSE {}]]

(* nodes_json: evict and list. *)
NodesJson ==
  /\ nodes' = Live
  /\ retained' = RetainedAfterEviction
  /\ cache' = CacheAfterEviction
  /\ reply' = None

(* Time passes; ages beyond the cutoff are all alike. *)
Tick ==
  /\ nodes' = [q \in Query |-> [n \in Node |->
       IF nodes[q][n] = None \/ nodes[q][n].age >= StaleAfter THEN nodes[q][n]
       ELSE [nodes[q][n] EXCEPT !.age = @ + 1]]]
  /\ UNCHANGED <<cache, retained, reply>>

Push ==
  \E n \in Node, Q \in SUBSET Query : \E states \in [Q -> Snapshot] :
    ApplyBatch(n, states)

Next == Push \/ Scrape \/ NodesJson \/ Tick

Spec == Init /\ [][Next]_vars

-------------------------------------------------------------------------------
(* The incremental cache always equals a merge from scratch of the stored  *)
(* windows: pushes rebuild one shard, evictions some, a moving target all, *)
(* and the lazily kept final merge is never older than its shards.         *)
CacheCurrent ==
  \A q \in Query :
    LET known == Known(nodes[q])
    IN  IF known = {} THEN cache[q] = None
        ELSE /\ cache[q].target = SelectedWindow(nodes[q])
             /\ \A s \in Shard : cache[q].shards[s] =
                  MergeCacheShard(nodes[q], SelectedWindow(nodes[q]), s)
             /\ cache[q].final \in {{}, {PartOf(nodes[q], n) : n \in known}}

(* Both limits hold of what is really stored: retained_sketch_bytes is the *)
(* size of the stored windows through replacements, rejections and         *)
(* evictions (an error would let the budget leak away), it never exceeds   *)
(* the budget, and the identities of all queries together never exceed     *)
(* max_nodes.                                                              *)
LimitsHold ==
  /\ retained = TotalBytes(nodes)
  /\ retained <= MaxBytes
  /\ Cardinality(Tracked(nodes)) <= MaxNodes

(* Fail closed: a scrape gives an estimate exactly when all live nodes hold*)
(* the same window, and then it is the merge of every one of them.  (The   *)
(* next push forgets the reply, so it speaks of the windows now stored.)   *)
EstimatesWhole ==
  reply # None =>
    \A q \in Query :
      LET known == Known(nodes[q])
          agree == Cardinality({Bounds(nodes[q][n]) : n \in known}) = 1
      IN  reply.estimate[q] =
            IF agree THEN {PartOf(nodes[q], n) : n \in known} ELSE {}

(* "out-of-order delivery must not roll estimates backwards": while a node *)
(* is live its stored window never moves to an earlier end.                *)
NeverRollsBack ==
  [][\A q \in Query : \A n \in Node :
       (nodes[q][n] # None /\ nodes[q][n].age < StaleAfter) =>
         nodes'[q][n] # None /\ nodes'[q][n].end >= nodes[q][n].end]_vars
===============================================================================
