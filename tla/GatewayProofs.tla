---------------------------- MODULE GatewayProofs -----------------------------
(***************************************************************************)
(* The gateway's safety for every set of nodes, every number of queries    *)
(* and cache shards, every limit and every sequence of pushes, scrapes and *)
(* evictions.                                                              *)
(***************************************************************************)
EXTENDS GatewayPush, FiniteSetTheorems, WellFoundedInduction, TLAPS

PerNode == [Node -> Window \cup {None}]

(* The type invariant. *)
TypeOK ==
  /\ nodes \in [Query -> PerNode]
  /\ cache \in [Query -> MergeCache \cup {None}]
  /\ retained \in Nat

(***************************************************************************)
(* Least and greatest elements.                                            *)
(***************************************************************************)

(* A nonempty set of naturals has a least element. *)
LEMMA LeastNat ==
  ASSUME NEW T \in SUBSET Nat, T # {}
  PROVE  \E x \in T : \A y \in T : x <= y
<1>1. PICK x \in T : \A y \in T : ~ (<<y, x>> \in OpToRel(<, Nat))
  BY NatLessThanWellFounded, WFMin, Zenon
<1>2. \A y \in T : ~ (y < x)
  BY <1>1 DEF OpToRel
<1> QED
  BY <1>2

(* Min gives the least element of a nonempty set of naturals. *)
LEMMA MinIs ==
  ASSUME NEW T \in SUBSET Nat, T # {}
  PROVE  Min(T) \in T /\ \A y \in T : Min(T) <= y
BY LeastNat, Zenon DEF Min

(* A nonempty finite set of naturals has a greatest element: the smallest  *)
(* subset without one would have one more element than a set that has one. *)
LEMMA GreatestNat ==
  ASSUME NEW S \in SUBSET Nat, IsFiniteSet(S), S # {}
  PROVE  \E x \in S : \A y \in S : x >= y
<1> DEFINE T == {X \in SUBSET S : X # {} /\ ~ \E x \in X : \A y \in X : x >= y}
<1>1. SUFFICES ASSUME T # {} PROVE FALSE
  BY <1>1
<1>2. T \subseteq FiniteSubsetsOf(S)
  BY FS_Subset DEF FiniteSubsetsOf
<1>3. PICK X \in T : \A Y \in T : ~ (<<Y, X>> \in StrictSubsetOrdering(S))
  BY <1>1, <1>2, FS_StrictSubsetOrderingWellFounded, WFMin
<1>4. PICK x \in X : TRUE
  BY <1>3
<1> DEFINE Y == X \ {x}
<1>5. Y \notin T
  BY <1>3, <1>4 DEF StrictSubsetOrdering
<1>6. CASE Y = {}
  BY <1>3, <1>4, <1>6
<1>7. CASE Y # {}
  <2>1. PICK m \in Y : \A y \in Y : m >= y
    BY <1>3, <1>5, <1>7
  <2>2. m \in Nat /\ x \in Nat /\ X \subseteq Nat /\ m \in X
    BY <1>3, <1>4, <2>1
  <2>3. CASE m >= x
    <3>1. \A y \in X : m >= y
      BY <2>1, <2>3
    <3> QED
      BY <1>3, <2>2, <3>1
  <2>4. CASE ~ (m >= x)
    <3>1. \A y \in X : x >= y
      BY <2>1, <2>2, <2>4
    <3> QED
      BY <1>3, <1>4, <3>1
  <2> QED
    BY <2>3, <2>4
<1> QED
  BY <1>6, <1>7

(* Max gives the greatest element of a nonempty finite set of naturals. *)
LEMMA MaxIs ==
  ASSUME NEW S \in SUBSET Nat, IsFiniteSet(S), S # {}
  PROVE  Max(S) \in S /\ \A y \in S : Max(S) >= y
BY GreatestNat, Zenon DEF Max

(***************************************************************************)
(* The window that is merged.                                              *)
(***************************************************************************)

(* What a known node's entry is, and what is finite. *)
LEMMA KnownFacts ==
  ASSUME NEW p \in PerNode
  PROVE  /\ IsFiniteSet(Known(p)) /\ Known(p) \subseteq Node
         /\ \A n \in Known(p) : /\ p[n] \in Window
                                /\ p[n].start \in Nat /\ p[n].end \in Nat
                                /\ p[n].copy \in Nat /\ p[n].bytes \in Nat
                                /\ p[n].age \in Nat
<1>1. Known(p) \in SUBSET Node
  BY DEF Known
<1>2. IsFiniteSet(Known(p))
  BY <1>1, GatewayAssumption, FS_Subset
<1>3. \A n \in Known(p) : p[n] \in Window
  BY DEF Known, PerNode
<1> QED
  BY <1>1, <1>2, <1>3 DEF Window

(* The latest end is one of the ends. *)
LEMMA MaxEndIs ==
  ASSUME NEW p \in PerNode, Known(p) # {}
  PROVE  /\ MaxEnd(p) \in Nat
         /\ \E n \in Known(p) : p[n].end = MaxEnd(p)
<1> DEFINE E == {p[n].end : n \in Known(p)}
           f == [n \in Known(p) |-> p[n].end]
<1>1. E \in SUBSET Nat /\ E # {}
  BY KnownFacts
<1>2. f \in Surjection(Known(p), E)
  BY DEF Surjection
<1> HIDE DEF E, f
<1>3. IsFiniteSet(E)
  BY <1>2, KnownFacts, FS_Surjection
<1>4. Max(E) \in E
  BY <1>1, <1>3, MaxIs
<1> QED
  BY <1>1, <1>4, Zenon DEF MaxEnd, E

(* A start has finitely many voters. *)
LEMMA VotesType ==
  ASSUME NEW p \in PerNode, NEW s
  PROVE  /\ Cardinality(Voters(p, s)) \in Nat
         /\ Cardinality(Node) \in Nat
         /\ Cardinality(Voters(p, s)) <= Cardinality(Node)
<1>1. Voters(p, s) \in SUBSET Node
  BY DEF Voters, Known
<1>2. IsFiniteSet(Node)
  BY GatewayAssumption
<1> QED
  BY <1>1, <1>2, FS_Subset, FS_CardinalityType

(* The selected window is the window of some node. *)
LEMMA SelectedIs ==
  ASSUME NEW p \in PerNode, Known(p) # {}
  PROVE  /\ SelectedWindow(p) \in Nat \X Nat
         /\ \E n \in Known(p) : Bounds(p[n]) = SelectedWindow(p)
<1> DEFINE at     == {n \in Known(p) : p[n].end = MaxEnd(p)}
           starts == {p[n].start : n \in at}
           votes  == {Cardinality(Voters(p, s)) : s \in starts}
<1>1. starts # {} /\ starts \subseteq Nat
  BY MaxEndIs, KnownFacts
<1>2. votes \in SUBSET Nat /\ votes # {} /\ \A v \in votes : v <= Cardinality(Node)
  BY <1>1, VotesType
<1> HIDE DEF votes
<1>3. IsFiniteSet(votes)
  BY <1>2, VotesType, FS_BoundedSetOfNaturals
<1>4. PICK v \in votes : \A u \in votes : v >= u
  BY <1>2, <1>3, GreatestNat
<1>5. PICK s \in starts : v = Cardinality(Voters(p, s))
  BY <1>4 DEF votes
<1>6. \A t \in starts : Cardinality(Voters(p, s)) >= Cardinality(Voters(p, t))
  BY <1>4, <1>5 DEF votes
<1>7. MostVoted(p) = {r \in starts : \A t \in starts :
        Cardinality(Voters(p, r)) >= Cardinality(Voters(p, t))}
  BY DEF MostVoted
<1>8. s \in MostVoted(p) /\ MostVoted(p) \subseteq starts
  BY <1>5, <1>6, <1>7
<1> DEFINE m == Min(MostVoted(p))
<1>9. m \in starts
  BY <1>1, <1>8, MinIs
<1>10. PICK n \in Known(p) : p[n].end = MaxEnd(p) /\ p[n].start = m
  BY <1>9
<1>11. SelectedWindow(p) = <<m, MaxEnd(p)>>
  BY DEF SelectedWindow
<1> HIDE DEF m, starts
<1> QED
  BY <1>10, <1>11, KnownFacts DEF Bounds

(***************************************************************************)
(* Two views of the nodes of a query that differ in no more than ages      *)
(* select the same window and merge the same parts.                        *)
(***************************************************************************)
SameEntry(w, v) ==
  /\ w = None <=> v = None
  /\ w # None => w.start = v.start /\ w.end = v.end /\ w.copy = v.copy

SameView(p, r) == \A n \in Node : SameEntry(p[n], r[n])

(* The nodes known and the parts they have are the same. *)
LEMMA SameKnown ==
  ASSUME NEW p, NEW r, SameView(p, r)
  PROVE  /\ Known(p) = Known(r)
         /\ \A n \in Known(p) : /\ Bounds(p[n]) = Bounds(r[n])
                                /\ p[n].start = r[n].start /\ p[n].end = r[n].end
                                /\ PartOf(p, n) = PartOf(r, n)
BY DEF SameView, SameEntry, Known, Bounds, PartOf

(* The selected window is the same. *)
LEMMA SameSelected ==
  ASSUME NEW p, NEW r, SameView(p, r)
  PROVE  SelectedWindow(p) = SelectedWindow(r)
<1>1. {p[n].end : n \in Known(p)} = {r[n].end : n \in Known(r)}
  BY SameKnown
<1>2. MaxEnd(p) = MaxEnd(r)
  BY <1>1 DEF MaxEnd
<1> DEFINE at(v) == {n \in Known(v) : v[n].end = MaxEnd(v)}
           starts(v) == {v[n].start : n \in at(v)}
<1>3. at(p) = at(r)
  BY <1>2, SameKnown
<1>4. starts(p) = starts(r)
  BY <1>3, SameKnown
<1>5. \A s : Voters(p, s) = Voters(r, s)
  BY <1>2, SameKnown DEF Voters
<1>6. \A v : MostVoted(v) = {s \in starts(v) : \A t \in starts(v) :
        Cardinality(Voters(v, s)) >= Cardinality(Voters(v, t))}
  BY DEF MostVoted
<1> HIDE DEF starts
<1>7. MostVoted(p) = MostVoted(r)
  BY <1>4, <1>5, <1>6
<1> QED
  BY <1>2, <1>7 DEF SelectedWindow

(* A shard merges the same parts when its nodes' entries are the same. *)
LEMMA SameShard ==
  ASSUME NEW p, NEW r, NEW target, NEW s,
         \A n \in Node : ShardOf[n] = s => SameEntry(p[n], r[n])
  PROVE  MergeCacheShard(p, target, s) = MergeCacheShard(r, target, s)
<1> DEFINE of(v) == {n \in Known(v) : ShardOf[n] = s /\ Bounds(v[n]) = target}
<1>1. of(p) = of(r)
  BY DEF Known, SameEntry, Bounds
<1>2. \A n \in of(p) : PartOf(p, n) = PartOf(r, n)
  BY DEF Known, SameEntry, PartOf
<1>3. \A v : MergeCacheShard(v, target, s) = {PartOf(v, n) : n \in of(v)}
  BY DEF MergeCacheShard
<1> HIDE DEF of
<1> QED
  BY <1>1, <1>2, <1>3

(***************************************************************************)
(* The cache of one query.                                                 *)
(***************************************************************************)

AllParts(p) == {PartOf(p, n) : n \in Known(p)}

(* CacheCurrent for a query whose nodes are p and whose cache is c. *)
CacheOf(p, c) ==
  IF Known(p) = {} THEN c = None
  ELSE /\ c \in MergeCache
       /\ c.target = SelectedWindow(p)
       /\ \A s \in Shard : c.shards[s] = MergeCacheShard(p, SelectedWindow(p), s)
       /\ c.final \in {{}, AllParts(p)}

(* A cache that is current stays current while only ages change. *)
LEMMA SameCache ==
  ASSUME NEW p, NEW r, NEW c, SameView(p, r), CacheOf(p, c)
  PROVE  CacheOf(r, c)
<1>1. SelectedWindow(p) = SelectedWindow(r)
  BY SameSelected
<1>2. \A s : MergeCacheShard(p, SelectedWindow(p), s)
               = MergeCacheShard(r, SelectedWindow(r), s)
  BY <1>1, SameShard DEF SameView
<1>3. AllParts(p) = AllParts(r) /\ Known(p) = Known(r)
  BY SameKnown DEF AllParts
<1> QED
  BY <1>1, <1>2, <1>3 DEF CacheOf

(* What a shard merges are parts. *)
LEMMA ShardType ==
  ASSUME NEW p \in PerNode, NEW target, NEW s
  PROVE  MergeCacheShard(p, target, s) \in SUBSET Part
BY KnownFacts DEF MergeCacheShard, PartOf, Part

(* Rebuilding the shards of the nodes that changed is enough: from a cache *)
(* current for p it gives one current for r.                               *)
LEMMA RefreshIsCurrent ==
  ASSUME NEW p \in PerNode, NEW r \in PerNode, NEW c \in MergeCache \cup {None},
         CacheOf(p, c), NEW changed,
         \A n \in Node : ShardOf[n] \notin changed => SameEntry(p[n], r[n])
  PROVE  /\ CacheOf(r, RefreshQueryCache(r, c, changed))
         /\ RefreshQueryCache(r, c, changed) \in MergeCache \cup {None}
<1>1. CASE Known(r) = {}
  BY <1>1 DEF RefreshQueryCache, CacheOf
<1>2. CASE Known(r) # {}
  <2> DEFINE target == SelectedWindow(r)
             all    == c = None \/ c.target # target
             shards == [s \in Shard |->
                IF all \/ s \in changed
                  THEN MergeCacheShard(r, target, s) ELSE c.shards[s]]
             d == [target |-> target, shards |-> shards, final |-> {}]
  <2>1. RefreshQueryCache(r, c, changed) = d
    BY <1>2 DEF RefreshQueryCache
  <2>2. target \in Nat \X Nat
    BY <1>2, SelectedIs
  <2>3. ASSUME NEW s \in Shard
        PROVE  shards[s] = MergeCacheShard(r, target, s)
    <3>1. CASE all \/ s \in changed
      BY <3>1
    <3>2. CASE ~(all \/ s \in changed)
      <4>1. Known(p) # {}
        BY <3>2 DEF CacheOf
      <4>2. c.shards[s] = MergeCacheShard(p, target, s)
        BY <3>2, <4>1 DEF CacheOf
      <4>3. \A n \in Node : ShardOf[n] = s => SameEntry(p[n], r[n])
        BY <3>2
      <4>4. MergeCacheShard(p, target, s) = MergeCacheShard(r, target, s)
        BY <4>3, SameShard
      <4> HIDE DEF target, all
      <4> QED
        BY <3>2, <4>2, <4>4
    <3> QED
      BY <3>1, <3>2
  <2>4. shards \in [Shard -> SUBSET Part]
    <3> HIDE DEF target
    <3>1. DOMAIN shards = Shard
      OBVIOUS
    <3>2. \A s \in Shard : shards[s] \in SUBSET Part
      BY <2>3, ShardType
    <3> HIDE DEF shards
    <3>3. shards = [s \in Shard |-> shards[s]]
      BY DEF shards
    <3> QED
      BY <3>2, <3>3
  <2> HIDE DEF target, shards
  <2>5. d \in MergeCache /\ d.target = target /\ d.shards = shards /\ d.final = {}
    BY <2>2, <2>4 DEF MergeCache
  <2> HIDE DEF d
  <2> QED
    BY <1>2, <2>1, <2>3, <2>5 DEF CacheOf, target
<1> QED
  BY <1>1, <1>2

(***************************************************************************)
(* Eviction.                                                               *)
(***************************************************************************)

(* What eviction leaves. *)
LEMMA LiveIs ==
  ASSUME TypeOK
  PROVE  /\ Live \in [Query -> PerNode]
         /\ \A q \in Query : \A n \in Node :
              Live[q][n] = IF IsStale(nodes[q][n]) THEN None ELSE nodes[q][n]
BY DEF TypeOK, PerNode, Live

(* The caches are current after an eviction, too. *)
LEMMA EvictionIsCurrent ==
  ASSUME TypeOK, \A q \in Query : CacheOf(nodes[q], cache[q])
  PROVE  /\ CacheAfterEviction \in [Query -> MergeCache \cup {None}]
         /\ \A q \in Query : CacheOf(Live[q], CacheAfterEviction[q])
<1> DEFINE stale(q)   == {n \in Node : IsStale(nodes[q][n])}
           changed(q) == {ShardOf[n] : n \in stale(q)}
           after(q)   == IF changed(q) = {} THEN cache[q]
                         ELSE RefreshQueryCache(Live[q], cache[q], changed(q))
<1>1. CacheAfterEviction = [q \in Query |-> after(q)]
  BY DEF CacheAfterEviction, RefreshChangedCaches
<1>2. ASSUME NEW q \in Query
      PROVE  after(q) \in MergeCache \cup {None} /\ CacheOf(Live[q], after(q))
  <2>1. /\ Live[q] \in PerNode /\ nodes[q] \in PerNode
        /\ cache[q] \in MergeCache \cup {None} /\ CacheOf(nodes[q], cache[q])
    BY LiveIs DEF TypeOK
  <2>2. \A n \in Node : ShardOf[n] \notin changed(q) => SameEntry(nodes[q][n], Live[q][n])
    BY LiveIs DEF SameEntry
  <2>3. CASE changed(q) = {}
    <3>1. SameView(nodes[q], Live[q])
      BY <2>2, <2>3 DEF SameView
    <3> QED
      BY <2>1, <2>3, <3>1, SameCache
  <2>4. CASE changed(q) # {}
    <3> HIDE DEF changed
    <3> QED
      BY <2>1, <2>2, <2>4, RefreshIsCurrent
  <2> QED
    BY <2>3, <2>4
<1> HIDE DEF after
<1> QED
  BY <1>1, <1>2

(***************************************************************************)
(* A push.                                                                 *)
(***************************************************************************)
Batch == UNION {[Q -> Snapshot] : Q \in SUBSET Query}

ReplacedBy(n, states) ==
  {q \in Query : Replaces(Live[q][n], states, q, BytesAfter(Live, n, states)[q - 1])}

StoredAfter(n, states) == [q \in Query |->
  IF q \in ReplacedBy(n, states) THEN [Live[q] EXCEPT ![n] = Stored(states[q])]
  ELSE IF q \in {k \in DOMAIN states : StalePush(Live[k][n], states[k])}
    THEN [Live[q] EXCEPT ![n].age = 0]
  ELSE Live[q]]

CacheAfterPush(n, states) ==
  RefreshChangedCaches(StoredAfter(n, states), CacheAfterEviction,
    [q \in Query |-> IF q \in ReplacedBy(n, states) THEN {ShardOf[n]} ELSE {}])

(* A step that only evicts. *)
Evicts ==
  /\ nodes' = Live /\ cache' = CacheAfterEviction
  /\ retained' = RetainedAfterEviction

(* A step that evicts and then applies a batch. *)
Applies(n, states) ==
  /\ Admits(Live, n)
  /\ nodes' = StoredAfter(n, states) /\ cache' = CacheAfterPush(n, states)
  /\ retained' = BytesAfter(Live, n, states)[QueryCount]

(* A push stores nothing, only evicts, or evicts and applies its batch. *)
LEMMA PushIs ==
  ASSUME Push
  PROVE  /\ reply' = None
         /\ \/ UNCHANGED <<nodes, cache, retained>>
            \/ Evicts
            \/ \E n \in Node : \E states \in Batch : Applies(n, states)
<1>1. PICK n \in Node, Q \in SUBSET Query :
        \E states \in [Q -> Snapshot] : ApplyBatch(n, states)
  BY DEF Push
<1>2. PICK states \in [Q -> Snapshot] : ApplyBatch(n, states)
  BY <1>1
<1>3. states \in Batch
  BY DEF Batch
<1>4. \/ UNCHANGED <<nodes, cache, retained>>
      \/ Evicts
      \/ Applies(n, states)
  BY <1>2, Zenon DEF ApplyBatch, Evicts, Applies, StoredAfter, CacheAfterPush, ReplacedBy
<1> QED
  BY <1>2, <1>3, <1>4 DEF ApplyBatch

(* A batch's states for the queries it names. *)
LEMMA BatchFacts ==
  ASSUME NEW states \in Batch, NEW q \in DOMAIN states
  PROVE  /\ q \in Query /\ states[q] \in Snapshot
         /\ states[q].start \in Nat /\ states[q].end \in Nat
         /\ states[q].copy \in Nat /\ states[q].bytes \in Nat
         /\ Stored(states[q]) \in Window
<1>1. q \in Query /\ states[q] \in Snapshot
  BY DEF Batch
<1>2. states[q] \in [start : Nat, end : Nat, copy : Nat, bytes : Nat]
  BY <1>1, GatewayAssumption
<1>3. /\ states[q].start \in Nat /\ states[q].end \in Nat
      /\ states[q].copy \in Nat /\ states[q].bytes \in Nat
  BY <1>2
<1> QED
  BY <1>1, <1>3 DEF Stored, Window

(* What a push leaves of every node's entry. *)
LEMMA StoredIs ==
  ASSUME TypeOK, NEW n \in Node, NEW states \in Batch
  PROVE  /\ StoredAfter(n, states) \in [Query -> PerNode]
         /\ \A q \in ReplacedBy(n, states) :
              /\ q \in DOMAIN states /\ ~StalePush(Live[q][n], states[q])
              /\ StoredAfter(n, states)[q][n] = Stored(states[q])
         /\ \A q \in Query \ ReplacedBy(n, states) : \A k \in Node :
              /\ SameEntry(Live[q][k], StoredAfter(n, states)[q][k])
              /\ BytesOf(Live[q][k]) = BytesOf(StoredAfter(n, states)[q][k])
         /\ \A q \in Query : \A k \in Node \ {n} :
              StoredAfter(n, states)[q][k] = Live[q][k]
<1>1. Live \in [Query -> PerNode]
  BY LiveIs
<1> DEFINE A == StoredAfter(n, states)
           R == ReplacedBy(n, states)
           older(q) == q \in DOMAIN states /\ StalePush(Live[q][n], states[q])
<1>2. \A q \in Query : A[q] =
        IF q \in R THEN [Live[q] EXCEPT ![n] = Stored(states[q])]
        ELSE IF older(q) THEN [Live[q] EXCEPT ![n].age = 0]
        ELSE Live[q]
  BY DEF StoredAfter
<1>3. A = [q \in Query |-> A[q]]
  BY DEF StoredAfter
<1>4. ASSUME NEW q \in R
      PROVE  /\ A[q] \in PerNode /\ A[q][n] = Stored(states[q])
             /\ q \in DOMAIN states /\ ~StalePush(Live[q][n], states[q])
             /\ \A k \in Node : k # n => A[q][k] = Live[q][k]
  <2>1. q \in Query /\ q \in DOMAIN states /\ ~StalePush(Live[q][n], states[q])
    BY DEF ReplacedBy, Replaces
  <2>2. A[q] = [Live[q] EXCEPT ![n] = Stored(states[q])]
    BY <1>2, <2>1
  <2>3. Stored(states[q]) \in Window /\ Live[q] \in PerNode
    BY <1>1, <2>1, BatchFacts
  <2> HIDE DEF A
  <2> QED
    BY <2>1, <2>2, <2>3 DEF PerNode
<1>5. ASSUME NEW q \in Query, q \notin R, older(q)
      PROVE  /\ A[q] \in PerNode
             /\ \A k \in Node : k # n => A[q][k] = Live[q][k]
             /\ \A k \in Node : /\ SameEntry(Live[q][k], A[q][k])
                                /\ BytesOf(Live[q][k]) = BytesOf(A[q][k])
  <2> DEFINE w == Live[q][n]
             v == [w EXCEPT !.age = 0]
  <2>1. A[q] = [Live[q] EXCEPT ![n] = v]
    BY <1>2, <1>5
  <2>2. Live[q] \in PerNode /\ w \in Window
    BY <1>1, <1>5 DEF PerNode, StalePush
  <2>3. v \in Window /\ v.start = w.start /\ v.end = w.end /\ v.copy = w.copy
        /\ v.bytes = w.bytes
    BY <2>2 DEF Window
  <2>4. v # None /\ w # None
    BY <2>2, <2>3, NoneAssumption
  <2>5. SameEntry(w, v) /\ BytesOf(w) = BytesOf(v)
    BY <2>3, <2>4 DEF SameEntry, BytesOf
  <2>6. \A k \in Node : A[q][k] = IF k = n THEN v ELSE Live[q][k]
    BY <2>1, <2>2 DEF PerNode
  <2> HIDE DEF v, A
  <2>7. A[q] \in PerNode
    BY <2>1, <2>2, <2>3 DEF PerNode
  <2>8. \A k \in Node : SameEntry(Live[q][k], Live[q][k])
    BY DEF SameEntry
  <2> QED
    BY <2>5, <2>6, <2>7, <2>8
<1>6. ASSUME NEW q \in Query, q \notin R, ~older(q)
      PROVE  /\ A[q] \in PerNode
             /\ \A k \in Node : k # n => A[q][k] = Live[q][k]
             /\ \A k \in Node : /\ SameEntry(Live[q][k], A[q][k])
                                /\ BytesOf(Live[q][k]) = BytesOf(A[q][k])
  <2>1. A[q] = Live[q]
    BY <1>2, <1>6
  <2> HIDE DEF A
  <2> QED
    BY <1>1, <2>1 DEF SameEntry
<1>7. R \subseteq Query
  BY DEF ReplacedBy
<1> HIDE DEF A, R, older
<1>8. A \in [Query -> PerNode]
  BY <1>3, <1>4, <1>5, <1>6
<1> QED
  BY <1>4, <1>5, <1>6, <1>7, <1>8 DEF A, R

(* The caches are current after a push. *)
LEMMA PushIsCurrent ==
  ASSUME TypeOK, \A q \in Query : CacheOf(nodes[q], cache[q]),
         NEW n \in Node, NEW states \in Batch
  PROVE  /\ CacheAfterPush(n, states) \in [Query -> MergeCache \cup {None}]
         /\ \A q \in Query :
              CacheOf(StoredAfter(n, states)[q], CacheAfterPush(n, states)[q])
<1> DEFINE A == StoredAfter(n, states)
           R == ReplacedBy(n, states)
           E == CacheAfterEviction
           after(q) == IF q \in R THEN RefreshQueryCache(A[q], E[q], {ShardOf[n]})
                       ELSE E[q]
<1>1. CacheAfterPush(n, states) = [q \in Query |-> after(q)]
  BY DEF CacheAfterPush, RefreshChangedCaches
<1>2. /\ E \in [Query -> MergeCache \cup {None}] /\ Live \in [Query -> PerNode]
      /\ \A q \in Query : CacheOf(Live[q], E[q])
  BY EvictionIsCurrent, LiveIs
<1>3. /\ A \in [Query -> PerNode]
      /\ \A q \in Query :
           /\ q \notin R => SameView(Live[q], A[q])
           /\ \A k \in Node : k # n => SameEntry(Live[q][k], A[q][k])
  <2>1. \A w : SameEntry(w, w)
    BY DEF SameEntry
  <2>2. A \in [Query -> PerNode]
    BY StoredIs
  <2>3. ASSUME NEW q \in Query
        PROVE  /\ q \notin R => SameView(Live[q], A[q])
               /\ \A k \in Node : k # n => SameEntry(Live[q][k], A[q][k])
    <3>1. \A k \in Node : q \notin R => SameEntry(Live[q][k], A[q][k])
      BY StoredIs
    <3>2. \A k \in Node : k # n => A[q][k] = Live[q][k]
      BY StoredIs
    <3> HIDE DEF A, R
    <3> QED
      BY <2>1, <3>1, <3>2 DEF SameView
  <2> QED
    BY <2>2, <2>3
<1> HIDE DEF A, R, E
<1>4. ASSUME NEW q \in Query
      PROVE  after(q) \in MergeCache \cup {None} /\ CacheOf(A[q], after(q))
  <2>1. CASE q \in R
    <3>1. \A k \in Node : ShardOf[k] \notin {ShardOf[n]} => SameEntry(Live[q][k], A[q][k])
      BY <1>3
    <3> QED
      BY <1>2, <1>3, <2>1, <3>1, RefreshIsCurrent
  <2>2. CASE q \notin R
    BY <1>2, <1>3, <2>2, SameCache
  <2> QED
    BY <2>1, <2>2
<1> HIDE DEF after
<1> QED
  BY <1>1, <1>4 DEF A

(***************************************************************************)
(* A scrape.                                                               *)
(***************************************************************************)
Agreeing(p) == {n \in Known(p) : Bounds(p[n]) = SelectedWindow(p)}

(* The shards together hold the parts of the nodes with the selected       *)
(* window, and as many as are known only if all have that window.          *)
LEMMA CompleteIs ==
  ASSUME NEW p \in PerNode, NEW c, Known(p) # {}, CacheOf(p, c)
  PROVE  /\ PartsOf(c) = {PartOf(p, n) : n \in Agreeing(p)}
         /\ MergeComplete(p, c) <=> Agreeing(p) = Known(p)
<1> DEFINE t == SelectedWindow(p)
           M == Agreeing(p)
           f == [n \in M |-> PartOf(p, n)]
<1>1. PartsOf(c) = UNION {MergeCacheShard(p, t, s) : s \in Shard}
  BY DEF PartsOf, CacheOf
<1>2. \A s : MergeCacheShard(p, t, s) = {PartOf(p, n) : n \in {k \in M : ShardOf[k] = s}}
  BY DEF MergeCacheShard, Agreeing
<1>3. \A n \in M : ShardOf[n] \in Shard
  BY GatewayAssumption DEF Agreeing, Known
<1> HIDE DEF M, t
<1>4. PartsOf(c) = {PartOf(p, n) : n \in M}
  BY <1>1, <1>2, <1>3
<1>5. \A n, k \in M : PartOf(p, n) = PartOf(p, k) => n = k
  BY DEF PartOf
<1>6. f \in Bijection(M, PartsOf(c))
  <2>1. f \in [M -> PartsOf(c)] /\ \A n \in M : f[n] = PartOf(p, n)
    BY <1>4
  <2>2. \A b \in PartsOf(c) : \E n \in M : f[n] = b
    BY <1>4, <2>1
  <2> HIDE DEF f
  <2>3. \A n, k \in M : f[n] = f[k] => n = k
    BY <1>5, <2>1
  <2>4. f \in Surjection(M, PartsOf(c))
    BY <2>1, <2>2 DEF Surjection
  <2>5. f \in Injection(M, PartsOf(c))
    BY <2>1, <2>3 DEF Injection, IsInjective
  <2> QED
    BY <2>4, <2>5 DEF Bijection
<1>7. M \in SUBSET Known(p) /\ IsFiniteSet(Known(p))
  BY KnownFacts DEF M, Agreeing
<1>8. IsFiniteSet(M) /\ (Cardinality(Known(p)) = Cardinality(M) => Known(p) = M)
  BY <1>7, FS_Subset
<1>9. ExistsBijection(M, PartsOf(c))
  BY <1>6 DEF ExistsBijection
<1>10. Cardinality(PartsOf(c)) = Cardinality(M)
  BY <1>8, <1>9, FS_Bijection
<1> QED
  BY <1>4, <1>8, <1>10 DEF MergeComplete, M

(* All nodes have the selected window when they all have one window. *)
LEMMA AgreeIs ==
  ASSUME NEW p \in PerNode
  PROVE  Cardinality({Bounds(p[n]) : n \in Known(p)}) = 1
           <=> Known(p) # {} /\ Agreeing(p) = Known(p)
<1> DEFINE B == {Bounds(p[n]) : n \in Known(p)}
           f == [n \in Known(p) |-> Bounds(p[n])]
<1>1. f \in Surjection(Known(p), B)
  BY DEF Surjection
<1>2. IsFiniteSet(B)
  BY <1>1, KnownFacts, FS_Surjection
<1>3. Cardinality(B) = 1 <=> \E x : B = {x}
  BY <1>2, FS_Singleton
<1>4. CASE Known(p) = {}
  BY <1>3, <1>4
<1>5. CASE Known(p) # {}
  <2>1. SelectedWindow(p) \in B
    BY <1>5, SelectedIs
  <2>2. Agreeing(p) = Known(p) <=> \A b \in B : b = SelectedWindow(p)
    BY DEF Agreeing
  <2> HIDE DEF B
  <2>3. (\E x : B = {x}) <=> \A b \in B : b = SelectedWindow(p)
    <3>1. (\A b \in B : b = SelectedWindow(p)) => B = {SelectedWindow(p)}
      BY <2>1
    <3> QED
      BY <2>1, <3>1
  <2> QED
    BY <1>3, <1>5, <2>2, <2>3 DEF B
<1> QED
  BY <1>4, <1>5

(* The final merge a scrape makes is that of all nodes. *)
LEMMA FinalisedIs ==
  ASSUME NEW p \in PerNode, NEW c \in MergeCache \cup {None}, CacheOf(p, c)
  PROVE  LET d == Finalised(p, c)
         IN  /\ d \in MergeCache \cup {None} /\ CacheOf(p, d)
             /\ d = None <=> Known(p) = {}
             /\ d # None => (MergeComplete(p, d) <=> Agreeing(p) = Known(p))
             /\ (d # None /\ MergeComplete(p, d)) => d.final = AllParts(p)
<1> DEFINE d == Finalised(p, c)
<1>1. CASE Known(p) = {}
  <2>1. c = None /\ d = None
    BY <1>1 DEF CacheOf, Finalised
  <2> HIDE DEF d
  <2> QED
    BY <1>1, <2>1 DEF CacheOf, d
<1>2. CASE Known(p) # {}
  <2>1. c \in MergeCache /\ c # None
    BY <1>2, NoneAssumption DEF CacheOf
  <2>2. /\ PartsOf(c) = {PartOf(p, n) : n \in Agreeing(p)}
        /\ MergeComplete(p, c) <=> Agreeing(p) = Known(p)
    BY <1>2, CompleteIs
  <2>3. CASE MergeComplete(p, c) /\ c.final = {}
    <3>1. d = [c EXCEPT !.final = PartsOf(c)]
      BY <2>1, <2>3 DEF Finalised
    <3>2. PartsOf(c) = AllParts(p)
      BY <2>2, <2>3 DEF AllParts
    <3>3. PartsOf(c) \in SUBSET Part
      BY <2>1 DEF PartsOf, MergeCache
    <3> HIDE DEF d
    <3>4. /\ d \in MergeCache /\ d.target = c.target /\ d.shards = c.shards
          /\ d.final = AllParts(p)
      BY <2>1, <3>1, <3>2, <3>3 DEF MergeCache
    <3>5. CacheOf(p, d)
      BY <1>2, <3>4 DEF CacheOf
    <3>6. MergeComplete(p, d) <=> Agreeing(p) = Known(p)
      BY <1>2, <3>5, CompleteIs
    <3>7. d # None
      BY <3>4, NoneAssumption
    <3> QED
      BY <1>2, <3>4, <3>5, <3>6, <3>7 DEF d
  <2>4. CASE ~(MergeComplete(p, c) /\ c.final = {})
    <3>1. d = c
      BY <2>4 DEF Finalised
    <3>2. MergeComplete(p, c) => c.final = AllParts(p)
      BY <1>2, <2>4 DEF CacheOf
    <3> HIDE DEF d
    <3> QED
      BY <1>2, <2>1, <2>2, <3>1, <3>2 DEF d
  <2> QED
    BY <2>3, <2>4
<1> QED
  BY <1>1, <1>2

(***************************************************************************)
(* The budget.                                                             *)
(***************************************************************************)

(* The bytes retained after query i, from those retained before it. *)
StepBytes(data, n, states, i, b) ==
  IF Replaces(data[i][n], states, i, b)
    THEN (b - BytesOf(data[i][n])) + states[i].bytes ELSE b

IsBytesAfter(f, k, data, n, states) ==
  f = [i \in 0 .. k |-> IF i = 0 THEN RetainedAfterEviction
                        ELSE StepBytes(data, n, states, i, f[i - 1])]

(* The recursion over the queries of a batch is well defined. *)
LEMMA BytesAfterIs ==
  ASSUME NEW data, NEW n, NEW states
  PROVE  /\ BytesAfter(data, n, states)[0] = RetainedAfterEviction
         /\ \A i \in 1 .. QueryCount : BytesAfter(data, n, states)[i] =
              StepBytes(data, n, states, i, BytesAfter(data, n, states)[i - 1])
<1> DEFINE Is(f, k) == IsBytesAfter(f, k, data, n, states)
           T == {k \in 0 .. QueryCount : ~ \E f : Is(f, k)}
<1>0. QueryCount \in Nat
  BY GatewayAssumption
<1>1. \E f : Is(f, 0)
  <2> DEFINE f == [i \in 0 .. 0 |-> RetainedAfterEviction]
  <2>1. f = [i \in 0 .. 0 |-> IF i = 0 THEN RetainedAfterEviction
                              ELSE StepBytes(data, n, states, i, f[i - 1])]
    OBVIOUS
  <2> QED
    BY <2>1 DEF IsBytesAfter
<1>2. ASSUME NEW k \in Nat, \E f : Is(f, k)
      PROVE  \E f : Is(f, k + 1)
  <2>1. PICK f : Is(f, k)
    BY <1>2
  <2> DEFINE last == StepBytes(data, n, states, k + 1, f[k])
             g == [i \in 0 .. k + 1 |-> IF i = k + 1 THEN last ELSE f[i]]
             h == [i \in 0 .. k + 1 |-> IF i = 0 THEN RetainedAfterEviction
                                        ELSE StepBytes(data, n, states, i, g[i - 1])]
  <2>2. \A i \in 0 .. k : f[i] = IF i = 0 THEN RetainedAfterEviction
                                 ELSE StepBytes(data, n, states, i, f[i - 1])
    BY <2>1, Zenon DEF IsBytesAfter
  <2>3. \A i \in 0 .. k : g[i] = f[i]
    OBVIOUS
  <2>4. g[k + 1] = last
    OBVIOUS
  <2>5. ASSUME NEW i \in 0 .. k + 1
        PROVE  g[i] = IF i = 0 THEN RetainedAfterEviction
                      ELSE StepBytes(data, n, states, i, g[i - 1])
    <3> HIDE DEF g
    <3>1. CASE i = k + 1
      <4>1. i - 1 = k /\ i # 0 /\ k \in 0 .. k
        BY <3>1
      <4> QED
        BY <2>3, <2>4, <3>1, <4>1
    <3>2. CASE i \in 0 .. k /\ i # 0
      <4>1. i - 1 \in 0 .. k
        BY <3>2
      <4> QED
        BY <2>2, <2>3, <3>2, <4>1
    <3>3. CASE i = 0
      BY <2>2, <2>3, <3>3
    <3> QED
      BY <3>1, <3>2, <3>3
  <2>6. g = h
    <3>1. g = [i \in 0 .. k + 1 |-> g[i]]
      OBVIOUS
    <3> HIDE DEF g
    <3> QED
      BY <2>5, <3>1
  <2> HIDE DEF g
  <2> QED
    BY <2>6 DEF IsBytesAfter
<1> HIDE DEF Is
<1>3. T = {}
  <2>1. SUFFICES ASSUME T # {} PROVE FALSE
    OBVIOUS
  <2>2. T \in SUBSET Nat
    BY <1>0
  <2>3. PICK k \in T : \A y \in T : k <= y
    BY <2>1, <2>2, LeastNat
  <2>4. k # 0 /\ k \in 0 .. QueryCount
    BY <1>1, <2>3
  <2>5. k - 1 \in Nat /\ k - 1 \in 0 .. QueryCount /\ ~(k <= k - 1) /\ (k - 1) + 1 = k
    BY <1>0, <2>4
  <2>6. \E f : Is(f, k - 1)
    BY <2>3, <2>5
  <2>7. \E f : Is(f, (k - 1) + 1)
    BY <1>2, <2>5, <2>6
  <2> QED
    BY <2>3, <2>5, <2>7
<1>4. \E f : Is(f, QueryCount)
  BY <1>0, <1>3
<1> DEFINE B == BytesAfter(data, n, states)
<1>5. B = CHOOSE f : Is(f, QueryCount)
  BY Zenon DEF BytesAfter, Is, IsBytesAfter, StepBytes
<1>6. Is(B, QueryCount)
  BY <1>4, <1>5, Zenon
<1> HIDE DEF B
<1>7. B = [i \in 0 .. QueryCount |-> IF i = 0 THEN RetainedAfterEviction
                              ELSE StepBytes(data, n, states, i, B[i - 1])]
  BY <1>6, Zenon DEF Is, IsBytesAfter
<1>8. \A i \in 0 .. QueryCount : B[i] = IF i = 0 THEN RetainedAfterEviction
                              ELSE StepBytes(data, n, states, i, B[i - 1])
  BY <1>7, Zenon
<1> QED
  BY <1>0, <1>8 DEF B

(* The bytes of node n's window for query q. *)
Cell(data, q, n) == {<<q, n>>} \X (1 .. BytesOf(data[q][n]))

(* A node's window has a size. *)
LEMMA CellIs ==
  ASSUME NEW data \in [Query -> PerNode], NEW q \in Query, NEW n \in Node
  PROVE  /\ BytesOf(data[q][n]) \in Nat
         /\ IsFiniteSet(Cell(data, q, n))
         /\ Cardinality(Cell(data, q, n)) = BytesOf(data[q][n])
<1>1. data[q][n] \in Window \cup {None}
  BY DEF PerNode
<1>2. BytesOf(data[q][n]) \in Nat
  BY <1>1 DEF BytesOf, Window
<1> DEFINE b == BytesOf(data[q][n])
<1> HIDE DEF b
<1>3. IsFiniteSet(1 .. b) /\ Cardinality(1 .. b) = b
  BY <1>2, FS_Interval DEF b
<1> DEFINE x == <<q, n>>
           I == 1 .. b
<1> HIDE DEF x, I
<1>4. IsFiniteSet({x}) /\ Cardinality({x}) = 1
  BY FS_Singleton
<1>5. IsFiniteSet({x} \X I) /\ Cardinality({x} \X I) = 1 * b
  <2>1. IsFiniteSet(I) /\ Cardinality(I) = b
    BY <1>3 DEF I
  <2> QED
    BY <1>4, <2>1, FS_Product
<1>6. 1 * b = b
  BY <1>2 DEF b
<1> QED
  BY <1>2, <1>5, <1>6 DEF Cell, b, x, I

(* Which bytes are stored, and that they are finitely many. *)
LEMMA BytesInIs ==
  ASSUME NEW data \in [Query -> PerNode]
  PROVE  /\ IsFiniteSet(BytesIn(data))
         /\ TotalBytes(data) \in Nat
         /\ \A x : x \in BytesIn(data) <=>
              \E q \in Query : \E n \in Node : x \in Cell(data, q, n)
<1> DEFINE C == {Cell(data, q, n) : q \in Query, n \in Node}
           f == [p \in Query \X Node |-> Cell(data, p[1], p[2])]
<1>1. BytesIn(data) = UNION C
  BY DEF BytesIn, Cell
<1>2. IsFiniteSet(Query \X Node)
  <2>1. IsFiniteSet(Query) /\ IsFiniteSet(Node)
    BY GatewayAssumption, FS_Interval DEF Query
  <2> QED
    BY <2>1, FS_Product
<1>3. f \in Surjection(Query \X Node, C)
  <2>1. f \in [Query \X Node -> C]
    OBVIOUS
  <2>2. \A c \in C : \E p \in Query \X Node : f[p] = c
    <3>1. ASSUME NEW q \in Query, NEW n \in Node
          PROVE  <<q, n>> \in Query \X Node /\ f[<<q, n>>] = Cell(data, q, n)
      OBVIOUS
    <3> SUFFICES ASSUME NEW c \in C PROVE \E p \in Query \X Node : f[p] = c
      OBVIOUS
    <3>2. PICK q \in Query, n \in Node : c = Cell(data, q, n)
      OBVIOUS
    <3> DEFINE x == <<q, n>>
    <3>3. x \in Query \X Node /\ f[x] = Cell(data, q, n)
      BY <3>1
    <3> HIDE DEF f, x
    <3> QED
      BY <3>2, <3>3
  <2> HIDE DEF f, C
  <2> QED
    BY <2>1, <2>2 DEF Surjection
<1> HIDE DEF f
<1>4. IsFiniteSet(C)
  BY <1>2, <1>3, FS_Surjection
<1>5. \A c \in C : IsFiniteSet(c)
  BY CellIs
<1>6. \A x : x \in UNION C <=>
        \E q \in Query : \E n \in Node : x \in Cell(data, q, n)
  OBVIOUS
<1> HIDE DEF C
<1>7. IsFiniteSet(UNION C)
  BY <1>4, <1>5, FS_UNION
<1>8. TotalBytes(data) \in Nat
  BY <1>1, <1>7, FS_CardinalityType DEF TotalBytes
<1> QED
  BY <1>1, <1>6, <1>7, <1>8

(* The same windows by size take the same bytes. *)
LEMMA SameBytes ==
  ASSUME NEW data \in [Query -> PerNode], NEW next \in [Query -> PerNode],
         \A q \in Query : \A n \in Node : BytesOf(data[q][n]) = BytesOf(next[q][n])
  PROVE  TotalBytes(data) = TotalBytes(next)
<1>1. \A q \in Query : \A n \in Node : Cell(data, q, n) = Cell(next, q, n)
  BY DEF Cell
<1>2. BytesIn(data) = BytesIn(next)
  <2>1. \A x : x \in BytesIn(data) <=>
              \E q \in Query : \E n \in Node : x \in Cell(data, q, n)
    BY BytesInIs
  <2>2. \A x : x \in BytesIn(next) <=>
              \E q \in Query : \E n \in Node : x \in Cell(next, q, n)
    BY BytesInIs
  <2>3. \A x : x \in BytesIn(data) <=> x \in BytesIn(next)
    BY <1>1, <2>1, <2>2
  <2> QED
    BY <2>3
<1> QED
  BY <1>2 DEF TotalBytes

(* The cells of different entries have no byte in common. *)
LEMMA CellsApart ==
  ASSUME NEW data, NEW next, NEW q, NEW n, NEW k, NEW m, NEW x,
         x \in Cell(data, q, n), x \in Cell(next, k, m)
  PROVE  q = k /\ n = m
BY DEF Cell

(* Replacing one window replaces its bytes. *)
LEMMA ReplaceBytes ==
  ASSUME NEW data \in [Query -> PerNode], NEW next \in [Query -> PerNode],
         NEW q \in Query, NEW n \in Node,
         \A k \in Query : \A m \in Node :
           <<k, m>> # <<q, n>> => BytesOf(data[k][m]) = BytesOf(next[k][m])
  PROVE  TotalBytes(next) =
           (TotalBytes(data) - BytesOf(data[q][n])) + BytesOf(next[q][n])
<1> DEFINE rest == BytesIn(data) \ Cell(data, q, n)
<1>1. \A k \in Query : \A m \in Node :
        <<k, m>> # <<q, n>> => Cell(data, k, m) = Cell(next, k, m)
  BY DEF Cell
<1>2. rest = BytesIn(next) \ Cell(next, q, n)
  <2>1. ASSUME NEW x
        PROVE  x \in rest <=> x \in BytesIn(next) \ Cell(next, q, n)
    <3>1. x \in rest <=> \E k \in Query : \E m \in Node :
                            <<k, m>> # <<q, n>> /\ x \in Cell(data, k, m)
      BY BytesInIs, CellsApart
    <3>2. x \in BytesIn(next) \ Cell(next, q, n)
            <=> \E k \in Query : \E m \in Node :
                  <<k, m>> # <<q, n>> /\ x \in Cell(next, k, m)
      BY BytesInIs, CellsApart
    <3> QED
      BY <1>1, <3>1, <3>2
  <2> QED
    BY <2>1
<1>3. Cell(data, q, n) \subseteq BytesIn(data) /\ Cell(next, q, n) \subseteq BytesIn(next)
  BY BytesInIs
<1>4. Cardinality(rest) = TotalBytes(data) - BytesOf(data[q][n])
  <2>1. BytesIn(data) \cap Cell(data, q, n) = Cell(data, q, n)
    BY <1>3
  <2>2. IsFiniteSet(BytesIn(data))
    BY BytesInIs
  <2>3. Cardinality(rest) = Cardinality(BytesIn(data))
          - Cardinality(BytesIn(data) \cap Cell(data, q, n))
    BY <2>2, FS_Difference
  <2> QED
    BY <2>1, <2>3, CellIs DEF TotalBytes
<1>5. Cardinality(rest) = TotalBytes(next) - BytesOf(next[q][n])
  <2>1. BytesIn(next) \cap Cell(next, q, n) = Cell(next, q, n)
    BY <1>3
  <2>2. IsFiniteSet(BytesIn(next))
    BY BytesInIs
  <2>3. Cardinality(BytesIn(next) \ Cell(next, q, n)) = Cardinality(BytesIn(next))
          - Cardinality(BytesIn(next) \cap Cell(next, q, n))
    BY <2>2, FS_Difference
  <2> QED
    BY <1>2, <2>1, <2>3, CellIs DEF TotalBytes
<1> HIDE DEF rest
<1> QED
  BY <1>4, <1>5, BytesInIs, CellIs

(* An eviction frees exactly the bytes of the windows it drops. *)
LEMMA EvictedBytes ==
  ASSUME TypeOK, retained = TotalBytes(nodes)
  PROVE  RetainedAfterEviction = TotalBytes(Live)
<1>1. Live \in [Query -> PerNode] /\ nodes \in [Query -> PerNode]
  BY LiveIs DEF TypeOK
<1>2. Evicted \in [Query -> PerNode]
  BY DEF TypeOK, PerNode, Evicted
<1>3. \A q \in Query : \A n \in Node :
        /\ Live[q][n] = IF IsStale(nodes[q][n]) THEN None ELSE nodes[q][n]
        /\ Evicted[q][n] = IF IsStale(nodes[q][n]) THEN nodes[q][n] ELSE None
  BY LiveIs DEF Evicted
<1>4. \A q \in Query : \A n \in Node :
        /\ Cell(Live, q, n) = IF IsStale(nodes[q][n]) THEN {} ELSE Cell(nodes, q, n)
        /\ Cell(Evicted, q, n) = IF IsStale(nodes[q][n]) THEN Cell(nodes, q, n) ELSE {}
  BY <1>3 DEF Cell, BytesOf
<1>5. BytesIn(nodes) = BytesIn(Live) \cup BytesIn(Evicted)
  BY <1>1, <1>2, <1>4, BytesInIs
<1>6. BytesIn(Live) \cap BytesIn(Evicted) = {}
  <2>1. SUFFICES ASSUME NEW x, x \in BytesIn(Live), x \in BytesIn(Evicted)
                 PROVE  FALSE
    OBVIOUS
  <2>2. PICK q \in Query, n \in Node : x \in Cell(Live, q, n)
    BY <1>1, <2>1, BytesInIs
  <2>3. PICK k \in Query, m \in Node : x \in Cell(Evicted, k, m)
    BY <1>2, <2>1, BytesInIs
  <2>4. q = k /\ n = m
    BY <2>2, <2>3, CellsApart
  <2> QED
    BY <1>4, <2>2, <2>3, <2>4
<1>7. /\ IsFiniteSet(BytesIn(Live)) /\ IsFiniteSet(BytesIn(Evicted))
      /\ TotalBytes(Live) \in Nat /\ TotalBytes(Evicted) \in Nat
  BY <1>1, <1>2, BytesInIs
<1>8. Cardinality(BytesIn(Live) \cup BytesIn(Evicted))
        = Cardinality(BytesIn(Live)) + Cardinality(BytesIn(Evicted)) - 0
  BY <1>6, <1>7, FS_Union, FS_EmptySet
<1>9. TotalBytes(nodes) = TotalBytes(Live) + TotalBytes(Evicted)
  BY <1>5, <1>7, <1>8 DEF TotalBytes
<1> QED
  BY <1>7, <1>9 DEF RetainedAfterEviction

(* The nodes after the first i queries of a batch. *)
AfterQueries(n, states, i) ==
  [q \in Query |-> IF q <= i THEN StoredAfter(n, states)[q] ELSE Live[q]]

(* The running total of a push is the size of what is stored so far, and   *)
(* never more than the budget.                                             *)
LEMMA PushBytes ==
  ASSUME TypeOK, retained = TotalBytes(nodes), retained <= MaxBytes,
         NEW n \in Node, NEW states \in Batch
  PROVE  /\ BytesAfter(Live, n, states)[QueryCount] = TotalBytes(StoredAfter(n, states))
         /\ BytesAfter(Live, n, states)[QueryCount] <= MaxBytes
<1> DEFINE A == StoredAfter(n, states)
           R == ReplacedBy(n, states)
           B == BytesAfter(Live, n, states)
           P(i) == AfterQueries(n, states, i)
           Good(i) == B[i] = TotalBytes(P(i)) /\ B[i] <= MaxBytes
<1>1. QueryCount \in Nat \ {0} /\ MaxBytes \in Nat
  BY GatewayAssumption
<1>2. /\ B[0] = RetainedAfterEviction
      /\ \A i \in 1 .. QueryCount : B[i] = StepBytes(Live, n, states, i, B[i - 1])
  BY BytesAfterIs
<1>3. Live \in [Query -> PerNode] /\ A \in [Query -> PerNode]
  BY LiveIs, StoredIs
<1>4. \A i \in 0 .. QueryCount : P(i) \in [Query -> PerNode]
  BY <1>3 DEF AfterQueries
<1>5. Good(0)
  <2>1. P(0) = Live
    BY <1>3 DEF AfterQueries, Query
  <2>2. RetainedAfterEviction = TotalBytes(Live)
    BY EvictedBytes
  <2>3. RetainedAfterEviction <= retained
    <3>1. TotalBytes(Live) \in Nat /\ retained \in Nat
      BY <1>3, BytesInIs DEF TypeOK
    <3>2. TotalBytes(Evicted) \in Nat
      <4>1. Evicted \in [Query -> PerNode]
        BY DEF TypeOK, PerNode, Evicted
      <4> QED
        BY <4>1, BytesInIs
    <3> QED
      BY <3>1, <3>2 DEF RetainedAfterEviction
  <2>4. RetainedAfterEviction \in Nat /\ retained \in Nat
    BY <1>3, <2>2, BytesInIs DEF TypeOK
  <2> QED
    BY <1>1, <1>2, <2>1, <2>2, <2>3, <2>4
<1>6. ASSUME NEW i \in 1 .. QueryCount, Good(i - 1)
      PROVE  Good(i)
  <2> DEFINE D == P(i - 1)
             N == P(i)
  <2>1. /\ i \in Query /\ i - 1 \in 0 .. QueryCount /\ i \in 0 .. QueryCount
        /\ D \in [Query -> PerNode] /\ N \in [Query -> PerNode]
    BY <1>1, <1>4 DEF Query
  <2>2. /\ D[i] = Live[i] /\ N[i] = A[i]
        /\ \A k \in Query : k # i => D[k] = N[k]
    BY <1>1, <2>1 DEF AfterQueries, Query
  <2>3. B[i] = StepBytes(Live, n, states, i, B[i - 1])
    BY <1>2
  <2>4. B[i - 1] = TotalBytes(D) /\ B[i - 1] <= MaxBytes
    BY <1>6
  <2>5. i \in R <=> Replaces(Live[i][n], states, i, B[i - 1])
    BY <2>1 DEF ReplacedBy
  <2> HIDE DEF A, R, B, P
  <2>6. CASE i \in R
    <3>1. /\ i \in DOMAIN states /\ A[i][n] = Stored(states[i])
          /\ \A k \in Node : k # n => A[i][k] = Live[i][k]
      BY <2>1, <2>6, StoredIs DEF A, R
    <3>2. states[i].bytes \in Nat /\ Stored(states[i]) \in Window
      BY <3>1, BatchFacts
    <3>3. BytesOf(A[i][n]) = states[i].bytes
      BY <3>1, <3>2, NoneAssumption DEF BytesOf, Stored
    <3>4. \A k \in Query : \A m \in Node :
            <<k, m>> # <<i, n>> => BytesOf(D[k][m]) = BytesOf(N[k][m])
      <4>1. ASSUME NEW k \in Query, NEW m \in Node, <<k, m>> # <<i, n>>
            PROVE  D[k][m] = N[k][m]
        <5>1. k # i \/ (k = i /\ m # n)
          BY <4>1
        <5> QED
          BY <2>2, <3>1, <5>1
      <4> QED
        BY <4>1
    <3>5. TotalBytes(N) = (TotalBytes(D) - BytesOf(D[i][n])) + BytesOf(N[i][n])
      BY <2>1, <3>4, ReplaceBytes
    <3>6. Fits(B[i - 1], Live[i][n], states[i])
      BY <2>5, <2>6 DEF Replaces
    <3>7. B[i] = (B[i - 1] - BytesOf(Live[i][n])) + states[i].bytes
      BY <2>3, <2>5, <2>6 DEF StepBytes
    <3>8. B[i] = TotalBytes(N)
      BY <2>2, <2>4, <3>3, <3>5, <3>7
    <3>9. B[i] <= MaxBytes
      BY <3>6, <3>7 DEF Fits
    <3> QED
      BY <3>8, <3>9
  <2>7. CASE i \notin R
    <3>1. \A k \in Node : BytesOf(A[i][k]) = BytesOf(Live[i][k])
      BY <2>1, <2>7, StoredIs DEF A, R
    <3>2. \A k \in Query : \A m \in Node : BytesOf(D[k][m]) = BytesOf(N[k][m])
      BY <2>2, <3>1
    <3>3. TotalBytes(D) = TotalBytes(N)
      BY <2>1, <3>2, SameBytes
    <3>4. B[i] = B[i - 1]
      BY <2>3, <2>5, <2>7 DEF StepBytes
    <3> QED
      BY <2>4, <3>3, <3>4
  <2> QED
    BY <2>6, <2>7
<1> DEFINE T == {i \in 0 .. QueryCount : ~Good(i)}
<1> HIDE DEF Good
<1>7. T = {}
  <2>1. SUFFICES ASSUME T # {} PROVE FALSE
    OBVIOUS
  <2>2. T \in SUBSET Nat
    BY <1>1
  <2>3. PICK i \in T : \A y \in T : i <= y
    BY <2>1, <2>2, LeastNat
  <2>4. i # 0 /\ i \in 0 .. QueryCount
    BY <1>5, <2>3
  <2>5. i \in 1 .. QueryCount /\ i - 1 \in 0 .. QueryCount /\ ~(i <= i - 1)
    BY <1>1, <2>4
  <2>6. Good(i - 1)
    BY <2>3, <2>5
  <2> QED
    BY <1>6, <2>3, <2>5, <2>6
<1>8. Good(QueryCount)
  BY <1>1, <1>7
<1>9. P(QueryCount) = A
  BY <1>1, <1>3 DEF AfterQueries, Query
<1> QED
  BY <1>8, <1>9 DEF Good

(***************************************************************************)
(* The node limit.                                                         *)
(***************************************************************************)

(* Finitely many nodes are tracked. *)
LEMMA TrackedIs ==
  ASSUME NEW data
  PROVE  /\ IsFiniteSet(Tracked(data)) /\ Cardinality(Tracked(data)) \in Nat
         /\ \A n : n \in Tracked(data) <=>
              n \in Node /\ \E q \in Query : data[q][n] # None
<1>1. \A n : n \in Tracked(data) <=>
        n \in Node /\ \E q \in Query : data[q][n] # None
  BY DEF Tracked, Known
<1>2. Tracked(data) \in SUBSET Node
  BY <1>1
<1>3. IsFiniteSet(Node)
  BY GatewayAssumption
<1>4. IsFiniteSet(Tracked(data))
  BY <1>2, <1>3, FS_Subset
<1> QED
  BY <1>1, <1>4, FS_CardinalityType

(* Eviction tracks no node more. *)
LEMMA EvictionTracks ==
  ASSUME TypeOK, Cardinality(Tracked(nodes)) <= MaxNodes
  PROVE  Cardinality(Tracked(Live)) <= MaxNodes
<1>1. \A q \in Query : \A n \in Node : Live[q][n] # None => nodes[q][n] # None
  BY LiveIs
<1>2. Tracked(Live) \in SUBSET Tracked(nodes)
  BY <1>1, TrackedIs
<1>3. Cardinality(Tracked(Live)) <= Cardinality(Tracked(nodes))
  BY <1>2, TrackedIs, FS_Subset
<1>4. /\ Cardinality(Tracked(Live)) \in Nat /\ Cardinality(Tracked(nodes)) \in Nat
      /\ MaxNodes \in Nat
  BY TrackedIs, GatewayAssumption
<1> QED
  BY <1>3, <1>4

(* A push that is admitted leaves no more than the limit. *)
LEMMA PushTracks ==
  ASSUME TypeOK, Cardinality(Tracked(nodes)) <= MaxNodes,
         NEW n \in Node, NEW states \in Batch, Admits(Live, n)
  PROVE  Cardinality(Tracked(StoredAfter(n, states))) <= MaxNodes
<1> DEFINE A == StoredAfter(n, states)
           L == Tracked(Live)
<1>1. \A q \in Query : \A k \in Node \ {n} : A[q][k] = Live[q][k]
  BY StoredIs
<1> HIDE DEF A
<1>2. Tracked(A) \in SUBSET (L \cup {n})
  BY <1>1, TrackedIs
<1>3. IsFiniteSet(L) /\ Cardinality(L) \in Nat /\ Cardinality(L) <= MaxNodes
  BY TrackedIs, EvictionTracks
<1> HIDE DEF L
<1>4. /\ IsFiniteSet(L \cup {n})
      /\ Cardinality(L \cup {n}) = IF n \in L THEN Cardinality(L) ELSE Cardinality(L) + 1
  BY <1>3, FS_AddElement
<1>5. n \in L \/ Cardinality(L) < MaxNodes
  BY DEF Admits, L
<1>6. MaxNodes \in Nat
  BY GatewayAssumption
<1>7. Cardinality(L \cup {n}) <= MaxNodes /\ Cardinality(L \cup {n}) \in Nat
  BY <1>3, <1>4, <1>5, <1>6
<1>8. Cardinality(Tracked(A)) <= Cardinality(L \cup {n})
  BY <1>2, <1>4, FS_Subset
<1>9. Cardinality(Tracked(A)) \in Nat
  BY TrackedIs
<1> QED
  BY <1>6, <1>7, <1>8, <1>9 DEF A

(***************************************************************************)
(* The inductive invariant.  Each part needs the types; the limits need    *)
(* the exact account of the bytes, without which checked_sub could fail,   *)
(* and the estimates need the caches.                                      *)
(***************************************************************************)
CachesOK == \A q \in Query : CacheOf(nodes[q], cache[q])

GatewayInv == TypeOK /\ CachesOK /\ LimitsHold

(* The empty gateway. *)
LEMMA InitInv ==
  ASSUME Init
  PROVE  GatewayInv /\ EstimatesWhole
<1>1. TypeOK
  BY DEF Init, TypeOK, PerNode
<1>2. \A q \in Query : Known(nodes[q]) = {} /\ cache[q] = None
  BY DEF Init, Known
<1>3. CachesOK
  BY <1>2 DEF CachesOK, CacheOf
<1>4. nodes \in [Query -> PerNode]
  BY <1>1 DEF TypeOK
<1>5. \A q \in Query : \A n \in Node : BytesOf(nodes[q][n]) = 0
  BY DEF Init, BytesOf
<1>6. \A q \in Query : \A n \in Node : Cell(nodes, q, n) = {}
  BY <1>5 DEF Cell
<1>7. BytesIn(nodes) = {}
  BY <1>4, <1>6, BytesInIs
<1>8. TotalBytes(nodes) = 0
  BY <1>7, FS_EmptySet DEF TotalBytes
<1>9. Tracked(nodes) = {}
  BY TrackedIs DEF Init
<1>10. Cardinality(Tracked(nodes)) = 0
  BY <1>9, FS_EmptySet
<1>11. LimitsHold
  BY <1>8, <1>10, GatewayAssumption DEF LimitsHold, Init
<1>12. EstimatesWhole
  BY DEF Init, EstimatesWhole
<1> QED
  BY <1>1, <1>3, <1>11, <1>12 DEF GatewayInv

(* A step that only evicts. *)
LEMMA EvictsInv ==
  ASSUME GatewayInv, nodes' = Live, retained' = RetainedAfterEviction,
         cache' \in [Query -> MergeCache \cup {None}],
         \A q \in Query : CacheOf(Live[q], cache'[q])
  PROVE  GatewayInv'
<1>1. TypeOK /\ retained = TotalBytes(nodes) /\ retained <= MaxBytes
      /\ Cardinality(Tracked(nodes)) <= MaxNodes
  BY DEF GatewayInv, LimitsHold
<1>2. Live \in [Query -> PerNode] /\ RetainedAfterEviction = TotalBytes(Live)
  BY <1>1, LiveIs, EvictedBytes
<1>3. RetainedAfterEviction \in Nat /\ TotalBytes(Evicted) \in Nat
  <2>1. Evicted \in [Query -> PerNode]
    BY <1>1 DEF TypeOK, PerNode, Evicted
  <2> QED
    BY <1>2, <2>1, BytesInIs
<1>4. RetainedAfterEviction <= MaxBytes
  <2>1. retained \in Nat /\ MaxBytes \in Nat
    BY <1>1, GatewayAssumption DEF TypeOK
  <2> QED
    BY <1>1, <1>3, <2>1 DEF RetainedAfterEviction
<1>5. TypeOK'
  BY <1>2, <1>3 DEF TypeOK
<1>6. CachesOK'
  BY DEF CachesOK
<1>7. LimitsHold'
  <2>1. Cardinality(Tracked(Live)) <= MaxNodes
    BY <1>1, EvictionTracks
  <2>2. TotalBytes(nodes)' = TotalBytes(Live) /\ Tracked(nodes)' = Tracked(Live)
    BY DEF TotalBytes, BytesIn, Tracked
  <2> QED
    BY <1>2, <1>4, <2>1, <2>2 DEF LimitsHold
<1> QED
  BY <1>5, <1>6, <1>7 DEF GatewayInv

(* A push that is applied. *)
LEMMA AppliesInv ==
  ASSUME GatewayInv, NEW n \in Node, NEW states \in Batch, Applies(n, states)
  PROVE  GatewayInv'
<1> DEFINE A == StoredAfter(n, states)
           B == BytesAfter(Live, n, states)[QueryCount]
<1>1. TypeOK /\ retained = TotalBytes(nodes) /\ retained <= MaxBytes
      /\ Cardinality(Tracked(nodes)) <= MaxNodes /\ CachesOK
  BY DEF GatewayInv, LimitsHold
<1>2. nodes' = A /\ retained' = B /\ cache' = CacheAfterPush(n, states) /\ Admits(Live, n)
  BY DEF Applies
<1>3. A \in [Query -> PerNode] /\ B = TotalBytes(A) /\ B <= MaxBytes
  BY <1>1, StoredIs, PushBytes
<1>4. /\ CacheAfterPush(n, states) \in [Query -> MergeCache \cup {None}]
      /\ \A q \in Query : CacheOf(A[q], CacheAfterPush(n, states)[q])
  BY <1>1, PushIsCurrent DEF CachesOK
<1>5. Cardinality(Tracked(A)) <= MaxNodes
  BY <1>1, <1>2, PushTracks
<1> HIDE DEF A, B
<1>6. TypeOK'
  BY <1>2, <1>3, <1>4, BytesInIs DEF TypeOK
<1>7. CachesOK'
  BY <1>2, <1>4 DEF CachesOK
<1>8. TotalBytes(nodes)' = TotalBytes(A) /\ Tracked(nodes)' = Tracked(A)
  BY <1>2 DEF TotalBytes, BytesIn, Tracked
<1>9. LimitsHold'
  BY <1>2, <1>3, <1>5, <1>8 DEF LimitsHold
<1> QED
  BY <1>6, <1>7, <1>9 DEF GatewayInv

(* The clock moves ages only. *)
LEMMA TickIs ==
  ASSUME TypeOK, Tick
  PROVE  /\ nodes' \in [Query -> PerNode]
         /\ \A q \in Query : SameView(nodes[q], nodes'[q])
         /\ \A q \in Query : \A n \in Node : BytesOf(nodes[q][n]) = BytesOf(nodes'[q][n])
<1> DEFINE w(q, n) == nodes[q][n]
           v(q, n) == IF w(q, n) = None \/ w(q, n).age >= StaleAfter THEN w(q, n)
                      ELSE [w(q, n) EXCEPT !.age = @ + 1]
<1>1. nodes' = [q \in Query |-> [n \in Node |-> v(q, n)]]
  BY DEF Tick
<1>2. ASSUME NEW q \in Query, NEW n \in Node
      PROVE  /\ v(q, n) \in Window \cup {None}
             /\ SameEntry(w(q, n), v(q, n)) /\ BytesOf(w(q, n)) = BytesOf(v(q, n))
  <2>1. w(q, n) \in Window \cup {None}
    BY DEF TypeOK, PerNode
  <2>2. CASE w(q, n) = None \/ w(q, n).age >= StaleAfter
    BY <2>1, <2>2 DEF SameEntry
  <2>3. CASE ~(w(q, n) = None \/ w(q, n).age >= StaleAfter)
    <3> DEFINE x == w(q, n)
               y == [x EXCEPT !.age = @ + 1]
    <3>1. x \in Window /\ x # None /\ v(q, n) = y
      BY <2>1, <2>3
    <3> HIDE DEF x
    <3>2. /\ y \in Window /\ y.start = x.start /\ y.end = x.end
          /\ y.copy = x.copy /\ y.bytes = x.bytes
      BY <3>1 DEF Window
    <3>3. y # None
      BY <3>2, NoneAssumption
    <3> HIDE DEF y
    <3>4. SameEntry(x, y) /\ BytesOf(x) = BytesOf(y)
      BY <3>1, <3>2, <3>3 DEF SameEntry, BytesOf
    <3> QED
      BY <3>1, <3>2, <3>4 DEF x
  <2> QED
    BY <2>2, <2>3
<1> HIDE DEF w, v
<1>3. \A q \in Query : \A n \in Node : nodes'[q][n] = v(q, n)
  BY <1>1
<1>4. nodes' \in [Query -> PerNode]
  BY <1>1, <1>2 DEF PerNode
<1> QED
  BY <1>2, <1>3, <1>4 DEF SameView, w

(* The clock changes neither the caches nor the limits. *)
LEMMA TickInv ==
  ASSUME GatewayInv, Tick
  PROVE  GatewayInv'
<1>1. TypeOK /\ CachesOK /\ LimitsHold /\ cache' = cache /\ retained' = retained
  BY DEF GatewayInv, Tick
<1>2. /\ nodes' \in [Query -> PerNode] /\ nodes \in [Query -> PerNode]
      /\ \A q \in Query : SameView(nodes[q], nodes'[q])
      /\ \A q \in Query : \A n \in Node : BytesOf(nodes[q][n]) = BytesOf(nodes'[q][n])
  BY <1>1, TickIs DEF TypeOK
<1>3. TypeOK'
  BY <1>1, <1>2 DEF TypeOK
<1>4. CachesOK'
  BY <1>1, <1>2, SameCache DEF CachesOK
<1> DEFINE D == nodes'
<1> HIDE DEF D
<1>5. TotalBytes(nodes) = TotalBytes(D)
  BY <1>2, SameBytes DEF D
<1>6. Tracked(nodes) = Tracked(D)
  <2>1. \A q \in Query : \A n \in Node : nodes[q][n] # None <=> D[q][n] # None
    BY <1>2 DEF SameView, SameEntry, D
  <2>2. \A n : n \in Tracked(nodes) <=> n \in Tracked(D)
    BY <2>1, TrackedIs
  <2> QED
    BY <2>2
<1>7. TotalBytes(nodes)' = TotalBytes(D) /\ Tracked(nodes)' = Tracked(D)
  BY DEF TotalBytes, BytesIn, Tracked, D
<1>8. LimitsHold'
  BY <1>1, <1>5, <1>6, <1>7 DEF LimitsHold
<1> QED
  BY <1>3, <1>4, <1>8 DEF GatewayInv

(* What a reply of a scrape must be, for the nodes of one query. *)
EstimateOf(p) ==
  IF Known(p) # {} /\ Agreeing(p) = Known(p) THEN AllParts(p) ELSE {}

(* EstimatesWhole for stored windows data and a reply r. *)
Whole(data, r) ==
  r # None =>
    \A q \in Query :
      LET known == Known(data[q])
          agree == Cardinality({Bounds(data[q][n]) : n \in known}) = 1
      IN  r.estimate[q] =
            IF agree THEN {PartOf(data[q], n) : n \in known} ELSE {}

(* EstimatesWhole, with the agreement of the nodes spelt out. *)
LEMMA WholeIs ==
  ASSUME NEW data \in [Query -> PerNode], NEW r
  PROVE  Whole(data, r) <=>
           (r # None => \A q \in Query : r.estimate[q] = EstimateOf(data[q]))
<1> DEFINE agree(q) == Cardinality({Bounds(data[q][n]) : n \in Known(data[q])}) = 1
           want(q)  == IF agree(q) THEN AllParts(data[q]) ELSE {}
<1>1. Whole(data, r) <=> (r # None => \A q \in Query : r.estimate[q] = want(q))
  BY DEF Whole, AllParts
<1>2. \A q \in Query : agree(q) <=>
        Known(data[q]) # {} /\ Agreeing(data[q]) = Known(data[q])
  BY AgreeIs
<1> HIDE DEF agree
<1>3. \A q \in Query : want(q) = EstimateOf(data[q])
  BY <1>2 DEF EstimateOf
<1> HIDE DEF want
<1> QED
  BY <1>1, <1>3

(* A scrape keeps the caches current and answers from them. *)
LEMMA ScrapeInv ==
  ASSUME GatewayInv, Scrape
  PROVE  GatewayInv' /\ EstimatesWhole'
<1> DEFINE F(q) == Finalised(Live[q], CacheAfterEviction[q])
           whole == {q \in Query : F(q) # None /\ MergeComplete(Live[q], F(q))}
<1>1. TypeOK /\ CachesOK
  BY DEF GatewayInv
<1>2. Live \in [Query -> PerNode]
  BY <1>1, LiveIs
<1>3. /\ CacheAfterEviction \in [Query -> MergeCache \cup {None}]
      /\ \A q \in Query : CacheOf(Live[q], CacheAfterEviction[q])
  BY <1>1, EvictionIsCurrent DEF CachesOK
<1>4. /\ nodes' = Live /\ retained' = RetainedAfterEviction
      /\ cache' = [q \in Query |-> F(q)]
  BY DEF Scrape
<1>5. ASSUME NEW q \in Query
      PROVE  /\ F(q) \in MergeCache \cup {None} /\ CacheOf(Live[q], F(q))
             /\ F(q) = None <=> Known(Live[q]) = {}
             /\ F(q) # None =>
                  (MergeComplete(Live[q], F(q)) <=> Agreeing(Live[q]) = Known(Live[q]))
             /\ (F(q) # None /\ MergeComplete(Live[q], F(q))) =>
                  F(q).final = AllParts(Live[q])
  <2> DEFINE p == Live[q]
             c == CacheAfterEviction[q]
  <2>1. p \in PerNode /\ c \in MergeCache \cup {None} /\ CacheOf(p, c)
    BY <1>2, <1>3
  <2> HIDE DEF p, c
  <2>2. LET d == Finalised(p, c)
        IN  /\ d \in MergeCache \cup {None} /\ CacheOf(p, d)
            /\ d = None <=> Known(p) = {}
            /\ d # None => (MergeComplete(p, d) <=> Agreeing(p) = Known(p))
            /\ (d # None /\ MergeComplete(p, d)) => d.final = AllParts(p)
    BY <2>1, FinalisedIs, Zenon
  <2> QED
    BY <2>2, Zenon DEF p, c
<1>6. reply' = [estimate |-> [q \in Query |-> IF q \in whole THEN F(q).final ELSE {}]]
  <2>1. \A q \in Query : [k \in Query |-> F(k)][q] = F(q)
    OBVIOUS
  <2> DEFINE M == [k \in Query |-> F(k)]
             all == {q \in Query : M[q] # None /\ MergeComplete(Live[q], M[q])}
  <2>2. reply' = [estimate |-> [q \in Query |-> IF q \in all THEN M[q].final ELSE {}]]
    BY Zenon DEF Scrape
  <2> HIDE DEF F
  <2>3. \A q \in Query : M[q] = F(q)
    OBVIOUS
  <2> HIDE DEF M
  <2>4. all = whole
    BY <2>3
  <2> HIDE DEF all, whole
  <2>5. [q \in Query |-> IF q \in all THEN M[q].final ELSE {}]
          = [q \in Query |-> IF q \in whole THEN F(q).final ELSE {}]
    BY <2>3, <2>4
  <2> QED
    BY <2>2, <2>5
<1> HIDE DEF F
<1>7. GatewayInv'
  <2>1. cache' \in [Query -> MergeCache \cup {None}]
    BY <1>4, <1>5
  <2>2. \A q \in Query : CacheOf(Live[q], cache'[q])
    BY <1>4, <1>5
  <2> QED
    BY <1>4, <2>1, <2>2, EvictsInv
<1>8. \A q \in Query : q \in whole <=>
        Known(Live[q]) # {} /\ Agreeing(Live[q]) = Known(Live[q])
  BY <1>5
<1>9. \A q \in whole : F(q).final = AllParts(Live[q])
  BY <1>5
<1> HIDE DEF whole
<1>10. \A q \in Query : (IF q \in whole THEN F(q).final ELSE {}) = EstimateOf(Live[q])
  BY <1>8, <1>9 DEF EstimateOf
<1>11. \A q \in Query : reply'.estimate[q] = IF q \in whole THEN F(q).final ELSE {}
  BY <1>6
<1>12. \A q \in Query : reply'.estimate[q] = EstimateOf(Live[q])
  BY <1>10, <1>11
<1> DEFINE r == reply'
<1> HIDE DEF r
<1>13. Whole(Live, r)
  BY <1>2, <1>12, WholeIs DEF r
<1>14. EstimatesWhole'
  BY <1>4, <1>13, Zenon DEF EstimatesWhole, Whole, r
<1> QED
  BY <1>7, <1>14

(* The clock keeps the last reply right: it changes no estimate. *)
LEMMA TickEstimates ==
  ASSUME GatewayInv, EstimatesWhole, Tick
  PROVE  EstimatesWhole'
<1> DEFINE D == nodes'
<1>1. TypeOK /\ reply' = reply /\ nodes \in [Query -> PerNode]
  BY DEF GatewayInv, Tick, TypeOK
<1>2. D \in [Query -> PerNode] /\ \A q \in Query : SameView(nodes[q], D[q])
  BY <1>1, TickIs
<1> HIDE DEF D
<1>3. \A q \in Query : EstimateOf(nodes[q]) = EstimateOf(D[q])
  <2>1. ASSUME NEW p, NEW r, SameView(p, r)
        PROVE  EstimateOf(p) = EstimateOf(r)
    <3>1. /\ Known(p) = Known(r) /\ SelectedWindow(p) = SelectedWindow(r)
          /\ \A n \in Known(p) : Bounds(p[n]) = Bounds(r[n]) /\ PartOf(p, n) = PartOf(r, n)
      BY <2>1, SameKnown, SameSelected
    <3>2. Agreeing(p) = Agreeing(r)
      BY <3>1 DEF Agreeing
    <3>3. AllParts(p) = AllParts(r)
      BY <3>1 DEF AllParts
    <3> QED
      BY <3>1, <3>2, <3>3 DEF EstimateOf
  <2> QED
    BY <1>2, <2>1
<1>4. Whole(nodes, reply)
  BY Zenon DEF EstimatesWhole, Whole
<1>5. Whole(D, reply)
  BY <1>1, <1>2, <1>3, <1>4, WholeIs
<1> QED
  BY <1>1, <1>5, Zenon DEF EstimatesWhole, Whole, D

(* Every step keeps the invariant and the reply right. *)
LEMMA NextInv ==
  ASSUME GatewayInv, EstimatesWhole, [Next]_vars
  PROVE  GatewayInv' /\ EstimatesWhole'
<1>1. CASE Push
  <2>1. EstimatesWhole'
    BY <1>1, PushIs DEF EstimatesWhole
  <2>2. CASE UNCHANGED <<nodes, cache, retained>>
    BY <2>1, <2>2 DEF GatewayInv, TypeOK, CachesOK, LimitsHold, TotalBytes, BytesIn,
                      Tracked
  <2>3. CASE Evicts
    <3>1. /\ nodes' = Live /\ retained' = RetainedAfterEviction
          /\ cache' = CacheAfterEviction
      BY <2>3 DEF Evicts
    <3> QED
      BY <2>1, <3>1, EvictionIsCurrent, EvictsInv DEF GatewayInv, CachesOK
  <2>4. CASE \E n \in Node : \E states \in Batch : Applies(n, states)
    BY <2>1, <2>4, AppliesInv
  <2> QED
    BY <1>1, <2>2, <2>3, <2>4, PushIs
<1>2. CASE Scrape
  BY <1>2, ScrapeInv
<1>3. CASE NodesJson
  <2>1. /\ nodes' = Live /\ retained' = RetainedAfterEviction
        /\ cache' = CacheAfterEviction /\ reply' = None
    BY <1>3 DEF NodesJson
  <2>2. EstimatesWhole'
    BY <2>1 DEF EstimatesWhole
  <2> QED
    BY <2>1, <2>2, EvictionIsCurrent, EvictsInv DEF GatewayInv, CachesOK
<1>4. CASE Tick
  BY <1>4, TickInv, TickEstimates
<1>5. CASE UNCHANGED vars
  <2>1. nodes' = nodes /\ cache' = cache /\ retained' = retained /\ reply' = reply
    BY <1>5 DEF vars
  <2>2. GatewayInv'
    BY <2>1 DEF GatewayInv, TypeOK, CachesOK, LimitsHold, TotalBytes, BytesIn, Tracked
  <2>3. EstimatesWhole'
    BY <2>1 DEF EstimatesWhole
  <2> QED
    BY <2>2, <2>3
<1> QED
  BY <1>1, <1>2, <1>3, <1>4, <1>5 DEF Next

(***************************************************************************)
(* The theorems.                                                           *)
(***************************************************************************)

(* The types, the caches and the limits together are an invariant of the   *)
(* gateway, with what a scrape returns.                                    *)
THEOREM GatewayInvariant == Spec => [](GatewayInv /\ EstimatesWhole)
<1>1. Init => GatewayInv /\ EstimatesWhole
  BY InitInv
<1>2. (GatewayInv /\ EstimatesWhole) /\ [Next]_vars => (GatewayInv /\ EstimatesWhole)'
  BY NextInv
<1> QED
  BY <1>1, <1>2, PTL DEF Spec

(* apply_batch, evict_stale and refresh_query_cache keep every query's     *)
(* incremental merge cache equal to a merge from scratch.                  *)
THEOREM CacheStaysCurrent == Spec => []CacheCurrent
<1>1. GatewayInv => CacheCurrent
  BY DEF GatewayInv, CachesOK, CacheOf, CacheCurrent, AllParts
<1> QED
  BY <1>1, GatewayInvariant, PTL

(* apply_batch and evict_stale account for every retained byte, and neither*)
(* maxRetainedSketchBytes nor maxNodes is ever exceeded.                   *)
THEOREM LimitsAlwaysHold == Spec => []LimitsHold
<1>1. GatewayInv => LimitsHold
  BY DEF GatewayInv
<1> QED
  BY <1>1, GatewayInvariant, PTL

(* merged gives an estimate exactly when all live nodes have one window,   *)
(* and then of all of them.                                                *)
THEOREM ScrapesFailClosed == Spec => []EstimatesWhole
BY GatewayInvariant, PTL

(* A push, an eviction or the clock moves no live window to an earlier end.*)
LEMMA NextForward ==
  ASSUME GatewayInv, [Next]_vars, NEW q \in Query, NEW n \in Node,
         nodes[q][n] # None, nodes[q][n].age < StaleAfter
  PROVE  nodes'[q][n] # None /\ nodes'[q][n].end >= nodes[q][n].end
<1> DEFINE w == nodes[q][n]
<1>1. TypeOK
  BY DEF GatewayInv
<1>2. w \in Window /\ w # None
  BY <1>1 DEF TypeOK, PerNode
<1>3. w.age \in Nat /\ w.end \in Nat /\ StaleAfter \in Nat
  BY <1>2, GatewayAssumption DEF Window
<1>4. Live[q][n] = w
  BY <1>1, <1>3, LiveIs DEF IsStale
<1>5. \A v : SameEntry(w, v) => v # None /\ v.end >= w.end
  BY <1>2, <1>3 DEF SameEntry
<1>6. CASE nodes' = Live
  BY <1>2, <1>3, <1>4, <1>6
<1>7. CASE nodes' = nodes
  BY <1>2, <1>3, <1>7
<1>8. ASSUME NEW m \in Node, NEW states \in Batch, nodes' = StoredAfter(m, states)
      PROVE  nodes'[q][n] # None /\ nodes'[q][n].end >= w.end
  <2> DEFINE v == StoredAfter(m, states)[q][n]
  <2>1. CASE q \notin ReplacedBy(m, states)
    <3>1. SameEntry(Live[q][n], v)
      BY <1>1, <2>1, StoredIs
    <3> QED
      BY <1>4, <1>5, <1>8, <3>1
  <2>2. CASE m # n
    <3>1. n \in Node \ {m}
      BY <2>2
    <3>2. v = Live[q][n]
      BY <1>1, <3>1, StoredIs
    <3> QED
      BY <1>2, <1>3, <1>4, <1>8, <3>2
  <2>3. CASE q \in ReplacedBy(m, states) /\ m = n
    <3>1. /\ q \in DOMAIN states /\ ~StalePush(w, states[q])
          /\ v = Stored(states[q])
      BY <1>1, <1>4, <2>3, StoredIs
    <3>2. states[q].end \in Nat /\ Stored(states[q]) \in Window
      BY <3>1, BatchFacts
    <3>3. states[q].end >= w.end
      BY <1>2, <1>3, <3>1, <3>2 DEF StalePush
    <3>4. Stored(states[q]) # None /\ Stored(states[q]).end = states[q].end
      BY <3>2, NoneAssumption DEF Stored
    <3> QED
      BY <1>8, <3>1, <3>3, <3>4
  <2> QED
    BY <2>1, <2>2, <2>3
<1>9. CASE Tick
  <2>1. SameEntry(w, nodes'[q][n])
    BY <1>1, <1>9, TickIs DEF SameView
  <2> QED
    BY <1>5, <2>1
<1>10. CASE Push
  <2>1. \/ nodes' = nodes
        \/ nodes' = Live
        \/ \E m \in Node : \E states \in Batch : nodes' = StoredAfter(m, states)
    BY <1>10, PushIs DEF Evicts, Applies
  <2> QED
    BY <1>6, <1>7, <1>8, <2>1
<1> QED
  BY <1>6, <1>7, <1>9, <1>10 DEF Next, Scrape, NodesJson, vars

(* "out-of-order delivery must not roll estimates backwards": no step of   *)
(* the gateway moves a live node's window to an earlier end.               *)
THEOREM WindowsNeverRollBack == Spec => NeverRollsBack
<1>1. GatewayInv /\ [Next]_vars =>
        [\A q \in Query : \A n \in Node :
           (nodes[q][n] # None /\ nodes[q][n].age < StaleAfter) =>
             nodes'[q][n] # None /\ nodes'[q][n].end >= nodes[q][n].end]_vars
  BY NextForward
<1> QED
  BY <1>1, GatewayInvariant, PTL DEF Spec, NeverRollsBack

(* What a pusher thread keeps. *)
Client == [at : {"idle", "sent", "held", "answered", "backoff"},
           attempt : Nat, body : Body]

PushInv == made \in [Node -> Body] /\ client \in [Node -> Client]

(* A pusher only ever sends a snapshot its agent made. *)
LEMMA PushInvNext ==
  ASSUME PushInv, [PushNext]_allVars
  PROVE  PushInv'
<1>1. ASSUME NEW n \in Node PROVE NextAttempt(n) \in Client
  <2> DEFINE c == client[n]
  <2>1. c \in Client
    BY DEF PushInv
  <2>2. NextAttempt(n) = IF c.attempt < Attempts
                           THEN [c EXCEPT !.at = "backoff", !.attempt = @ + 1]
                           ELSE [c EXCEPT !.at = "idle"]
    BY DEF NextAttempt
  <2> HIDE DEF c
  <2>3. c.attempt + 1 \in Nat
    BY <2>1 DEF Client
  <2>4. [c EXCEPT !.at = "idle"] \in Client
    BY <2>1 DEF Client
  <2>5. [c EXCEPT !.at = "backoff"] \in Client
    BY <2>1 DEF Client
  <2>6. [c EXCEPT !.at = "backoff", !.attempt = @ + 1]
          = [[c EXCEPT !.at = "backoff"] EXCEPT !.attempt = c.attempt + 1]
    BY <2>1, Zenon DEF Client
  <2>7. [c EXCEPT !.at = "backoff", !.attempt = @ + 1] \in Client
    BY <2>3, <2>5, <2>6 DEF Client
  <2> QED
    BY <2>2, <2>4, <2>7
<1>2. Len(Stream) \in Nat
  BY PushAssumption
<1>3. ASSUME NEW n \in Node, Refresh(n) PROVE PushInv'
  BY <1>2, <1>3 DEF PushInv, Refresh, Body
<1> DEFINE Moves(n) == \E c \in Client : client' = [client EXCEPT ![n] = c]
<1>10. ASSUME NEW n \in Node, Moves(n), made' = made PROVE PushInv'
  BY <1>10 DEF PushInv
<1>11. ASSUME NEW n \in Node, NEW x \in {"idle", "sent", "held", "answered", "backoff"},
              client' = [client EXCEPT ![n].at = x]
       PROVE  Moves(n)
  <2> DEFINE c == client[n]
             d == [c EXCEPT !.at = x]
  <2>1. client' = [client EXCEPT ![n] = d]
    BY <1>11
  <2>2. c \in Client
    BY DEF PushInv
  <2>3. d \in Client
    BY <2>2 DEF Client
  <2> HIDE DEF d
  <2> QED
    BY <2>1, <2>3
<1> HIDE DEF Moves
<1>4. ASSUME NEW n \in Node, Pusher(n) PROVE PushInv'
  <2>1. CASE StartPush(n)
    <3> DEFINE c == [at |-> "sent", attempt |-> 1, body |-> made[n]]
    <3>1. c \in Client
      BY DEF PushInv, Client
    <3>2. client' = [client EXCEPT ![n] = c] /\ made' = made
      BY <2>1 DEF StartPush
    <3> HIDE DEF c
    <3> QED
      BY <1>10, <3>1, <3>2 DEF Moves
  <2>2. CASE Answered(n)
    BY <1>10, <1>11, <2>2 DEF Answered
  <2>3. CASE Resend(n)
    BY <1>10, <1>11, <2>3 DEF Resend
  <2> QED
    BY <1>4, <2>1, <2>2, <2>3 DEF Pusher
<1>5. ASSUME NEW n \in Node, AcceptLoop(n) PROVE PushInv'
  <2>1. CASE Admit(n)
    BY <1>10, <1>11, <2>1 DEF Admit
  <2>2. CASE Busy(n)
    BY <1>1, <1>10, <2>2 DEF Busy, Moves
  <2> QED
    BY <1>5, <2>1, <2>2 DEF AcceptLoop
<1>6. ASSUME NEW n \in Node, Handle(n) PROVE PushInv'
  BY <1>6, <1>10, <1>11 DEF Handle
<1>7. ASSUME NEW n \in Node, NEW b \in Body, HandleDelayed(n, b) PROVE PushInv'
  BY <1>7 DEF PushInv, HandleDelayed
<1>8. ASSUME NEW n \in Node, ConnectionFails(n) \/ Timeout(n) PROVE PushInv'
  BY <1>1, <1>8, <1>10 DEF Moves, ConnectionFails, Timeout
<1>9. CASE UNCHANGED pushVars \/ UNCHANGED allVars
  BY <1>9 DEF PushInv, pushVars, allVars
<1> QED
  BY <1>3, <1>4, <1>5, <1>6, <1>7, <1>8, <1>9 DEF PushNext

(* Agents that time out, retry and have abandoned requests applied late    *)
(* only ever push, scrape and let time pass: whatever holds of the gateway *)
(* on its own holds of it behind the push protocol.                        *)
THEOREM PushesImplementGateway == PushSpec => Spec
<1>1. PushInit => Init
  BY DEF PushInit
<1>2. ASSUME NEW n \in Node, NEW b \in Body, Receive(n, b)
      PROVE  Push
  <2> DEFINE states == [q \in Query |-> Stream[b]]
  <2>1. Stream[b] \in Snapshot
    BY PushAssumption DEF Body
  <2>2. Query \in SUBSET Query /\ states \in [Query -> Snapshot]
    BY <2>1
  <2>3. ApplyBatch(n, states)
    BY <1>2 DEF Receive
  <2> HIDE DEF states
  <2> QED
    BY <2>2, <2>3 DEF Push
<1>3. PushInv /\ [PushNext]_allVars => [Next]_vars
  <2> SUFFICES ASSUME PushInv, [PushNext]_allVars PROVE [Next]_vars
    OBVIOUS
  <2>1. ASSUME NEW n \in Node, Handle(n)
        PROVE  Push
    <3>1. client[n].body \in Body
      BY DEF PushInv, Client
    <3> QED
      BY <1>2, <2>1, <3>1 DEF Handle
  <2>2. ASSUME NEW n \in Node, NEW b \in Body, HandleDelayed(n, b)
        PROVE  Push
    BY <1>2, <2>2 DEF HandleDelayed
  <2>3. ASSUME NEW n \in Node,
               \/ Refresh(n) \/ Pusher(n) \/ AcceptLoop(n)
               \/ ConnectionFails(n) \/ Timeout(n)
        PROVE  UNCHANGED vars
    BY <2>3 DEF Refresh, Pusher, StartPush, Answered, Resend, AcceptLoop, Admit, Busy,
                ConnectionFails, Timeout
  <2> QED
    BY <2>1, <2>2, <2>3 DEF PushNext, Next, allVars, vars
<1>4. PushInit => PushInv
  <2>1. 1 \in Body
    BY PushAssumption DEF Body
  <2> QED
    BY <2>1 DEF PushInit, PushInv, Client
<1> QED
  BY <1>1, <1>3, <1>4, PushInvNext, PTL DEF PushSpec, Spec
===============================================================================
