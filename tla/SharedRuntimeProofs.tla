------------------------ MODULE SharedRuntimeProofs ---------------------------
(***************************************************************************)
(* The shared runtime for every number of shards, every ring, every batch  *)
(* and channel size and every stream: the shards of a batch complete the   *)
(* same windows however it is dealt, an ordered source has no late event,  *)
(* and no event the channel accepted is lost.                              *)
(***************************************************************************)
EXTENDS SharedRuntime, WindowMergeProofs

(***************************************************************************)
(* The types, and what a batch in progress is.                             *)
(***************************************************************************)
Taken == Len(log) - Len(channel)   \* events that left the channel

Stages == {"idle", "seed", "work", "refused"}

ShardOK(rq, I) == rq \in RunningQuery(I) /\ RingOK(rq.buckets, Ring)

TypeInv ==
  /\ config \in [strategy : {"flow", "round_robin"}, blocking : BOOLEAN]
  /\ log \in Seq([flow : Shard, ts : Nat])
  /\ channel \in Seq(Id) /\ Len(channel) <= Len(log)
  /\ \A i \in 1 .. Len(channel) : channel[i] = Taken + i
  /\ shards \in [Shard -> RunningQuery(Id)] /\ \A s \in Shard : ShardOK(shards[s], Id)
  /\ todo \in [Shard -> Seq(Id)]
  /\ stage \in [Shard -> Stages]
  /\ span \in [low : Nat, high : Nat, size : Nat]
  /\ nextShard \in Shard
  /\ counted \in Nat
  /\ published \in Seq(WindowState(Id))

(* The work td of a shard: later and later events, taken from the channel, *)
(* inside the batch's time span.                                           *)
WorkOK(td, lg, tk, sp) ==
  /\ \A j, k \in 1 .. Len(td) : j < k => td[j] < td[k]
  /\ \A k \in 1 .. Len(td) :
       td[k] <= tk /\ sp.low <= lg[td[k]].ts /\ lg[td[k]].ts <= sp.high

BatchInv ==
  /\ at \notin {"batch", "failed"} =>
       \A s \in Shard : stage[s] = "idle" /\ todo[s] = <<>>
  /\ at = "batch" =>
       /\ span.low <= span.high
       /\ \A s \in Shard : stage[s] = "idle" => todo[s] = <<>>
       /\ \A s \in Shard : WorkOK(todo[s], log, Taken, span)
  /\ at \in {"final", "done"} => channel = <<>> /\ ~srcOpen
  /\ at # "failed" => counted + (IF at = "batch" THEN span.size ELSE 0) = Taken

(***************************************************************************)
(* The alignment of the shards.  When the batch began every shard's ring   *)
(* went from slide f to slide b, or the shards were still empty and f and  *)
(* b are the slide of the batch's earliest event.                          *)
(***************************************************************************)
IsEmpty(rq) == rq.buckets = <<>> /\ rq.emitted = <<>>

Drained(rq, I, f, b) == OnTrack(rq, I, Ring, f, b) /\ BackStart(rq) = b

Fresh(rq, f, b, sp) == IsEmpty(rq) /\ f = sp.low /\ b = sp.low

Working(rq, I, f, b, sp) ==
  OnTrack(rq, I, Ring, f, b) /\ BackStart(rq) <= Larger(b, sp.high)

Marked(rq, I, f, b, sp) ==
  OnTrack(rq, I, Ring, f, b) /\ BackStart(rq) = Larger(b, sp.high)

Finished(rq, f, b) ==
  /\ Spans(rq.emitted, Ring, f, b) /\ Len(rq.emitted) = 1
  /\ rq.buckets # <<>> /\ BackStart(rq) = b
  /\ FrontStart(rq) = Larger(f, (b + 1) - Ring)

ShardAligned(s, f, b) ==
  /\ at = "recv" => Drained(shards[s], Id, f, b)
  /\ at = "batch" =>
       /\ stage[s] = "seed" => Drained(shards[s], Id, f, b) \/ Fresh(shards[s], f, b, span)
       /\ stage[s] = "work" => Working(shards[s], Id, f, b, span)
       /\ stage[s] = "idle" => Marked(shards[s], Id, f, b, span)
  /\ at = "publish" => Marked(shards[s], Id, f, b, span)
  /\ at = "final" => Finished(shards[s], f, b)

PublishedUpTo(ws, f, b) ==
  \A i \in 1 .. Len(ws) : ws[i].end <= b /\ ws[i].start <= f

Boundary(f, b) ==
  /\ f <= b
  /\ PublishedUpTo(published, f, b)
  /\ \A s \in Shard : ShardAligned(s, f, b)

Untouched ==
  /\ at \in {"recv", "final"} /\ published = <<>>
  /\ \A s \in Shard : IsEmpty(shards[s])

AlignInv ==
  /\ InOrder(published)
  /\ Running => Untouched \/ \E f, b \in Nat : Boundary(f, b)

(***************************************************************************)
(* How far a shard is: not further than an event that was taken before     *)
(* everything it still has to do.                                          *)
(***************************************************************************)
NotAhead(ts, td, lg, tk) ==
  \E i \in 1 .. tk : ts <= lg[i].ts /\ \A k \in 1 .. Len(td) : i <= td[k]

InTime(lg) == \A i, j \in 1 .. Len(lg) : i < j => lg[i].ts <= lg[j].ts

ShardOrder(s) ==
  /\ shards[s].buckets # <<>> => NotAhead(BackStart(shards[s]), todo[s], log, Taken)
  /\ at = "batch" => NotAhead(span.low, todo[s], log, Taken)
  /\ InTime(log) => shards[s].late = {}

OrderInv ==
  /\ \A s \in Shard : ShardOrder(s)
  /\ at = "batch" => NotAhead(span.high, <<>>, log, Taken)

(***************************************************************************)
(* Where an event is that was taken from the channel.                      *)
(***************************************************************************)
Waits(td, id) == \E k \in 1 .. Len(td) : td[k] = id

Kept(rq, td, id) == Holds(rq, id) \/ Waits(td, id)

Closed(rq, id) == id \in rq.late \/ InSome(rq.emitted, id)

Whole == at # "failed" /\ \A s \in Shard : stage[s] # "refused"

HeldInv ==
  Whole => \A id \in 1 .. Taken :
    \/ InSome(published, id)
    \/ \E s \in Shard : CASE at = "final" -> Closed(shards[s], id)
                         [] at = "done"  -> id \in shards[s].late
                         [] OTHER        -> Kept(shards[s], todo[s], id)

Inv == TypeInv /\ BatchInv /\ AlignInv /\ OrderInv /\ HeldInv

-------------------------------------------------------------------------------
(* What the constants are. *)
LEMMA ShardFacts ==
  /\ Ring \in Nat \ {0} /\ Capacity = Ring /\ Ts \subseteq Nat
  /\ ShardCount \in Nat \ {0} /\ BatchSize \in Nat \ {0} /\ 1 \in Shard
BY ShardsAssumption, ShardCapacity DEF Shard

(* A nonempty finite set of naturals has a least and a greatest element.   *)
LEMMA LeastGreatest ==
  ASSUME NEW S \in SUBSET Nat, IsFiniteSet(S), S # {}
  PROVE  /\ Least(S) \in S /\ \A x \in S : Least(S) <= x
         /\ Greatest(S) \in S /\ \A x \in S : x <= Greatest(S)
<1>1. \E m \in S : \A x \in S : m <= x
  <2>1. PICK m \in S : \A y \in S : ~ (<<y, m>> \in OpToRel(<, Nat))
    BY NatLessThanWellFounded, WFMin
  <2>2. \A y \in S : ~ (y < m)
    BY <2>1 DEF OpToRel
  <2> QED
    BY <2>2
<1>2. \E m \in S : \A x \in S : x <= m
  BY GreatestInt
<1> QED
  BY <1>1, <1>2 DEF Least, Greatest

(* Dealing: the k-th member of a set of positions is the one of rank k.    *)
Rank(mine, i) == Cardinality({j \in mine : j <= i})

Nth(mine, k) == CHOOSE i \in mine : Rank(mine, i) = k

(* Numbering a set of positions leaves none out and keeps their order.     *)
LEMMA NthLemma ==
  ASSUME NEW n \in Nat, NEW mine \in SUBSET (1 .. n)
  PROVE  /\ Cardinality(mine) \in Nat
         /\ \A k \in 1 .. Cardinality(mine) : Nth(mine, k) \in mine
         /\ \A k, l \in 1 .. Cardinality(mine) : k < l => Nth(mine, k) < Nth(mine, l)
         /\ \A i \in mine : \E k \in 1 .. Cardinality(mine) : Nth(mine, k) = i
<1> DEFINE c    == Cardinality(mine)
           R(i) == {j \in mine : j <= i}
           rank == [i \in mine |-> Rank(mine, i)]
<1>1. IsFiniteSet(mine) /\ c \in Nat
  <2>1. IsFiniteSet(1 .. n)
    BY FS_Interval
  <2> QED
    BY <2>1, FS_Subset, FS_CardinalityType
<1>2. \A i \in mine : i \in 1 .. n /\ i \in Nat
  OBVIOUS
<1>3. \A i \in mine : /\ IsFiniteSet(R(i)) /\ Cardinality(R(i)) \in Nat
                      /\ Cardinality(R(i)) <= c /\ Cardinality(R(i)) # 0
  <2> SUFFICES ASSUME NEW i \in mine
               PROVE  /\ IsFiniteSet(R(i)) /\ Cardinality(R(i)) \in Nat
                      /\ Cardinality(R(i)) <= c /\ Cardinality(R(i)) # 0
    OBVIOUS
  <2>1. R(i) \in SUBSET mine /\ i \in R(i)
    BY <1>2
  <2> HIDE DEF R, c
  <2>2. IsFiniteSet(R(i)) /\ Cardinality(R(i)) <= Cardinality(mine)
    BY <1>1, <2>1, FS_Subset
  <2> QED
    BY <2>1, <2>2, FS_CardinalityType, FS_EmptySet DEF c
<1>4. \A i \in mine : Rank(mine, i) = Cardinality(R(i)) /\ rank[i] = Rank(mine, i)
  BY DEF Rank
<1>5. \A i, j \in mine : i < j => Rank(mine, i) < Rank(mine, j)
  <2> SUFFICES ASSUME NEW i \in mine, NEW j \in mine, i < j
               PROVE  Cardinality(R(i)) < Cardinality(R(j))
    BY <1>4
  <2>1. R(i) \in SUBSET R(j) /\ j \in R(j) /\ j \notin R(i)
    <3>1. i \in Nat /\ j \in Nat /\ j <= j /\ ~(j <= i)
      BY <1>2
    <3>2. \A x \in mine : x <= i => x <= j
      BY <1>2, <3>1
    <3> QED
      BY <3>1, <3>2
  <2>2. /\ IsFiniteSet(R(j)) /\ Cardinality(R(j)) \in Nat /\ Cardinality(R(i)) \in Nat
    BY <1>3
  <2> HIDE DEF R
  <2>3. Cardinality(R(i)) <= Cardinality(R(j)) /\ (Cardinality(R(j)) = Cardinality(R(i)) => R(j) = R(i))
    BY <2>1, <2>2, FS_Subset
  <2> QED
    BY <2>1, <2>2, <2>3
<1> HIDE DEF R
<1>6. rank \in [mine -> 1 .. c] /\ \A i \in mine : rank[i] \in 1 .. c /\ rank[i] \in Nat
  BY <1>1, <1>3, <1>4
<1> HIDE DEF rank
<1>7. \A i, j \in mine : rank[i] = rank[j] => i = j
  <2> SUFFICES ASSUME NEW i \in mine, NEW j \in mine, rank[i] = rank[j], i # j
               PROVE  FALSE
    OBVIOUS
  <2>1. i < j \/ j < i
    BY <1>2
  <2> QED
    BY <1>4, <1>5, <1>6, <2>1
<1>8. \A k \in 1 .. c : \E i \in mine : rank[i] = k
  <2>1. rank \in Injection(mine, 1 .. c)
    BY <1>6, <1>7 DEF Injection, IsInjective
  <2>2. IsFiniteSet(1 .. c) /\ Cardinality(1 .. c) = c
    BY <1>1, FS_Interval
  <2> HIDE DEF c
  <2>3. rank \in Surjection(mine, 1 .. c)
    BY <2>1, <2>2, FS_Injection DEF c
  <2> QED
    BY <2>3 DEF Surjection
<1>9. \A k \in 1 .. c : Nth(mine, k) \in mine /\ rank[Nth(mine, k)] = k
  <2> SUFFICES ASSUME NEW k \in 1 .. c
               PROVE  Nth(mine, k) \in mine /\ rank[Nth(mine, k)] = k
    OBVIOUS
  <2>1. \E i \in mine : Rank(mine, i) = k
    BY <1>4, <1>8
  <2>2. Nth(mine, k) \in mine /\ Rank(mine, Nth(mine, k)) = k
    BY <2>1 DEF Nth
  <2> QED
    BY <1>4, <2>2
<1>10. \A k, l \in 1 .. c : k < l => Nth(mine, k) < Nth(mine, l)
  <2> SUFFICES ASSUME NEW k \in 1 .. c, NEW l \in 1 .. c, k < l,
                      ~ (Nth(mine, k) < Nth(mine, l))
               PROVE  FALSE
    OBVIOUS
  <2> DEFINE i == Nth(mine, k)
             j == Nth(mine, l)
  <2>1. i \in mine /\ j \in mine /\ rank[i] = k /\ rank[j] = l
    BY <1>9
  <2> HIDE DEF i, j
  <2>2. ~(i < j) /\ i \in Nat /\ j \in Nat
    BY <1>2, <2>1 DEF i, j
  <2>3. j < i => rank[j] < rank[i]
    BY <1>4, <1>5, <2>1
  <2>4. j < i \/ i = j
    BY <2>2
  <2> QED
    BY <2>1, <2>3, <2>4
<1>11. \A i \in mine : \E k \in 1 .. c : Nth(mine, k) = i
  <2> SUFFICES ASSUME NEW i \in mine PROVE Nth(mine, rank[i]) = i /\ rank[i] \in 1 .. c
    OBVIOUS
  <2>1. rank[i] \in 1 .. c
    BY <1>6
  <2>2. Nth(mine, rank[i]) \in mine /\ rank[Nth(mine, rank[i])] = rank[i]
    BY <1>9, <2>1
  <2> QED
    BY <1>7, <2>1, <2>2
<1> QED
  BY <1>1, <1>9, <1>10, <1>11

(* RoundRobin and the flow hash name a shard. *)
LEMMA ShardOfShard ==
  ASSUME TypeInv, NEW batch \in Seq(Id), NEW i \in 1 .. Len(batch)
  PROVE  ShardOf(batch, i) \in Shard
<1>1. batch[i] \in Id /\ i \in Nat /\ i >= 1
  BY SeqElements
<1>2. log[batch[i]].flow \in Shard
  <2>1. log \in Seq([flow : Shard, ts : Nat])
    BY DEF TypeInv
  <2>2. log[batch[i]] \in [flow : Shard, ts : Nat]
    BY <1>1, <2>1, SeqElements DEF Id
  <2> QED
    BY <2>2
<1>3. RoundRobin(i - 1) \in Shard
  <2> DEFINE a == nextShard - 1 + (i - 1)
  <2>1. a \in Int /\ ShardCount \in Nat \ {0}
    BY <1>1, ShardFacts DEF TypeInv, Shard
  <2> HIDE DEF a
  <2>2. a % ShardCount \in 0 .. (ShardCount - 1)
    BY <2>1
  <2>3. (a % ShardCount) + 1 \in 1 .. ShardCount
    BY <2>1, <2>2
  <2> QED
    BY <2>3 DEF RoundRobin, Shard, a
<1> QED
  BY <1>2, <1>3 DEF ShardOf

(* A batch is dealt out completely, and every shard gets its events in the *)
(* order of the batch.                                                     *)
LEMMA DealtLemma ==
  ASSUME TypeInv, NEW n \in Nat, NEW batch \in Seq(Id), Len(batch) = n,
         NEW t \in Nat, \A i \in 1 .. n : batch[i] = t + i
  PROVE  /\ \A s \in Shard :
              /\ Dealt(batch, s) \in Seq(Id)
              /\ \A j, k \in 1 .. Len(Dealt(batch, s)) :
                   j < k => Dealt(batch, s)[j] < Dealt(batch, s)[k]
              /\ \A k \in 1 .. Len(Dealt(batch, s)) :
                   \E i \in 1 .. n : Dealt(batch, s)[k] = batch[i]
         /\ \A i \in 1 .. n : \E s \in Shard : Waits(Dealt(batch, s), batch[i])
<1> DEFINE mine(s) == {i \in 1 .. n : ShardOf(batch, i) = s}
           c(s)    == Cardinality(mine(s))
           d(s)    == Dealt(batch, s)
<1>1. \A s \in Shard : d(s) = [k \in 1 .. c(s) |-> batch[Nth(mine(s), k)]]
  BY DEF Dealt, Nth, Rank
<1>2. \A s \in Shard :
        /\ mine(s) \in SUBSET (1 .. n)
        /\ c(s) \in Nat
        /\ \A k \in 1 .. c(s) : Nth(mine(s), k) \in mine(s)
        /\ \A k, l \in 1 .. c(s) : k < l => Nth(mine(s), k) < Nth(mine(s), l)
        /\ \A i \in mine(s) : \E k \in 1 .. c(s) : Nth(mine(s), k) = i
  <2> SUFFICES ASSUME NEW s \in Shard
               PROVE  /\ mine(s) \in SUBSET (1 .. n)
                      /\ c(s) \in Nat
                      /\ \A k \in 1 .. c(s) : Nth(mine(s), k) \in mine(s)
                      /\ \A k, l \in 1 .. c(s) : k < l => Nth(mine(s), k) < Nth(mine(s), l)
                      /\ \A i \in mine(s) : \E k \in 1 .. c(s) : Nth(mine(s), k) = i
    OBVIOUS
  <2>1. mine(s) \in SUBSET (1 .. n)
    OBVIOUS
  <2> HIDE DEF mine
  <2> QED
    BY <2>1, NthLemma
<1>3. \A i \in 1 .. n : ShardOf(batch, i) \in Shard /\ i \in mine(ShardOf(batch, i))
  BY ShardOfShard
<1>4. \A i \in 1 .. n : batch[i] \in Id
  BY SeqElements
<1> HIDE DEF mine, d
<1>5. ASSUME NEW s \in Shard
      PROVE  /\ d(s) \in Seq(Id) /\ Len(d(s)) = c(s)
             /\ \A j, k \in 1 .. c(s) : j < k => d(s)[j] < d(s)[k]
             /\ \A k \in 1 .. c(s) : \E i \in 1 .. n : d(s)[k] = batch[i]
             /\ \A i \in mine(s) : \E k \in 1 .. c(s) : d(s)[k] = batch[i]
  <2> DEFINE nth(k) == Nth(mine(s), k)
  <2>1. /\ c(s) \in Nat
        /\ \A k \in 1 .. c(s) : nth(k) \in 1 .. n
        /\ \A k, l \in 1 .. c(s) : k < l => nth(k) < nth(l)
        /\ \A i \in mine(s) : i \in 1 .. n /\ \E k \in 1 .. c(s) : nth(k) = i
    <3>1. \A k \in 1 .. c(s) : nth(k) \in mine(s)
      BY <1>2
    <3>2. \A i \in mine(s) : i \in 1 .. n
      BY <1>2
    <3> HIDE DEF nth
    <3>3. \A k \in 1 .. c(s) : nth(k) \in 1 .. n
      BY <3>1, <3>2
    <3> QED
      BY <1>2, <3>2, <3>3 DEF nth
  <2>2. d(s) = [k \in 1 .. c(s) |-> batch[nth(k)]]
    BY <1>1
  <2> HIDE DEF nth, c
  <2>3. \A k \in 1 .. c(s) : d(s)[k] = batch[nth(k)] /\ d(s)[k] = t + nth(k)
    BY <2>1, <2>2
  <2>4. d(s) \in [1 .. c(s) -> Id]
    BY <1>4, <2>1, <2>2
  <2>5. d(s) \in Seq(Id) /\ Len(d(s)) = c(s)
    BY <2>1, <2>4, FunctionIsSeq
  <2>6. \A j, k \in 1 .. c(s) : j < k => d(s)[j] < d(s)[k]
    BY <2>1, <2>3
  <2>7. \A i \in mine(s) : \E k \in 1 .. c(s) : d(s)[k] = batch[i]
    BY <2>1, <2>3
  <2> QED
    BY <2>1, <2>3, <2>5, <2>6, <2>7
<1> HIDE DEF c
<1>6. ASSUME NEW i \in 1 .. n PROVE \E s \in Shard : Waits(d(s), batch[i])
  <2> DEFINE s == ShardOf(batch, i)
  <2>1. s \in Shard /\ i \in mine(s)
    BY <1>3
  <2> HIDE DEF s
  <2> QED
    <3>1. PICK k \in 1 .. c(s) : d(s)[k] = batch[i]
      BY <1>5, <2>1
    <3>2. Len(d(s)) = c(s)
      BY <1>5, <2>1
    <3>3. Waits(d(s), batch[i])
      BY <3>1, <3>2 DEF Waits
    <3> QED
      BY <2>1, <3>3
<1> QED
  BY <1>5, <1>6 DEF d

(* What TakeBatch does: n events leave the channel and are all dealt out.  *)
BatchOf(n) ==
  /\ n \in 1 .. Len(channel)
  /\ Len(channel') = Len(channel) - n /\ channel' \in Seq(Id)
  /\ \A i \in 1 .. Len(channel') : channel'[i] = (Taken + n) + i
  /\ span' \in [low : Nat, high : Nat, size : Nat] /\ span'.size = n
  /\ span'.low <= span'.high
  /\ todo' \in [Shard -> Seq(Id)]
  /\ \A s \in Shard : WorkOK(todo'[s], log, Taken + n, span')
  /\ \A s \in Shard : \A k \in 1 .. Len(todo'[s]) : Taken + 1 <= todo'[s][k]
  /\ span'.low <= log[Taken + 1].ts
  /\ NotAhead(span'.high, <<>>, log, Taken + n)
  /\ \A id \in (Taken + 1) .. (Taken + n) : \E s \in Shard : Waits(todo'[s], id)
  /\ nextShard' \in Shard

(* TakeBatch takes such a batch. *)
LEMMA TakenBatch ==
  ASSUME TypeInv, TakeBatch
  PROVE  \E n \in Nat : BatchOf(n)
<1> DEFINE n     == Smaller(BatchSize, Len(channel))
           batch == SubSeq(channel, 1, n)
           times == {log[batch[i]].ts : i \in 1 .. n}
           L     == Len(channel)
<1>1. /\ channel \in Seq(Id) /\ channel # <<>> /\ L \in Nat /\ L >= 1 /\ L <= Len(log)
      /\ Len(log) \in Nat /\ Taken \in Nat /\ Taken = Len(log) - L
      /\ \A i \in 1 .. L : channel[i] = Taken + i /\ channel[i] \in Id
      /\ \A i \in Id : log[i].ts \in Nat
  <2>1. /\ channel \in Seq(Id) /\ channel # <<>> /\ log \in Seq([flow : Shard, ts : Nat])
        /\ \A i \in 1 .. Len(channel) : channel[i] = Taken + i
        /\ Len(channel) <= Len(log)
    BY DEF TypeInv, TakeBatch
  <2>2. /\ Len(channel) \in Nat /\ Len(channel) >= 1
        /\ \A i \in 1 .. Len(channel) : channel[i] \in Id
    BY <2>1, SeqElements
  <2>3. Len(log) \in Nat /\ \A i \in 1 .. Len(log) : log[i] \in [flow : Shard, ts : Nat]
    BY <2>1, SeqElements
  <2> QED
    BY <2>1, <2>2, <2>3, SMTT(40) DEF Id, Taken
<1>2. /\ channel' = SubSeq(channel, n + 1, Len(channel))
      /\ todo' = [s \in Shard |-> Dealt(batch, s)]
      /\ span' = [low |-> Least(times), high |-> Greatest(times), size |-> n]
      /\ nextShard' = IF config.strategy = "flow" THEN nextShard ELSE RoundRobin(n)
  BY DEF TakeBatch
<1>3. n \in 1 .. L /\ n \in Nat
  BY <1>1, ShardFacts DEF Smaller
<1> HIDE DEF n, L
<1>4. /\ batch \in Seq(Id) /\ Len(batch) = n
      /\ \A i \in 1 .. n : batch[i] = Taken + i /\ batch[i] \in Id
  <2>1. \A i \in 1 .. n : channel[i] \in Id /\ channel[i] = Taken + i
    BY <1>1, <1>3, SMTT(40)
  <2>2. /\ batch \in Seq(Id) /\ Len(batch) = IF 1 <= n THEN n - 1 + 1 ELSE 0
        /\ \A i \in 1 .. n - 1 + 1 : batch[i] = channel[1 + i - 1]
    BY <1>3, <2>1, SubSeqProperties
  <2>3. 1 <= n /\ n - 1 + 1 = n /\ \A i \in 1 .. n : 1 + i - 1 = i
    BY <1>3
  <2> QED
    BY <2>1, <2>2, <2>3
<1>5. /\ channel' \in Seq(Id) /\ Len(channel') = L - n
      /\ \A i \in 1 .. L - n : channel'[i] = (Taken + n) + i
  <2>1. \A i \in (n + 1) .. L : channel[i] \in Id /\ channel[i] = Taken + i
    BY <1>1, <1>3
  <2>2. n + 1 \in Int /\ L \in Int
    BY <1>1, <1>3
  <2>3. /\ channel' \in Seq(Id)
        /\ Len(channel') = IF n + 1 <= L THEN L - (n + 1) + 1 ELSE 0
        /\ \A i \in 1 .. L - (n + 1) + 1 : channel'[i] = channel[n + 1 + i - 1]
    BY <1>2, <2>1, <2>2, SubSeqProperties DEF L
  <2>4. /\ (IF n + 1 <= L THEN L - (n + 1) + 1 ELSE 0) = L - n
        /\ L - (n + 1) + 1 = L - n
    BY <1>1, <1>3
  <2>5. \A i \in 1 .. L - n : n + 1 + i - 1 = n + i /\ n + i \in (n + 1) .. L
    BY <1>1, <1>3
  <2>6. \A i \in 1 .. L - n : channel'[i] = Taken + (n + i)
    BY <2>1, <2>3, <2>4, <2>5
  <2> QED
    BY <1>1, <1>3, <2>3, <2>4, <2>6
<1> HIDE DEF batch
<1>6. /\ times \in SUBSET Nat /\ IsFiniteSet(times) /\ times # {}
      /\ \A i \in 1 .. n : log[batch[i]].ts \in times
  <2>1. times \in SUBSET Nat /\ \A i \in 1 .. n : log[batch[i]].ts \in times
    BY <1>1, <1>4
  <2>2. IsFiniteSet(times)
    <3> DEFINE g == [i \in 1 .. n |-> log[batch[i]].ts]
    <3>1. g \in Surjection(1 .. n, times)
      BY DEF Surjection
    <3>2. IsFiniteSet(1 .. n)
      BY <1>3, FS_Interval
    <3> HIDE DEF g, times
    <3> QED
      BY <3>1, <3>2, FS_Surjection
  <2>3. 1 \in 1 .. n
    BY <1>3
  <2> QED
    BY <2>1, <2>2, <2>3
<1>7. /\ span'.low \in times /\ span'.high \in times /\ span'.size = n
      /\ \A x \in times : span'.low <= x /\ x <= span'.high
      /\ span' \in [low : Nat, high : Nat, size : Nat]
  <2>1. /\ Least(times) \in times /\ \A x \in times : Least(times) <= x
        /\ Greatest(times) \in times /\ \A x \in times : x <= Greatest(times)
    <3> HIDE DEF times
    <3> QED
      BY <1>6, LeastGreatest
  <2> HIDE DEF times
  <2> QED
    BY <1>2, <1>3, <1>6, <2>1
<1>8. /\ \A s \in Shard :
           /\ todo'[s] \in Seq(Id)
           /\ \A j, k \in 1 .. Len(todo'[s]) : j < k => todo'[s][j] < todo'[s][k]
           /\ \A k \in 1 .. Len(todo'[s]) : \E i \in 1 .. n : todo'[s][k] = batch[i]
      /\ \A i \in 1 .. n : \E s \in Shard : Waits(todo'[s], batch[i])
  <2>1. \A s \in Shard : todo'[s] = Dealt(batch, s)
    BY <1>2
  <2>2. /\ \A s \in Shard :
              /\ Dealt(batch, s) \in Seq(Id)
              /\ \A j, k \in 1 .. Len(Dealt(batch, s)) :
                   j < k => Dealt(batch, s)[j] < Dealt(batch, s)[k]
              /\ \A k \in 1 .. Len(Dealt(batch, s)) :
                   \E i \in 1 .. n : Dealt(batch, s)[k] = batch[i]
        /\ \A i \in 1 .. n : \E s \in Shard : Waits(Dealt(batch, s), batch[i])
    <3>1. /\ n \in Nat /\ batch \in Seq(Id) /\ Len(batch) = n /\ Taken \in Nat
          /\ \A i \in 1 .. n : batch[i] = Taken + i
      BY <1>1, <1>3, <1>4
    <3> QED
      BY <3>1, DealtLemma, ZenonT(60)
  <2> QED
    BY <2>1, <2>2
<1>9. todo' \in [Shard -> Seq(Id)]
  BY <1>2, <1>8
<1>10. ASSUME NEW s \in Shard
       PROVE  /\ WorkOK(todo'[s], log, Taken + n, span')
              /\ \A k \in 1 .. Len(todo'[s]) : Taken + 1 <= todo'[s][k]
  <2>1. ASSUME NEW k \in 1 .. Len(todo'[s])
        PROVE  /\ todo'[s][k] <= Taken + n /\ Taken + 1 <= todo'[s][k]
               /\ span'.low <= log[todo'[s][k]].ts /\ log[todo'[s][k]].ts <= span'.high
    <3>1. PICK i \in 1 .. n : todo'[s][k] = batch[i]
      BY <1>8
    <3>2. log[batch[i]].ts \in times
      BY <1>6
    <3>3. batch[i] = Taken + i /\ i \in Nat /\ 1 <= i /\ i <= n
      BY <1>3, <1>4
    <3> HIDE DEF times
    <3> QED
      BY <1>1, <1>3, <1>7, <3>1, <3>2, <3>3, SMTT(40)
  <2> QED
    BY <1>8, <2>1 DEF WorkOK
<1>11. span'.low <= log[Taken + 1].ts
  <2>1. 1 \in 1 .. n
    BY <1>3
  <2>2. batch[1] = Taken + 1 /\ log[batch[1]].ts \in times
    BY <1>4, <1>6, <2>1
  <2> HIDE DEF times
  <2> QED
    BY <1>7, <2>2
<1>12. NotAhead(span'.high, <<>>, log, Taken + n)
  <2>1. PICK i \in 1 .. n : span'.high = log[batch[i]].ts
    BY <1>7
  <2>2. batch[i] = Taken + i /\ batch[i] \in 1 .. (Taken + n)
    BY <1>1, <1>3, <1>4
  <2>3. \A k \in 1 .. Len(<<>>) : batch[i] <= <<>>[k]
    BY EmptySeq
  <2>4. span'.high <= log[batch[i]].ts
    <3>1. span'.high \in Nat
      BY <1>7
    <3> QED
      BY <2>1, <3>1
  <2> QED
    BY <2>2, <2>3, <2>4 DEF NotAhead
<1>13. \A id \in (Taken + 1) .. (Taken + n) : \E s \in Shard : Waits(todo'[s], id)
  <2> SUFFICES ASSUME NEW id \in (Taken + 1) .. (Taken + n)
               PROVE  \E s \in Shard : Waits(todo'[s], id)
    OBVIOUS
  <2> DEFINE i == id - Taken
  <2>1. i \in 1 .. n /\ Taken + i = id
    BY <1>1, <1>3
  <2> HIDE DEF i
  <2>2. batch[i] = id
    BY <1>4, <2>1
  <2> QED
    BY <1>8, <2>1, <2>2
<1>14. nextShard' \in Shard
  <2>1. nextShard \in Shard
    BY DEF TypeInv
  <2>2. RoundRobin(n) \in Shard
    <3> DEFINE a == nextShard - 1 + n
    <3>1. a \in Int /\ ShardCount \in Nat \ {0}
      BY <1>3, <2>1, ShardFacts DEF Shard
    <3> HIDE DEF a
    <3>2. a % ShardCount \in 0 .. (ShardCount - 1)
      BY <3>1
    <3>3. (a % ShardCount) + 1 \in 1 .. ShardCount
      BY <3>1, <3>2
    <3> QED
      BY <3>3 DEF RoundRobin, Shard, a
  <2> QED
    BY <1>2, <2>1, <2>2
<1>15. span'.low <= span'.high
  <2> HIDE DEF times
  <2> QED
    BY <1>7
<1>16. /\ n \in 1 .. Len(channel) /\ Len(channel') = Len(channel) - n
       /\ \A i \in 1 .. Len(channel') : channel'[i] = (Taken + n) + i
  BY <1>3, <1>5 DEF L
<1> HIDE DEF times
<1>17. BatchOf(n)
  BY <1>5, <1>7, <1>9, <1>10, <1>11, <1>12, <1>13, <1>14, <1>15, <1>16 DEF BatchOf
<1> QED
  BY <1>3, <1>17

-------------------------------------------------------------------------------
(* The typing of the parts, spelt out. *)
LEMMA LogFacts ==
  ASSUME TypeInv
  PROVE  /\ Len(log) \in Nat /\ Len(channel) \in Nat /\ Taken \in Nat
         /\ Taken <= Len(log) /\ 1 .. Taken \subseteq Id
         /\ \A i \in Id : i \in Nat /\ log[i].ts \in Nat /\ log[i].flow \in Shard
<1>1. log \in Seq([flow : Shard, ts : Nat]) /\ channel \in Seq(Id) /\ Len(channel) <= Len(log)
  BY DEF TypeInv
<1>2. Len(log) \in Nat /\ \A i \in Id : log[i] \in [flow : Shard, ts : Nat]
  BY <1>1, SeqElements DEF Id
<1>3. Len(channel) \in Nat
  BY <1>1, SeqElements
<1>4. Taken \in Nat /\ Taken <= Len(log)
  BY <1>1, <1>2, <1>3 DEF Taken
<1> QED
  BY <1>2, <1>3, <1>4 DEF Id

(* A shard's place does not depend on events it has not seen. *)
LEMMA NotAheadGrows ==
  ASSUME NEW tk \in Nat, NEW lg, NEW lh, \A i \in 1 .. tk : lh[i] = lg[i],
         NEW ts, NEW td, NotAhead(ts, td, lg, tk)
  PROVE  NotAhead(ts, td, lh, tk)
BY DEF NotAhead

(* A step of the source: the log may grow behind the channel, which is all *)
(* the engine's side sees of it.                                           *)
SourceStep ==
  /\ Id \subseteq Id' /\ \A i \in Id : log'[i] = log[i]
  /\ Taken' = Taken
  /\ log' \in Seq([flow : Shard, ts : Nat])
  /\ channel' \in Seq(Id') /\ Len(channel') <= Len(log')
  /\ \A i \in 1 .. Len(channel') : channel'[i] = Taken + i
  /\ channel' = channel \/ srcOpen
  /\ srcOpen' => srcOpen
  /\ UNCHANGED <<config, engine, at, counted, published>>

(* Such a step keeps the invariant. *)
LEMMA SourceKeeps ==
  ASSUME Inv, SourceStep
  PROVE  Inv'
<1>1. TypeInv /\ BatchInv /\ AlignInv /\ OrderInv /\ HeldInv
  BY DEF Inv
<1>2. /\ Id \subseteq Id' /\ \A i \in Id : log'[i] = log[i]
      /\ Taken' = Taken
      /\ log' \in Seq([flow : Shard, ts : Nat])
      /\ channel' \in Seq(Id') /\ Len(channel') <= Len(log')
      /\ \A i \in 1 .. Len(channel') : channel'[i] = Taken + i
      /\ channel' = channel \/ srcOpen
      /\ srcOpen' => srcOpen
      /\ config' = config /\ shards' = shards /\ todo' = todo /\ stage' = stage
      /\ span' = span /\ nextShard' = nextShard
      /\ at' = at /\ counted' = counted /\ published' = published
  BY DEF SourceStep, engine
<1>3. /\ Taken \in Nat /\ 1 .. Taken \subseteq Id
      /\ Len(log) \in Nat /\ \A i \in 1 .. Taken : log'[i] = log[i]
      /\ \A i \in Id : i \in Nat
  BY <1>1, <1>2, LogFacts
<1>4. \A s \in Shard : todo[s] \in Seq(Id)
  BY <1>1 DEF TypeInv
<1>5. TypeInv'
  <2>1. /\ \A rq \in RunningQuery(Id) : rq \in RunningQuery(Id')
        /\ \A ws \in Seq(WindowState(Id)) : ws \in Seq(WindowState(Id'))
    BY <1>2, TypesGrow
  <2>2. published' \in Seq(WindowState(Id'))
    BY <1>1, <1>2, <2>1 DEF TypeInv
  <2>3. shards' \in [Shard -> RunningQuery(Id')] /\ \A s \in Shard : ShardOK(shards'[s], Id')
    <3>1. \A s \in Shard : ShardOK(shards'[s], Id')
      BY <1>1, <1>2, <2>1 DEF TypeInv, ShardOK
    <3> QED
      BY <1>1, <1>2, <2>1, <3>1 DEF TypeInv
  <2>4. todo' \in [Shard -> Seq(Id')]
    <3>1. \A x \in Seq(Id) : x \in Seq(Id')
      BY <1>2, SeqMonotonic
    <3> QED
      BY <1>1, <1>2, <3>1 DEF TypeInv
  <2> QED
    BY <1>1, <1>2, <2>2, <2>3, <2>4 DEF TypeInv
<1>6. BatchInv'
  <2>1. ASSUME NEW s \in Shard, WorkOK(todo[s], log, Taken, span)
        PROVE  WorkOK(todo[s], log', Taken, span)
    <3>1. \A k \in 1 .. Len(todo[s]) : todo[s][k] \in Id
      BY <1>4, SeqElements
    <3> QED
      BY <1>2, <2>1, <3>1 DEF WorkOK
  <2> QED
    BY <1>1, <1>2, <2>1 DEF BatchInv
<1>7. AlignInv'
  <2>1. \A rq, f, b : OnTrack(rq, Id, Ring, f, b) => OnTrack(rq, Id', Ring, f, b)
    BY <1>2, OnTrackGrows
  <2>2. \A s \in Shard : \A f, b \in Nat : ShardAligned(s, f, b) => ShardAligned(s, f, b)'
    BY <1>2, <2>1 DEF ShardAligned, Drained, Working, Marked
  <2>3. \A f, b \in Nat : Boundary(f, b) => Boundary(f, b)'
    BY <1>2, <2>2 DEF Boundary
  <2>4. Untouched => Untouched'
    BY <1>2 DEF Untouched
  <2> QED
    BY <1>1, <1>2, <2>3, <2>4 DEF AlignInv, Running
<1>8. OrderInv'
  <2>1. \A ts, td : NotAhead(ts, td, log, Taken) => NotAhead(ts, td, log', Taken)
    BY <1>3, NotAheadGrows
  <2>2. InTime(log') => InTime(log)
    <3>1. Len(log') \in Nat /\ \A i \in 1 .. Len(log) : i \in 1 .. Len(log')
      BY <1>2, SeqElements DEF Id
    <3> QED
      BY <1>2, <3>1 DEF InTime, Id
  <2>3. \A s \in Shard : ShardOrder(s) => ShardOrder(s)'
    BY <1>2, <2>1, <2>2 DEF ShardOrder
  <2> QED
    BY <1>1, <1>2, <2>1, <2>3 DEF OrderInv
<1>9. HeldInv'
  BY <1>1, <1>2 DEF HeldInv, Whole
<1> QED
  BY <1>5, <1>6, <1>7, <1>8, <1>9 DEF Inv

(* The steps of the source: an event is queued, dropped, or the source     *)
(* ends.                                                                   *)
LEMMA SourceSteps ==
  ASSUME Inv
  PROVE  /\ \A flow \in Shard, ts \in Ts : Send(flow, ts) => SourceStep
         /\ DropEvent \/ CloseSource \/ UNCHANGED vars => SourceStep
<1>1. /\ TypeInv /\ log \in Seq([flow : Shard, ts : Nat]) /\ channel \in Seq(Id)
      /\ Len(channel) <= Len(log)
      /\ \A i \in 1 .. Len(channel) : channel[i] = Taken + i
  BY DEF Inv, TypeInv
<1>2. /\ Len(log) \in Nat /\ Len(channel) \in Nat /\ Taken \in Nat
      /\ Len(log) = Taken + Len(channel)
  BY <1>1, LogFacts DEF Taken
<1>3. ASSUME NEW flow \in Shard, NEW ts \in Ts, Send(flow, ts) PROVE SourceStep
  <2> DEFINE e == [flow |-> flow, ts |-> ts]
             n == Len(log) + 1
             c == Len(channel)
  <2>1. /\ srcOpen /\ log' = Append(log, e) /\ channel' = Append(channel, n)
        /\ UNCHANGED <<config, srcOpen, engine, at, counted, published>>
    BY <1>3 DEF Send
  <2>2. e \in [flow : Shard, ts : Nat]
    BY ShardFacts
  <2> HIDE DEF e
  <2>3. /\ log' \in Seq([flow : Shard, ts : Nat]) /\ Len(log') = Len(log) + 1
        /\ \A i \in 1 .. Len(log) : log'[i] = log[i]
    BY <1>1, <2>1, <2>2, AppendProperties
  <2>4. Id \subseteq Id' /\ \A i \in Id : log'[i] = log[i]
    BY <1>2, <2>3 DEF Id
  <2>5. /\ channel' \in Seq(Id') /\ Len(channel') = c + 1
        /\ \A i \in 1 .. c : channel'[i] = channel[i]
        /\ channel'[c + 1] = n
    <3>1. channel \in Seq(Id') /\ n \in Id'
      <4>1. n \in Id'
        BY <1>2, <2>3 DEF Id
      <4> QED
        BY <1>1, <2>4, <4>1, SeqMonotonic
    <3> QED
      BY <2>1, <3>1, AppendProperties
  <2>6. Taken' = Taken /\ Len(channel') <= Len(log')
    BY <1>1, <1>2, <2>3, <2>5 DEF Taken
  <2>7. \A i \in 1 .. Len(channel') : channel'[i] = Taken + i
    <3> SUFFICES ASSUME NEW i \in 1 .. Len(channel') PROVE channel'[i] = Taken + i
      OBVIOUS
    <3>1. CASE i \in 1 .. c
      BY <1>1, <2>5, <3>1
    <3>2. CASE i = c + 1
      BY <1>2, <2>5, <3>2
    <3>3. i \in 1 .. c \/ i = c + 1
      BY <1>2, <2>5
    <3> QED
      BY <3>1, <3>2, <3>3
  <2> QED
    BY <2>1, <2>3, <2>4, <2>5, <2>6, <2>7 DEF SourceStep
<1>4. ASSUME UNCHANGED <<config, channel, log, engine, at, counted, published>>,
             srcOpen' => srcOpen
      PROVE  SourceStep
  <2>1. Id' = Id /\ Taken' = Taken
    BY <1>4 DEF Id, Taken
  <2> QED
    BY <1>1, <1>4, <2>1 DEF SourceStep
<1>5. DropEvent \/ CloseSource \/ UNCHANGED vars =>
        /\ UNCHANGED <<config, channel, log, engine, at, counted, published>>
        /\ srcOpen' => srcOpen
  BY DEF DropEvent, CloseSource, vars, source
<1> QED
  BY <1>3, <1>4, <1>5

(* The invariant holds initially. *)
LEMMA InitInv == Init => Inv
<1> SUFFICES ASSUME Init PROVE Inv
  OBVIOUS
<1>1. /\ channel = <<>> /\ log = <<>> /\ at = "recv" /\ counted = 0 /\ published = <<>>
      /\ shards = [s \in Shard |-> NewQuery] /\ todo = [s \in Shard |-> <<>>]
      /\ stage = [s \in Shard |-> "idle"] /\ nextShard = 1
      /\ span = [low |-> 0, high |-> 0, size |-> 0]
      /\ config \in [strategy : {"flow", "round_robin"}, blocking : BOOLEAN]
  BY DEF Init
<1>2. Len(<<>>) = 0 /\ \A S : <<>> \in Seq(S)
  BY EmptySeq
<1>3. Taken = 0 /\ Len(log) = 0 /\ Len(channel) = 0
  BY <1>1, <1>2 DEF Taken
<1>4. /\ NewQuery \in RunningQuery(Id) /\ RingOK(NewQuery.buckets, Ring)
      /\ NewQuery.buckets = <<>> /\ NewQuery.emitted = <<>> /\ NewQuery.late = {}
  <2>1. NewQuery.buckets = <<>> /\ NewQuery.emitted = <<>> /\ NewQuery.late = {}
    BY DEF NewQuery
  <2>2. RingOK(<<>>, Ring)
    BY <1>2, ShardFacts DEF RingOK, Consecutive
  <2>3. NewQuery \in RunningQuery(Id)
    BY <1>2 DEF NewQuery, RunningQuery
  <2> QED
    BY <2>1, <2>2, <2>3
<1>5. TypeInv
  <2>1. \A s \in Shard : ShardOK(shards[s], Id)
    BY <1>1, <1>4 DEF ShardOK
  <2>2. shards \in [Shard -> RunningQuery(Id)] /\ todo \in [Shard -> Seq(Id)] /\ stage \in [Shard -> Stages]
    BY <1>1, <1>2, <1>4 DEF Stages
  <2>3. nextShard \in Shard /\ span \in [low : Nat, high : Nat, size : Nat] /\ counted \in Nat
    BY <1>1, ShardFacts
  <2> QED
    BY <1>1, <1>2, <1>3, <2>1, <2>2, <2>3 DEF TypeInv
<1>6. BatchInv
  BY <1>1, <1>3 DEF BatchInv
<1>7. AlignInv
  BY <1>1, <1>2, <1>4 DEF AlignInv, Untouched, IsEmpty, InOrder
<1>8. OrderInv
  BY <1>1, <1>4 DEF OrderInv, ShardOrder
<1>9. HeldInv
  BY <1>3 DEF HeldInv
<1> QED
  BY <1>5, <1>6, <1>7, <1>8, <1>9 DEF Inv

-------------------------------------------------------------------------------
(* A step of shard s in its part of a batch, which leaves it with the      *)
(* query rq, at st, with the events td still to do.                        *)
Works(s, rq, st, td) ==
  /\ at = "batch" /\ stage[s] \in {"seed", "work"}
  /\ shards' = [shards EXCEPT ![s] = rq]
  /\ stage' = [stage EXCEPT ![s] = st]
  /\ todo' = [todo EXCEPT ![s] = td]
  /\ UNCHANGED <<config, source, span, nextShard, at, counted, published>>

(* What such a step must establish. *)
Good(s, rq, st, td) ==
  /\ ShardOK(rq, Id) /\ st \in {"work", "idle", "refused"}
  /\ td \in Seq(Id) /\ WorkOK(td, log, Taken, span)
  /\ st = "idle" => td = <<>>
  /\ \A f, b \in Nat : f <= b /\ ShardAligned(s, f, b) =>
       /\ st = "work" => Working(rq, Id, f, b, span)
       /\ st = "idle" => Marked(rq, Id, f, b, span)
  /\ rq.buckets # <<>> => NotAhead(BackStart(rq), td, log, Taken)
  /\ NotAhead(span.low, td, log, Taken)
  /\ InTime(log) => rq.late = {}
  /\ st # "refused" => \A id : Kept(shards[s], todo[s], id) => Kept(rq, td, id)

(* A good step keeps the invariant. *)
LEMMA GoodKeeps ==
  ASSUME Inv, NEW s \in Shard, NEW rq, NEW st, NEW td,
         Works(s, rq, st, td), Good(s, rq, st, td)
  PROVE  Inv'
<1>1. TypeInv /\ BatchInv /\ AlignInv /\ OrderInv /\ HeldInv
  BY DEF Inv
<1>2. /\ at = "batch" /\ at' = "batch" /\ stage[s] \in {"seed", "work"}
      /\ shards' = [shards EXCEPT ![s] = rq]
      /\ stage' = [stage EXCEPT ![s] = st]
      /\ todo' = [todo EXCEPT ![s] = td]
      /\ config' = config /\ channel' = channel /\ srcOpen' = srcOpen /\ log' = log
      /\ span' = span /\ nextShard' = nextShard /\ counted' = counted
      /\ published' = published
  BY DEF Works, source
<1>3. DOMAIN shards = Shard /\ DOMAIN stage = Shard /\ DOMAIN todo = Shard
  BY <1>1 DEF TypeInv
<1>4. /\ shards'[s] = rq /\ stage'[s] = st /\ todo'[s] = td
      /\ \A t \in Shard : t # s =>
           shards'[t] = shards[t] /\ stage'[t] = stage[t] /\ todo'[t] = todo[t]
      /\ DOMAIN shards' = Shard
  BY <1>2, <1>3
<1>5. Id' = Id /\ Taken' = Taken
  BY <1>2 DEF Id, Taken
<1>6. /\ ShardOK(rq, Id) /\ st \in {"work", "idle", "refused"}
      /\ td \in Seq(Id) /\ WorkOK(td, log, Taken, span)
      /\ st = "idle" => td = <<>>
  BY DEF Good
<1>7. TypeInv'
  <2>1. shards' \in [Shard -> RunningQuery(Id)] /\ \A t \in Shard : ShardOK(shards'[t], Id)
    <3>1. \A t \in Shard : ShardOK(shards'[t], Id)
      BY <1>1, <1>4, <1>6 DEF TypeInv
    <3> QED
      BY <1>1, <1>2, <1>6, <3>1 DEF TypeInv, ShardOK
  <2>2. stage' \in [Shard -> Stages] /\ todo' \in [Shard -> Seq(Id)]
    BY <1>1, <1>2, <1>6 DEF TypeInv, Stages
  <2> QED
    BY <1>1, <1>2, <1>4, <1>5, <2>1, <2>2 DEF TypeInv
<1>8. BatchInv'
  <2>1. \A t \in Shard : WorkOK(todo'[t], log, Taken, span)
    BY <1>1, <1>2, <1>4, <1>6 DEF BatchInv
  <2>2. \A t \in Shard : stage'[t] = "idle" => todo'[t] = <<>>
    BY <1>1, <1>2, <1>4, <1>6 DEF BatchInv
  <2> QED
    BY <1>1, <1>2, <1>5, <2>1, <2>2 DEF BatchInv
<1>9. AlignInv'
  <2>1. InOrder(published')
    BY <1>1, <1>2 DEF AlignInv
  <2>2. PICK f \in Nat, b \in Nat : Boundary(f, b)
    BY <1>1, <1>2 DEF AlignInv, Running, Untouched
  <2>3. f <= b /\ PublishedUpTo(published, f, b) /\ \A t \in Shard : ShardAligned(t, f, b)
    BY <2>2 DEF Boundary
  <2>4. ShardAligned(s, f, b)'
    <3>1. /\ st = "work" => Working(rq, Id, f, b, span)
          /\ st = "idle" => Marked(rq, Id, f, b, span)
      BY <2>3 DEF Good
    <3> QED
      BY <1>2, <1>4, <1>5, <1>6, <3>1 DEF ShardAligned
  <2>5. ASSUME NEW t \in Shard, t # s PROVE ShardAligned(t, f, b)'
    <3>1. ShardAligned(t, f, b)
      BY <2>3
    <3> QED
      BY <1>2, <1>4, <1>5, <2>5, <3>1 DEF ShardAligned
  <2>6. Boundary(f, b)'
    BY <1>2, <2>3, <2>4, <2>5 DEF Boundary
  <2> QED
    BY <2>1, <2>6 DEF AlignInv
<1>10. OrderInv'
  <2>1. ShardOrder(s)'
    BY <1>2, <1>4, <1>5 DEF ShardOrder, Good
  <2>2. ASSUME NEW t \in Shard, t # s PROVE ShardOrder(t)'
    <3>1. ShardOrder(t)
      BY <1>1 DEF OrderInv
    <3> QED
      BY <1>2, <1>4, <1>5, <2>2, <3>1 DEF ShardOrder
  <2> QED
    BY <1>1, <1>2, <1>5, <2>1, <2>2 DEF OrderInv
<1>11. HeldInv'
  <2> SUFFICES ASSUME Whole', NEW id \in 1 .. Taken
               PROVE  \/ InSome(published, id)
                      \/ \E t \in Shard : Kept(shards'[t], todo'[t], id)
    BY <1>2, <1>5 DEF HeldInv
  <2>1. st # "refused" /\ \A t \in Shard : t # s => stage[t] # "refused"
    BY <1>4 DEF Whole
  <2>2. Whole
    BY <1>2, <2>1 DEF Whole
  <2>3. InSome(published, id) \/ \E t \in Shard : Kept(shards[t], todo[t], id)
    BY <1>1, <1>2, <2>2 DEF HeldInv
  <2>4. Kept(shards[s], todo[s], id) => Kept(rq, td, id)
    BY <2>1 DEF Good
  <2> QED
    BY <1>4, <2>3, <2>4
<1> QED
  BY <1>7, <1>8, <1>9, <1>10, <1>11 DEF Inv

(* The head of a shard's work, and what is left after it. *)
LEMMA TailWork ==
  ASSUME Inv, at = "batch", NEW s \in Shard, todo[s] # <<>>
  PROVE  /\ Head(todo[s]) \in Id /\ Head(todo[s]) <= Taken /\ Head(todo[s]) \in 1 .. Taken
         /\ log[Head(todo[s])].ts <= span.high
         /\ Tail(todo[s]) \in Seq(Id) /\ WorkOK(Tail(todo[s]), log, Taken, span)
         /\ \A k \in 1 .. Len(Tail(todo[s])) : Head(todo[s]) <= Tail(todo[s])[k]
         /\ \A ts : NotAhead(ts, todo[s], log, Taken) =>
              /\ NotAhead(ts, Tail(todo[s]), log, Taken)
              /\ \E i \in 1 .. Taken : ts <= log[i].ts /\ i <= Head(todo[s])
         /\ \A id : Waits(todo[s], id) => id = Head(todo[s]) \/ Waits(Tail(todo[s]), id)
<1> DEFINE td == todo[s]
           tl == Tail(td)
           n  == Len(td)
           h  == Head(td)
<1>1. td \in Seq(Id) /\ td # <<>> /\ WorkOK(td, log, Taken, span) /\ TypeInv
  BY DEF Inv, TypeInv, BatchInv
<1>2. n \in Nat /\ n >= 1 /\ \A k \in 1 .. n : td[k] \in Id
  <2> HIDE DEF td
  <2> QED
    BY <1>1, SeqElements
<1>3. /\ h \in Id /\ h = td[1] /\ tl \in Seq(Id) /\ Len(tl) = n - 1
      /\ \A i \in 1 .. n - 1 : tl[i] = td[i + 1]
  <2> HIDE DEF td
  <2>1. /\ Head(td) \in Id /\ Tail(td) \in Seq(Id) /\ Len(Tail(td)) = Len(td) - 1
        /\ \A i \in 1 .. Len(Tail(td)) : Tail(td)[i] = td[i + 1]
    BY <1>1, HeadTailProperties
  <2>2. Head(td) = td[1]
    BY <1>1
  <2> QED
    BY <2>1, <2>2
<1>4. /\ \A i \in 1 .. n - 1 : i + 1 \in 1 .. n /\ 1 < i + 1
      /\ 1 \in 1 .. n
  BY <1>2
<1>5. \A i \in Id : i \in Nat
  BY <1>1, LogFacts
<1> HIDE DEF td, tl, n, h
<1>6. /\ \A j, k \in 1 .. n : j < k => td[j] < td[k]
      /\ \A k \in 1 .. n :
           td[k] <= Taken /\ span.low <= log[td[k]].ts /\ log[td[k]].ts <= span.high
  BY <1>1 DEF WorkOK, n
<1>7. h <= Taken /\ log[h].ts <= span.high /\ h \in 1 .. Taken
  <2>1. h <= Taken /\ log[h].ts <= span.high
    BY <1>3, <1>4, <1>6
  <2> QED
    BY <1>1, <1>3, <2>1, LogFacts DEF Id
<1>8. \A k \in 1 .. n - 1 : h <= tl[k]
  <2> SUFFICES ASSUME NEW k \in 1 .. n - 1 PROVE h <= tl[k]
    OBVIOUS
  <2>1. td[1] < td[k + 1] /\ td[1] \in Nat /\ td[k + 1] \in Nat
    BY <1>2, <1>4, <1>5, <1>6
  <2> QED
    BY <1>3, <2>1
<1>9. WorkOK(tl, log, Taken, span)
  <2>1. ASSUME NEW j \in 1 .. n - 1, NEW k \in 1 .. n - 1, j < k PROVE tl[j] < tl[k]
    <3>1. j + 1 < k + 1
      BY <2>1
    <3> QED
      BY <1>3, <1>4, <1>6, <3>1
  <2>2. \A k \in 1 .. n - 1 :
          tl[k] <= Taken /\ span.low <= log[tl[k]].ts /\ log[tl[k]].ts <= span.high
    BY <1>3, <1>4, <1>6
  <2> QED
    BY <1>3, <2>1, <2>2 DEF WorkOK
<1>10. ASSUME NEW ts, NotAhead(ts, td, log, Taken)
       PROVE  /\ NotAhead(ts, tl, log, Taken)
              /\ \E i \in 1 .. Taken : ts <= log[i].ts /\ i <= h
  <2>1. PICK i \in 1 .. Taken : ts <= log[i].ts /\ \A k \in 1 .. n : i <= td[k]
    BY <1>10 DEF NotAhead, n
  <2>2. \A k \in 1 .. n - 1 : i <= tl[k]
    BY <1>3, <1>4, <2>1
  <2>3. i <= h
    BY <1>3, <1>4, <2>1
  <2> QED
    BY <1>3, <2>1, <2>2, <2>3 DEF NotAhead
<1>11. ASSUME NEW id, Waits(td, id) PROVE id = h \/ Waits(tl, id)
  <2>1. PICK k \in 1 .. n : td[k] = id
    BY <1>11 DEF Waits, n
  <2>2. CASE k = 1
    BY <1>3, <2>1, <2>2
  <2>3. CASE k # 1
    <3> DEFINE j == k - 1
    <3>1. j \in 1 .. n - 1 /\ j + 1 = k
      BY <1>2, <2>3
    <3> HIDE DEF j
    <3>2. tl[j] = id
      BY <1>3, <2>1, <3>1
    <3> QED
      BY <1>3, <3>1, <3>2 DEF Waits
  <2> QED
    BY <2>2, <2>3
<1>12. \A k \in 1 .. Len(tl) : h <= tl[k]
  BY <1>3, <1>8
<1> QED
  BY <1>3, <1>7, <1>9, <1>10, <1>11, <1>12 DEF td, tl, h

(* What advancing a shard does to it. *)
LEMMA AdvanceShard ==
  ASSUME NEW I, NEW rq, ShardOK(rq, I), NEW t \in Nat
  PROVE  /\ ShardOK(AdvanceToBucket(rq, Ring, t), I)
         /\ AdvanceToBucket(rq, Ring, t).late = rq.late
         /\ AdvanceToBucket(rq, Ring, t).buckets # <<>>
         /\ BackStart(AdvanceToBucket(rq, Ring, t)) = t \/
              (rq.buckets # <<>> /\ BackStart(AdvanceToBucket(rq, Ring, t)) = BackStart(rq))
         /\ \A id : Holds(rq, id) => Holds(AdvanceToBucket(rq, Ring, t), id)
<1> DEFINE moved == AdvanceToBucket(rq, Ring, t)
           k     == WindowsClosedByAdvance(rq, Ring, t)
<1>1. rq \in RunningQuery(I) /\ RingOK(rq.buckets, Ring)
  BY DEF ShardOK
<1>2. /\ moved \in RunningQuery(I)
      /\ moved.buckets # <<>> /\ RingOK(moved.buckets, Ring)
      /\ moved.late = rq.late
      /\ rq.buckets = <<>> =>
           moved.emitted = rq.emitted /\ BackStart(moved) = t
      /\ rq.buckets # <<>> =>
           /\ moved.emitted = rq.emitted \o FlushedWindows(rq.buckets, Ring, k)
           /\ BackStart(moved) = Larger(BackStart(rq), t)
           /\ FrontStart(moved) = Larger(FrontStart(rq), t + 1 - Ring)
  BY <1>1, ShardFacts, AdvanceLemma, ZenonT(60)
<1>3. \A id : Holds(rq, id) => Holds(moved, id)
  BY <1>1, ShardFacts, AdvanceHolds
<1> HIDE DEF moved, k
<1>4. BackStart(moved) = t \/ (rq.buckets # <<>> /\ BackStart(moved) = BackStart(rq))
  <2>1. Larger(BackStart(rq), t) = t \/ Larger(BackStart(rq), t) = BackStart(rq)
    BY DEF Larger
  <2> QED
    BY <1>2, <2>1
<1> QED
  BY <1>2, <1>3, <1>4 DEF ShardOK, moved

(* What processing an event does to it. *)
LEMMA ProcessShard ==
  ASSUME NEW I, NEW rq, ShardOK(rq, I), NEW ts \in Nat, NEW id \in I
  PROVE  /\ ShardOK(ProcessMatching(rq, Ring, ts, id), I)
         /\ BackStart(ProcessMatching(rq, Ring, ts, id))
              = BackStart(AdvanceToBucket(rq, Ring, ts))
<1> DEFINE moved == AdvanceToBucket(rq, Ring, ts)
           after == ProcessMatching(rq, Ring, ts, id)
<1>1. rq \in RunningQuery(I) /\ RingOK(rq.buckets, Ring)
  BY DEF ShardOK
<1>2. Ring \in Nat \ {0}
  BY ShardFacts
<1>3. /\ after \in RunningQuery(I)
      /\ after.emitted = moved.emitted
      /\ after.buckets # <<>> /\ RingOK(after.buckets, Ring)
      /\ BackStart(after) = BackStart(moved)
      /\ FrontStart(after) = FrontStart(moved)
  BY <1>1, <1>2, ProcessLemma, SMTT(40)
<1> HIDE DEF moved, after
<1> QED
  BY <1>3 DEF ShardOK, moved, after

(* What holds of a shard that is at work. *)
LEMMA AtWork ==
  ASSUME Inv, at = "batch", NEW s \in Shard
  PROVE  /\ ShardOK(shards[s], Id) /\ todo[s] \in Seq(Id)
         /\ WorkOK(todo[s], log, Taken, span)
         /\ shards[s].buckets # <<>> => NotAhead(BackStart(shards[s]), todo[s], log, Taken)
         /\ NotAhead(span.low, todo[s], log, Taken)
         /\ NotAhead(span.high, <<>>, log, Taken)
         /\ InTime(log) => shards[s].late = {}
         /\ span.low \in Nat /\ span.high \in Nat /\ span.low <= span.high
BY DEF Inv, TypeInv, BatchInv, OrderInv, ShardOrder

(* A refused call ends the shard's work and changes nothing else. *)
LEMMA RefusedGood ==
  ASSUME Inv, at = "batch", NEW s \in Shard, NEW td,
         td = todo[s] \/ (todo[s] # <<>> /\ td = Tail(todo[s]))
  PROVE  Good(s, shards[s], "refused", td)
<1>1. CASE td = todo[s]
  BY <1>1, AtWork DEF Good
<1>2. CASE todo[s] # <<>> /\ td = Tail(todo[s])
  <2>1. /\ td \in Seq(Id) /\ WorkOK(td, log, Taken, span)
        /\ \A ts : NotAhead(ts, todo[s], log, Taken) => NotAhead(ts, td, log, Taken)
    BY <1>2, TailWork
  <2> QED
    BY <2>1, AtWork DEF Good
<1> QED
  BY <1>1, <1>2

(* The shards' stages: seeding with the batch's earliest timestamp. *)
LEMMA SeedKeeps ==
  ASSUME Inv, NEW s \in Shard, SeedShard(s)
  PROVE  Inv'
<1> DEFINE rq    == shards[s]
           low   == span.low
           moved == AdvanceToBucket(rq, Ring, low)
<1>1. /\ at = "batch" /\ stage[s] = "seed" /\ Advance(s, low, "work")
      /\ UNCHANGED <<config, source, todo, span, nextShard, at, counted, published>>
  BY DEF SeedShard
<1>2. /\ shards = [shards EXCEPT ![s] = rq] /\ todo = [todo EXCEPT ![s] = todo[s]]
  BY DEF Inv, TypeInv
<1>3. CASE ~CanAdvance(rq, Ring, Capacity, low)
  <2>1. Works(s, rq, "refused", todo[s])
    BY <1>1, <1>2, <1>3 DEF Works, Advance
  <2>2. Good(s, rq, "refused", todo[s])
    BY <1>1, RefusedGood
  <2> QED
    BY <2>1, <2>2, GoodKeeps
<1>4. CASE CanAdvance(rq, Ring, Capacity, low)
  <2>1. Works(s, moved, "work", todo[s])
    BY <1>1, <1>2, <1>4 DEF Works, Advance
  <2>2. /\ ShardOK(rq, Id) /\ low \in Nat /\ span.high \in Nat /\ low <= span.high
    BY <1>1, AtWork
  <2>3. /\ ShardOK(moved, Id) /\ moved.late = rq.late
        /\ BackStart(moved) = low \/ (rq.buckets # <<>> /\ BackStart(moved) = BackStart(rq))
        /\ \A id : Holds(rq, id) => Holds(moved, id)
    <3> HIDE DEF rq, low
    <3> QED
      BY <2>2, AdvanceShard
  <2>4. ASSUME NEW f \in Nat, NEW b \in Nat, f <= b, ShardAligned(s, f, b)
        PROVE  Working(moved, Id, f, b, span)
    <3>1. Drained(rq, Id, f, b) \/ Fresh(rq, f, b, span)
      BY <1>1, <2>4 DEF ShardAligned
    <3>2. CASE Drained(rq, Id, f, b)
      <4>1. OnTrack(rq, Id, Ring, f, b) /\ BackStart(rq) = b
        BY <3>2 DEF Drained
      <4>2. CanAdvance(rq, Ring, Ring, low)
        BY <1>4, ShardFacts
      <4>3. OnTrack(moved, Id, Ring, f, b) /\ BackStart(moved) = Larger(BackStart(rq), low)
        <5> HIDE DEF rq, low
        <5> QED
          BY <2>2, <4>1, <4>2, ShardFacts, AdvanceOnTrack
      <4> HIDE DEF moved, rq, low
      <4>4. BackStart(moved) <= Larger(b, span.high)
        BY <2>2, <4>1, <4>3 DEF Larger
      <4> QED
        BY <4>3, <4>4 DEF Working
    <3>3. CASE Fresh(rq, f, b, span)
      <4>1. rq.buckets = <<>> /\ rq.emitted = <<>> /\ f = low /\ b = low
        BY <3>3 DEF Fresh, IsEmpty
      <4>2. rq \in RunningQuery(Id) /\ moved \in RunningQuery(Id) /\ RingOK(moved.buckets, Ring)
        BY <2>2, <2>3 DEF ShardOK
      <4>3. Tracks(moved, Ring, low, low) /\ BackStart(moved) = low
        <5> HIDE DEF rq, low
        <5> QED
          BY <2>2, <4>1, <4>2, ShardFacts, SeedTracks
      <4> HIDE DEF moved, rq
      <4>4. OnTrack(moved, Id, Ring, f, b)
        BY <4>1, <4>2, <4>3 DEF OnTrack
      <4>5. BackStart(moved) <= Larger(b, span.high)
        BY <2>2, <4>1, <4>3 DEF Larger
      <4> QED
        BY <4>4, <4>5 DEF Working
    <3> QED
      BY <3>1, <3>2, <3>3
  <2>5. NotAhead(BackStart(moved), todo[s], log, Taken)
    BY <1>1, <2>3, AtWork
  <2>6. \A id : Kept(rq, todo[s], id) => Kept(moved, todo[s], id)
    BY <2>3 DEF Kept
  <2> HIDE DEF moved
  <2>7. Good(s, moved, "work", todo[s])
    BY <1>1, <2>3, <2>4, <2>5, <2>6, AtWork DEF Good
  <2> QED
    BY <2>1, <2>7, GoodKeeps
<1> QED
  BY <1>3, <1>4

(* The shards' stages: processing the shard's own events. *)
LEMMA ProcessKeeps ==
  ASSUME Inv, NEW s \in Shard, ProcessNext(s)
  PROVE  Inv'
<1> DEFINE rq    == shards[s]
           id    == Head(todo[s])
           ts    == log[id].ts
           td    == Tail(todo[s])
           after == ProcessMatching(rq, Ring, ts, id)
           moved == AdvanceToBucket(rq, Ring, ts)
<1>1. /\ at = "batch" /\ stage[s] = "work" /\ todo[s] # <<>>
      /\ IF CanAdvance(rq, Ring, Capacity, ts)
           THEN /\ shards' = [shards EXCEPT ![s] = after]
                /\ UNCHANGED stage
           ELSE /\ stage' = [stage EXCEPT ![s] = "refused"]
                /\ UNCHANGED shards
      /\ todo' = [todo EXCEPT ![s] = td]
      /\ UNCHANGED <<config, source, span, nextShard, at, counted, published>>
  <2>1. shards' = [shards EXCEPT ![s] = ProcessMatching(@, Ring, ts, id)]
          => shards' = [shards EXCEPT ![s] = after]
    BY DEF Inv, TypeInv
  <2>2. todo' = [todo EXCEPT ![s] = Tail(@)] => todo' = [todo EXCEPT ![s] = td]
    BY DEF Inv, TypeInv
  <2>3. /\ at = "batch" /\ stage[s] = "work" /\ todo[s] # <<>>
        /\ IF CanAdvance(rq, Ring, Capacity, ts)
             THEN /\ shards' = [shards EXCEPT ![s] = ProcessMatching(@, Ring, ts, id)]
                  /\ UNCHANGED stage
             ELSE /\ stage' = [stage EXCEPT ![s] = "refused"]
                  /\ UNCHANGED shards
        /\ todo' = [todo EXCEPT ![s] = Tail(@)]
        /\ UNCHANGED <<config, source, span, nextShard, at, counted, published>>
    BY DEF ProcessNext
  <2> HIDE DEF after, td
  <2> QED
    BY <2>1, <2>2, <2>3
<1>2. shards = [shards EXCEPT ![s] = rq] /\ stage = [stage EXCEPT ![s] = stage[s]]
  BY DEF Inv, TypeInv
<1>3. CASE ~CanAdvance(rq, Ring, Capacity, ts)
  <2>1. Works(s, rq, "refused", td)
    <3> HIDE DEF after, td, ts
    <3> QED
      BY <1>1, <1>2, <1>3 DEF Works
  <2>2. Good(s, rq, "refused", td)
    BY <1>1, RefusedGood
  <2> QED
    BY <2>1, <2>2, GoodKeeps
<1>4. CASE CanAdvance(rq, Ring, Capacity, ts)
  <2>1. Works(s, after, "work", td)
    <3> HIDE DEF after, td, ts
    <3> QED
      BY <1>1, <1>2, <1>4 DEF Works
  <2>2. /\ ShardOK(rq, Id) /\ span.high \in Nat
        /\ rq.buckets # <<>> => NotAhead(BackStart(rq), todo[s], log, Taken)
        /\ NotAhead(span.low, todo[s], log, Taken)
        /\ InTime(log) => rq.late = {}
    BY <1>1, AtWork
  <2>3. /\ id \in Id /\ id \in 1 .. Taken /\ ts <= span.high
        /\ td \in Seq(Id) /\ WorkOK(td, log, Taken, span)
        /\ \A k \in 1 .. Len(td) : id <= td[k]
        /\ \A t : NotAhead(t, todo[s], log, Taken) =>
             /\ NotAhead(t, td, log, Taken)
             /\ \E i \in 1 .. Taken : t <= log[i].ts /\ i <= id
        /\ \A x : Waits(todo[s], x) => x = id \/ Waits(td, x)
    BY <1>1, TailWork
  <2>4. /\ ts \in Nat /\ Taken \in Nat /\ 1 .. Taken \subseteq Id
        /\ \A i \in Id : i \in Nat /\ log[i].ts \in Nat
    BY <2>3, LogFacts DEF Inv
  <2>5. rq \in RunningQuery(Id) /\ RingOK(rq.buckets, Ring)
    BY <2>2 DEF ShardOK
  <2> HIDE DEF ts, td, id
  <2>6. ShardOK(after, Id) /\ BackStart(after) = BackStart(moved)
    <3>1. id \in Id /\ ts \in Nat
      BY <2>3, <2>4
    <3> HIDE DEF rq
    <3> QED
      BY <2>2, <3>1, ProcessShard
  <2>7. BackStart(moved) = ts \/ (rq.buckets # <<>> /\ BackStart(moved) = BackStart(rq))
    <3> HIDE DEF rq
    <3> QED
      BY <2>2, <2>4, AdvanceShard
  <2>8. /\ Holds(after, id)
        /\ \A x : Holds(rq, x) => Holds(after, x)
        /\ rq.buckets = <<>> \/ BackStart(rq) <= ts => after.late = rq.late
    <3> HIDE DEF rq
    <3> QED
      BY <2>3, <2>4, <2>5, ShardFacts, ProcessHolds
  <2>9. ASSUME NEW f \in Nat, NEW b \in Nat, f <= b, ShardAligned(s, f, b)
        PROVE  Working(after, Id, f, b, span)
    <3>1. OnTrack(rq, Id, Ring, f, b) /\ BackStart(rq) <= Larger(b, span.high)
      BY <1>1, <2>9 DEF ShardAligned, Working
    <3>2. rq.buckets # <<>>
      BY <3>1 DEF OnTrack, Tracks
    <3>3. BackStart(rq) \in Nat
      <4> HIDE DEF rq
      <4> QED
        BY <2>5, <3>2, ShardFacts, RingEnds
    <3>4. CanAdvance(rq, Ring, Ring, ts)
      BY <1>4, ShardFacts
    <3>5. OnTrack(after, Id, Ring, f, b) /\ BackStart(after) = Larger(BackStart(rq), ts)
      <4> HIDE DEF rq
      <4> QED
        BY <2>3, <2>4, <3>1, <3>4, ShardFacts, ProcessOnTrack
    <3> HIDE DEF after, rq
    <3>6. BackStart(after) <= Larger(b, span.high)
      BY <2>2, <2>3, <2>4, <3>1, <3>3, <3>5 DEF Larger
    <3> QED
      BY <3>5, <3>6 DEF Working
  <2>10. NotAhead(BackStart(after), td, log, Taken)
    <3>1. CASE BackStart(moved) = ts
      <4>1. ts <= log[id].ts
        BY <2>4 DEF ts
      <4> HIDE DEF after, moved
      <4> QED
        BY <2>3, <2>6, <3>1, <4>1 DEF NotAhead
    <3>2. CASE rq.buckets # <<>> /\ BackStart(moved) = BackStart(rq)
      <4> HIDE DEF after, moved
      <4> QED
        BY <2>2, <2>3, <2>6, <3>2
    <3> QED
      BY <2>7, <3>1, <3>2
  <2>11. InTime(log) => after.late = {}
    <3> SUFFICES ASSUME InTime(log), rq.buckets # <<>> PROVE BackStart(rq) <= ts
      BY <2>2, <2>8
    <3>1. PICK i \in 1 .. Taken : BackStart(rq) <= log[i].ts /\ i <= id
      BY <2>2, <2>3
    <3>2. BackStart(rq) \in Nat
      <4> HIDE DEF rq
      <4> QED
        BY <2>5, ShardFacts, RingEnds
    <3>3. i \in Id /\ i \in Nat /\ id \in Nat /\ log[i].ts \in Nat
      BY <2>3, <2>4
    <3>4. log[i].ts <= log[id].ts
      <4>1. CASE i < id
        BY <2>3, <3>3, <4>1 DEF InTime, Id
      <4>2. CASE i = id
        BY <3>3, <4>2
      <4> QED
        BY <3>1, <3>3, <4>1, <4>2
    <3>5. log[id].ts = ts
      BY DEF ts
    <3> QED
      BY <2>4, <3>1, <3>2, <3>3, <3>4, <3>5
  <2>12. \A x : Kept(rq, todo[s], x) => Kept(after, td, x)
    <3> HIDE DEF after
    <3> QED
      BY <2>3, <2>8 DEF Kept
  <2>13. ShardOK(after, Id) /\ NotAhead(span.low, td, log, Taken)
    BY <2>2, <2>3, <2>6
  <2> HIDE DEF after
  <2>14. Good(s, after, "work", td)
    BY <2>3, <2>9, <2>10, <2>11, <2>12, <2>13 DEF Good
  <2> QED
    BY <2>1, <2>14, GoodKeeps
<1> QED
  BY <1>3, <1>4

(* The shards' stages: moving on to the batch's latest timestamp. *)
LEMMA MarkKeeps ==
  ASSUME Inv, NEW s \in Shard, MarkShard(s)
  PROVE  Inv'
<1> DEFINE rq    == shards[s]
           high  == span.high
           moved == AdvanceToBucket(rq, Ring, high)
<1>1. /\ at = "batch" /\ stage[s] = "work" /\ todo[s] = <<>> /\ Advance(s, high, "idle")
      /\ UNCHANGED <<config, source, todo, span, nextShard, at, counted, published>>
  BY DEF MarkShard
<1>2. /\ shards = [shards EXCEPT ![s] = rq] /\ todo = [todo EXCEPT ![s] = todo[s]]
  BY DEF Inv, TypeInv
<1>3. CASE ~CanAdvance(rq, Ring, Capacity, high)
  <2>1. Works(s, rq, "refused", todo[s])
    BY <1>1, <1>2, <1>3 DEF Works, Advance
  <2>2. Good(s, rq, "refused", todo[s])
    BY <1>1, RefusedGood
  <2> QED
    BY <2>1, <2>2, GoodKeeps
<1>4. CASE CanAdvance(rq, Ring, Capacity, high)
  <2>1. Works(s, moved, "idle", todo[s])
    BY <1>1, <1>2, <1>4 DEF Works, Advance
  <2>2. ShardOK(rq, Id) /\ high \in Nat
    BY <1>1, AtWork
  <2>3. /\ ShardOK(moved, Id) /\ moved.late = rq.late
        /\ BackStart(moved) = high \/ (rq.buckets # <<>> /\ BackStart(moved) = BackStart(rq))
        /\ \A id : Holds(rq, id) => Holds(moved, id)
    <3> HIDE DEF rq, high
    <3> QED
      BY <2>2, AdvanceShard
  <2>4. ASSUME NEW f \in Nat, NEW b \in Nat, f <= b, ShardAligned(s, f, b)
        PROVE  Marked(moved, Id, f, b, span)
    <3>1. OnTrack(rq, Id, Ring, f, b) /\ BackStart(rq) <= Larger(b, high)
      BY <1>1, <2>4 DEF ShardAligned, Working
    <3>2. /\ rq.buckets # <<>> /\ b <= BackStart(rq)
          /\ rq \in RunningQuery(Id) /\ RingOK(rq.buckets, Ring)
      BY <3>1 DEF OnTrack, Tracks
    <3>3. BackStart(rq) \in Nat
      <4> HIDE DEF rq
      <4> QED
        BY <3>2, ShardFacts, RingEnds
    <3>4. CanAdvance(rq, Ring, Ring, high)
      BY <1>4, ShardFacts
    <3>5. OnTrack(moved, Id, Ring, f, b) /\ BackStart(moved) = Larger(BackStart(rq), high)
      <4> HIDE DEF rq, high
      <4> QED
        BY <2>2, <3>1, <3>4, ShardFacts, AdvanceOnTrack
    <3> HIDE DEF moved, rq
    <3>6. BackStart(moved) = Larger(b, span.high)
      BY <2>2, <3>1, <3>2, <3>3, <3>5 DEF Larger
    <3> QED
      BY <3>5, <3>6 DEF Marked
  <2>5. NotAhead(BackStart(moved), todo[s], log, Taken)
    <3>1. NotAhead(high, todo[s], log, Taken)
      BY <1>1, AtWork
    <3> QED
      BY <1>1, <2>3, <3>1, AtWork
  <2>6. \A id : Kept(rq, todo[s], id) => Kept(moved, todo[s], id)
    BY <2>3 DEF Kept
  <2> HIDE DEF moved
  <2>7. Good(s, moved, "idle", todo[s])
    BY <1>1, <2>3, <2>4, <2>5, <2>6, AtWork DEF Good
  <2> QED
    BY <2>1, <2>7, GoodKeeps
<1> QED
  BY <1>3, <1>4

-------------------------------------------------------------------------------
(* engine_loop: taking a batch leaves nobody ahead of it. *)
LEMMA TakeBatchKeeps ==
  ASSUME Inv, TakeBatch
  PROVE  Inv'
<1>1. TypeInv /\ BatchInv /\ AlignInv /\ OrderInv /\ HeldInv
  BY DEF Inv
<1>2. /\ at = "recv" /\ at' = "batch" /\ stage' = [s \in Shard |-> "seed"]
      /\ config' = config /\ srcOpen' = srcOpen /\ log' = log /\ shards' = shards
      /\ counted' = counted /\ published' = published
  BY DEF TakeBatch
<1>3. PICK n \in Nat : BatchOf(n)
  BY <1>1, TakenBatch
<1>4. /\ n \in 1 .. Len(channel)
      /\ Len(channel') = Len(channel) - n /\ channel' \in Seq(Id)
      /\ \A i \in 1 .. Len(channel') : channel'[i] = (Taken + n) + i
      /\ span' \in [low : Nat, high : Nat, size : Nat] /\ span'.size = n
      /\ span'.low <= span'.high
      /\ todo' \in [Shard -> Seq(Id)]
      /\ \A s \in Shard : WorkOK(todo'[s], log, Taken + n, span')
      /\ \A s \in Shard : \A k \in 1 .. Len(todo'[s]) : Taken + 1 <= todo'[s][k]
      /\ span'.low <= log[Taken + 1].ts
      /\ NotAhead(span'.high, <<>>, log, Taken + n)
      /\ \A id \in (Taken + 1) .. (Taken + n) : \E s \in Shard : Waits(todo'[s], id)
      /\ nextShard' \in Shard
  BY <1>3 DEF BatchOf
<1>5. /\ Len(log) \in Nat /\ Len(channel) \in Nat /\ Taken \in Nat
      /\ Len(channel) <= Len(log)
  BY <1>1, LogFacts DEF TypeInv
<1>6. Id' = Id /\ Taken' = Taken + n /\ Len(channel') <= Len(log)
  BY <1>2, <1>4, <1>5 DEF Id, Taken
<1>7. \A s \in Shard : stage[s] = "idle" /\ todo[s] = <<>> /\ stage'[s] = "seed"
  BY <1>1, <1>2 DEF BatchInv
<1>8. TypeInv'
  BY <1>1, <1>2, <1>4, <1>6 DEF TypeInv, Stages
<1>9. BatchInv'
  <2>1. counted = Taken /\ counted' + span'.size = Taken'
    <3>1. counted + 0 = Taken /\ counted \in Nat
      BY <1>1, <1>2 DEF BatchInv, TypeInv
    <3> QED
      BY <1>2, <1>4, <1>5, <1>6, <3>1
  <2> QED
    BY <1>2, <1>4, <1>6, <1>7, <2>1 DEF BatchInv
<1>10. AlignInv'
  <2>1. InOrder(published')
    BY <1>1, <1>2 DEF AlignInv
  <2>2. CASE Untouched
    <3>1. published' = <<>> /\ \A s \in Shard : IsEmpty(shards'[s])
      BY <1>2, <2>2 DEF Untouched
    <3>2. span'.low \in Nat /\ span'.low <= span'.low
      BY <1>4
    <3>3. PublishedUpTo(published', span'.low, span'.low)
      BY <3>1, EmptySeq DEF PublishedUpTo
    <3>4. \A s \in Shard : ShardAligned(s, span.low, span.low)'
      BY <1>2, <1>7, <3>1 DEF ShardAligned, Fresh
    <3>5. Boundary(span.low, span.low)'
      BY <3>2, <3>3, <3>4 DEF Boundary
    <3> QED
      BY <2>1, <3>2, <3>5 DEF AlignInv
  <2>3. CASE \E f, b \in Nat : Boundary(f, b)
    <3>1. PICK f \in Nat, b \in Nat : Boundary(f, b)
      BY <2>3
    <3>2. \A s \in Shard : ShardAligned(s, f, b)'
      BY <1>2, <1>6, <1>7, <3>1 DEF ShardAligned, Boundary
    <3>3. Boundary(f, b)'
      BY <1>2, <3>1, <3>2 DEF Boundary
    <3> QED
      BY <2>1, <3>3 DEF AlignInv
  <2> QED
    BY <1>1, <1>2, <2>2, <2>3 DEF AlignInv, Running
<1>11. OrderInv'
  <2>1. ASSUME NEW s \in Shard PROVE ShardOrder(s)'
    <3>1. ShardOrder(s)
      BY <1>1 DEF OrderInv
    <3>2. ASSUME NEW ts, NotAhead(ts, <<>>, log, Taken)
          PROVE  NotAhead(ts, todo'[s], log, Taken + n)
      <4>1. PICK i \in 1 .. Taken : ts <= log[i].ts
        BY <3>2 DEF NotAhead
      <4>2. \A k \in 1 .. Len(todo'[s]) : todo'[s][k] \in Nat
        BY <1>4, <1>5, SeqElements, SMTT(40) DEF Id
      <4>3. i \in 1 .. (Taken + n) /\ \A k \in 1 .. Len(todo'[s]) : i <= todo'[s][k]
        BY <1>4, <1>5, <4>2, SMTT(40)
      <4> QED
        BY <4>1, <4>3 DEF NotAhead
    <3>3. NotAhead(span'.low, todo'[s], log, Taken + n)
      <4>1. Taken + 1 \in 1 .. (Taken + n)
        BY <1>4, <1>5
      <4> QED
        BY <1>4, <4>1 DEF NotAhead
    <3> QED
      BY <1>2, <1>6, <1>7, <3>1, <3>2, <3>3 DEF ShardOrder
  <2> QED
    BY <1>2, <1>4, <1>6, <2>1 DEF OrderInv
<1>12. HeldInv'
  <2> SUFFICES ASSUME NEW id \in 1 .. (Taken + n)
               PROVE  \/ InSome(published, id)
                      \/ \E s \in Shard : Kept(shards[s], todo'[s], id)
    BY <1>2, <1>6 DEF HeldInv
  <2>1. CASE id \in 1 .. Taken
    <3>1. Whole
      BY <1>2, <1>7 DEF Whole
    <3>2. InSome(published, id) \/ \E s \in Shard : Kept(shards[s], <<>>, id)
      BY <1>1, <1>2, <1>7, <2>1, <3>1 DEF HeldInv
    <3>3. ~Waits(<<>>, id)
      BY EmptySeq DEF Waits
    <3> QED
      BY <3>2, <3>3 DEF Kept
  <2>2. CASE id \in (Taken + 1) .. (Taken + n)
    BY <1>4, <2>2 DEF Kept
  <2> QED
    BY <1>5, <2>1, <2>2
<1> QED
  BY <1>8, <1>9, <1>10, <1>11, <1>12 DEF Inv

(* engine_loop: the batch ends, well or with a refused shard. *)
LEMMA EndKeeps ==
  ASSUME Inv, EndBatch \/ FailBatch
  PROVE  Inv'
<1>1. TypeInv /\ BatchInv /\ AlignInv /\ OrderInv /\ HeldInv
  BY DEF Inv
<1>2. /\ at = "batch" /\ config' = config /\ channel' = channel /\ srcOpen' = srcOpen
      /\ log' = log /\ shards' = shards /\ todo' = todo /\ stage' = stage
      /\ span' = span /\ nextShard' = nextShard /\ published' = published
  BY DEF EndBatch, FailBatch, source, engine
<1>3. \/ /\ at' = "publish" /\ counted' = counted + span.size
         /\ \A s \in Shard : stage[s] = "idle"
      \/ at' = "failed" /\ counted' = counted
  BY DEF EndBatch, FailBatch
<1>4. Id' = Id /\ Taken' = Taken
  BY <1>2 DEF Id, Taken
<1>5. TypeInv'
  BY <1>1, <1>2, <1>3, <1>4 DEF TypeInv
<1>6. BatchInv'
  <2>1. CASE at' = "publish"
    <3>1. \A s \in Shard : stage[s] = "idle" /\ todo[s] = <<>>
      BY <1>1, <1>2, <1>3, <2>1 DEF BatchInv
    <3>2. counted' = Taken
      BY <1>1, <1>2, <1>3, <2>1 DEF BatchInv
    <3>3. counted' + 0 = Taken
      BY <1>5, <3>2 DEF TypeInv
    <3> QED
      BY <1>2, <1>4, <2>1, <3>1, <3>3 DEF BatchInv
  <2>2. CASE at' = "failed"
    BY <2>2 DEF BatchInv
  <2> QED
    BY <1>3, <2>1, <2>2
<1>7. AlignInv'
  <2>1. InOrder(published')
    BY <1>1, <1>2 DEF AlignInv
  <2>2. CASE at' = "failed"
    BY <2>1, <2>2 DEF AlignInv, Running
  <2>3. CASE at' = "publish"
    <3>1. PICK f \in Nat, b \in Nat : Boundary(f, b)
      BY <1>1, <1>2 DEF AlignInv, Running, Untouched
    <3>2. \A s \in Shard : ShardAligned(s, f, b)'
      BY <1>2, <1>3, <1>4, <2>3, <3>1 DEF ShardAligned, Boundary
    <3>3. Boundary(f, b)'
      BY <1>2, <3>1, <3>2 DEF Boundary
    <3> QED
      BY <2>1, <3>3 DEF AlignInv
  <2> QED
    BY <1>3, <2>2, <2>3
<1>8. OrderInv'
  <2>1. \A s \in Shard : ShardOrder(s)'
    BY <1>1, <1>2, <1>3, <1>4 DEF OrderInv, ShardOrder
  <2> QED
    BY <1>3, <2>1 DEF OrderInv
<1>9. HeldInv'
  <2>1. CASE at' = "failed"
    BY <2>1 DEF HeldInv, Whole
  <2>2. CASE at' = "publish"
    <3>1. Whole
      BY <1>2, <1>3, <2>2 DEF Whole
    <3> QED
      BY <1>1, <1>2, <1>4, <2>2, <3>1 DEF HeldInv
  <2> QED
    BY <1>3, <2>1, <2>2
<1> QED
  BY <1>5, <1>6, <1>7, <1>8, <1>9 DEF Inv

-------------------------------------------------------------------------------
(* Publication. *)
Drain(rq) == [rq EXCEPT !.emitted = <<>>]

Drawn == InKeyOrder(Merged(UNION {Windows(shards[s].emitted) : s \in Shard}))

(* Every shard completed m windows, one per slide after b. *)
AllSpan(f, b, m) ==
  \A s \in Shard : Spans(shards[s].emitted, Ring, f, b) /\ Len(shards[s].emitted) = m

(* The shards' windows merge into m windows in time order, which hold what *)
(* the shards' windows hold.                                               *)
LEMMA DrawnLemma ==
  ASSUME TypeInv, NEW f \in Nat, NEW b \in Nat, NEW m \in Nat, AllSpan(f, b, m)
  PROVE  /\ Drawn \in Seq(WindowState(Id)) /\ Len(Drawn) = m /\ InOrder(Drawn)
         /\ \A i \in 1 .. m : /\ b < Drawn[i].end /\ Drawn[i].end <= b + m
                              /\ Drawn[i].start = Larger(f, Drawn[i].end - Ring)
         /\ \A s \in Shard : \A id : InSome(shards[s].emitted, id) => InSome(Drawn, id)
<1> DEFINE em(s) == shards[s].emitted
           V     == UNION {Windows(em(s)) : s \in Shard}
<1>1. \A s \in Shard :
        /\ em(s) \in Seq(WindowState(Id)) /\ Spans(em(s), Ring, f, b) /\ Len(em(s)) = m
  BY DEF TypeInv, ShardOK, RunningQuery, AllSpan
<1>2. 1 \in Shard
  BY ShardFacts
<1>3. Drawn = InKeyOrder(Merged(V))
  BY DEF Drawn
<1> HIDE DEF em
<1>4. V \in SUBSET WindowState(Id)
  <2>1. \A s \in Shard : Windows(em(s)) \subseteq WindowState(Id)
    BY <1>1, SeqElements DEF Windows
  <2> QED
    BY <2>1
<1>5. \A v \in V : \E i \in 1 .. m : v.end = b + i /\ v.start = Larger(f, (b + i) - Ring)
  <2> SUFFICES ASSUME NEW s \in Shard, NEW v \in Windows(em(s))
               PROVE  \E i \in 1 .. m : v.end = b + i /\ v.start = Larger(f, (b + i) - Ring)
    OBVIOUS
  <2>1. PICK i \in 1 .. m : v = em(s)[i]
    BY <1>1 DEF Windows
  <2> QED
    BY <1>1, <2>1 DEF Spans
<1>6. \A i \in 1 .. m : \E v \in V : v.end = b + i
  <2> SUFFICES ASSUME NEW i \in 1 .. m PROVE \E v \in V : v.end = b + i
    OBVIOUS
  <2>1. em(1)[i] \in Windows(em(1)) /\ em(1)[i].end = b + i
    BY <1>1, <1>2 DEF Windows, Spans
  <2> QED
    BY <1>2, <2>1
<1>7. \A s \in Shard : \A i \in 1 .. m : em(s)[i] \in V
  <2> SUFFICES ASSUME NEW s \in Shard, NEW i \in 1 .. m PROVE em(s)[i] \in V
    OBVIOUS
  <2>1. em(s)[i] \in Windows(em(s))
    BY <1>1 DEF Windows
  <2> QED
    BY <2>1
<1> HIDE DEF V
<1>8. Cover(V, Ring, f, b, m)
  BY <1>5, <1>6 DEF Cover
<1>9. ReadOut(Drawn, V, Id, Ring, f, b, m)
  BY <1>3, <1>4, <1>8, ShardFacts, MergeLemma
<1>10. ASSUME NEW s \in Shard, NEW id, InSome(em(s), id) PROVE InSome(Drawn, id)
  <2>1. PICK j \in 1 .. m : id \in em(s)[j].ids
    BY <1>1, <1>10 DEF InSome
  <2>2. PICK i \in 1 .. m : em(s)[j].ids \subseteq Drawn[i].ids
    BY <1>7, <1>9 DEF ReadOut
  <2> QED
    BY <1>9, <2>1, <2>2 DEF ReadOut, InSome
<1> QED
  BY <1>9, <1>10 DEF ReadOut, em

(* take_estimates appends them to what was published, and leaves the rings *)
(* as they are.                                                            *)
LEMMA EstimatesTaken ==
  ASSUME Inv, TakeEstimates, Id' = Id, NEW f \in Nat, NEW b \in Nat, NEW m \in Nat,
         AllSpan(f, b, m), PublishedUpTo(published, f, b)
  PROVE  /\ published' \in Seq(WindowState(Id)) /\ InOrder(published')
         /\ \A c \in Nat : b + m <= c =>
              PublishedUpTo(published', Larger(f, (c + 1) - Ring), c)
         /\ \A id : InSome(published, id) => InSome(published', id)
         /\ \A s \in Shard : \A id :
              InSome(shards[s].emitted, id) => InSome(published', id)
         /\ shards' \in [Shard -> RunningQuery(Id)]
         /\ \A s \in Shard :
              /\ ShardOK(shards'[s], Id) /\ shards'[s] = Drain(shards[s])
              /\ shards'[s].buckets = shards[s].buckets /\ shards'[s].late = shards[s].late
<1> DEFINE p == Len(published)
           out == Drawn
<1>1. TypeInv /\ published \in Seq(WindowState(Id)) /\ InOrder(published)
  BY DEF Inv, TypeInv, AlignInv
<1>2. published' = published \o out
  BY DEF TakeEstimates, Drawn
<1>3. /\ out \in Seq(WindowState(Id)) /\ Len(out) = m /\ InOrder(out)
      /\ \A i \in 1 .. m : /\ b < out[i].end /\ out[i].end <= b + m
                           /\ out[i].start = Larger(f, out[i].end - Ring)
      /\ \A s \in Shard : \A id : InSome(shards[s].emitted, id) => InSome(out, id)
  BY <1>1, DrawnLemma
<1> HIDE DEF out
<1>4. /\ p \in Nat /\ \A i \in 1 .. p : published[i] \in WindowState(Id)
      /\ \A i \in 1 .. m : out[i] \in WindowState(Id)
  BY <1>1, <1>3, SeqElements
<1>5. /\ \A i \in 1 .. p : published[i].end \in Nat /\ published[i].start \in Nat
      /\ \A i \in 1 .. m : out[i].end \in Nat /\ out[i].start \in Nat
  BY <1>4 DEF WindowState
<1>6. /\ published' \in Seq(WindowState(Id)) /\ Len(published') = p + m
      /\ \A i \in 1 .. p + m : published'[i] = IF i <= p THEN published[i] ELSE out[i - p]
  BY <1>1, <1>2, <1>3, ConcatProperties
<1>7. \A i \in 1 .. p : published[i].end <= b /\ published[i].start <= f
  BY DEF PublishedUpTo
<1>8. InOrder(published')
  <2>1. \A i \in 1 .. p, j \in 1 .. m :
          published[i].end < out[j].end /\ published[i].start <= out[j].start
    <3> SUFFICES ASSUME NEW i \in 1 .. p, NEW j \in 1 .. m
                 PROVE  published[i].end < out[j].end /\ published[i].start <= out[j].start
      OBVIOUS
    <3>1. b < out[j].end /\ out[j].start = Larger(f, out[j].end - Ring)
      BY <1>3
    <3>2. published[i].end <= b /\ published[i].start <= f
      BY <1>7
    <3>3. /\ published[i].end \in Nat /\ published[i].start \in Nat
          /\ out[j].end \in Nat /\ out[j].start \in Nat
      BY <1>5
    <3> QED
      BY <3>1, <3>2, <3>3, ShardFacts, SMTT(40) DEF Larger
  <2>2. InOrder(published \o out)
    BY <1>1, <1>3, <2>1, ConcatInOrder
  <2> QED
    BY <1>2, <2>2
<1>9. ASSUME NEW c \in Nat, b + m <= c, NEW i \in 1 .. p + m
      PROVE  published'[i].end <= c /\ published'[i].start <= Larger(f, (c + 1) - Ring)
  <2>1. CASE i <= p
    <3>1. i \in 1 .. p /\ published'[i] = published[i]
      BY <1>4, <1>6, <2>1
    <3>2. published[i].end <= b /\ published[i].start <= f
      BY <1>7, <3>1
    <3>3. published[i].end \in Nat /\ published[i].start \in Nat
      BY <1>5, <3>1
    <3> QED
      BY <1>9, <3>1, <3>2, <3>3, ShardFacts DEF Larger
  <2>2. CASE ~(i <= p)
    <3> DEFINE j == i - p
    <3>1. j \in 1 .. m /\ published'[i] = out[j]
      BY <1>4, <1>6, <2>2
    <3> HIDE DEF j
    <3>2. out[j].end <= b + m /\ out[j].start = Larger(f, out[j].end - Ring)
      BY <1>3, <3>1
    <3>3. out[j].end \in Nat /\ out[j].start \in Nat
      BY <1>5, <3>1
    <3> QED
      BY <1>9, <3>1, <3>2, <3>3, ShardFacts, SMTT(40) DEF Larger
  <2> QED
    BY <2>1, <2>2
<1>10. \A c \in Nat : b + m <= c =>
         PublishedUpTo(published', Larger(f, (c + 1) - Ring), c)
  BY <1>6, <1>9 DEF PublishedUpTo
<1>11. \A id : InSome(published', id) <=> InSome(published, id) \/ InSome(out, id)
  BY <1>1, <1>2, <1>3, InSomeConcat
<1>12. shards' = [s \in Shard |-> Drain(shards[s])]
  BY DEF TakeEstimates, Drain
<1>13. ASSUME NEW s \in Shard
       PROVE  /\ ShardOK(Drain(shards[s]), Id)
              /\ Drain(shards[s]).buckets = shards[s].buckets
              /\ Drain(shards[s]).late = shards[s].late
  <2>1. shards[s] \in RunningQuery(Id) /\ RingOK(shards[s].buckets, Ring)
    BY <1>1 DEF TypeInv, ShardOK
  <2>2. <<>> \in Seq(WindowState(Id))
    BY EmptySeq
  <2>3. /\ Drain(shards[s]).buckets = shards[s].buckets
        /\ Drain(shards[s]).late = shards[s].late
        /\ Drain(shards[s]) \in RunningQuery(Id)
    BY <2>1, <2>2 DEF Drain, RunningQuery
  <2> QED
    BY <2>1, <2>3 DEF ShardOK
<1>14. shards' \in [Shard -> RunningQuery(Id)]
  BY <1>12, <1>13 DEF ShardOK
<1>15. \A s \in Shard : shards'[s] = Drain(shards[s])
  BY <1>12
<1> QED
  BY <1>3, <1>6, <1>8, <1>10, <1>11, <1>13, <1>14, <1>15

(* Between batches the shards' order depends on their rings alone. *)
LEMMA OrderKept ==
  ASSUME Inv, at # "batch", at' # "batch",
         UNCHANGED <<config, source, todo, stage, span, nextShard, counted>>,
         \A s \in Shard : /\ shards'[s].buckets = shards[s].buckets
                          /\ shards'[s].late = shards[s].late
  PROVE  OrderInv' /\ Id' = Id /\ Taken' = Taken
<1>1. /\ log' = log /\ channel' = channel /\ todo' = todo
  BY DEF source
<1>2. Id' = Id /\ Taken' = Taken
  BY <1>1 DEF Id, Taken
<1>3. ASSUME NEW s \in Shard PROVE ShardOrder(s)'
  <2>1. ShardOrder(s)
    BY DEF Inv, OrderInv
  <2>2. BackStart(shards'[s]) = BackStart(shards[s])
    BY DEF BackStart
  <2> QED
    BY <1>1, <1>2, <2>1, <2>2 DEF ShardOrder
<1> QED
  BY <1>2, <1>3 DEF OrderInv

(* engine_loop: publishing a batch starts a new account at the slide that  *)
(* every shard was taken to.                                               *)
LEMMA PublishKeeps ==
  ASSUME Inv, Publish
  PROVE  Inv'
<1>1. TypeInv /\ BatchInv /\ AlignInv /\ OrderInv /\ HeldInv
  BY DEF Inv
<1>2. /\ at = "publish" /\ at' = "recv" /\ TakeEstimates
      /\ UNCHANGED <<config, source, todo, stage, span, nextShard, counted>>
  BY DEF Publish
<1>3. /\ config' = config /\ channel' = channel /\ srcOpen' = srcOpen /\ log' = log
      /\ todo' = todo /\ stage' = stage /\ span' = span /\ nextShard' = nextShard
      /\ counted' = counted
  BY <1>2 DEF source
<1>4. Id' = Id /\ Taken' = Taken
  BY <1>3 DEF Id, Taken
<1>5. PICK f \in Nat, b \in Nat : Boundary(f, b)
  BY <1>1, <1>2 DEF AlignInv, Running, Untouched
<1> DEFINE c == Larger(b, span.high)
           m == Smaller(c - b, Ring)
           g == Larger(f, (c + 1) - Ring)
<1>6. /\ f <= b /\ PublishedUpTo(published, f, b)
      /\ \A s \in Shard : OnTrack(shards[s], Id, Ring, f, b) /\ BackStart(shards[s]) = c
  BY <1>2, <1>5 DEF Boundary, ShardAligned, Marked
<1>7. c \in Nat /\ b <= c /\ m \in Nat /\ b + m <= c /\ g \in Nat /\ g <= c
  <2>1. span.high \in Nat /\ Ring \in Nat \ {0}
    BY <1>1, ShardFacts DEF TypeInv
  <2> QED
    BY <1>6, <2>1 DEF Larger, Smaller
<1>8. \A s \in Shard : FrontStart(shards[s]) = g /\ Len(shards[s].emitted) = m
                       /\ Spans(shards[s].emitted, Ring, f, b)
  BY <1>6 DEF OnTrack, Tracks
<1> HIDE DEF c, m, g
<1>9. AllSpan(f, b, m)
  BY <1>8 DEF AllSpan
<1>10. /\ published' \in Seq(WindowState(Id)) /\ InOrder(published')
       /\ PublishedUpTo(published', g, c)
       /\ \A id : InSome(published, id) => InSome(published', id)
       /\ \A s \in Shard : \A id : InSome(shards[s].emitted, id) => InSome(published', id)
       /\ shards' \in [Shard -> RunningQuery(Id)]
       /\ \A s \in Shard :
            /\ ShardOK(shards'[s], Id) /\ shards'[s] = Drain(shards[s])
            /\ shards'[s].buckets = shards[s].buckets /\ shards'[s].late = shards[s].late
  BY <1>2, <1>4, <1>6, <1>7, <1>9, EstimatesTaken DEF g
<1>11. TypeInv'
  BY <1>1, <1>3, <1>4, <1>10 DEF TypeInv
<1>12. BatchInv'
  BY <1>1, <1>2, <1>3, <1>4 DEF BatchInv
<1>13. AlignInv'
  <2>1. ASSUME NEW s \in Shard PROVE Drained(shards'[s], Id, g, c)
    <3> DEFINE rq == shards[s]
               d  == [[rq EXCEPT !.emitted = rq.emitted] EXCEPT !.emitted = <<>>]
    <3>1. OnTrack(rq, Id, Ring, f, b) /\ BackStart(rq) = c /\ FrontStart(rq) = g
      BY <1>6, <1>8
    <3>2. /\ OnTrack(d, Id, Ring, FrontStart(rq), BackStart(rq))
          /\ FrontStart(d) = FrontStart(rq) /\ BackStart(d) = BackStart(rq)
          /\ d.late = rq.late /\ d.buckets = rq.buckets
      <4> HIDE DEF rq
      <4> QED
        BY <3>1, ShardFacts, DrainOnTrack, ZenonT(60)
    <3>3. d = Drain(rq)
      <4>1. rq \in RunningQuery(Id)
        BY <3>1 DEF OnTrack
      <4> QED
        BY <4>1 DEF Drain, RunningQuery
    <3>4. shards'[s] = Drain(rq)
      BY <1>10
    <3> HIDE DEF d, rq
    <3> QED
      BY <3>1, <3>2, <3>3, <3>4 DEF Drained
  <2>2. \E x, y \in Nat : /\ x <= y /\ PublishedUpTo(published', x, y)
                          /\ \A s \in Shard : Drained(shards'[s], Id', x, y)
    BY <1>4, <1>7, <1>10, <2>1
  <2> QED
    BY <1>2, <1>10, <2>2 DEF AlignInv, Boundary, ShardAligned
<1>14. OrderInv'
  BY <1>2, <1>10, OrderKept
<1>15. HeldInv'
  <2> SUFFICES ASSUME NEW id \in 1 .. Taken
               PROVE  \/ InSome(published', id)
                      \/ \E s \in Shard : Kept(shards'[s], todo[s], id)
    BY <1>2, <1>3, <1>4 DEF HeldInv
  <2>1. Whole
    BY <1>1, <1>2 DEF Whole, BatchInv
  <2>2. InSome(published, id) \/ \E s \in Shard : Kept(shards[s], todo[s], id)
    BY <1>1, <1>2, <2>1 DEF HeldInv
  <2>3. CASE InSome(published, id)
    BY <1>10, <2>3
  <2>4. ASSUME NEW s \in Shard, Kept(shards[s], todo[s], id)
        PROVE  InSome(published', id) \/ Kept(shards'[s], todo[s], id)
    <3>1. InRing(shards[s], id) => InRing(shards'[s], id)
      BY <1>10 DEF InRing
    <3> QED
      BY <1>10, <2>4, <3>1 DEF Kept, Holds
  <2> QED
    BY <2>2, <2>3, <2>4
<1> QED
  BY <1>11, <1>12, <1>13, <1>14, <1>15 DEF Inv

(* engine_loop: the source has ended and the trailing windows are closed.  *)
LEMMA FinishKeeps ==
  ASSUME Inv, Finish
  PROVE  Inv'
<1>1. TypeInv /\ BatchInv /\ AlignInv /\ OrderInv /\ HeldInv
  BY DEF Inv
<1>2. /\ at = "recv" /\ channel = <<>> /\ ~srcOpen
      /\ UNCHANGED <<config, source, todo, stage, span, nextShard, counted, published>>
      /\ \/ /\ CanFinish /\ at' = "final"
            /\ shards' = [s \in Shard |-> FinishQuery(shards[s])]
         \/ at' = "failed" /\ shards' = shards
  BY DEF Finish
<1>3. /\ config' = config /\ channel' = channel /\ srcOpen' = srcOpen /\ log' = log
      /\ todo' = todo /\ stage' = stage /\ span' = span /\ nextShard' = nextShard
      /\ counted' = counted /\ published' = published
  BY <1>2 DEF source
<1>4. Id' = Id /\ Taken' = Taken
  BY <1>3 DEF Id, Taken
<1>5. \A s \in Shard : shards[s] \in RunningQuery(Id) /\ RingOK(shards[s].buckets, Ring)
  BY <1>1 DEF TypeInv, ShardOK
<1>6. InOrder(published')
  BY <1>1, <1>3 DEF AlignInv
<1>7. CASE at' = "failed" /\ shards' = shards
  <2>1. TypeInv'
    BY <1>1, <1>3, <1>4, <1>7 DEF TypeInv
  <2>2. BatchInv' /\ AlignInv' /\ HeldInv'
    BY <1>6, <1>7 DEF BatchInv, AlignInv, Running, HeldInv, Whole
  <2>3. OrderInv'
    BY <1>2, <1>7, OrderKept
  <2> QED
    BY <2>1, <2>2, <2>3 DEF Inv
<1>8. CASE /\ CanFinish /\ at' = "final"
           /\ shards' = [s \in Shard |-> FinishQuery(shards[s])]
  <2>1. \A s \in Shard : shards'[s] = FinishQuery(shards[s])
    BY <1>8
  <2>2. /\ \A s \in Shard : /\ ShardOK(shards'[s], Id)
                           /\ shards'[s].buckets = shards[s].buckets
        /\ AlignInv'
    <3>1. CASE Untouched
      <4>1. /\ published = <<>>
            /\ \A s \in Shard : shards[s].buckets = <<>> /\ shards[s].emitted = <<>>
        BY <3>1 DEF Untouched, IsEmpty
      <4>2. \A s \in Shard : shards'[s] = shards[s]
        BY <2>1, <4>1 DEF FinishQuery
      <4> QED
        BY <1>3, <1>5, <1>6, <1>8, <4>1, <4>2 DEF AlignInv, Untouched, IsEmpty, ShardOK
    <3>2. CASE \E f, b \in Nat : Boundary(f, b)
      <4>1. PICK f \in Nat, b \in Nat : Boundary(f, b)
        BY <3>2
      <4>2. f <= b /\ PublishedUpTo(published, f, b)
        BY <4>1 DEF Boundary
      <4>3. ASSUME NEW s \in Shard
            PROVE  /\ ShardOK(shards'[s], Id) /\ Finished(shards'[s], f, b)
                   /\ shards'[s].buckets = shards[s].buckets
        <5> DEFINE rq == shards[s]
                   fq == FinishQuery(rq)
        <5>1. /\ OnTrack(rq, Id, Ring, f, b) /\ BackStart(rq) = b /\ rq.buckets # <<>>
              /\ FrontStart(rq) = Larger(f, (b + 1) - Ring)
          BY <1>2, <4>1 DEF Boundary, ShardAligned, Drained, OnTrack, Tracks
        <5>2. CanEmit(rq, Ring, 1)
          BY <1>8, <5>1, ShardFacts DEF CanFinish
        <5>3. rq \in RunningQuery(Id) /\ RingOK(rq.buckets, Ring) /\ shards'[s] = fq
          BY <1>5, <2>1
        <5> HIDE DEF rq
        <5>4. /\ fq.emitted \in Seq(WindowState(Id))
              /\ Spans(fq.emitted, Ring, f, b)
              /\ Len(fq.emitted) = (BackStart(rq) - b) + 1
              /\ \E w : fq = [rq EXCEPT !.emitted = w]
          <6>1. OnTrack(rq, Id, Ring, f, b)
            BY <5>1
          <6>2. Ring \in Nat \ {0}
            BY ShardFacts
          <6> QED
            BY <5>2, <6>1, <6>2, FinishSpans, ZenonT(60)
        <5> HIDE DEF fq
        <5>5. Len(fq.emitted) = 1
          BY <5>1, <5>4
        <5>6. PICK w : fq = [rq EXCEPT !.emitted = w]
          BY <5>4
        <5>7. fq.buckets = rq.buckets /\ fq \in RunningQuery(Id)
          BY <5>3, <5>4, <5>6 DEF RunningQuery
        <5>8. FrontStart(fq) = FrontStart(rq) /\ BackStart(fq) = BackStart(rq)
          BY <5>7 DEF FrontStart, BackStart
        <5> QED
          BY <5>1, <5>3, <5>4, <5>5, <5>7, <5>8 DEF ShardOK, Finished, rq
      <4>4. \E x, y \in Nat : /\ x <= y /\ PublishedUpTo(published', x, y)
                              /\ \A s \in Shard : Finished(shards'[s], x, y)
        BY <1>3, <4>2, <4>3
      <4>5. AlignInv'
        BY <1>6, <1>8, <4>4 DEF AlignInv, Boundary, ShardAligned
      <4> QED
        BY <4>3, <4>5
    <3> QED
      BY <1>1, <1>2, <3>1, <3>2 DEF AlignInv, Running
  <2>3. \A s \in Shard : shards'[s].late = shards[s].late
    BY <1>5, <2>1 DEF FinishQuery, RunningQuery
  <2>4. TypeInv'
    <3>1. shards' \in [Shard -> RunningQuery(Id)]
      BY <1>8, <2>1, <2>2 DEF ShardOK
    <3> QED
      BY <1>1, <1>3, <1>4, <2>2, <3>1 DEF TypeInv
  <2>5. BatchInv'
    BY <1>1, <1>2, <1>3, <1>4, <1>8 DEF BatchInv
  <2>6. OrderInv'
    BY <1>2, <1>8, <2>2, <2>3, OrderKept
  <2>7. HeldInv'
    <3> SUFFICES ASSUME NEW id \in 1 .. Taken
                 PROVE  \/ InSome(published, id)
                        \/ \E s \in Shard : Closed(shards'[s], id)
      BY <1>3, <1>4, <1>8 DEF HeldInv
    <3>1. Whole /\ \A s \in Shard : todo[s] = <<>>
      BY <1>1, <1>2 DEF Whole, BatchInv
    <3>2. InSome(published, id) \/ \E s \in Shard : Kept(shards[s], <<>>, id)
      BY <1>1, <1>2, <3>1 DEF HeldInv
    <3>3. ASSUME NEW s \in Shard, Kept(shards[s], <<>>, id)
          PROVE  Closed(shards'[s], id)
      <4>1. Holds(shards[s], id)
        BY <3>3, EmptySeq DEF Kept, Waits
      <4>2. /\ FinishQuery(shards[s]).late = shards[s].late
            /\ id \in shards[s].late \/ InSome(FinishQuery(shards[s]).emitted, id)
        BY <1>5, <4>1, FinishHolds
      <4> QED
        BY <2>1, <4>2 DEF Closed
    <3> QED
      BY <3>2, <3>3
  <2> QED
    BY <2>4, <2>2, <2>5, <2>6, <2>7 DEF Inv
<1> QED
  BY <1>2, <1>7, <1>8

(* engine_loop: the trailing windows are published. *)
LEMMA PublishFinalKeeps ==
  ASSUME Inv, PublishFinal
  PROVE  Inv'
<1>1. TypeInv /\ BatchInv /\ AlignInv /\ OrderInv /\ HeldInv
  BY DEF Inv
<1>2. /\ at = "final" /\ at' = "done" /\ TakeEstimates
      /\ UNCHANGED <<config, source, todo, stage, span, nextShard, counted>>
  BY DEF PublishFinal
<1>3. /\ config' = config /\ channel' = channel /\ srcOpen' = srcOpen /\ log' = log
      /\ todo' = todo /\ stage' = stage /\ span' = span /\ nextShard' = nextShard
      /\ counted' = counted
  BY <1>2 DEF source
<1>4. Id' = Id /\ Taken' = Taken
  BY <1>3 DEF Id, Taken
<1>5. \E f, b, m \in Nat : AllSpan(f, b, m) /\ PublishedUpTo(published, f, b)
  <2>1. CASE Untouched
    <3>1. AllSpan(0, 0, 0) /\ PublishedUpTo(published, 0, 0)
      BY <2>1, EmptySeq DEF Untouched, IsEmpty, AllSpan, Spans, PublishedUpTo
    <3> QED
      BY <3>1
  <2>2. CASE \E f, b \in Nat : Boundary(f, b)
    <3>1. PICK f \in Nat, b \in Nat : Boundary(f, b)
      BY <2>2
    <3>2. AllSpan(f, b, 1) /\ PublishedUpTo(published, f, b)
      BY <1>2, <3>1 DEF Boundary, ShardAligned, Finished, AllSpan
    <3> QED
      BY <3>2
  <2> QED
    BY <1>1, <1>2, <2>1, <2>2 DEF AlignInv, Running
<1>6. PICK f \in Nat, b \in Nat, m \in Nat : AllSpan(f, b, m) /\ PublishedUpTo(published, f, b)
  BY <1>5
<1>7. /\ published' \in Seq(WindowState(Id)) /\ InOrder(published')
      /\ \A id : InSome(published, id) => InSome(published', id)
      /\ \A s \in Shard : \A id : InSome(shards[s].emitted, id) => InSome(published', id)
      /\ shards' \in [Shard -> RunningQuery(Id)]
      /\ \A s \in Shard :
           /\ ShardOK(shards'[s], Id)
           /\ shards'[s].buckets = shards[s].buckets /\ shards'[s].late = shards[s].late
  BY <1>2, <1>4, <1>6, EstimatesTaken
<1>8. TypeInv'
  BY <1>1, <1>3, <1>4, <1>7 DEF TypeInv
<1>9. BatchInv'
  BY <1>1, <1>2, <1>3, <1>4 DEF BatchInv
<1>10. AlignInv'
  BY <1>2, <1>7 DEF AlignInv, Running
<1>11. OrderInv'
  BY <1>2, <1>7, OrderKept
<1>12. HeldInv'
  <2> SUFFICES ASSUME NEW id \in 1 .. Taken
               PROVE  InSome(published', id) \/ \E s \in Shard : id \in shards'[s].late
    BY <1>2, <1>4 DEF HeldInv
  <2>1. Whole
    BY <1>1, <1>2 DEF Whole, BatchInv
  <2>2. InSome(published, id) \/ \E s \in Shard : Closed(shards[s], id)
    BY <1>1, <1>2, <2>1 DEF HeldInv
  <2> QED
    BY <1>7, <2>2 DEF Closed
<1> QED
  BY <1>8, <1>9, <1>10, <1>11, <1>12 DEF Inv

(* Every step keeps the invariant. *)
LEMMA NextKeeps ==
  ASSUME Inv, [Next]_vars
  PROVE  Inv'
<1>1. ASSUME NEW flow \in Shard, NEW ts \in Ts, Send(flow, ts) PROVE Inv'
  BY <1>1, SourceSteps, SourceKeeps
<1>2. CASE DropEvent
  BY <1>2, SourceSteps, SourceKeeps
<1>3. CASE CloseSource
  BY <1>3, SourceSteps, SourceKeeps
<1>4. CASE EngineLoop
  BY <1>4, TakeBatchKeeps, EndKeeps, PublishKeeps, FinishKeeps, PublishFinalKeeps DEF EngineLoop
<1>5. ASSUME NEW s \in Shard, ShardThread(s) PROVE Inv'
  BY <1>5, SeedKeeps, ProcessKeeps, MarkKeeps DEF ShardThread
<1>6. CASE Terminated
  BY <1>6, SourceSteps, SourceKeeps DEF Terminated
<1>7. CASE UNCHANGED vars
  BY <1>7, SourceSteps, SourceKeeps
<1> QED
  BY <1>1, <1>2, <1>3, <1>4, <1>5, <1>6, <1>7 DEF Next

-------------------------------------------------------------------------------
(* The inductive invariant of the shared runtime: every interleaving of    *)
(* the capture threads, engine_loop and the pool's threads keeps the       *)
(* shards' rings on one account and every taken event somewhere.           *)
THEOREM SharedInvariant == Spec => []Inv
<1>1. Init => Inv
  BY InitInv
<1>2. Inv /\ [Next]_vars => Inv'
  BY NextKeeps
<1> QED
  BY <1>1, <1>2, PTL DEF Spec

(* The invariant aligns the shards before a publication. *)
LEMMA InvAligned == Inv => ShardsAligned
<1> SUFFICES ASSUME Inv, at \in {"publish", "final"}, NEW s \in Shard, NEW t \in Shard
             PROVE  /\ SameBounds(shards[s].emitted, shards[t].emitted)
                    /\ shards[s].buckets # <<>> =>
                         /\ shards[t].buckets # <<>>
                         /\ Bounds(CurrentWindow(shards[s])) = Bounds(CurrentWindow(shards[t]))
  BY DEF ShardsAligned
<1> DEFINE rs == shards[s]
           rt == shards[t]
<1>1. CASE Untouched
  <2>1. /\ rs.buckets = <<>> /\ rs.emitted = <<>>
        /\ rt.buckets = <<>> /\ rt.emitted = <<>>
    BY <1>1 DEF Untouched, IsEmpty
  <2> QED
    BY <2>1, EmptySeq DEF SameBounds
<1>2. CASE \E f, b \in Nat : Boundary(f, b)
  <2>1. PICK f \in Nat, b \in Nat : Boundary(f, b)
    BY <1>2
  <2>2. /\ Spans(rs.emitted, Ring, f, b) /\ Spans(rt.emitted, Ring, f, b)
        /\ Len(rs.emitted) = Len(rt.emitted)
        /\ rs.buckets # <<>> /\ rt.buckets # <<>>
        /\ FrontStart(rs) = FrontStart(rt) /\ BackStart(rs) = BackStart(rt)
    BY <2>1 DEF Boundary, ShardAligned, Marked, Finished, OnTrack, Tracks
  <2>3. SameBounds(rs.emitted, rt.emitted)
    BY <2>2, SpansSame
  <2>4. Bounds(CurrentWindow(rs)) = Bounds(CurrentWindow(rt))
    <3> HIDE DEF rs, rt
    <3>1. \A rq : Bounds(CurrentWindow(rq)) = <<FrontStart(rq), BackStart(rq) + 1>>
      BY DEF Bounds, CurrentWindow, MergedWindow, FrontStart
    <3> QED
      BY <2>2, <3>1
  <2> QED
    BY <2>2, <2>3, <2>4
<1> QED
  BY <1>1, <1>2 DEF Inv, AlignInv, Running

(* Before every publication the shards have completed the same windows and *)
(* have the same one open: the merge in take_estimates (which joins states *)
(* of equal bounds) never publishes a window of only some shards.          *)
THEOREM ShardsStayAligned == Spec => []ShardsAligned
BY SharedInvariant, InvAligned, PTL

(* The invariant says of an ordered source that nothing is late. *)
LEMMA InvNeverLate == Inv => InOrderNeverLate
BY DEF Inv, OrderInv, ShardOrder, InTime, InOrderNeverLate, Id

(* A source in time order never has a late event, however the batches are  *)
(* cut and dealt: the watermark that moves a shard without events is never *)
(* ahead of what the shard still has to process.                           *)
THEOREM OrderedSourceNeverLate == Spec => []InOrderNeverLate
BY SharedInvariant, InvNeverLate, PTL

(* The invariant accounts for every event at the end. *)
LEMMA InvNothingLost == Inv => NothingLost
<1> SUFFICES ASSUME Inv PROVE NothingLost
  OBVIOUS
<1>1. InOrder(published)
  BY DEF Inv, AlignInv
<1>2. ASSUME at = "done"
      PROVE  /\ counted = Len(log)
             /\ \A id \in Id :
                  \/ \E s \in Shard : id \in shards[s].late
                  \/ \E i \in 1 .. Len(published) : id \in published[i].ids
  <2>1. /\ channel = <<>> /\ counted + 0 = Taken /\ counted \in Nat
        /\ \A s \in Shard : stage[s] = "idle"
    BY <1>2 DEF Inv, TypeInv, BatchInv
  <2>2. Len(log) \in Nat
    BY LogFacts DEF Inv
  <2>3. Taken = Len(log) /\ counted = Len(log)
    BY <2>1, <2>2, EmptySeq DEF Taken
  <2>4. Whole
    BY <1>2, <2>1 DEF Whole
  <2>5. \A id \in Id : InSome(published, id) \/ \E s \in Shard : id \in shards[s].late
    BY <1>2, <2>3, <2>4 DEF Inv, HeldInv, Id
  <2> QED
    BY <2>3, <2>5 DEF InSome
<1> QED
  BY <1>1, <1>2 DEF NothingLost

(* When engine_loop ends well, every event the channel accepted has been   *)
(* counted and is late or in a published window, and the windows were      *)
(* published once and in time order.                                       *)
THEOREM SharedLosesNothing == Spec => []NothingLost
BY SharedInvariant, InvNothingLost, PTL
===============================================================================
