------------------------------ MODULE WindowRing ------------------------------
(***************************************************************************)
(* RunningQuery of flowsketch-runtime: one planned query, its ring of open *)
(* tumbling buckets and the completed windows waiting for a consumer.      *)
(*                                                                         *)
(* Times are counted in slides of the query: bucket b covers the timestamps*)
(* ts with ts \div slide = b, and its start_nanos is b * slide.            *)
(*                                                                         *)
(* A sketch state is represented by the set of events it has absorbed, so  *)
(* merge_from is union and a window says exactly which events it counts.   *)
(*                                                                         *)
(* A running query is a record                                             *)
(*   buckets : sequence of [start, ids], the VecDeque of open buckets      *)
(*   emitted : sequence of [start, end, ids], completed windows not drained*)
(*   late    : the events counted by late_events                           *)
(***************************************************************************)
EXTENDS Naturals, Sequences

Larger(a, b)  == IF a >= b THEN a ELSE b
Smaller(a, b) == IF a <= b THEN a ELSE b

(* The state types, for sketches that absorbed events of I only. *)
Bucket(I)       == [start : Nat, ids : SUBSET I]
WindowState(I)  == [start : Nat, end : Nat, ids : SUBSET I]
RunningQuery(I) ==
  [buckets : Seq(Bucket(I)), emitted : Seq(WindowState(I)), late : SUBSET I]

(* The buckets are consecutive slides, at most `ring' of them. *)
Consecutive(buckets) ==
  \A j \in 1 .. Len(buckets) : buckets[j].start = buckets[1].start + (j - 1)

RingOK(buckets, ring) == Len(buckets) <= ring /\ Consecutive(buckets)

(* Windows in time order: ends strictly increase, starts never go back.    *)
InOrder(ws) ==
  \A i, j \in 1 .. Len(ws) :
    i < j => ws[i].end < ws[j].end /\ ws[i].start <= ws[j].start

NewQuery == [buckets |-> <<>>, emitted |-> <<>>, late |-> {}]

NewBucket(start) == [start |-> start, ids |-> {}]

BucketStartFor(slide, ts) == ts \div slide

FrontStart(rq) == rq.buckets[1].start

BackStart(rq) == rq.buckets[Len(rq.buckets)].start

(* Mutant: the fast-forward over a gap is not capped at the ring.          *)
MutantClosedUncapped(rq, ring, target) ==
  IF rq.buckets = <<>> \/ target <= BackStart(rq)
    THEN 0
    ELSE target - BackStart(rq)

(***************************************************************************)
(* How many windows moving to `target' closes: one per slide, but never    *)
(* more than the ring holds, because a larger gap closes the decaying      *)
(* trailing windows and skips the empty middle.                            *)
(***************************************************************************)
WindowsClosedByAdvance(rq, ring, target) ==
  IF rq.buckets = <<>> \/ target <= BackStart(rq)
    THEN 0
    ELSE Smaller(target - BackStart(rq), ring)

(* Mutant: the capacity test forgets the windows about to be added.        *)
MutantCanEmitNow(rq, capacity, additional) == Len(rq.emitted) < capacity

CanEmit(rq, capacity, additional) == Len(rq.emitted) + additional <= capacity

CanAdvance(rq, ring, capacity, target) ==
  CanEmit(rq, capacity, WindowsClosedByAdvance(rq, ring, target))

(* The ring after k empty buckets were pushed behind it, nothing trimmed.  *)
Pushed(buckets, k) ==
  LET n == Len(buckets)
  IN  [j \in 1 .. n + k |->
         IF j <= n THEN buckets[j] ELSE NewBucket(buckets[n].start + (j - n))]

(* The last `ring' buckets: what popping the front while the ring is too   *)
(* long leaves.                                                            *)
Trimmed(buckets, ring) ==
  SubSeq(buckets, Larger(1, Len(buckets) + 1 - ring), Len(buckets))

(* The merge of all open buckets, as the window that ends at `end'.        *)
MergedWindow(buckets, end) ==
  [start |-> buckets[1].start,
   end   |-> end,
   ids   |-> UNION {buckets[j].ids : j \in 1 .. Len(buckets)}]

(* Mutant: every slide merges the ring as it was before the first push.    *)
MutantFlushedStale(buckets, ring, k) ==
  [i \in 1 .. k |-> MergedWindow(buckets, buckets[Len(buckets)].start + i)]

(* The windows flushed by the first k slides after the ring's back bucket: *)
(* slide i merges the ring as it was after i - 1 pushes and trims.         *)
FlushedWindows(buckets, ring, k) ==
  [i \in 1 .. k |->
     MergedWindow(Trimmed(Pushed(buckets, i - 1), ring),
                  buckets[Len(buckets)].start + i)]

(* Mutant: after a gap only the target bucket is reopened.                 *)
MutantRebuildTarget(ring, target) == << NewBucket(target) >>

(* The full (empty) trailing ring that ends at the target bucket.          *)
RebuildTrailingRing(ring, target) ==
  LET first == target - Smaller(ring - 1, target)
  IN  [j \in 1 .. target - first + 1 |-> NewBucket(first + (j - 1))]

(* The ring after an advance to a target ahead of it. *)
MovedRing(buckets, ring, back, target) ==
  IF target - back > ring
    THEN RebuildTrailingRing(ring, target)
    ELSE Trimmed(Pushed(buckets, target - back), ring)

(* Mutant: a jump over the whole ring drops it without flushing.           *)
MutantAdvanceNoFlush(rq, ring, target) ==
  LET k == IF rq.buckets # <<>> /\ target > BackStart(rq) + ring
             THEN 0 ELSE WindowsClosedByAdvance(rq, ring, target)
  IN  IF rq.buckets = <<>>
        THEN [rq EXCEPT !.buckets = << NewBucket(target) >>]
        ELSE IF target <= BackStart(rq)
        THEN rq
        ELSE [rq EXCEPT
                !.emitted = @ \o FlushedWindows(rq.buckets, ring, k),
                !.buckets = MovedRing(@, ring, BackStart(rq), target)]

(***************************************************************************)
(* advance_to_bucket once its capacity check has passed: seed an empty     *)
(* ring, stay if the target is not ahead, otherwise flush one window per   *)
(* slide and move the ring; a jump over the whole ring rebuilds it.        *)
(***************************************************************************)
AdvanceToBucket(rq, ring, target) ==
  LET k == WindowsClosedByAdvance(rq, ring, target)
  IN  IF rq.buckets = <<>>
        THEN [rq EXCEPT !.buckets = << NewBucket(target) >>]
        ELSE IF target <= BackStart(rq)
        THEN rq
        ELSE [rq EXCEPT
                !.emitted = @ \o FlushedWindows(rq.buckets, ring, k),
                !.buckets = MovedRing(@, ring, BackStart(rq), target)]

(***************************************************************************)
(* process for an event that passes the filter: move the ring to the       *)
(* event's bucket, then put it into the bucket of its own slide, or count  *)
(* it late when that bucket is no longer (or never was) open.              *)
(***************************************************************************)
ProcessMatching(rq, ring, bucket, id) ==
  LET moved == AdvanceToBucket(rq, ring, bucket)
      open  == {j \in 1 .. Len(moved.buckets) : moved.buckets[j].start = bucket}
  IN  IF open = {}
        THEN [moved EXCEPT !.late = @ \cup {id}]
        ELSE [moved EXCEPT !.buckets =
                [j \in 1 .. Len(moved.buckets) |->
                   IF j \in open
                     THEN [moved.buckets[j] EXCEPT !.ids = @ \cup {id}]
                     ELSE moved.buckets[j]]]

(* finish: close the trailing partial window; the ring itself stays.       *)
FinishQuery(rq) ==
  IF rq.buckets = <<>>
    THEN rq
    ELSE [rq EXCEPT !.emitted =
            Append(@, MergedWindow(rq.buckets, BackStart(rq) + 1))]

(* The window covering all currently open buckets, as a snapshot exports it*)
CurrentWindow(rq) == MergedWindow(rq.buckets, BackStart(rq) + 1)
===============================================================================
