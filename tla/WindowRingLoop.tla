---------------------------- MODULE WindowRingLoop ----------------------------
(***************************************************************************)
(* advance_to_bucket, rebuild_trailing_ring and process as the loops the   *)
(* code runs, one iteration per slide, next to the closed forms of         *)
(* WindowRing, which have no recursion and can be proved about.            *)
(***************************************************************************)
EXTENDS WindowRing

(* while len > bucket_count { pop_front } *)
RECURSIVE PopFront(_, _)
PopFront(buckets, r) ==
  IF Len(buckets) > r THEN PopFront(Tail(buckets), r) ELSE buckets

(* for b in buckets.skip(1) { merged.merge_from(b) } *)
RECURSIVE MergeAll(_)
MergeAll(buckets) ==
  IF buckets = <<>> THEN {} ELSE Head(buckets).ids \cup MergeAll(Tail(buckets))

FlushWindow(rq, end) ==
  [rq EXCEPT !.emitted =
     Append(@, [start |-> Head(rq.buckets).start, end |-> end,
                ids |-> MergeAll(rq.buckets)])]

(* One turn of either loop of advance_to_bucket: flush, push, pop. *)
SlideOnce(rq, r) ==
  LET next == BackStart(rq) + 1
  IN  [FlushWindow(rq, next) EXCEPT
         !.buckets = PopFront(Append(@, NewBucket(next)), r)]

RECURSIVE SlideTimes(_, _, _)
SlideTimes(rq, r, n) ==
  IF n = 0 THEN rq ELSE SlideTimes(SlideOnce(rq, r), r, n - 1)

RECURSIVE SlideUntil(_, _, _)
SlideUntil(rq, r, target) ==
  IF BackStart(rq) < target THEN SlideUntil(SlideOnce(rq, r), r, target) ELSE rq

RECURSIVE PushFrom(_, _)
PushFrom(start, target) ==
  << NewBucket(start) >> \o
    (IF start = target THEN <<>> ELSE PushFrom(start + 1, target))

LoopAdvance(rq, r, target) ==
  CASE rq.buckets = <<>> -> [rq EXCEPT !.buckets = << NewBucket(target) >>]
    [] rq.buckets # <<>> /\ target > BackStart(rq) /\ target - BackStart(rq) > r ->
         [SlideTimes(rq, r, r) EXCEPT
            !.buckets = PushFrom(target - Smaller(r - 1, target), target)]
    [] OTHER -> SlideUntil(rq, r, target)

LoopProcess(rq, r, bucket, id) ==
  LET moved == IF rq.buckets # <<>> /\ BackStart(rq) = bucket
                 THEN rq ELSE LoopAdvance(rq, r, bucket)
      at    == {j \in 1 .. Len(moved.buckets) : moved.buckets[j].start = bucket}
  IN  IF at = {} THEN [moved EXCEPT !.late = @ \cup {id}]
      ELSE [moved EXCEPT !.buckets[CHOOSE j \in at : TRUE].ids = @ \cup {id}]
===============================================================================
