-------------------------- MODULE WindowMergeProofs ---------------------------
(***************************************************************************)
(* Why engines that are fed independently and advanced to a common bucket  *)
(* complete the same windows: between two drains of its pending windows, a *)
(* query that may keep no more of them than its ring has buckets either    *)
(* slides or jumps once, so where it is says what it has completed.        *)
(***************************************************************************)
EXTENDS WindowMerge, WindowRingProofs, FiniteSetTheorems, WellFoundedInduction, Integers

(* The i-th window ends i slides after slide b and starts `ring' slides    *)
(* before its end, but not before f.                                       *)
Spans(ws, ring, f, b) ==
  \A i \in 1 .. Len(ws) :
    ws[i].end = b + i /\ ws[i].start = Larger(f, (b + i) - ring)

(* A query that was drained when its ring went from f to b. *)
Tracks(rq, ring, f, b) ==
  /\ rq.buckets # <<>> /\ b <= BackStart(rq)
  /\ FrontStart(rq) = Larger(f, (BackStart(rq) + 1) - ring)
  /\ Len(rq.emitted) = Smaller(BackStart(rq) - b, ring)
  /\ Spans(rq.emitted, ring, f, b)

(* The ends of a typed ring are naturals in order. *)
LEMMA RingEnds ==
  ASSUME NEW I, NEW rq \in RunningQuery(I), NEW ring \in Nat \ {0},
         RingOK(rq.buckets, ring), rq.buckets # <<>>
  PROVE  /\ FrontStart(rq) \in Nat /\ BackStart(rq) \in Nat
         /\ FrontStart(rq) <= BackStart(rq)
         /\ (BackStart(rq) + 1) - ring <= FrontStart(rq)
<1> DEFINE bs == rq.buckets
           n  == Len(bs)
<1>1. bs \in Seq(Bucket(I))
  BY DEF RunningQuery
<1>2. /\ n \in Nat /\ n >= 1 /\ n <= ring
      /\ bs[1].start \in Nat /\ bs[n].start \in Nat
      /\ bs[n].start = bs[1].start + (n - 1)
  BY <1>1, EndsLemma
<1> HIDE DEF n
<1> QED
  BY <1>2 DEF FrontStart, BackStart, n

(* A fresh query is seeded by its first advance. *)
LEMMA SeedTracks ==
  ASSUME NEW I, NEW rq \in RunningQuery(I), rq.buckets = <<>>, rq.emitted = <<>>,
         NEW ring \in Nat \ {0}, NEW target \in Nat
  PROVE  LET moved == AdvanceToBucket(rq, ring, target)
         IN  Tracks(moved, ring, target, target) /\ BackStart(moved) = target
<1> DEFINE nb    == NewBucket(target)
           moved == AdvanceToBucket(rq, ring, target)
<1>2. moved = [rq EXCEPT !.buckets = << nb >>]
  BY DEF AdvanceToBucket
<1>3. nb.start = target
  BY DEF NewBucket
<1> HIDE DEF nb
<1>4. moved.buckets = << nb >> /\ moved.emitted = <<>>
  BY <1>2 DEF RunningQuery
<1>5. Len(<< nb >>) = 1 /\ << nb >>[1] = nb /\ << nb >> # <<>>
  OBVIOUS
<1> HIDE DEF moved
<1>6. BackStart(moved) = target /\ FrontStart(moved) = target
  BY <1>3, <1>4, <1>5 DEF BackStart, FrontStart
<1>7. Len(moved.emitted) = 0 /\ Smaller(target - target, ring) = 0
      /\ Larger(target, (target + 1) - ring) = target
  BY <1>4 DEF Smaller, Larger
<1> QED
  BY <1>4, <1>5, <1>6, <1>7 DEF Tracks, Spans, moved

(* An advance that the capacity allows keeps the account. *)
LEMMA AdvanceTracks ==
  ASSUME NEW I, NEW rq \in RunningQuery(I), NEW ring \in Nat \ {0},
         RingOK(rq.buckets, ring), NEW f \in Nat, NEW b \in Nat, f <= b,
         Tracks(rq, ring, f, b), NEW target \in Nat,
         CanAdvance(rq, ring, ring, target)
  PROVE  LET moved == AdvanceToBucket(rq, ring, target)
         IN  /\ Tracks(moved, ring, f, b)
             /\ BackStart(moved) = Larger(BackStart(rq), target)
<1> DEFINE moved == AdvanceToBucket(rq, ring, target)
           k  == WindowsClosedByAdvance(rq, ring, target)
           bs == rq.buckets
           fl == FlushedWindows(bs, ring, k)
           c  == BackStart(rq)
           fr == FrontStart(rq)
           e  == rq.emitted
<1>1. bs \in Seq(Bucket(I)) /\ e \in Seq(WindowState(I)) /\ bs # <<>>
  BY DEF RunningQuery, Tracks
<1>2. c \in Nat /\ fr \in Nat
  BY <1>1, RingEnds
<1>3. /\ moved.buckets # <<>>
      /\ moved.emitted = e \o fl
      /\ BackStart(moved) = Larger(c, target)
      /\ FrontStart(moved) = Larger(fr, target + 1 - ring)
  <2>1. /\ moved \in RunningQuery(I)
        /\ moved.buckets # <<>> /\ RingOK(moved.buckets, ring)
        /\ moved.late = rq.late
        /\ rq.buckets = <<>> =>
             moved.emitted = rq.emitted /\ BackStart(moved) = target
        /\ rq.buckets # <<>> =>
             /\ moved.emitted = rq.emitted \o FlushedWindows(rq.buckets, ring, k)
             /\ BackStart(moved) = Larger(BackStart(rq), target)
             /\ FrontStart(moved) = Larger(FrontStart(rq), target + 1 - ring)
    BY AdvanceLemma, ZenonT(60)
  <2> QED
    BY <1>1, <2>1, Zenon
<1>4. k \in Nat /\ k <= ring
  BY ClosedBounded
<1>5. /\ fl \in Seq(WindowState(I)) /\ Len(fl) = k
      /\ \A i \in 1 .. k : /\ fl[i].end = c + i
                           /\ fl[i].start = Larger(fr, c + i - ring)
  <2> HIDE DEF k
  <2> DEFINE ws   == FlushedWindows(bs, ring, k)
             back == bs[Len(bs)].start
  <2> HIDE DEF bs
  <2>1. /\ ws \in Seq(WindowState(I))
        /\ Len(ws) = k
        /\ \A i \in 1 .. k :
             /\ ws[i].end = back + i
             /\ ws[i].start = Larger(bs[1].start, back + i - ring)
    <3>1. RingOK(bs, ring)
      BY DEF bs
    <3> QED
      BY <1>1, <1>4, <3>1, FlushedLemma, ZenonT(60)
  <2>2. back = c /\ bs[1].start = fr
    BY Zenon DEF BackStart, FrontStart, bs
  <2> QED
    BY <2>1, <2>2, Zenon
<1>6. k = IF target <= c THEN 0 ELSE Smaller(target - c, ring)
  BY <1>1 DEF WindowsClosedByAdvance
<1>7. Len(e) \in Nat /\ Len(e) + k <= ring
  BY <1>1, LenProperties DEF CanAdvance, CanEmit
<1>8. /\ b <= c /\ fr = Larger(f, (c + 1) - ring)
      /\ Len(e) = Smaller(c - b, ring) /\ Spans(e, ring, f, b)
  BY DEF Tracks
<1> DEFINE m == e \o fl
           L == Len(e)
<1>9. /\ m \in Seq(WindowState(I)) /\ Len(m) = L + k
      /\ \A i \in 1 .. L : m[i] = e[i]
      /\ \A i \in 1 .. k : m[L + i] = fl[i]
  <2>1. /\ Len(m) = L + k
        /\ \A i \in 1 .. L + k : m[i] = IF i <= L THEN e[i] ELSE fl[i - L]
    <3> HIDE DEF e, fl
    <3>1. /\ Len(m) = Len(e) + Len(fl)
          /\ \A i \in 1 .. Len(e) + Len(fl) :
               m[i] = IF i <= Len(e) THEN e[i] ELSE fl[i - Len(e)]
      BY <1>1, <1>5, ConcatProperties
    <3> QED
      BY <1>5, <3>1
  <2>2. m \in Seq(WindowState(I))
    BY <1>1, <1>5, ConcatProperties
  <2>3. \A i \in 1 .. k : L + i \in 1 .. L + k /\ ~(L + i <= L) /\ (L + i) - L = i
    BY <1>4, <1>7
  <2>4. \A i \in 1 .. L : i \in 1 .. L + k /\ i <= L
    BY <1>4, <1>7
  <2> HIDE DEF m, L, fl, e
  <2> QED
    BY <2>1, <2>2, <2>3, <2>4
<1> DEFINE nc == Larger(c, target)
<1> HIDE DEF moved, k, fl, c, fr, e, m, L, bs
<1>10. k > 0 => L = c - b /\ target > c
  BY <1>2, <1>4, <1>6, <1>7, <1>8 DEF Smaller, L
<1>11. L + k = Smaller(nc - b, ring)
  <2>1. CASE target <= c
    BY <1>2, <1>6, <1>7, <1>8, <2>1 DEF Larger, L
  <2>2. CASE target > c
    <3>1. k > 0
      BY <1>2, <1>6, <2>2 DEF Smaller
    <3>2. L = c - b /\ k = Smaller(target - c, ring) /\ nc = target
      BY <1>2, <1>6, <1>10, <2>2, <3>1 DEF Larger
    <3>3. L + k <= ring
      BY <1>7 DEF L
    <3>4. CASE target - c <= ring
      BY <1>2, <1>8, <3>2, <3>3, <3>4 DEF Smaller
    <3>5. CASE ~(target - c <= ring)
      <4>1. k = ring
        BY <1>2, <3>2, <3>5 DEF Smaller
      <4>2. c = b
        BY <1>2, <1>8, <3>2, <3>3, <4>1
      <4> QED
        BY <1>2, <3>2, <3>5, <4>1, <4>2 DEF Smaller
    <3> QED
      BY <3>4, <3>5
  <2> QED
    BY <1>2, <2>1, <2>2
<1>12. Spans(m, ring, f, b)
  <2>1. ASSUME NEW i \in 1 .. L + k
        PROVE  m[i].end = b + i /\ m[i].start = Larger(f, (b + i) - ring)
    <3>1. CASE i <= L
      <4>1. i \in 1 .. L
        BY <1>4, <1>7, <3>1 DEF L
      <4> QED
        BY <1>8, <1>9, <4>1 DEF Spans, L
    <3>2. CASE ~(i <= L)
      <4> DEFINE j == i - L
      <4>1. j \in 1 .. k /\ L + j = i /\ k > 0
        BY <1>4, <1>7, <3>2 DEF L
      <4>2. m[i] = fl[j]
        BY <1>9, <4>1
      <4>3. c + j = b + i
        BY <1>2, <1>10, <4>1
      <4>4. fl[j].end = b + i /\ fl[j].start = Larger(fr, (b + i) - ring)
        <5>1. c + j - ring = (b + i) - ring
          BY <1>2, <4>1, <4>3
        <5> QED
          BY <1>5, <4>1, <4>3, <5>1
      <4>5. Larger(fr, (b + i) - ring) = Larger(f, (b + i) - ring)
        <5>1. (c + 1) - ring <= (b + i) - ring
          BY <1>2, <4>1, <4>3
        <5> QED
          BY <1>2, <1>8, <5>1 DEF Larger
      <4> QED
        BY <4>2, <4>4, <4>5
    <3> QED
      BY <3>1, <3>2
  <2> QED
    BY <1>9, <2>1 DEF Spans
<1>13. Larger(fr, target + 1 - ring) = Larger(f, (nc + 1) - ring)
  <2>1. CASE target <= c
    BY <1>2, <1>8, <2>1 DEF Larger
  <2>2. CASE target > c
    BY <1>2, <1>8, <2>2 DEF Larger
  <2> QED
    BY <1>2, <2>1, <2>2
<1>14. b <= nc
  BY <1>2, <1>8 DEF Larger
<1> QED
  BY <1>3, <1>9, <1>11, <1>12, <1>13, <1>14 DEF Tracks, moved, m, e, fl, c, fr, L

(* A typed query with a consecutive ring that keeps the account. *)
OnTrack(rq, I, ring, f, b) ==
  /\ rq \in RunningQuery(I) /\ RingOK(rq.buckets, ring)
  /\ f \in Nat /\ b \in Nat /\ f <= b
  /\ Tracks(rq, ring, f, b)

(* advance_to_bucket keeps a query on track. *)
LEMMA AdvanceOnTrack ==
  ASSUME NEW I, NEW rq, NEW ring \in Nat \ {0}, NEW f, NEW b,
         OnTrack(rq, I, ring, f, b), NEW target \in Nat,
         CanAdvance(rq, ring, ring, target)
  PROVE  /\ OnTrack(AdvanceToBucket(rq, ring, target), I, ring, f, b)
         /\ BackStart(AdvanceToBucket(rq, ring, target)) = Larger(BackStart(rq), target)
<1> DEFINE moved == AdvanceToBucket(rq, ring, target)
<1>1. /\ rq \in RunningQuery(I) /\ RingOK(rq.buckets, ring)
      /\ f \in Nat /\ b \in Nat /\ f <= b /\ Tracks(rq, ring, f, b)
  BY DEF OnTrack
<1>2. Tracks(moved, ring, f, b) /\ BackStart(moved) = Larger(BackStart(rq), target)
  BY <1>1, AdvanceTracks, Zenon
<1>3. moved \in RunningQuery(I) /\ RingOK(moved.buckets, ring)
  <2> DEFINE k == WindowsClosedByAdvance(rq, ring, target)
  <2>1. /\ moved \in RunningQuery(I)
        /\ moved.buckets # <<>> /\ RingOK(moved.buckets, ring)
        /\ moved.late = rq.late
        /\ rq.buckets = <<>> =>
             moved.emitted = rq.emitted /\ BackStart(moved) = target
        /\ rq.buckets # <<>> =>
             /\ moved.emitted = rq.emitted \o FlushedWindows(rq.buckets, ring, k)
             /\ BackStart(moved) = Larger(BackStart(rq), target)
             /\ FrontStart(moved) = Larger(FrontStart(rq), target + 1 - ring)
    BY <1>1, AdvanceLemma, ZenonT(60)
  <2> QED
    BY <2>1
<1> HIDE DEF moved
<1> QED
  BY <1>1, <1>2, <1>3 DEF OnTrack, moved

(* process keeps a query on track. *)
LEMMA ProcessOnTrack ==
  ASSUME NEW I, NEW rq, NEW ring \in Nat \ {0}, NEW f, NEW b,
         OnTrack(rq, I, ring, f, b), NEW bucket \in Nat, NEW id \in I,
         CanAdvance(rq, ring, ring, bucket)
  PROVE  /\ OnTrack(ProcessMatching(rq, ring, bucket, id), I, ring, f, b)
         /\ BackStart(ProcessMatching(rq, ring, bucket, id)) = Larger(BackStart(rq), bucket)
<1> DEFINE moved == AdvanceToBucket(rq, ring, bucket)
           after == ProcessMatching(rq, ring, bucket, id)
<1>1. OnTrack(moved, I, ring, f, b) /\ BackStart(moved) = Larger(BackStart(rq), bucket)
  BY AdvanceOnTrack
<1>2. rq \in RunningQuery(I) /\ RingOK(rq.buckets, ring)
  BY DEF OnTrack
<1>3. /\ after \in RunningQuery(I)
      /\ after.emitted = moved.emitted
      /\ after.buckets # <<>> /\ RingOK(after.buckets, ring)
      /\ BackStart(after) = BackStart(moved)
      /\ FrontStart(after) = FrontStart(moved)
  BY <1>2, ProcessLemma
<1> HIDE DEF moved, after
<1>4. Tracks(after, ring, f, b)
  BY <1>1, <1>3 DEF OnTrack, Tracks
<1> QED
  BY <1>1, <1>3, <1>4 DEF OnTrack, after

(* Draining the completed windows starts a new account at the present ring.*)
LEMMA DrainOnTrack ==
  ASSUME NEW I, NEW rq, NEW ring \in Nat \ {0}, NEW f, NEW b,
         OnTrack(rq, I, ring, f, b), NEW e
  PROVE  LET d == [[rq EXCEPT !.emitted = e] EXCEPT !.emitted = <<>>]
         IN  /\ OnTrack(d, I, ring, FrontStart(rq), BackStart(rq))
             /\ FrontStart(d) = FrontStart(rq) /\ BackStart(d) = BackStart(rq)
             /\ d.late = rq.late /\ d.buckets = rq.buckets
<1> DEFINE d == [[rq EXCEPT !.emitted = e] EXCEPT !.emitted = <<>>]
<1>1. rq \in RunningQuery(I) /\ RingOK(rq.buckets, ring) /\ rq.buckets # <<>>
  BY DEF OnTrack, Tracks
<1>2. /\ d.buckets = rq.buckets /\ d.emitted = <<>> /\ d.late = rq.late
      /\ d \in RunningQuery(I)
  <2>1. <<>> \in Seq(WindowState(I))
    BY EmptySeq
  <2> QED
    BY <1>1, <2>1 DEF RunningQuery
<1> HIDE DEF d
<1>3. FrontStart(d) = FrontStart(rq) /\ BackStart(d) = BackStart(rq)
  BY <1>2 DEF FrontStart, BackStart
<1>4. /\ FrontStart(rq) \in Nat /\ BackStart(rq) \in Nat
      /\ FrontStart(rq) <= BackStart(rq)
      /\ (BackStart(rq) + 1) - ring <= FrontStart(rq)
  BY <1>1, RingEnds
<1>5. /\ Larger(FrontStart(rq), (BackStart(rq) + 1) - ring) = FrontStart(rq)
      /\ Smaller(BackStart(rq) - BackStart(rq), ring) = 0
      /\ BackStart(rq) <= BackStart(rq)
  BY <1>4 DEF Larger, Smaller
<1>6. Len(<<>>) = 0
  BY EmptySeq
<1>7. Spans(<<>>, ring, FrontStart(rq), BackStart(rq))
  BY <1>6 DEF Spans
<1>8. Tracks(d, ring, FrontStart(rq), BackStart(rq))
  BY <1>1, <1>2, <1>3, <1>5, <1>6, <1>7 DEF Tracks
<1> QED
  BY <1>1, <1>2, <1>3, <1>4, <1>8 DEF OnTrack, d

(* finish closes the trailing window, and the account still holds of what  *)
(* the query has completed.                                                *)
LEMMA FinishSpans ==
  ASSUME NEW I, NEW rq, NEW ring \in Nat \ {0}, NEW f, NEW b,
         OnTrack(rq, I, ring, f, b), CanEmit(rq, ring, 1)
  PROVE  /\ FinishQuery(rq).emitted \in Seq(WindowState(I))
         /\ Spans(FinishQuery(rq).emitted, ring, f, b)
         /\ Len(FinishQuery(rq).emitted) = (BackStart(rq) - b) + 1
         /\ \E w : FinishQuery(rq) = [rq EXCEPT !.emitted = w]
<1> DEFINE c == BackStart(rq)
           e == rq.emitted
           L == Len(e)
           w == MergedWindow(rq.buckets, c + 1)
<1>1. /\ rq \in RunningQuery(I) /\ RingOK(rq.buckets, ring) /\ rq.buckets # <<>>
      /\ f \in Nat /\ b \in Nat /\ f <= b /\ b <= c
      /\ FrontStart(rq) = Larger(f, (c + 1) - ring)
      /\ L = Smaller(c - b, ring) /\ Spans(e, ring, f, b)
  BY DEF OnTrack, Tracks
<1>2. c \in Nat
  BY <1>1, RingEnds
<1>3. e \in Seq(WindowState(I)) /\ rq.buckets \in Seq(Bucket(I)) /\ L \in Nat
  BY <1>1, LenProperties DEF RunningQuery
<1>4. FinishQuery(rq) = [rq EXCEPT !.emitted = Append(e, w)]
  BY <1>1 DEF FinishQuery
<1>5. w \in WindowState(I) /\ w.start = FrontStart(rq) /\ w.end = c + 1
  <2>1. c + 1 \in Nat
    BY <1>2
  <2>2. rq.buckets[1].start = FrontStart(rq)
    BY DEF FrontStart
  <2> HIDE DEF c
  <2> QED
    BY <1>1, <1>3, <2>1, <2>2, MergedLemma
<1>6. L + 1 <= ring
  BY DEF CanEmit
<1> HIDE DEF w, c, e, L
<1>7. L = c - b
  BY <1>1, <1>2, <1>3, <1>6 DEF Smaller
<1>8. /\ Append(e, w) \in Seq(WindowState(I)) /\ Len(Append(e, w)) = L + 1
      /\ \A i \in 1 .. L : Append(e, w)[i] = e[i]
      /\ Append(e, w)[L + 1] = w
  BY <1>3, <1>5, AppendProperties DEF L
<1>9. Spans(Append(e, w), ring, f, b)
  <2> DEFINE m == Append(e, w)
  <2>1. ASSUME NEW i \in 1 .. L + 1
        PROVE  m[i].end = b + i /\ m[i].start = Larger(f, (b + i) - ring)
    <3>1. CASE i \in 1 .. L
      BY <1>1, <1>8, <3>1 DEF Spans, L
    <3>2. CASE i = L + 1
      <4>1. c + 1 = b + i
        BY <1>1, <1>2, <1>7, <3>2
      <4>2. (c + 1) - ring = (b + i) - ring
        BY <4>1
      <4>3. m[i] = w
        BY <1>8, <3>2
      <4> HIDE DEF m
      <4> QED
        BY <1>1, <1>5, <4>1, <4>2, <4>3
    <3>3. i \in 1 .. L \/ i = L + 1
      BY <1>3
    <3> HIDE DEF m
    <3> QED
      BY <3>1, <3>2, <3>3
  <2> HIDE DEF m
  <2> QED
    BY <1>8, <2>1 DEF Spans, m
<1>10. FinishQuery(rq).emitted = Append(e, w)
  BY <1>1, <1>4 DEF RunningQuery
<1> QED
  BY <1>1, <1>2, <1>4, <1>7, <1>8, <1>9, <1>10 DEF c

(* Two accounts of as many windows have the same bounds. *)
LEMMA SpansSame ==
  ASSUME NEW vs, NEW ws, NEW ring, NEW f, NEW b,
         Spans(vs, ring, f, b), Spans(ws, ring, f, b), Len(vs) = Len(ws)
  PROVE  SameBounds(vs, ws)
BY DEF Spans, SameBounds, Bounds

(* The account does not depend on which events there are. *)
LEMMA OnTrackGrows ==
  ASSUME NEW I, NEW J, I \subseteq J, NEW rq, NEW ring, NEW f, NEW b,
         OnTrack(rq, I, ring, f, b)
  PROVE  OnTrack(rq, J, ring, f, b)
BY TypesGrow DEF OnTrack

(* A nonempty finite set of integers has a greatest element: the smallest  *)
(* subset without one would have one more element than a set that has one. *)
LEMMA GreatestInt ==
  ASSUME NEW S \in SUBSET Int, IsFiniteSet(S), S # {}
  PROVE  \E x \in S : \A y \in S : y <= x
<1> DEFINE T == {X \in SUBSET S : X # {} /\ ~ \E x \in X : \A y \in X : y <= x}
<1>1. SUFFICES ASSUME T # {} PROVE FALSE
  BY <1>1
<1>2. T \subseteq FiniteSubsetsOf(S)
  BY FS_Subset DEF FiniteSubsetsOf
<1>3. PICK X \in T : \A Y \in T : ~ (<<Y, X>> \in StrictSubsetOrdering(S))
  BY <1>1, <1>2, FS_StrictSubsetOrderingWellFounded, WFMin
<1>4. PICK x \in X : TRUE
  BY <1>3
<1> DEFINE Y == X \ {x}
<1>5. Y \notin T
  BY <1>3, <1>4 DEF StrictSubsetOrdering
<1>6. CASE Y = {}
  BY <1>3, <1>4, <1>6
<1>7. CASE Y # {}
  <2>1. PICK m \in Y : \A y \in Y : y <= m
    BY <1>3, <1>5, <1>7
  <2>2. m \in Int /\ x \in Int /\ X \subseteq Int /\ m \in X
    BY <1>3, <1>4, <2>1
  <2>3. CASE x <= m
    <3>1. \A y \in X : y <= m
      BY <2>1, <2>3
    <3> QED
      BY <1>3, <2>2, <3>1
  <2>4. CASE ~ (x <= m)
    <3>1. \A y \in X : y <= x
      BY <2>1, <2>2, <2>4
    <3> QED
      BY <1>3, <1>4, <3>1
  <2> QED
    BY <2>3, <2>4
<1> QED
  BY <1>6, <1>7

(* The windows of V end with the slides b + 1 .. b + m, each of them any   *)
(* number of times.                                                        *)
Cover(V, ring, f, b, m) ==
  /\ \A v \in V : \E i \in 1 .. m :
       v.end = b + i /\ v.start = Larger(f, (b + i) - ring)
  /\ \A i \in 1 .. m : \E v \in V : v.end = b + i

(* One window per slide, in time order, with all the events of V. *)
ReadOut(out, V, I, ring, f, b, m) ==
  /\ out \in Seq(WindowState(I)) /\ Len(out) = m /\ InOrder(out)
  /\ \A i \in 1 .. m : /\ b < out[i].end /\ out[i].end <= b + m
                       /\ out[i].start = Larger(f, out[i].end - ring)
  /\ \A v \in V : \E i \in 1 .. m : v.ids \subseteq out[i].ids

(* What is merged is read out in time order. *)
LEMMA MergeLemma ==
  ASSUME NEW I, NEW V \in SUBSET WindowState(I), NEW ring \in Nat \ {0},
         NEW f \in Nat, NEW b \in Nat, NEW m \in Nat, Cover(V, ring, f, b, m)
  PROVE  ReadOut(InKeyOrder(Merged(V)), V, I, ring, f, b, m)
<1> DEFINE Same(w) == {v \in V : Bounds(v) = Bounds(w)}
           Ids(w)  == UNION {v.ids : v \in Same(w)}
           Mw(w)   == [start |-> w.start, end |-> w.end, ids |-> Ids(w)]
           M       == Merged(V)
<1>0. /\ \A v \in V : \E i \in 1 .. m :
           v.end = b + i /\ v.start = Larger(f, (b + i) - ring)
      /\ \A i \in 1 .. m : \E v \in V : v.end = b + i
  BY DEF Cover
<1>1. M = {Mw(w) : w \in V}
  BY DEF Merged
<1>2. \A w \in V : /\ Mw(w).start = w.start /\ Mw(w).end = w.end /\ Mw(w).ids = Ids(w)
                   /\ Mw(w) \in WindowState(I)
  BY DEF WindowState
<1>3. \A w, v \in V : Bounds(v) = Bounds(w) => Mw(v) = Mw(w)
  BY DEF Bounds
<1>4. \A w \in V : w.ids \subseteq Ids(w)
  OBVIOUS
<1>5. \A v, w \in V : v.end = w.end => v.start = w.start /\ Bounds(v) = Bounds(w)
  BY <1>0 DEF WindowState, Bounds
<1> HIDE DEF Mw, Ids, Same, M
<1>6. /\ M \subseteq WindowState(I)
      /\ \A x \in M : \E i \in 1 .. m :
           x.end = b + i /\ x.start = Larger(f, (b + i) - ring)
      /\ \A i \in 1 .. m : \E x \in M : x.end = b + i
      /\ \A x, y \in M : x.end = y.end => x = y
      /\ \A v \in V : \E x \in M : x.end = v.end /\ v.ids \subseteq x.ids
  <2>1. M \subseteq WindowState(I)
    BY <1>1, <1>2
  <2>2. \A x \in M : \E i \in 1 .. m :
           x.end = b + i /\ x.start = Larger(f, (b + i) - ring)
    BY <1>0, <1>1, <1>2
  <2>3. \A i \in 1 .. m : \E x \in M : x.end = b + i
    BY <1>0, <1>1, <1>2
  <2>4. \A x, y \in M : x.end = y.end => x = y
    BY <1>1, <1>2, <1>3, <1>5
  <2>5. \A v \in V : \E x \in M : x.end = v.end /\ v.ids \subseteq x.ids
    BY <1>1, <1>2, <1>4
  <2> QED
    BY <2>1, <2>2, <2>3, <2>4, <2>5
<1>7. \A x, y \in M : x.end < y.end => x.start <= y.start
  BY <1>6 DEF Larger
<1>8. \A x, y \in M : Before(x, y) <=> x.end < y.end
  <2> SUFFICES ASSUME NEW x \in M, NEW y \in M
               PROVE  Before(x, y) <=> x.end < y.end
    OBVIOUS
  <2>1. x.end \in Nat /\ y.end \in Nat /\ x.start \in Nat /\ y.start \in Nat
    BY <1>6 DEF WindowState
  <2>2. x.end < y.end => x.start <= y.start
    BY <1>7
  <2>3. y.end < x.end => y.start <= x.start
    BY <1>7
  <2>4. x.end = y.end => x.start = y.start
    BY <1>6
  <2> QED
    BY <2>1, <2>2, <2>3, <2>4 DEF Before
<1> DEFINE g == [i \in 1 .. m |-> CHOOSE x \in M : x.end = b + i]
<1>9. \A i \in 1 .. m : g[i] \in M /\ g[i].end = b + i
  BY <1>6
<1> HIDE DEF g
<1>10. g \in Bijection(1 .. m, M)
  <2>1. g \in [1 .. m -> M]
    BY <1>9 DEF g
  <2>2. \A i, j \in 1 .. m : g[i] = g[j] => i = j
    <3> SUFFICES ASSUME NEW i \in 1 .. m, NEW j \in 1 .. m, g[i] = g[j] PROVE i = j
      OBVIOUS
    <3>1. b + i = b + j
      BY <1>9
    <3> QED
      BY <3>1
  <2>3. \A x \in M : \E i \in 1 .. m : g[i] = x
    BY <1>6, <1>9
  <2>4. g \in Injection(1 .. m, M)
    BY <2>1, <2>2 DEF Injection, IsInjective
  <2>5. g \in Surjection(1 .. m, M)
    BY <2>1, <2>3 DEF Surjection
  <2> QED
    BY <2>4, <2>5 DEF Bijection
<1>11. /\ IsFiniteSet(1 .. m) /\ Cardinality(1 .. m) = m
       /\ IsFiniteSet(M) /\ Cardinality(M) = m
  <2>1. IsFiniteSet(1 .. m) /\ Cardinality(1 .. m) = m
    BY FS_Interval
  <2>2. ExistsBijection(1 .. m, M)
    BY <1>10 DEF ExistsBijection
  <2> QED
    BY <2>1, <2>2, FS_Bijection
<1> DEFINE out == InKeyOrder(M)
<1>12. /\ out \in [1 .. m -> M]
       /\ \A i, j \in 1 .. m : i < j => Before(out[i], out[j])
  <2> DEFINE Sorted(ws) == \A i, j \in 1 .. m : i < j => Before(ws[i], ws[j])
  <2>1. g \in [1 .. m -> M]
    BY <1>9 DEF g
  <2>2. Sorted(g)
    <3> SUFFICES ASSUME NEW i \in 1 .. m, NEW j \in 1 .. m, i < j
                 PROVE  Before(g[i], g[j])
      OBVIOUS
    <3>1. b + i < b + j
      OBVIOUS
    <3> QED
      BY <1>8, <1>9, <3>1
  <2>3. out = CHOOSE ws \in [1 .. m -> M] : Sorted(ws)
    BY <1>11 DEF InKeyOrder
  <2> HIDE DEF Sorted, out
  <2>4. out \in [1 .. m -> M] /\ Sorted(out)
    BY <2>1, <2>2, <2>3
  <2> QED
    BY <2>4 DEF Sorted
<1> HIDE DEF out
<1>13. out \in [1 .. m -> WindowState(I)] /\ out \in Seq(WindowState(I)) /\ Len(out) = m
  <2>1. out \in [1 .. m -> WindowState(I)]
    BY <1>6, <1>12
  <2> QED
    BY <2>1, FunctionIsSeq
<1>14. InOrder(out)
  <2> SUFFICES ASSUME NEW i \in 1 .. m, NEW j \in 1 .. m, i < j
               PROVE  out[i].end < out[j].end /\ out[i].start <= out[j].start
    BY <1>13 DEF InOrder
  <2>1. out[i] \in M /\ out[j] \in M /\ Before(out[i], out[j])
    BY <1>12
  <2> QED
    BY <1>7, <1>8, <2>1
<1>15. \A i \in 1 .. m : /\ b < out[i].end /\ out[i].end <= b + m
                         /\ out[i].start = Larger(f, out[i].end - ring)
  <2> SUFFICES ASSUME NEW i \in 1 .. m
               PROVE  /\ b < out[i].end /\ out[i].end <= b + m
                      /\ out[i].start = Larger(f, out[i].end - ring)
    OBVIOUS
  <2>1. out[i] \in M
    BY <1>12
  <2>2. PICK j \in 1 .. m : out[i].end = b + j /\ out[i].start = Larger(f, (b + j) - ring)
    BY <1>6, <2>1
  <2> QED
    BY <2>2
<1>16. \A x \in M : \E i \in 1 .. m : out[i] = x
  <2>1. \A i, j \in 1 .. m : out[i] = out[j] => i = j
    <3> SUFFICES ASSUME NEW i \in 1 .. m, NEW j \in 1 .. m, i < j
                 PROVE  out[i] # out[j]
      OBVIOUS
    <3>1. out[i].end < out[j].end /\ out[i].end \in Nat
      BY <1>13, <1>14 DEF InOrder, WindowState
    <3> QED
      BY <3>1
  <2>2. out \in Injection(1 .. m, M)
    BY <1>12, <2>1 DEF Injection, IsInjective
  <2>3. out \in Surjection(1 .. m, M)
    BY <1>11, <2>2, FS_Injection
  <2> QED
    BY <2>3 DEF Surjection
<1>17. \A v \in V : \E i \in 1 .. m : v.ids \subseteq out[i].ids
  BY <1>6, <1>16
<1> QED
  BY <1>13, <1>14, <1>15, <1>17 DEF ReadOut, out, M

(***************************************************************************)
(* What happens to an event once a query has taken it: it is late, in the  *)
(* ring, or in a completed window, and no operation forgets it.            *)
(***************************************************************************)
InRing(rq, id) == \E j \in 1 .. Len(rq.buckets) : id \in rq.buckets[j].ids

Holds(rq, id) == id \in rq.late \/ InRing(rq, id) \/ InSome(rq.emitted, id)

(* The first window an advance flushes is the merge of the whole ring. *)
LEMMA FirstFlushed ==
  ASSUME NEW I, NEW bs \in Seq(Bucket(I)), bs # <<>>, NEW ring \in Nat \ {0},
         RingOK(bs, ring), NEW k \in Nat \ {0},
         NEW j \in 1 .. Len(bs), NEW id \in bs[j].ids
  PROVE  InSome(FlushedWindows(bs, ring, k), id)
<1> DEFINE ws == FlushedWindows(bs, ring, k)
           n  == Len(bs)
           p  == Pushed(bs, 0)
<1>1. n \in Nat /\ n >= 1 /\ n <= ring
  BY EndsLemma
<1>2. p = bs
  <2>1. p = [i \in 1 .. n |-> bs[i]]
    <3>1. n + 0 = n
      BY <1>1
    <3>2. p = [i \in 1 .. n + 0 |->
                 IF i <= n THEN bs[i] ELSE NewBucket(bs[n].start + (i - n))]
      BY DEF Pushed
    <3>3. \A i \in 1 .. n : i <= n
      BY <1>1
    <3> HIDE DEF p, n
    <3> QED
      BY <3>1, <3>2, <3>3
  <2>2. bs = [i \in 1 .. n |-> bs[i]]
    BY LenProperties
  <2> QED
    BY <2>1, <2>2
<1>3. Trimmed(bs, ring) = bs
  <2>1. Larger(1, n + 1 - ring) = 1
    BY <1>1 DEF Larger
  <2>2. SubSeq(bs, 1, n) = bs
    BY SubSeqFull
  <2> QED
    BY <2>1, <2>2 DEF Trimmed
<1>4. ws[1] = MergedWindow(bs, bs[n].start + 1)
  <2>1. 1 \in 1 .. k /\ 1 - 1 = 0
    OBVIOUS
  <2>2. ws[1] = MergedWindow(Trimmed(Pushed(bs, 1 - 1), ring), bs[Len(bs)].start + 1)
    BY <2>1 DEF FlushedWindows
  <2> QED
    BY <1>2, <1>3, <2>1, <2>2
<1>5. id \in ws[1].ids
  BY <1>4 DEF MergedWindow
<1>6. Len(ws) = k
  BY FlushedLemma
<1> HIDE DEF ws
<1>7. 1 \in 1 .. Len(ws)
  BY <1>6
<1> QED
  BY <1>5, <1>7 DEF InSome, ws

(* advance_to_bucket forgets nothing. *)
LEMMA AdvanceHolds ==
  ASSUME NEW I, NEW rq \in RunningQuery(I), NEW ring \in Nat \ {0},
         RingOK(rq.buckets, ring), NEW target \in Nat, NEW id, Holds(rq, id)
  PROVE  Holds(AdvanceToBucket(rq, ring, target), id)
<1> DEFINE moved == AdvanceToBucket(rq, ring, target)
           k     == WindowsClosedByAdvance(rq, ring, target)
           fl    == FlushedWindows(rq.buckets, ring, k)
<1>1. rq.buckets \in Seq(Bucket(I)) /\ rq.emitted \in Seq(WindowState(I))
  BY DEF RunningQuery
<1>2. /\ moved \in RunningQuery(I)
      /\ moved.buckets # <<>> /\ RingOK(moved.buckets, ring)
      /\ moved.late = rq.late
      /\ rq.buckets = <<>> =>
           moved.emitted = rq.emitted /\ BackStart(moved) = target
      /\ rq.buckets # <<>> =>
           /\ moved.emitted = rq.emitted \o FlushedWindows(rq.buckets, ring, k)
           /\ BackStart(moved) = Larger(BackStart(rq), target)
           /\ FrontStart(moved) = Larger(FrontStart(rq), target + 1 - ring)
  BY AdvanceLemma, ZenonT(60)
<1>3. CASE rq.buckets = <<>>
  <2>1. ~InRing(rq, id)
    <3>1. Len(<<>>) = 0
      BY EmptySeq
    <3> QED
      BY <1>3, <3>1 DEF InRing
  <2>2. moved.emitted = rq.emitted /\ moved.late = rq.late
    BY <1>2, <1>3
  <2> HIDE DEF moved
  <2> QED
    BY <2>1, <2>2 DEF Holds, moved
<1>4. CASE rq.buckets # <<>> /\ target <= BackStart(rq)
  BY <1>4 DEF AdvanceToBucket
<1>5. CASE rq.buckets # <<>> /\ ~(target <= BackStart(rq))
  <2>1. k \in Nat \ {0}
    <3>1. BackStart(rq) \in Nat
      BY <1>5, RingEnds
    <3> QED
      BY <1>5, <3>1 DEF WindowsClosedByAdvance, Smaller
  <2>2. fl \in Seq(WindowState(I))
    <3> HIDE DEF k
    <3> QED
      BY <1>1, <1>5, <2>1, FlushedLemma
  <2>3. InSome(moved.emitted, id) <=> InSome(rq.emitted, id) \/ InSome(fl, id)
    <3>1. moved.emitted = rq.emitted \o fl
      BY <1>2, <1>5
    <3> DEFINE em == rq.emitted
    <3>2. em \in Seq(WindowState(I))
      BY <1>1
    <3> HIDE DEF em, fl
    <3>3. InSome(em \o fl, id) <=> InSome(em, id) \/ InSome(fl, id)
      BY <2>2, <3>2, InSomeConcat
    <3> QED
      BY <3>1, <3>3 DEF em
  <2>4. InRing(rq, id) => InSome(fl, id)
    <3> HIDE DEF k
    <3> QED
      BY <1>1, <1>5, <2>1, FirstFlushed DEF InRing
  <2>5. moved.late = rq.late
    BY <1>2
  <2> HIDE DEF moved, fl
  <2> QED
    BY <2>3, <2>4, <2>5 DEF Holds, moved
<1> QED
  BY <1>3, <1>4, <1>5

(* process takes its event and forgets none; late is only what was late,   *)
(* or the event itself when its slide is behind the ring.                  *)
LEMMA ProcessHolds ==
  ASSUME NEW I, NEW rq \in RunningQuery(I), NEW ring \in Nat \ {0},
         RingOK(rq.buckets, ring), NEW bucket \in Nat, NEW new \in I
  PROVE  /\ Holds(ProcessMatching(rq, ring, bucket, new), new)
         /\ \A id : Holds(rq, id) => Holds(ProcessMatching(rq, ring, bucket, new), id)
         /\ rq.buckets = <<>> \/ BackStart(rq) <= bucket =>
              ProcessMatching(rq, ring, bucket, new).late = rq.late
<1> DEFINE moved == AdvanceToBucket(rq, ring, bucket)
           mb    == moved.buckets
           n     == Len(mb)
           open  == {j \in 1 .. n : mb[j].start = bucket}
           after == ProcessMatching(rq, ring, bucket, new)
           put   == [j \in 1 .. n |->
                       IF j \in open THEN [mb[j] EXCEPT !.ids = @ \cup {new}] ELSE mb[j]]
           k     == WindowsClosedByAdvance(rq, ring, bucket)
<1>1. /\ moved \in RunningQuery(I)
      /\ moved.buckets # <<>> /\ RingOK(moved.buckets, ring)
      /\ moved.late = rq.late
      /\ rq.buckets = <<>> =>
           moved.emitted = rq.emitted /\ BackStart(moved) = bucket
      /\ rq.buckets # <<>> =>
           /\ moved.emitted = rq.emitted \o FlushedWindows(rq.buckets, ring, k)
           /\ BackStart(moved) = Larger(BackStart(rq), bucket)
           /\ FrontStart(moved) = Larger(FrontStart(rq), bucket + 1 - ring)
  BY AdvanceLemma, ZenonT(60)
<1>2. after = IF open = {} THEN [moved EXCEPT !.late = @ \cup {new}]
                           ELSE [moved EXCEPT !.buckets = put]
  BY Zenon DEF ProcessMatching
<1>3. /\ mb \in Seq(Bucket(I)) /\ n \in Nat /\ n >= 1
      /\ \A j \in 1 .. n : mb[j] \in Bucket(I)
  <2>1. mb \in Seq(Bucket(I)) /\ mb # <<>>
    BY <1>1 DEF RunningQuery
  <2> QED
    BY <2>1, SeqElements
<1>4. \A id : Holds(rq, id) => Holds(moved, id)
  BY AdvanceHolds
<1>5. BackStart(moved) = mb[n].start
  BY DEF BackStart
<1>6. rq.buckets # <<>> => BackStart(rq) \in Nat
  BY RingEnds
<1>7. rq.buckets = <<>> \/ BackStart(rq) <= bucket => open # {}
  <2>1. n \in 1 .. n
    BY <1>3
  <2>2. ASSUME rq.buckets # <<>>, BackStart(rq) <= bucket
        PROVE  BackStart(moved) = bucket
    <3>1. BackStart(moved) = Larger(BackStart(rq), bucket)
      BY <1>1, <2>2
    <3>2. Larger(BackStart(rq), bucket) = bucket
      BY <1>6, <2>2 DEF Larger
    <3> QED
      BY <3>1, <3>2
  <2>3. rq.buckets = <<>> => BackStart(moved) = bucket
    BY <1>1
  <2> HIDE DEF moved
  <2> QED
    BY <1>5, <2>1, <2>2, <2>3
<1> HIDE DEF moved, after
<1>8. CASE open = {}
  <2>1. /\ after.late = moved.late \cup {new} /\ after.buckets = mb
        /\ after.emitted = moved.emitted
    BY <1>1, <1>2, <1>8 DEF RunningQuery
  <2>2. \A id : InRing(moved, id) => InRing(after, id)
    BY <2>1 DEF InRing
  <2>3. \A id : Holds(moved, id) => Holds(after, id)
    BY <2>1, <2>2 DEF Holds
  <2>4. Holds(after, new)
    BY <2>1 DEF Holds
  <2> QED
    BY <1>4, <1>7, <1>8, <2>3, <2>4 DEF after
<1>9. CASE open # {}
  <2>1. /\ after.late = moved.late /\ after.buckets = put
        /\ after.emitted = moved.emitted
    BY <1>1, <1>2, <1>9 DEF RunningQuery
  <2>2. Len(put) = n
    <3>1. put \in [1 .. n -> {put[j] : j \in 1 .. n}]
      OBVIOUS
    <3> HIDE DEF put, n
    <3> QED
      BY <1>3, <3>1, FunctionIsSeq
  <2>3. \A j \in 1 .. n : mb[j].ids \subseteq put[j].ids
    BY <1>3 DEF Bucket
  <2>4. \A j \in open : j \in 1 .. n /\ new \in put[j].ids
    BY <1>3 DEF Bucket
  <2> HIDE DEF put, n
  <2>5. \A id : InRing(moved, id) => InRing(after, id)
    BY <2>1, <2>2, <2>3 DEF InRing, n
  <2>6. InRing(after, new)
    BY <1>9, <2>1, <2>2, <2>4 DEF InRing
  <2>7. \A id : Holds(moved, id) => Holds(after, id)
    BY <2>1, <2>5 DEF Holds
  <2>8. Holds(after, new)
    BY <2>6 DEF Holds
  <2> QED
    BY <1>1, <1>4, <2>1, <2>7, <2>8 DEF after
<1> QED
  BY <1>8, <1>9

(* finish puts the whole ring into the trailing window. *)
LEMMA FinishHolds ==
  ASSUME NEW I, NEW rq \in RunningQuery(I), NEW id, Holds(rq, id)
  PROVE  /\ FinishQuery(rq).late = rq.late
         /\ id \in rq.late \/ InSome(FinishQuery(rq).emitted, id)
<1> DEFINE w  == MergedWindow(rq.buckets, BackStart(rq) + 1)
           em == rq.emitted
           L  == Len(em)
<1>1. em \in Seq(WindowState(I)) /\ L \in Nat
  BY LenProperties DEF RunningQuery
<1>2. CASE rq.buckets = <<>>
  <2>1. Len(<<>>) = 0
    BY EmptySeq
  <2>2. ~InRing(rq, id)
    BY <1>2, <2>1 DEF InRing
  <2> QED
    BY <1>2, <2>2 DEF Holds, FinishQuery
<1>3. CASE rq.buckets # <<>>
  <2>1. /\ FinishQuery(rq).emitted = Append(em, w)
        /\ FinishQuery(rq).late = rq.late
    BY <1>3 DEF FinishQuery, RunningQuery
  <2>2. InRing(rq, id) => id \in w.ids
    BY DEF InRing, MergedWindow
  <2> HIDE DEF w, em, L
  <2>3. /\ Len(Append(em, w)) = L + 1
        /\ \A i \in 1 .. L : Append(em, w)[i] = em[i]
        /\ Append(em, w)[L + 1] = w
    BY <1>1 DEF L
  <2>4. InRing(rq, id) => InSome(Append(em, w), id)
    BY <1>1, <2>2, <2>3 DEF InSome
  <2>5. InSome(em, id) => InSome(Append(em, w), id)
    BY <1>1, <2>3 DEF InSome, L
  <2> QED
    BY <2>1, <2>4, <2>5 DEF Holds, em
<1> QED
  BY <1>2, <1>3
===============================================================================
