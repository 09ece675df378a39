-------------------------- MODULE QueryEngineProofs ---------------------------
(***************************************************************************)
(* The engine's safety for every number of queries, every slide, ring and  *)
(* capacity, and every stream of events; which events its windows hold;    *)
(* that it implements SlidingWindows; and that the replay driver drives it *)
(* without losing a window.                                                *)
(***************************************************************************)
EXTENDS EngineRefinement, ReplayDriver, WindowRingProofs, FiniteSetTheorems

(***************************************************************************)
(* The inductive invariant of one query: its types, its ring, its buffer,  *)
(* and its completed windows in order and behind the ring, which is what   *)
(* keeps them in order when the next ones are flushed.                     *)
(***************************************************************************)
BehindRing(rq, ws, fin) ==
  ws # <<>> =>
    /\ rq.buckets # <<>>
    /\ \A i \in 1 .. Len(ws) :
         /\ ws[i].start <= FrontStart(rq)
         /\ ~fin => ws[i].end <= BackStart(rq)

QueryInv(ring, capacity, rq, tk, I, fin) ==
  /\ rq \in RunningQuery(I)
  /\ tk \in Seq(WindowState(I))
  /\ RingOK(rq.buckets, ring)
  /\ Len(rq.emitted) <= capacity
  /\ InOrder(tk \o rq.emitted)
  /\ BehindRing(rq, tk \o rq.emitted, fin)

EngineInv ==
  /\ TypeOK
  /\ \A q \in Query :
       QueryInv(Ring[q], Capacity[q], queries[q], taken[q], Id, finished)

(* A timestamp has a bucket. *)
LEMMA TargetType ==
  ASSUME NEW q \in Query, NEW ts \in Nat
  PROVE  Target(q, ts) \in Nat
<1>1. Slide[q] \in Nat \ {0}
  BY ConstantsAssumption
<1>2. \A a \in Nat, b \in Nat \ {0} : a \div b \in Nat
  OBVIOUS
<1> QED
  BY <1>1, <1>2 DEF Target, BucketStartFor

(* A query that has nothing open and nothing completed. *)
LEMMA NewQueryInv ==
  ASSUME NEW ring \in Nat, NEW capacity \in Nat, NEW I
  PROVE  QueryInv(ring, capacity, NewQuery, <<>>, I, FALSE)
<1>1. /\ NewQuery.buckets = <<>> /\ NewQuery.emitted = <<>> /\ NewQuery.late = {}
      /\ NewQuery = [buckets |-> <<>>, emitted |-> <<>>, late |-> {}]
  BY DEF NewQuery
<1>2. /\ <<>> \in Seq(Bucket(I)) /\ <<>> \in Seq(WindowState(I)) /\ Len(<<>>) = 0
  BY EmptySeq
<1>3. NewQuery \in RunningQuery(I)
  BY <1>1, <1>2 DEF RunningQuery
<1>4. <<>> \o <<>> = <<>>
  BY <1>2, ConcatEmptySeq
<1>5. RingOK(<<>>, ring) /\ InOrder(<<>>)
  BY <1>2 DEF RingOK, Consecutive, InOrder
<1> QED
  BY <1>1, <1>2, <1>3, <1>4, <1>5 DEF QueryInv, BehindRing

(* The invariant survives events that other queries take. *)
LEMMA GrowKeeps ==
  ASSUME NEW ring, NEW capacity, NEW rq, NEW tk, NEW I, NEW J, NEW fin,
         I \subseteq J, QueryInv(ring, capacity, rq, tk, I, fin)
  PROVE  QueryInv(ring, capacity, rq, tk, J, fin)
BY TypesGrow DEF QueryInv

(* advance_to_bucket after its capacity check. *)
LEMMA AdvanceKeeps ==
  ASSUME NEW ring \in Nat \ {0}, NEW capacity \in Nat, NEW rq, NEW tk, NEW I,
         NEW target \in Nat,
         QueryInv(ring, capacity, rq, tk, I, FALSE),
         CanAdvance(rq, ring, capacity, target)
  PROVE  QueryInv(ring, capacity, AdvanceToBucket(rq, ring, target), tk, I, FALSE)
<1> DEFINE moved == AdvanceToBucket(rq, ring, target)
           k     == WindowsClosedByAdvance(rq, ring, target)
           fl    == FlushedWindows(rq.buckets, ring, k)
           ws    == tk \o rq.emitted
<1>1. rq \in RunningQuery(I) /\ RingOK(rq.buckets, ring)
  BY DEF QueryInv
<1>2. /\ tk \in Seq(WindowState(I)) /\ InOrder(ws) /\ BehindRing(rq, ws, FALSE)
      /\ Len(rq.emitted) <= capacity
  BY DEF QueryInv
<1>3. rq.buckets \in Seq(Bucket(I)) /\ rq.emitted \in Seq(WindowState(I))
  BY <1>1 DEF RunningQuery
<1>4. ws \in Seq(WindowState(I))
  BY <1>2, <1>3, ConcatProperties DEF ws
<1>5. k \in Nat /\ Len(rq.emitted) + k <= capacity
  <2>1. k \in 0 .. ring
    BY <1>1, ClosedBounded
  <2>2. Len(rq.emitted) + k <= capacity
    BY DEF CanAdvance, CanEmit
  <2> QED
    BY <2>1, <2>2
<1> HIDE DEF ws
<1>6. /\ moved \in RunningQuery(I)
      /\ moved.buckets # <<>> /\ RingOK(moved.buckets, ring)
      /\ moved.late = rq.late
      /\ rq.buckets = <<>> => moved.emitted = rq.emitted /\ BackStart(moved) = target
      /\ rq.buckets # <<>> =>
           /\ moved.emitted = rq.emitted \o fl
           /\ BackStart(moved) = Larger(BackStart(rq), target)
           /\ FrontStart(moved) = Larger(FrontStart(rq), target + 1 - ring)
  BY <1>1, AdvanceLemma, ZenonT(60)
<1>7. CASE rq.buckets = <<>>
  <2>1. ws = <<>>
    BY <1>2, <1>7 DEF BehindRing
  <2>2. moved.emitted = rq.emitted /\ Len(rq.emitted) <= capacity
    BY <1>2, <1>6, <1>7
  <2> HIDE DEF moved
  <2>3. BehindRing(moved, tk \o moved.emitted, FALSE)
    BY <2>1, <2>2 DEF BehindRing, ws
  <2> QED
    BY <1>2, <1>6, <2>2, <2>3 DEF QueryInv, moved, ws
<1>8. CASE rq.buckets # <<>>
  <2> DEFINE back  == BackStart(rq)
             front == FrontStart(rq)
  <2>1. back \in Nat /\ front \in Nat
    BY <1>1, <1>3, <1>8, EndsLemma DEF BackStart, FrontStart
  <2> HIDE DEF k
  <2>2. /\ fl \in Seq(WindowState(I)) /\ Len(fl) = k
        /\ \A i \in 1 .. k :
             fl[i].end = back + i /\ fl[i].start = Larger(front, back + i - ring)
    <3> DEFINE bs == rq.buckets
    <3>1. bs \in Seq(Bucket(I)) /\ bs # <<>> /\ RingOK(bs, ring) /\ k \in Nat
      BY <1>1, <1>3, <1>5, <1>8
    <3>2. back = bs[Len(bs)].start /\ front = bs[1].start
      BY DEF BackStart, FrontStart
    <3> HIDE DEF bs, back, front
    <3>3. /\ FlushedWindows(bs, ring, k) \in Seq(WindowState(I))
          /\ Len(FlushedWindows(bs, ring, k)) = k
          /\ \A i \in 1 .. k :
               /\ FlushedWindows(bs, ring, k)[i].end = bs[Len(bs)].start + i
               /\ FlushedWindows(bs, ring, k)[i].start =
                    Larger(bs[1].start, bs[Len(bs)].start + i - ring)
      BY <3>1, FlushedLemma, ZenonT(60)
    <3> QED
      BY <3>2, <3>3, Zenon DEF bs
  <2>3. InOrder(fl)
    BY <1>1, <1>3, <1>5, <1>8, FlushedInOrder
  <2>4. k > 0 => back + k <= target
    BY <1>8, <2>1 DEF k, WindowsClosedByAdvance, Smaller
  <2>5. moved.emitted = rq.emitted \o fl
    BY <1>6, <1>8
  <2>6. /\ BackStart(moved) = Larger(back, target)
        /\ FrontStart(moved) = Larger(front, target + 1 - ring)
    BY <1>6, <1>8
  <2>7. Len(ws) \in Nat /\ \A i \in 1 .. Len(ws) :
          /\ ws[i].start \in Nat /\ ws[i].end \in Nat
          /\ ws[i].start <= front /\ ws[i].end <= back
    <3>1. Len(ws) \in Nat /\ \A i \in 1 .. Len(ws) : ws[i] \in WindowState(I)
      BY <1>4, SeqElements
    <3>2. \A i \in 1 .. Len(ws) : ws[i].start \in Nat /\ ws[i].end \in Nat
      BY <3>1 DEF WindowState
    <3>3. ws = <<>> => Len(ws) = 0
      BY EmptySeq
    <3> QED
      BY <1>2, <3>1, <3>2, <3>3 DEF BehindRing
  <2> HIDE DEF moved, k, fl, ws, back, front
  <2>8. tk \o moved.emitted = ws \o fl
    <3> DEFINE em == rq.emitted
               S  == WindowState(I)
    <3>1. tk \in Seq(S) /\ em \in Seq(S) /\ fl \in Seq(S)
      BY <1>2, <1>3, <2>2
    <3> HIDE DEF em, S
    <3>2. tk \o (em \o fl) = (tk \o em) \o fl
      BY <3>1, ConcatAssociative, SMTT(40)
    <3> QED
      BY <2>5, <3>2 DEF ws, em
  <2>9. /\ ws \o fl \in Seq(WindowState(I)) /\ Len(ws \o fl) = Len(ws) + k
        /\ \A i \in 1 .. Len(ws) + k :
             (ws \o fl)[i] = IF i <= Len(ws) THEN ws[i] ELSE fl[i - Len(ws)]
    BY <1>4, <2>2, ConcatProperties
  <2>10. \A i \in 1 .. Len(ws), j \in 1 .. Len(fl) :
           ws[i].end < fl[j].end /\ ws[i].start <= fl[j].start
    <3> SUFFICES ASSUME NEW i \in 1 .. Len(ws), NEW j \in 1 .. k
                 PROVE  ws[i].end < fl[j].end /\ ws[i].start <= fl[j].start
      BY <2>2
    <3>1. front <= Larger(front, back + j - ring)
      BY <1>5, <2>1 DEF Larger
    <3> QED
      BY <1>5, <2>1, <2>2, <2>7, <3>1, SMTT(40) DEF Larger
  <2>11. InOrder(ws \o fl)
    BY <1>2, <1>4, <2>2, <2>3, <2>10, ConcatInOrder
  <2>12. \A i \in 1 .. Len(ws \o fl) :
           /\ (ws \o fl)[i].start <= FrontStart(moved)
           /\ (ws \o fl)[i].end <= BackStart(moved)
    <3> SUFFICES ASSUME NEW i \in 1 .. Len(ws) + k
                 PROVE  /\ (ws \o fl)[i].start <= FrontStart(moved)
                        /\ (ws \o fl)[i].end <= BackStart(moved)
      BY <2>9
    <3>1. CASE i <= Len(ws)
      <4>1. (ws \o fl)[i] = ws[i] /\ i \in 1 .. Len(ws)
        BY <1>5, <2>7, <2>9, <3>1
      <4>2. ws[i].start <= front /\ ws[i].end <= back /\ ws[i].start \in Nat /\ ws[i].end \in Nat
        BY <2>7, <4>1
      <4>3. front <= Larger(front, target + 1 - ring) /\ back <= Larger(back, target)
        BY <2>1 DEF Larger
      <4>4. Larger(front, target + 1 - ring) \in Int /\ Larger(back, target) \in Int
        BY <2>1 DEF Larger
      <4> QED
        BY <2>1, <2>6, <4>1, <4>2, <4>3, <4>4, SMTT(40)
    <3>2. CASE i > Len(ws)
      <4> DEFINE j == i - Len(ws)
      <4>1. (ws \o fl)[i] = fl[j] /\ j \in 1 .. k /\ k > 0
        BY <1>5, <2>7, <2>9, <3>2
      <4> HIDE DEF j
      <4>2. fl[j].end = back + j /\ fl[j].start = Larger(front, back + j - ring)
        BY <2>2, <4>1
      <4>3. back + j <= target
        BY <1>5, <2>1, <2>4, <4>1
      <4>4. /\ Larger(front, back + j - ring) <= Larger(front, target + 1 - ring)
            /\ back + j <= Larger(back, target)
        BY <1>5, <2>1, <4>1, <4>3 DEF Larger
      <4> QED
        BY <2>6, <4>1, <4>2, <4>4
    <3>3. Len(ws) \in Nat /\ i \in Nat
      BY <1>5, <2>7
    <3>4. i <= Len(ws) \/ i > Len(ws)
      BY <3>3
    <3> QED
      BY <3>1, <3>2, <3>4, Zenon
  <2>13. BehindRing(moved, ws \o fl, FALSE)
    BY <1>6, <2>12 DEF BehindRing, moved
  <2>14. Len(moved.emitted) <= capacity
    BY <1>3, <1>5, <2>2, <2>5, ConcatProperties
  <2> QED
    BY <1>2, <1>6, <2>8, <2>11, <2>13, <2>14 DEF QueryInv, moved
<1> QED
  BY <1>7, <1>8

(* process after its capacity check: the event itself moves nothing.       *)
LEMMA ProcessKeeps ==
  ASSUME NEW ring \in Nat \ {0}, NEW capacity \in Nat, NEW rq, NEW tk, NEW I,
         NEW bucket \in Nat, NEW id \in I,
         QueryInv(ring, capacity, rq, tk, I, FALSE),
         CanAdvance(rq, ring, capacity, bucket)
  PROVE  QueryInv(ring, capacity, ProcessMatching(rq, ring, bucket, id), tk, I, FALSE)
<1> DEFINE moved == AdvanceToBucket(rq, ring, bucket)
           after == ProcessMatching(rq, ring, bucket, id)
<1>1. QueryInv(ring, capacity, moved, tk, I, FALSE)
  BY AdvanceKeeps
<1>2. rq \in RunningQuery(I) /\ RingOK(rq.buckets, ring)
  BY DEF QueryInv
<1>3. /\ after \in RunningQuery(I)
      /\ after.emitted = moved.emitted
      /\ after.buckets # <<>> /\ RingOK(after.buckets, ring)
      /\ BackStart(after) = BackStart(moved)
      /\ FrontStart(after) = FrontStart(moved)
  BY <1>2, ProcessLemma
<1> HIDE DEF moved, after
<1>4. BehindRing(after, tk \o after.emitted, FALSE)
  BY <1>1, <1>3 DEF QueryInv, BehindRing
<1>5. QueryInv(ring, capacity, after, tk, I, FALSE)
  BY <1>1, <1>3, <1>4 DEF QueryInv
<1> QED
  BY <1>5 DEF after

(* Draining moves the completed windows to the consumer, in order. *)
LEMMA TakeKeeps ==
  ASSUME NEW ring \in Nat, NEW capacity \in Nat, NEW rq, NEW tk, NEW I, NEW fin,
         QueryInv(ring, capacity, rq, tk, I, fin)
  PROVE  QueryInv(ring, capacity, [rq EXCEPT !.emitted = <<>>], tk \o rq.emitted, I, fin)
<1> DEFINE d  == [rq EXCEPT !.emitted = <<>>]
           ws == tk \o rq.emitted
<1>1. /\ rq \in RunningQuery(I) /\ tk \in Seq(WindowState(I))
      /\ RingOK(rq.buckets, ring) /\ InOrder(ws) /\ BehindRing(rq, ws, fin)
  BY DEF QueryInv
<1>2. <<>> \in Seq(WindowState(I)) /\ Len(<<>>) = 0
  BY EmptySeq
<1>3. d \in RunningQuery(I) /\ d.buckets = rq.buckets /\ d.emitted = <<>>
  BY <1>1, <1>2 DEF RunningQuery
<1>4. rq.emitted \in Seq(WindowState(I))
  BY <1>1 DEF RunningQuery
<1>5. ws \in Seq(WindowState(I))
  BY <1>1, <1>4, ConcatProperties
<1> HIDE DEF ws, d
<1>6. ws \o <<>> = ws
  BY <1>5, ConcatEmptySeq
<1>7. BehindRing(d, ws, fin)
  BY <1>1, <1>3 DEF BehindRing, FrontStart, BackStart
<1>8. QueryInv(ring, capacity, d, ws, I, fin)
  BY <1>1, <1>2, <1>3, <1>5, <1>6, <1>7 DEF QueryInv
<1> QED
  BY <1>8 DEF d, ws

(* finish: the trailing window ends after every completed one. *)
LEMMA FinishKeeps ==
  ASSUME NEW ring \in Nat \ {0}, NEW capacity \in Nat, NEW rq, NEW tk, NEW I,
         QueryInv(ring, capacity, rq, tk, I, FALSE),
         rq.buckets # <<>> => CanEmit(rq, capacity, 1)
  PROVE  QueryInv(ring, capacity, FinishQuery(rq), tk, I, TRUE)
<1> DEFINE f  == FinishQuery(rq)
           ws == tk \o rq.emitted
           S  == WindowState(I)
<1>1. rq \in RunningQuery(I) /\ RingOK(rq.buckets, ring)
  BY DEF QueryInv
<1>2. /\ tk \in Seq(S) /\ InOrder(ws) /\ BehindRing(rq, ws, FALSE)
      /\ Len(rq.emitted) <= capacity
  BY DEF QueryInv
<1>3. rq.buckets \in Seq(Bucket(I)) /\ rq.emitted \in Seq(S)
  BY <1>1 DEF RunningQuery
<1>4. f \in RunningQuery(I) /\ f.buckets = rq.buckets
  BY <1>1, FinishLemma
<1>5. CASE rq.buckets = <<>>
  <2>1. f.emitted = rq.emitted
    BY <1>1, <1>5, FinishLemma
  <2> HIDE DEF f
  <2>2. BehindRing(f, tk \o f.emitted, TRUE)
    BY <1>2, <1>5, <2>1 DEF BehindRing
  <2> QED
    BY <1>1, <1>2, <1>4, <2>1, <2>2 DEF QueryInv, f
<1>6. CASE rq.buckets # <<>>
  <2>1. PICK w \in S : /\ w.start = FrontStart(rq) /\ w.end = BackStart(rq) + 1
                       /\ f.emitted = Append(rq.emitted, w)
    BY <1>1, <1>6, FinishLemma
  <2>2. FrontStart(rq) \in Nat /\ BackStart(rq) \in Nat
    BY <1>1, <1>3, <1>6, EndsLemma DEF FrontStart, BackStart
  <2>3. <<w>> \in Seq(S) /\ Len(<<w>>) = 1 /\ <<w>>[1] = w /\ InOrder(<<w>>)
    BY <2>1 DEF InOrder
  <2>4. f.emitted = rq.emitted \o <<w>>
    BY <1>3, <2>1, AppendIsConcat
  <2>5. Len(f.emitted) <= capacity
    BY <1>3, <1>6, <2>1, AppendProperties DEF CanEmit
  <2>6. ws \in Seq(S)
    BY <1>2, <1>3, ConcatProperties
  <2>7. Len(ws) \in Nat /\ \A i \in 1 .. Len(ws) :
          ws[i].start <= FrontStart(rq) /\ ws[i].end < w.end /\ ws[i].end \in Nat
    <3>1. Len(ws) \in Nat /\ \A i \in 1 .. Len(ws) : ws[i] \in S
      BY <2>6, SeqElements
    <3>2. \A i \in 1 .. Len(ws) : ws[i].end \in Nat
      BY <3>1 DEF WindowState
    <3>3. ws = <<>> => Len(ws) = 0
      BY EmptySeq
    <3>4. \A i \in 1 .. Len(ws) : ws[i].start <= FrontStart(rq) /\ ws[i].end <= BackStart(rq)
      BY <1>2, <3>1, <3>3 DEF BehindRing
    <3> QED
      BY <2>1, <2>2, <3>1, <3>2, <3>4
  <2> DEFINE em == rq.emitted
             vs == <<w>>
  <2> HIDE DEF f, ws, S, em, vs
  <2>8. tk \o f.emitted = ws \o vs
    <3>1. tk \in Seq(S) /\ em \in Seq(S) /\ vs \in Seq(S)
      BY <1>2, <1>3, <2>3 DEF em, vs
    <3>2. tk \o (em \o vs) = (tk \o em) \o vs
      BY <3>1, ConcatAssociative, SMTT(40)
    <3> QED
      BY <2>4, <3>2 DEF ws, em, vs
  <2>9. vs \in Seq(S) /\ Len(vs) = 1 /\ vs[1] = w /\ InOrder(vs)
    BY <2>3 DEF vs
  <2>10. \A i \in 1 .. Len(ws), j \in 1 .. Len(vs) :
           ws[i].end < vs[j].end /\ ws[i].start <= vs[j].start
    BY <2>1, <2>7, <2>9
  <2>11. InOrder(ws \o vs)
    BY <1>2, <2>6, <2>9, <2>10, ConcatInOrder DEF S
  <2>12. \A i \in 1 .. Len(ws \o vs) : (ws \o vs)[i].start <= FrontStart(rq)
    <3>1. /\ Len(ws \o vs) = Len(ws) + 1
          /\ \A i \in 1 .. Len(ws) + 1 :
               (ws \o vs)[i] = IF i <= Len(ws) THEN ws[i] ELSE vs[i - Len(ws)]
      <4>1. /\ Len(ws \o vs) = Len(ws) + Len(vs)
            /\ \A i \in 1 .. Len(ws) + Len(vs) :
                 (ws \o vs)[i] = IF i <= Len(ws) THEN ws[i] ELSE vs[i - Len(ws)]
        BY <2>6, <2>9, ConcatProperties
      <4> QED
        BY <2>9, <4>1
    <3> SUFFICES ASSUME NEW i \in 1 .. Len(ws) + 1
                 PROVE  (ws \o vs)[i].start <= FrontStart(rq)
      BY <3>1
    <3>2. CASE i <= Len(ws)
      <4>1. (ws \o vs)[i] = ws[i] /\ i \in 1 .. Len(ws)
        BY <2>7, <3>1, <3>2
      <4> QED
        BY <2>7, <4>1
    <3>3. CASE ~(i <= Len(ws))
      <4>1. i - Len(ws) = 1
        BY <2>7, <3>3
      <4>2. (ws \o vs)[i] = w
        BY <2>9, <3>1, <3>3, <4>1
      <4> QED
        BY <2>1, <2>2, <4>2
    <3> QED
      BY <3>2, <3>3, Zenon
  <2>13. FrontStart(f) = FrontStart(rq)
    BY <1>4 DEF FrontStart
  <2>14. BehindRing(f, ws \o vs, TRUE)
    BY <1>4, <1>6, <2>12, <2>13 DEF BehindRing
  <2> QED
    BY <1>1, <1>2, <1>4, <2>5, <2>8, <2>11, <2>14 DEF QueryInv, f, S
<1> QED
  BY <1>5, <1>6

-------------------------------------------------------------------------------
(* What the constants' assumptions say of one query. *)
LEMMA QueryConstants ==
  ASSUME NEW q \in Query
  PROVE  /\ Ring[q] \in Nat \ {0} /\ Capacity[q] \in Nat \ {0}
         /\ Capacity[q] >= Ring[q]
BY ConstantsAssumption, PlannedCapacity

(* The engine starts in the invariant. *)
LEMMA InitKeeps == Init => EngineInv
<1> SUFFICES ASSUME Init PROVE EngineInv
  OBVIOUS
<1>1. \A q \in Query : queries[q] = NewQuery /\ taken[q] = <<>>
  BY DEF Init
<1>2. \A q \in Query :
        QueryInv(Ring[q], Capacity[q], queries[q], taken[q], Id, finished)
  <2> TAKE q \in Query
  <2>1. finished = FALSE
    BY DEF Init
  <2>2. QueryInv(Ring[q], Capacity[q], NewQuery, <<>>, Id, FALSE)
    BY QueryConstants, NewQueryInv
  <2> QED
    BY <1>1, <2>1, <2>2
<1>3. \A q \in Query : queries[q] \in RunningQuery(Id) /\ taken[q] \in Seq(WindowState(Id))
  BY <1>2 DEF QueryInv
<1>4. queries \in [Query -> RunningQuery(Id)] /\ taken \in [Query -> Seq(WindowState(Id))]
  BY <1>3 DEF Init
<1>5. log \in Seq(Event) /\ result \in {"ok", "backpressure"} /\ finished \in BOOLEAN
  BY EmptySeq DEF Init
<1> QED
  BY <1>2, <1>4, <1>5 DEF EngineInv, TypeOK

(* A step that keeps every query's invariant, and types the rest, keeps    *)
(* the engine's.                                                           *)
LEMMA Assemble ==
  ASSUME log' \in Seq(Event), result' \in {"ok", "backpressure"},
         finished' \in BOOLEAN,
         DOMAIN queries' = Query, DOMAIN taken' = Query,
         queries' = [q \in Query |-> queries'[q]],
         taken' = [q \in Query |-> taken'[q]],
         \A q \in Query :
           QueryInv(Ring[q], Capacity[q], queries'[q], taken'[q], Id', finished')
  PROVE  EngineInv'
<1>1. \A q \in Query :
        queries'[q] \in RunningQuery(Id') /\ taken'[q] \in Seq(WindowState(Id'))
  BY DEF QueryInv
<1>2. /\ queries' \in [Query -> RunningQuery(Id')]
      /\ taken' \in [Query -> Seq(WindowState(Id'))]
  BY <1>1
<1> QED
  BY <1>2 DEF EngineInv, TypeOK

(* An accepted call refuses in no query, so its second loop runs to the end*)
LEMMA NobodyRefuses ==
  ASSUME NEW step
  PROVE  /\ ApplyInOrder({}, step) = [q \in Query |-> step[q]]
         /\ Returned({}) = "ok"
BY DEF ApplyInOrder, Reached, Returned

(* process keeps the invariant: every query of the vector moves or stays,
   and the event is counted. *)
LEMMA ProcessStep ==
  ASSUME EngineInv, NEW e \in Event, Process(e)
  PROVE  EngineInv' /\ result' = "ok"
<1> DEFINE id == Len(log) + 1
           refuses == {q \in e.match : ~EnsureCanAdvance(q, e.ts)}
           step == [q \in Query |->
                     IF q \in e.match
                       THEN ProcessMatching(queries[q], Ring[q], Target(q, e.ts), id)
                       ELSE queries[q]]
<1>1. e.ts \in Nat /\ e.match \subseteq Query
  BY ConstantsAssumption DEF Event, Ts
<1>2. refuses = {}
  BY <1>1 DEF Process, ProcessPreflight, EnsureCanProcess
<1>3. queries' = [q \in Query |-> step[q]] /\ result' = "ok"
  <2>1. queries' = ApplyInOrder(refuses, step) /\ result' = Returned(refuses)
    BY DEF Process
  <2> HIDE DEF refuses, step
  <2> QED
    BY <1>2, <2>1, NobodyRefuses
<1>4. /\ log' = Append(log, e) /\ taken' = taken /\ finished' = finished
      /\ finished = FALSE /\ log \in Seq(Event) /\ taken \in [Query -> Seq(WindowState(Id))]
  BY DEF Process, EngineInv, TypeOK
<1>5. Len(log) \in Nat /\ log' \in Seq(Event) /\ Len(log') = Len(log) + 1
  BY <1>4, AppendProperties, LenProperties
<1>6. Id \subseteq Id' /\ id \in Id'
  BY <1>5 DEF Id
<1>7. ASSUME NEW q \in Query
      PROVE  QueryInv(Ring[q], Capacity[q], queries'[q], taken'[q], Id', finished')
  <2>1. QueryInv(Ring[q], Capacity[q], queries[q], taken[q], Id', FALSE)
    <3>1. QueryInv(Ring[q], Capacity[q], queries[q], taken[q], Id, FALSE)
      BY <1>4 DEF EngineInv
    <3> HIDE DEF Id
    <3> QED
      BY <1>6, <3>1, GrowKeeps
  <2>2. queries'[q] = IF q \in e.match
                        THEN ProcessMatching(queries[q], Ring[q], Target(q, e.ts), id)
                        ELSE queries[q]
    BY <1>3
  <2>3. CASE q \in e.match
    <3>1. CanAdvance(queries[q], Ring[q], Capacity[q], Target(q, e.ts))
      BY <2>3 DEF Process, ProcessPreflight, EnsureCanProcess, EnsureCanAdvance
    <3>2. Target(q, e.ts) \in Nat
      BY <1>1, TargetType
    <3>3. Ring[q] \in Nat \ {0} /\ Capacity[q] \in Nat
      BY QueryConstants
    <3> HIDE DEF id
    <3>4. QueryInv(Ring[q], Capacity[q],
                   ProcessMatching(queries[q], Ring[q], Target(q, e.ts), id),
                   taken[q], Id', FALSE)
      BY <1>6, <2>1, <3>1, <3>2, <3>3, ProcessKeeps
    <3> QED
      BY <1>4, <2>2, <2>3, <3>4
  <2>4. CASE q \notin e.match
    BY <1>4, <2>1, <2>2, <2>4
  <2> QED
    BY <2>3, <2>4
<1>8. /\ DOMAIN queries' = Query /\ DOMAIN taken' = Query
      /\ queries' = [q \in Query |-> queries'[q]]
      /\ taken' = [q \in Query |-> taken'[q]]
  BY <1>3, <1>4
<1>9. result' \in {"ok", "backpressure"} /\ finished' \in BOOLEAN
  BY <1>3, <1>4
<1> QED
  BY <1>3, <1>5, <1>7, <1>8, <1>9, Assemble

(* advance_to keeps the invariant: every query moves to the watermark. *)
LEMMA AdvanceStep ==
  ASSUME EngineInv, NEW ts \in Ts, AdvanceTo(ts)
  PROVE  EngineInv' /\ result' = "ok"
<1> DEFINE refuses == {q \in Query : ~EnsureCanAdvance(q, ts)}
           step == [q \in Query |-> AdvanceToBucket(queries[q], Ring[q], Target(q, ts))]
<1>1. ts \in Nat
  BY ConstantsAssumption DEF Ts
<1>2. refuses = {}
  BY DEF AdvanceTo, AdvancePreflight
<1>3. queries' = [q \in Query |-> step[q]] /\ result' = "ok"
  <2>1. queries' = ApplyInOrder(refuses, step) /\ result' = Returned(refuses)
    BY DEF AdvanceTo
  <2> HIDE DEF refuses, step
  <2> QED
    BY <1>2, <2>1, NobodyRefuses
<1>4. /\ log' = log /\ taken' = taken /\ finished' = finished
      /\ finished = FALSE /\ log \in Seq(Event) /\ taken \in [Query -> Seq(WindowState(Id))]
  BY DEF AdvanceTo, EngineInv, TypeOK
<1>5. Id' = Id
  BY <1>4 DEF Id
<1>6. ASSUME NEW q \in Query
      PROVE  QueryInv(Ring[q], Capacity[q], queries'[q], taken'[q], Id', finished')
  <2>1. QueryInv(Ring[q], Capacity[q], queries[q], taken[q], Id, FALSE)
    BY <1>4 DEF EngineInv
  <2>2. CanAdvance(queries[q], Ring[q], Capacity[q], Target(q, ts))
    BY DEF AdvanceTo, AdvancePreflight, EnsureCanAdvance
  <2>3. Target(q, ts) \in Nat
    BY <1>1, TargetType
  <2>4. Ring[q] \in Nat \ {0} /\ Capacity[q] \in Nat
    BY QueryConstants
  <2>5. QueryInv(Ring[q], Capacity[q],
                 AdvanceToBucket(queries[q], Ring[q], Target(q, ts)), taken[q], Id, FALSE)
    BY <2>1, <2>2, <2>3, <2>4, AdvanceKeeps
  <2>6. queries'[q] = AdvanceToBucket(queries[q], Ring[q], Target(q, ts))
    BY <1>3
  <2> QED
    BY <1>4, <1>5, <2>5, <2>6
<1>7. /\ DOMAIN queries' = Query /\ DOMAIN taken' = Query
      /\ queries' = [q \in Query |-> queries'[q]]
      /\ taken' = [q \in Query |-> taken'[q]]
  BY <1>3, <1>4
<1>8. result' \in {"ok", "backpressure"} /\ finished' \in BOOLEAN /\ log' \in Seq(Event)
  BY <1>3, <1>4
<1> QED
  BY <1>3, <1>6, <1>7, <1>8, Assemble

(* finish keeps the invariant: the trailing windows come last and fit. *)
LEMMA FinishStep ==
  ASSUME EngineInv, Finish
  PROVE  EngineInv'
<1>1. /\ log' = log /\ taken' = taken /\ finished' = TRUE /\ finished = FALSE
      /\ result' = "ok" /\ log \in Seq(Event) /\ taken \in [Query -> Seq(WindowState(Id))]
      /\ queries' = [q \in Query |-> FinishQuery(queries[q])]
  BY DEF Finish, EngineInv, TypeOK
<1>2. Id' = Id
  BY <1>1 DEF Id
<1>3. ASSUME NEW q \in Query
      PROVE  QueryInv(Ring[q], Capacity[q], queries'[q], taken'[q], Id', finished')
  <2>1. QueryInv(Ring[q], Capacity[q], queries[q], taken[q], Id, FALSE)
    BY <1>1 DEF EngineInv
  <2>2. queries[q].buckets # <<>> => CanEmit(queries[q], Capacity[q], 1)
    BY DEF Finish, FinishPreflight, EnsureCanFinish
  <2>3. Ring[q] \in Nat \ {0} /\ Capacity[q] \in Nat
    BY QueryConstants
  <2>4. QueryInv(Ring[q], Capacity[q], FinishQuery(queries[q]), taken[q], Id, TRUE)
    BY <2>1, <2>2, <2>3, FinishKeeps
  <2> QED
    BY <1>1, <1>2, <2>4
<1>4. /\ DOMAIN queries' = Query /\ DOMAIN taken' = Query
      /\ queries' = [q \in Query |-> queries'[q]]
      /\ taken' = [q \in Query |-> taken'[q]]
  BY <1>1
<1>5. result' \in {"ok", "backpressure"} /\ finished' \in BOOLEAN /\ log' \in Seq(Event)
  BY <1>1
<1> QED
  BY <1>3, <1>4, <1>5, Assemble

(* Draining keeps the invariant: pending windows become taken ones. *)
LEMMA TakeStep ==
  ASSUME EngineInv, TakeWindowStates
  PROVE  EngineInv'
<1>1. /\ log' = log /\ finished' = finished /\ result' = "ok"
      /\ log \in Seq(Event) /\ finished \in BOOLEAN
      /\ taken' = [q \in Query |-> taken[q] \o queries[q].emitted]
      /\ queries' = [q \in Query |-> [queries[q] EXCEPT !.emitted = <<>>]]
  BY DEF TakeWindowStates, EngineInv, TypeOK
<1>2. Id' = Id
  BY <1>1 DEF Id
<1>3. ASSUME NEW q \in Query
      PROVE  QueryInv(Ring[q], Capacity[q], queries'[q], taken'[q], Id', finished')
  <2>1. QueryInv(Ring[q], Capacity[q], queries[q], taken[q], Id, finished)
    BY DEF EngineInv
  <2>2. Ring[q] \in Nat /\ Capacity[q] \in Nat
    BY QueryConstants
  <2>3. QueryInv(Ring[q], Capacity[q], [queries[q] EXCEPT !.emitted = <<>>],
                 taken[q] \o queries[q].emitted, Id, finished)
    BY <2>1, <2>2, TakeKeeps
  <2>4. /\ queries'[q] = [queries[q] EXCEPT !.emitted = <<>>]
        /\ taken'[q] = taken[q] \o queries[q].emitted
    BY <1>1, Zenon
  <2> QED
    BY <1>1, <1>2, <2>3, <2>4
<1>4. /\ DOMAIN queries' = Query /\ DOMAIN taken' = Query
      /\ queries' = [q \in Query |-> queries'[q]]
      /\ taken' = [q \in Query |-> taken'[q]]
  BY <1>1
<1>5. result' \in {"ok", "backpressure"} /\ finished' \in BOOLEAN /\ log' \in Seq(Event)
  BY <1>1
<1> QED
  BY <1>3, <1>4, <1>5, Assemble

(* A refused call, or no call at all. *)
LEMMA IdleStep ==
  ASSUME EngineInv, result' \in {"ok", "backpressure"},
         UNCHANGED <<queries, log, taken, finished>>
  PROVE  EngineInv'
BY DEF EngineInv, TypeOK, Id

(* Every call, accepted or refused, keeps the invariant. *)
LEMMA NextKeeps ==
  ASSUME EngineInv, [Next]_vars
  PROVE  EngineInv'
<1>1. ASSUME NEW e \in Event, Process(e) PROVE EngineInv'
  BY <1>1, ProcessStep
<1>2. ASSUME NEW ts \in Ts, AdvanceTo(ts) PROVE EngineInv'
  BY <1>2, AdvanceStep
<1>3. CASE Refuse
  BY <1>3, IdleStep DEF Refuse
<1>4. CASE Finish
  BY <1>4, FinishStep
<1>5. CASE RefuseFinish
  BY <1>5, IdleStep DEF RefuseFinish
<1>6. CASE TakeWindowStates
  BY <1>6, TakeStep
<1>7. CASE UNCHANGED vars
  <2>1. result' \in {"ok", "backpressure"}
    BY <1>7 DEF EngineInv, TypeOK, vars
  <2> QED
    BY <1>7, <2>1, IdleStep DEF vars
<1> QED
  BY <1>1, <1>2, <1>3, <1>4, <1>5, <1>6, <1>7 DEF Next

(* The inductive invariant holds of every reachable state of the engine.   *)
THEOREM EngineInvariant == Spec => []EngineInv
BY InitKeeps, NextKeeps, PTL DEF Spec

(* Every value the engine holds is well typed: buckets, completed windows  *)
(* and late events only ever name events it has counted.                   *)
THEOREM TypeCorrect == Spec => []TypeOK
<1>1. EngineInv => TypeOK
  BY DEF EngineInv
<1> QED
  BY <1>1, EngineInvariant, PTL

(* advance_to_bucket keeps at most window_buckets consecutive buckets,     *)
(* whether it slides or fast-forwards over a gap.                          *)
THEOREM RingStaysConsecutive == Spec => []RingShape
<1>1. EngineInv => RingShape
  BY DEF EngineInv, QueryInv, RingShape
<1> QED
  BY <1>1, EngineInvariant, PTL

(* The completed windows of a query never exceed pending_window_capacity.  *)
THEOREM PendingStaysBounded == Spec => []PendingBounded
<1>1. EngineInv => PendingBounded
  BY DEF EngineInv, QueryInv, PendingBounded
<1> QED
  BY <1>1, EngineInvariant, PTL

(* Completed windows come out in time order, across slides, gaps, drains   *)
(* and the final flush.                                                    *)
THEOREM WindowsComeOutInOrder == Spec => []WindowsInOrder
<1>1. EngineInv => WindowsInOrder
  BY DEF EngineInv, QueryInv, WindowsInOrder, Completed
<1> QED
  BY <1>1, EngineInvariant, PTL

(* After a drain no call is refused: the planned capacity is enough for    *)
(* the most windows one call can close.                                    *)
THEOREM DrainAlwaysUnblocks == Spec => []DrainUnblocks
<1>1. EngineInv => DrainUnblocks
  <2> SUFFICES ASSUME EngineInv, \A q \in Query : queries[q].emitted = <<>>
               PROVE  /\ \A e \in Event : ProcessPreflight(e)
                      /\ \A ts \in Ts : AdvancePreflight(ts)
                      /\ FinishPreflight
    BY DEF DrainUnblocks
  <2>1. ASSUME NEW q \in Query, NEW n \in 0 .. Ring[q]
        PROVE  CanEmit(queries[q], Capacity[q], n)
    <3>1. Len(queries[q].emitted) = 0
      BY EmptySeq
    <3> QED
      BY <3>1, QueryConstants DEF CanEmit
  <2>2. ASSUME NEW q \in Query, NEW ts \in Ts
        PROVE  EnsureCanAdvance(q, ts)
    <3>1. Target(q, ts) \in Nat
      BY TargetType, ConstantsAssumption, SMTT(40) DEF Ts
    <3>2. queries[q] \in RunningQuery(Id) /\ Ring[q] \in Nat \ {0}
      BY QueryConstants DEF EngineInv, QueryInv
    <3>3. WindowsClosedByAdvance(queries[q], Ring[q], Target(q, ts)) \in 0 .. Ring[q]
      BY <3>1, <3>2, ClosedBounded
    <3> QED
      BY <2>1, <3>3 DEF EnsureCanAdvance, CanAdvance
  <2>3. ASSUME NEW q \in Query PROVE EnsureCanFinish(q)
    <3>1. 1 \in 0 .. Ring[q]
      BY QueryConstants
    <3> QED
      BY <2>1, <3>1 DEF EnsureCanFinish
  <2>4. \A e \in Event : e.ts \in Ts
    BY DEF Event
  <2> QED
    BY <2>2, <2>3, <2>4
    DEF ProcessPreflight, EnsureCanProcess, AdvancePreflight, FinishPreflight
<1> QED
  BY <1>1, EngineInvariant, PTL

(* Backpressure is all or nothing: the preflight of process and advance_to *)
(* leaves nothing for the second loop to refuse, in any query.             *)
THEOREM BackpressureChangesNothing == Spec => AllOrNothing
<1>1. ASSUME EngineInv, [Next]_vars, result' = "backpressure"
      PROVE  UNCHANGED <<queries, log, taken>> \/ UNCHANGED vars
  <2>1. ASSUME NEW e \in Event, Process(e) PROVE FALSE
    BY <1>1, <2>1, ProcessStep
  <2>2. ASSUME NEW ts \in Ts, AdvanceTo(ts) PROVE FALSE
    BY <1>1, <2>2, AdvanceStep
  <2>3. ~Finish /\ ~TakeWindowStates
    BY <1>1 DEF Finish, TakeWindowStates
  <2> QED
    BY <1>1, <2>1, <2>2, <2>3 DEF Next, Refuse, RefuseFinish
<1>2. EngineInv /\ [Next]_vars =>
        [result' = "backpressure" => UNCHANGED <<queries, log, taken>>]_vars
  BY <1>1
<1> QED
  BY <1>2, EngineInvariant, PTL DEF Spec, AllOrNothing

-------------------------------------------------------------------------------
(***************************************************************************)
(* Contents: no accepted event is lost, and the engine implements          *)
(* SlidingWindows.                                                         *)
(***************************************************************************)

(* The events query q matched, and the slide each event belongs to. *)
Mine(q) == {i \in Id : q \in log[i].match}

Slots(q) == [i \in Id |-> Target(q, log[i].ts)]

(***************************************************************************)
(* The strengthening of the engine's invariant by contents: the buckets    *)
(* hold exactly the accepted events of their slides, no accepted event is  *)
(* newer than the ring, and each one that is older than the ring's front   *)
(* (or, after finish, each one) is in a completed window.                  *)
(***************************************************************************)
Accounted(rq, ws, N, slot, fin) ==
  \A i \in N : InSome(ws, i) \/ (~fin /\ FrontStart(rq) <= slot[i])

ContentInv(rq, tk, M, slot, fin) ==
  /\ BucketsExact(rq.buckets, M \ rq.late, slot)
  /\ NoneNewer(rq.buckets, M \ rq.late, slot)
  /\ Accounted(rq, tk \o rq.emitted, M \ rq.late, slot, fin)

ExactInv ==
  /\ EngineInv
  /\ \A q \in Query :
       ContentInv(queries[q], taken[q], Mine(q), Slots(q), finished)

(* advance_to_bucket: an event that falls off the front of the ring is in  *)
(* the first window the move flushes.                                      *)
LEMMA AdvanceKeepsContent ==
  ASSUME NEW ring \in Nat \ {0}, NEW capacity \in Nat, NEW rq, NEW tk, NEW I,
         NEW target \in Nat, NEW M, NEW slot, \A i \in M : slot[i] \in Nat,
         QueryInv(ring, capacity, rq, tk, I, FALSE),
         ContentInv(rq, tk, M, slot, FALSE)
  PROVE  ContentInv(AdvanceToBucket(rq, ring, target), tk, M, slot, FALSE)
<1> DEFINE moved == AdvanceToBucket(rq, ring, target)
           k     == WindowsClosedByAdvance(rq, ring, target)
           bs    == rq.buckets
           fl    == FlushedWindows(bs, ring, k)
           N     == M \ rq.late
           S     == WindowState(I)
<1>1. rq \in RunningQuery(I) /\ RingOK(bs, ring) /\ tk \in Seq(S)
  BY DEF QueryInv
<1>2. bs \in Seq(Bucket(I)) /\ rq.emitted \in Seq(S)
  BY <1>1 DEF RunningQuery
<1>3. /\ BucketsExact(bs, N, slot) /\ NoneNewer(bs, N, slot)
      /\ Accounted(rq, tk \o rq.emitted, N, slot, FALSE)
  BY DEF ContentInv
<1>4. \A i \in N : slot[i] \in Nat
  OBVIOUS
<1>5. k \in 0 .. ring
  BY <1>1, ClosedBounded
<1>6. /\ moved \in RunningQuery(I) /\ moved.late = rq.late
      /\ FrontStart(moved) \in Nat
      /\ bs # <<>> => BackStart(rq) \in Nat /\ FrontStart(rq) \in Nat
  BY <1>1, AdvanceEnds
<1>7. /\ moved \in RunningQuery(I)
      /\ moved.buckets # <<>> /\ RingOK(moved.buckets, ring)
      /\ moved.late = rq.late
      /\ bs = <<>> => moved.emitted = rq.emitted /\ BackStart(moved) = target
      /\ bs # <<>> =>
           /\ moved.emitted = rq.emitted \o fl
           /\ BackStart(moved) = Larger(BackStart(rq), target)
           /\ FrontStart(moved) = Larger(FrontStart(rq), target + 1 - ring)
  BY <1>1, AdvanceLemma, ZenonT(60)
<1>8. BucketsExact(moved.buckets, N, slot) /\ NoneNewer(moved.buckets, N, slot)
  BY <1>1, <1>3, <1>4, AdvanceExact
<1>9. ASSUME NEW i \in N
      PROVE  InSome(tk \o moved.emitted, i) \/ FrontStart(moved) <= slot[i]
  <2>1. bs # <<>> /\ slot[i] <= BackStart(rq)
    BY <1>3 DEF NoneNewer, BackStart
  <2> DEFINE ws == tk \o rq.emitted
  <2>2. fl \in Seq(S) /\ Len(fl) = k
    BY <1>1, <1>2, <1>5, <2>1, FlushedLemma
  <2>3. ws \in Seq(S)
    BY <1>1, <1>2, ConcatProperties
  <2>4. tk \o moved.emitted = ws \o fl
    <3>1. moved.emitted = rq.emitted \o fl
      BY <1>7, <2>1
    <3> DEFINE em == rq.emitted
    <3>2. tk \in Seq(S) /\ em \in Seq(S) /\ fl \in Seq(S)
      BY <1>1, <1>2, <2>2
    <3> HIDE DEF em, fl, S
    <3>3. tk \o (em \o fl) = (tk \o em) \o fl
      BY <3>2, ConcatAssociative
    <3> QED
      BY <3>1, <3>3 DEF em
  <2>5. InSome(ws, i) \/ FrontStart(rq) <= slot[i]
    BY <1>3 DEF Accounted
  <2>6. CASE InSome(ws, i)
    <3> HIDE DEF ws, fl, S
    <3> QED
      BY <2>2, <2>3, <2>4, <2>6, InSomeConcat
  <2>7. CASE FrontStart(rq) <= slot[i] /\ ~(FrontStart(moved) <= slot[i])
    <3> DEFINE front == FrontStart(rq)
               back  == BackStart(rq)
    <3>1. /\ front \in Nat /\ back \in Nat /\ slot[i] \in Nat
          /\ front = bs[1].start /\ back = bs[Len(bs)].start
          /\ back = front + (Len(bs) - 1) /\ Len(bs) \in Nat /\ Len(bs) <= ring
      BY <1>1, <1>2, <1>4, <2>1, EndsLemma DEF FrontStart, BackStart
    <3>2. Larger(front, target + 1 - ring) = FrontStart(moved)
      BY <1>7, <2>1
    <3> HIDE DEF front, back, moved
    <3>3. target + 1 - ring > slot[i] /\ Larger(front, back + 1 - ring) = front
      <4> DEFINE fm == FrontStart(moved)
                 x  == slot[i]
                 t  == target + 1 - ring
      <4>1. fm \in Nat /\ fm = Larger(front, t) /\ front <= x /\ ~(fm <= x)
        BY <1>6, <2>7, <3>2 DEF front
      <4>2. x \in Nat /\ t \in Int
        BY <3>1
      <4> HIDE DEF fm, x, t
      <4>3. t > x
        BY <3>1, <4>1, <4>2 DEF Larger
      <4>4. Larger(front, back + 1 - ring) = front
        BY <3>1 DEF Larger
      <4> QED
        BY <4>3, <4>4 DEF t, x
    <3>4. target > back
      BY <2>7, <3>1, <3>3, SMTT(40) DEF front
    <3>5. k >= 1
      BY <2>1, <3>1, <3>4 DEF WindowsClosedByAdvance, Smaller, back
    <3>6. 1 \in 1 .. k /\ k \in Nat
      BY <1>5, <3>5
    <3> HIDE DEF k
    <3>7. fl[1].ids = Between(N, slot, Larger(front, back + 1 - ring), back + 1 - 1)
      <4> HIDE DEF N
      <4>1. LET b == bs[Len(bs)].start
            IN  FlushedWindows(bs, ring, k)[1].ids =
                  Between(N, slot, Larger(bs[1].start, b + 1 - ring), b + 1 - 1)
        BY <1>1, <1>2, <1>3, <1>4, <2>1, <3>6, FlushedExact, SMTT(40)
      <4> HIDE DEF bs
      <4> QED
        BY <3>1, <4>1
    <3>8. i \in fl[1].ids
      <4>1. front <= slot[i] /\ slot[i] <= back + 1 - 1
        BY <2>1, <2>7, <3>1 DEF front, back
      <4> QED
        BY <3>3, <3>7, <4>1 DEF Between
    <3> HIDE DEF fl, ws, S
    <3>9. InSome(fl, i)
      BY <2>2, <3>6, <3>8 DEF InSome
    <3> QED
      BY <2>2, <2>3, <2>4, <3>9, InSomeConcat
  <2> QED
    BY <2>5, <2>6, <2>7
<1> HIDE DEF moved
<1>10. Accounted(moved, tk \o moved.emitted, N, slot, FALSE)
  BY <1>9 DEF Accounted
<1> QED
  BY <1>6, <1>8, <1>10 DEF ContentInv, moved

(* Only the slides of the query's own events matter. *)
LEMMA SameSlots ==
  ASSUME NEW rq, NEW tk, NEW M, NEW slot, NEW new, NEW fin,
         ContentInv(rq, tk, M, slot, fin), \A i \in M : new[i] = slot[i]
  PROVE  ContentInv(rq, tk, M, new, fin)
<1> DEFINE N == M \ rq.late
<1>1. \A i \in N : new[i] = slot[i]
  OBVIOUS
<1>2. /\ BucketsExact(rq.buckets, N, slot) /\ NoneNewer(rq.buckets, N, slot)
      /\ Accounted(rq, tk \o rq.emitted, N, slot, fin)
  BY DEF ContentInv
<1> HIDE DEF N
<1>3. BucketsExact(rq.buckets, N, new)
  BY <1>1, <1>2 DEF BucketsExact
<1>4. NoneNewer(rq.buckets, N, new)
  BY <1>1, <1>2 DEF NoneNewer
<1>5. Accounted(rq, tk \o rq.emitted, N, new, fin)
  BY <1>1, <1>2 DEF Accounted
<1> QED
  BY <1>3, <1>4, <1>5 DEF ContentInv, N

(* process: the event is counted late or is in an open bucket. *)
LEMMA ProcessKeepsContent ==
  ASSUME NEW ring \in Nat \ {0}, NEW capacity \in Nat, NEW rq, NEW tk, NEW I,
         NEW bucket \in Nat, NEW id \in I, NEW M, NEW slot,
         \A i \in M : slot[i] \in Nat,
         id \notin M, id \notin rq.late, InSlide(slot, id, bucket),
         QueryInv(ring, capacity, rq, tk, I, FALSE),
         ContentInv(rq, tk, M, slot, FALSE)
  PROVE  ContentInv(ProcessMatching(rq, ring, bucket, id), tk, M \cup {id}, slot, FALSE)
<1> DEFINE moved == AdvanceToBucket(rq, ring, bucket)
           after == ProcessMatching(rq, ring, bucket, id)
           old   == bucket < FrontStart(moved)
           N     == M \ rq.late
           N2    == IF old THEN N ELSE N \cup {id}
<1>1. rq \in RunningQuery(I) /\ RingOK(rq.buckets, ring)
  BY DEF QueryInv
<1>2. BucketsExact(rq.buckets, N, slot) /\ NoneNewer(rq.buckets, N, slot)
  BY DEF ContentInv
<1>3. ContentInv(moved, tk, M, slot, FALSE) /\ moved.late = rq.late
      /\ FrontStart(moved) \in Nat
  <2>1. ContentInv(moved, tk, M, slot, FALSE)
    BY AdvanceKeepsContent
  <2>2. moved.late = rq.late /\ FrontStart(moved) \in Nat
    BY <1>1, AdvanceEnds
  <2> QED
    BY <2>1, <2>2
<1>4. /\ after \in RunningQuery(I)
      /\ after.emitted = moved.emitted
      /\ after.buckets # <<>> /\ RingOK(after.buckets, ring)
      /\ BackStart(after) = BackStart(moved)
      /\ FrontStart(after) = FrontStart(moved)
  BY <1>1, ProcessLemma
<1>5. \A i \in N : slot[i] \in Nat
  OBVIOUS
<1>6. /\ after.late = IF old THEN rq.late \cup {id} ELSE rq.late
      /\ BucketsExact(after.buckets, N2, slot)
      /\ NoneNewer(after.buckets, N2, slot)
  <2> HIDE DEF N
  <2>1. /\ old => after.late = rq.late \cup {id}
        /\ ~old => after.late = rq.late
        /\ old => /\ BucketsExact(after.buckets, N, slot)
                  /\ NoneNewer(after.buckets, N, slot)
        /\ ~old => /\ BucketsExact(after.buckets, N \cup {id}, slot)
                   /\ NoneNewer(after.buckets, N \cup {id}, slot)
    BY <1>1, <1>2, <1>5, ProcessExact
  <2> HIDE DEF old, after
  <2> QED
    BY <2>1
<1> HIDE DEF moved, after
<1>7. (M \cup {id}) \ after.late = N2
  BY <1>6
<1>8. ASSUME NEW i \in N2
      PROVE  InSome(tk \o after.emitted, i) \/ FrontStart(after) <= slot[i]
  <2>1. CASE i \in N
    <3>1. InSome(tk \o moved.emitted, i) \/ FrontStart(moved) <= slot[i]
      BY <1>3, <2>1 DEF ContentInv, Accounted
    <3> QED
      BY <1>4, <3>1
  <2>2. CASE i = id /\ ~old
    BY <1>3, <1>4, <2>2 DEF InSlide
  <2> QED
    BY <2>1, <2>2
<1> HIDE DEF N2
<1>9. Accounted(after, tk \o after.emitted, N2, slot, FALSE)
  BY <1>8 DEF Accounted
<1> QED
  BY <1>6, <1>7, <1>9 DEF ContentInv, after

(* finish: the trailing window holds every event still in an open bucket.  *)
LEMMA FinishKeepsContent ==
  ASSUME NEW ring \in Nat \ {0}, NEW capacity \in Nat, NEW rq, NEW tk, NEW I,
         NEW M, NEW slot, \A i \in M : slot[i] \in Nat,
         QueryInv(ring, capacity, rq, tk, I, FALSE),
         ContentInv(rq, tk, M, slot, FALSE)
  PROVE  /\ ContentInv(FinishQuery(rq), tk, M, slot, TRUE)
         /\ FinishQuery(rq).late = rq.late
<1> DEFINE f  == FinishQuery(rq)
           bs == rq.buckets
           N  == M \ rq.late
           S  == WindowState(I)
           ws == tk \o rq.emitted
           w  == MergedWindow(bs, BackStart(rq) + 1)
<1>1. rq \in RunningQuery(I) /\ RingOK(bs, ring) /\ tk \in Seq(S)
  BY DEF QueryInv
<1>2. /\ bs \in Seq(Bucket(I)) /\ rq.emitted \in Seq(S)
      /\ DOMAIN rq = {"buckets", "emitted", "late"}
  BY <1>1 DEF RunningQuery
<1>3. /\ BucketsExact(bs, N, slot) /\ NoneNewer(bs, N, slot)
      /\ Accounted(rq, ws, N, slot, FALSE)
  BY DEF ContentInv
<1>4. \A i \in N : slot[i] \in Nat
  OBVIOUS
<1>5. CASE bs = <<>>
  <2>1. f = rq
    BY <1>5 DEF FinishQuery
  <2>2. N = {}
    BY <1>3, <1>5 DEF NoneNewer
  <2> HIDE DEF f, N
  <2>3. Accounted(rq, ws, N, slot, TRUE)
    BY <2>2 DEF Accounted
  <2> QED
    BY <1>3, <2>1, <2>3 DEF ContentInv, N, f
<1>6. CASE bs # <<>>
  <2>1. f = [rq EXCEPT !.emitted = Append(@, w)]
    BY <1>6 DEF FinishQuery
  <2>2. w \in S
    <3>1. BackStart(rq) + 1 \in Nat
      BY <1>1, <1>2, <1>6, EndsLemma DEF BackStart
    <3> QED
      BY <1>2, <1>6, <3>1, MergedLemma
  <2>3. w.ids = Between(N, slot, FrontStart(rq), BackStart(rq))
    <3> HIDE DEF N
    <3> QED
      BY <1>1, <1>2, <1>3, <1>4, <1>6, MergeExact DEF FrontStart, BackStart
  <2> HIDE DEF w
  <2>4. /\ f.buckets = bs /\ f.late = rq.late
        /\ f.emitted = Append(rq.emitted, w)
    BY <1>2, <2>1
  <2> DEFINE vs == <<w>>
             em == rq.emitted
  <2>5. vs \in Seq(S) /\ Len(vs) = 1 /\ vs[1] = w
    BY <2>2
  <2>6. f.emitted = em \o vs
    BY <1>2, <2>4, AppendIsConcat
  <2> HIDE DEF f, vs, em, S, N
  <2>7. tk \o f.emitted = ws \o vs
    <3>1. tk \in Seq(S) /\ em \in Seq(S) /\ vs \in Seq(S)
      BY <1>1, <1>2, <2>5 DEF em
    <3>2. tk \o (em \o vs) = (tk \o em) \o vs
      BY <3>1, ConcatAssociative
    <3> QED
      BY <2>6, <3>2 DEF em
  <2>8. ws \in Seq(S)
    BY <1>1, <1>2, ConcatProperties
  <2>9. ASSUME NEW i \in N PROVE InSome(tk \o f.emitted, i)
    <3>1. CASE InSome(ws, i)
      <4> HIDE DEF ws
      <4> QED
        BY <2>5, <2>7, <2>8, <3>1, InSomeConcat
    <3>2. CASE FrontStart(rq) <= slot[i]
      <4>1. slot[i] <= BackStart(rq)
        BY <1>3 DEF NoneNewer, BackStart
      <4>2. i \in w.ids
        BY <2>3, <3>2, <4>1 DEF Between
      <4>3. InSome(vs, i)
        BY <2>5, <4>2 DEF InSome
      <4> HIDE DEF ws
      <4> QED
        BY <2>5, <2>7, <2>8, <4>3, InSomeConcat
    <3> QED
      BY <1>3, <3>1, <3>2 DEF Accounted
  <2>10. Accounted(f, tk \o f.emitted, N, slot, TRUE)
    BY <2>9 DEF Accounted
  <2> QED
    BY <1>3, <2>4, <2>10 DEF ContentInv, N, f
<1> QED
  BY <1>5, <1>6

(* Draining moves windows, it loses none. *)
LEMMA TakeKeepsContent ==
  ASSUME NEW ring, NEW capacity, NEW rq, NEW tk, NEW I, NEW M, NEW slot, NEW fin,
         QueryInv(ring, capacity, rq, tk, I, fin),
         ContentInv(rq, tk, M, slot, fin)
  PROVE  ContentInv([rq EXCEPT !.emitted = <<>>], tk \o rq.emitted, M, slot, fin)
<1> DEFINE d  == [rq EXCEPT !.emitted = <<>>]
           ws == tk \o rq.emitted
<1>1. rq \in RunningQuery(I) /\ tk \in Seq(WindowState(I))
  BY DEF QueryInv
<1>2. d.buckets = rq.buckets /\ d.emitted = <<>> /\ d.late = rq.late
  BY <1>1 DEF RunningQuery
<1>3. rq.emitted \in Seq(WindowState(I))
  BY <1>1 DEF RunningQuery
<1>4. ws \in Seq(WindowState(I))
  BY <1>1, <1>3, ConcatProperties
<1> HIDE DEF d
<1>5. ws \o d.emitted = ws
  <2> HIDE DEF ws
  <2> QED
    BY <1>2, <1>4, ConcatEmptySeq
<1>6. FrontStart(d) = FrontStart(rq)
  BY <1>2 DEF FrontStart
<1>7. ContentInv(d, ws, M, slot, fin)
  BY <1>2, <1>5, <1>6 DEF ContentInv, Accounted
<1> QED
  BY <1>7 DEF d

-------------------------------------------------------------------------------
(* An event a query has matched has a slide. *)
LEMMA SlotType ==
  ASSUME TypeOK, NEW q \in Query, NEW i \in Id
  PROVE  /\ log[i] \in Event /\ Slots(q)[i] = Target(q, log[i].ts)
         /\ Slots(q)[i] \in Nat
<1>1. log[i] \in Event
  BY SeqElements DEF TypeOK, Id
<1>2. log[i].ts \in Nat
  BY <1>1, ConstantsAssumption DEF Event, Ts
<1>3. Target(q, log[i].ts) \in Nat
  BY <1>2, TargetType
<1>4. Slots(q)[i] = Target(q, log[i].ts)
  BY DEF Slots
<1> QED
  BY <1>1, <1>3, <1>4

(* What a counted event adds: itself, and nothing about the older ones.    *)
LEMMA LogGrows ==
  ASSUME TypeOK, NEW e \in Event, log' = Append(log, e), NEW q \in Query
  PROVE  LET id == Len(log) + 1
         IN  /\ id \notin Id /\ id \in Id' /\ Id \subseteq Id' /\ Id' = Id \cup {id}
             /\ \A i \in Id : log'[i] = log[i] /\ Slots(q)'[i] = Slots(q)[i]
             /\ log'[id] = e /\ Slots(q)'[id] = Target(q, e.ts)
             /\ Mine(q)' = IF q \in e.match THEN Mine(q) \cup {id} ELSE Mine(q)
<1> DEFINE id == Len(log) + 1
<1>1. log \in Seq(Event) /\ Len(log) \in Nat
  BY LenProperties DEF TypeOK
<1>2. /\ Len(log') = Len(log) + 1
      /\ \A i \in 1 .. Len(log) : log'[i] = log[i]
      /\ log'[Len(log) + 1] = e
  BY <1>1, AppendProperties
<1>3. id \notin Id /\ id \in Id' /\ Id \subseteq Id' /\ Id' = Id \cup {id}
  BY <1>1, <1>2 DEF Id
<1>4. \A i \in Id : log'[i] = log[i]
  BY <1>2 DEF Id
<1>5. \A i \in Id' : Slots(q)'[i] = Target(q, log'[i].ts)
  BY DEF Slots, Target
<1>6. \A i \in Id : Slots(q)[i] = Target(q, log[i].ts)
  BY DEF Slots
<1>7. log'[id] = e
  BY <1>2
<1>8. Mine(q)' = {i \in Id' : q \in log'[i].match} /\ Mine(q) = {i \in Id : q \in log[i].match}
  BY DEF Mine
<1> HIDE DEF id
<1>9. Mine(q)' = IF q \in e.match THEN Mine(q) \cup {id} ELSE Mine(q)
  BY <1>3, <1>4, <1>7, <1>8
<1>10. \A i \in Id : Slots(q)'[i] = Slots(q)[i]
  BY <1>3, <1>4, <1>5, <1>6
<1> QED
  BY <1>3, <1>4, <1>5, <1>7, <1>9, <1>10 DEF id

(* The events and slides of a query only change with the log. *)
LEMMA LogStays ==
  ASSUME log' = log, NEW q
  PROVE  Id' = Id /\ Mine(q)' = Mine(q) /\ Slots(q)' = Slots(q)
BY DEF Id, Mine, Slots, Target

(* What process does to one query of the vector. *)
LEMMA ProcessEffect ==
  ASSUME EngineInv, NEW e \in Event, Process(e), NEW q \in Query
  PROVE  /\ queries'[q] = IF q \in e.match
                            THEN ProcessMatching(queries[q], Ring[q], Target(q, e.ts), Len(log) + 1)
                            ELSE queries[q]
         /\ log' = Append(log, e) /\ taken' = taken /\ finished' = finished
         /\ finished = FALSE
         /\ q \in e.match =>
              CanAdvance(queries[q], Ring[q], Capacity[q], Target(q, e.ts))
<1> DEFINE refuses == {p \in e.match : ~EnsureCanAdvance(p, e.ts)}
           step == [p \in Query |->
                     IF p \in e.match
                       THEN ProcessMatching(queries[p], Ring[p], Target(p, e.ts), Len(log) + 1)
                       ELSE queries[p]]
<1>1. e.match \subseteq Query
  BY DEF Event
<1>2. refuses = {}
  BY <1>1 DEF Process, ProcessPreflight, EnsureCanProcess
<1>3. queries' = ApplyInOrder(refuses, step)
  BY DEF Process
<1>4. queries' = [p \in Query |-> step[p]]
  <2> HIDE DEF refuses, step
  <2> QED
    BY <1>2, <1>3, NobodyRefuses
<1>5. queries'[q] = step[q]
  BY <1>4
<1>6. q \in e.match => CanAdvance(queries[q], Ring[q], Capacity[q], Target(q, e.ts))
  BY DEF Process, ProcessPreflight, EnsureCanProcess, EnsureCanAdvance
<1> QED
  BY <1>5, <1>6 DEF Process, EngineInv, TypeOK

(* What advance_to does to one query of the vector. *)
LEMMA AdvanceEffect ==
  ASSUME EngineInv, NEW ts \in Ts, AdvanceTo(ts), NEW q \in Query
  PROVE  /\ queries'[q] = AdvanceToBucket(queries[q], Ring[q], Target(q, ts))
         /\ log' = log /\ taken' = taken /\ finished' = finished
         /\ finished = FALSE
         /\ CanAdvance(queries[q], Ring[q], Capacity[q], Target(q, ts))
<1> DEFINE refuses == {p \in Query : ~EnsureCanAdvance(p, ts)}
           step == [p \in Query |-> AdvanceToBucket(queries[p], Ring[p], Target(p, ts))]
<1>1. refuses = {}
  BY DEF AdvanceTo, AdvancePreflight
<1>2. queries' = ApplyInOrder(refuses, step)
  BY DEF AdvanceTo
<1>3. queries' = [p \in Query |-> step[p]]
  <2> HIDE DEF refuses, step
  <2> QED
    BY <1>1, <1>2, NobodyRefuses
<1>4. queries'[q] = step[q]
  BY <1>3
<1>5. CanAdvance(queries[q], Ring[q], Capacity[q], Target(q, ts))
  BY DEF AdvanceTo, AdvancePreflight, EnsureCanAdvance
<1> QED
  BY <1>4, <1>5 DEF AdvanceTo, EngineInv, TypeOK

(* The contents are exact in the initial state: there are none. *)
LEMMA ExactInit == Init => ExactInv
<1> SUFFICES ASSUME Init PROVE ExactInv
  OBVIOUS
<1>1. ASSUME NEW q \in Query
      PROVE  ContentInv(queries[q], taken[q], Mine(q), Slots(q), finished)
  <2>1. Id = {}
    BY EmptySeq DEF Init, Id
  <2>2. Mine(q) = {}
    BY <2>1 DEF Mine
  <2>3. queries[q].buckets = <<>>
    BY DEF Init, NewQuery
  <2>4. Len(queries[q].buckets) = 0
    BY <2>3, EmptySeq
  <2> QED
    BY <2>2, <2>4 DEF ContentInv, BucketsExact, NoneNewer, Accounted
<1> QED
  BY <1>1, InitKeeps DEF ExactInv

(* process keeps the contents exact in every query of the vector. *)
LEMMA ExactProcess ==
  ASSUME ExactInv, NEW e \in Event, Process(e)
  PROVE  ExactInv'
<1> DEFINE id == Len(log) + 1
<1>1. EngineInv /\ EngineInv' /\ TypeOK
  BY ProcessStep DEF ExactInv, EngineInv
<1>2. e.ts \in Nat
  BY ConstantsAssumption DEF Event, Ts
<1>3. ASSUME NEW q \in Query
      PROVE  ContentInv(queries'[q], taken'[q], Mine(q)', Slots(q)', finished')
  <2>1. /\ queries'[q] = IF q \in e.match
                           THEN ProcessMatching(queries[q], Ring[q], Target(q, e.ts), id)
                           ELSE queries[q]
        /\ log' = Append(log, e) /\ taken' = taken /\ finished' = finished
        /\ finished = FALSE
    BY <1>1, ProcessEffect
  <2>2. /\ id \notin Id /\ id \in Id' /\ Id \subseteq Id'
        /\ \A i \in Id : Slots(q)'[i] = Slots(q)[i]
        /\ Slots(q)'[id] = Target(q, e.ts)
        /\ Mine(q)' = IF q \in e.match THEN Mine(q) \cup {id} ELSE Mine(q)
    BY <1>1, <2>1, LogGrows
  <2>3. Mine(q) \subseteq Id
    BY DEF Mine
  <2>4. \A i \in Mine(q) : Slots(q)[i] \in Nat
    BY <1>1, <2>3, SlotType
  <2> DEFINE M == Mine(q)
             new == Slots(q)'
             rq == queries[q]
             tk == taken[q]
  <2>5. ContentInv(rq, tk, M, new, FALSE)
    <3>1. ContentInv(rq, tk, M, Slots(q), FALSE)
      BY <2>1 DEF ExactInv
    <3>2. \A i \in M : new[i] = Slots(q)[i]
      BY <2>2, <2>3
    <3> HIDE DEF M, new
    <3> QED
      BY <3>1, <3>2, SameSlots
  <2>6. \A i \in M : new[i] \in Nat
    BY <2>2, <2>3, <2>4
  <2>7. QueryInv(Ring[q], Capacity[q], rq, tk, Id', FALSE) /\ id \notin rq.late
    <3>1. QueryInv(Ring[q], Capacity[q], rq, tk, Id, FALSE)
      BY <1>1, <2>1 DEF EngineInv
    <3>2. rq \in RunningQuery(Id)
      BY <3>1 DEF QueryInv
    <3>3. rq.late \subseteq Id
      BY <3>2 DEF RunningQuery
    <3> HIDE DEF rq, tk
    <3>4. QueryInv(Ring[q], Capacity[q], rq, tk, Id', FALSE)
      BY <2>2, <3>1, GrowKeeps
    <3> QED
      BY <2>2, <3>3, <3>4
  <2>8. CASE q \in e.match
    <3>1. Target(q, e.ts) \in Nat
      BY <1>2, TargetType
    <3>2. Ring[q] \in Nat \ {0} /\ Capacity[q] \in Nat
      BY QueryConstants
    <3>3. InSlide(new, id, Target(q, e.ts)) /\ id \notin M
      BY <2>2, <2>3 DEF InSlide
    <3>4. id \in Id'
      BY <2>2
    <3> DEFINE after == ProcessMatching(rq, Ring[q], Target(q, e.ts), id)
    <3> HIDE DEF M, new, rq, tk, id
    <3>5. ContentInv(after, tk, M \cup {id}, new, FALSE)
      BY <2>5, <2>6, <2>7, <3>1, <3>2, <3>3, <3>4, ProcessKeepsContent
    <3> QED
      BY <2>1, <2>2, <2>8, <3>5 DEF M, new, rq, tk, after
  <2>9. CASE q \notin e.match
    BY <2>1, <2>2, <2>5, <2>9
  <2> QED
    BY <2>8, <2>9
<1> QED
  BY <1>1, <1>3 DEF ExactInv

(* advance_to keeps the contents exact. *)
LEMMA ExactAdvance ==
  ASSUME ExactInv, NEW ts \in Ts, AdvanceTo(ts)
  PROVE  ExactInv'
<1>1. EngineInv /\ EngineInv' /\ TypeOK
  BY AdvanceStep DEF ExactInv, EngineInv
<1>2. ts \in Nat
  BY ConstantsAssumption DEF Ts
<1>3. ASSUME NEW q \in Query
      PROVE  ContentInv(queries'[q], taken'[q], Mine(q)', Slots(q)', finished')
  <2>1. /\ queries'[q] = AdvanceToBucket(queries[q], Ring[q], Target(q, ts))
        /\ log' = log /\ taken' = taken /\ finished' = finished
        /\ finished = FALSE
    BY <1>1, AdvanceEffect
  <2>2. Mine(q)' = Mine(q) /\ Slots(q)' = Slots(q)
    BY <2>1, LogStays
  <2>3. \A i \in Mine(q) : Slots(q)[i] \in Nat
    BY <1>1, SlotType DEF Mine
  <2>4. /\ QueryInv(Ring[q], Capacity[q], queries[q], taken[q], Id, FALSE)
        /\ ContentInv(queries[q], taken[q], Mine(q), Slots(q), FALSE)
    BY <1>1, <2>1 DEF EngineInv, ExactInv
  <2>5. Ring[q] \in Nat \ {0} /\ Capacity[q] \in Nat /\ Target(q, ts) \in Nat
    BY <1>2, QueryConstants, TargetType
  <2>6. ContentInv(AdvanceToBucket(queries[q], Ring[q], Target(q, ts)), taken[q],
                   Mine(q), Slots(q), FALSE)
    BY <2>3, <2>4, <2>5, AdvanceKeepsContent
  <2> QED
    BY <2>1, <2>2, <2>6
<1> QED
  BY <1>1, <1>3 DEF ExactInv

(* finish keeps the contents exact, and leaves nothing in the ring alone.  *)
LEMMA ExactFinish ==
  ASSUME ExactInv, Finish
  PROVE  ExactInv'
<1>1. EngineInv /\ EngineInv' /\ TypeOK
  BY FinishStep DEF ExactInv, EngineInv
<1>2. /\ log' = log /\ taken' = taken /\ finished' = TRUE /\ finished = FALSE
      /\ queries' = [q \in Query |-> FinishQuery(queries[q])]
  BY <1>1 DEF Finish, TypeOK
<1>3. ASSUME NEW q \in Query
      PROVE  ContentInv(queries'[q], taken'[q], Mine(q)', Slots(q)', finished')
  <2>1. Mine(q)' = Mine(q) /\ Slots(q)' = Slots(q)
    BY <1>2, LogStays
  <2>2. \A i \in Mine(q) : Slots(q)[i] \in Nat
    BY <1>1, SlotType DEF Mine
  <2>3. /\ QueryInv(Ring[q], Capacity[q], queries[q], taken[q], Id, FALSE)
        /\ ContentInv(queries[q], taken[q], Mine(q), Slots(q), FALSE)
    BY <1>1, <1>2 DEF EngineInv, ExactInv
  <2>4. Ring[q] \in Nat \ {0} /\ Capacity[q] \in Nat
    BY QueryConstants
  <2>5. ContentInv(FinishQuery(queries[q]), taken[q], Mine(q), Slots(q), TRUE)
    BY <2>2, <2>3, <2>4, FinishKeepsContent
  <2>6. queries'[q] = FinishQuery(queries[q])
    BY <1>2
  <2> QED
    BY <1>2, <2>1, <2>5, <2>6
<1> QED
  BY <1>1, <1>3 DEF ExactInv

(* Draining keeps the contents exact. *)
LEMMA ExactTake ==
  ASSUME ExactInv, TakeWindowStates
  PROVE  ExactInv'
<1>1. EngineInv /\ EngineInv'
  BY TakeStep DEF ExactInv
<1>2. /\ log' = log /\ finished' = finished
      /\ taken' = [q \in Query |-> taken[q] \o queries[q].emitted]
      /\ queries' = [q \in Query |-> [queries[q] EXCEPT !.emitted = <<>>]]
  BY DEF TakeWindowStates
<1>3. ASSUME NEW q \in Query
      PROVE  ContentInv(queries'[q], taken'[q], Mine(q)', Slots(q)', finished')
  <2>1. Mine(q)' = Mine(q) /\ Slots(q)' = Slots(q)
    BY <1>2, LogStays
  <2>2. /\ QueryInv(Ring[q], Capacity[q], queries[q], taken[q], Id, finished)
        /\ ContentInv(queries[q], taken[q], Mine(q), Slots(q), finished)
    BY <1>1 DEF EngineInv, ExactInv
  <2>3. ContentInv([queries[q] EXCEPT !.emitted = <<>>], taken[q] \o queries[q].emitted,
                   Mine(q), Slots(q), finished)
    BY <2>2, TakeKeepsContent
  <2>4. /\ queries'[q] = [queries[q] EXCEPT !.emitted = <<>>]
        /\ taken'[q] = taken[q] \o queries[q].emitted
    BY <1>2, Zenon
  <2> QED
    BY <1>2, <2>1, <2>3, <2>4
<1> QED
  BY <1>1, <1>3 DEF ExactInv

(* A refused call, or no call at all, keeps the contents. *)
LEMMA ExactIdle ==
  ASSUME ExactInv, result' \in {"ok", "backpressure"},
         UNCHANGED <<queries, log, taken, finished>>
  PROVE  ExactInv'
<1>1. EngineInv'
  BY IdleStep DEF ExactInv
<1>2. \A q \in Query : Mine(q)' = Mine(q) /\ Slots(q)' = Slots(q)
  BY LogStays
<1> QED
  BY <1>1, <1>2 DEF ExactInv

(* Every call keeps the contents exact. *)
LEMMA ExactNext ==
  ASSUME ExactInv, [Next]_vars
  PROVE  ExactInv'
<1>1. ASSUME NEW e \in Event, Process(e) PROVE ExactInv'
  BY <1>1, ExactProcess
<1>2. ASSUME NEW ts \in Ts, AdvanceTo(ts) PROVE ExactInv'
  BY <1>2, ExactAdvance
<1>3. CASE Refuse
  BY <1>3, ExactIdle DEF Refuse
<1>4. CASE Finish
  BY <1>4, ExactFinish
<1>5. CASE RefuseFinish
  BY <1>5, ExactIdle DEF RefuseFinish
<1>6. CASE TakeWindowStates
  BY <1>6, ExactTake
<1>7. CASE UNCHANGED vars
  <2>1. result' \in {"ok", "backpressure"}
    BY <1>7 DEF ExactInv, EngineInv, TypeOK, vars
  <2> QED
    BY <1>7, <2>1, ExactIdle DEF vars
<1> QED
  BY <1>1, <1>2, <1>3, <1>4, <1>5, <1>6, <1>7 DEF Next

(* In every reachable state the open buckets hold exactly the accepted     *)
(* events of their slides, and what has left the ring is in a window.      *)
THEOREM ContentsStayExact == Spec => []ExactInv
BY ExactInit, ExactNext, PTL DEF Spec

(* No accepted event is lost: after finish every event that passed a       *)
(* query's filter was counted late or is in a completed window of it.      *)
THEOREM NoAcceptedEventIsLost == Spec => []NoEventLost
<1>1. ExactInv => NoEventLost
  <2> SUFFICES ASSUME ExactInv, finished, NEW q \in Query, NEW i \in Id,
                      q \in log[i].match, i \notin queries[q].late
               PROVE  \E w \in 1 .. Len(Completed(q)) : i \in Completed(q)[w].ids
    BY DEF NoEventLost
  <2>1. finished = TRUE
    BY DEF ExactInv, EngineInv, TypeOK
  <2>2. i \in Mine(q) \ queries[q].late
    BY DEF Mine
  <2>3. Accounted(queries[q], Completed(q), Mine(q) \ queries[q].late, Slots(q), TRUE)
    BY <2>1 DEF ExactInv, ContentInv, Completed
  <2>4. InSome(Completed(q), i)
    BY <2>2, <2>3 DEF Accounted
  <2> QED
    BY <2>4 DEF InSome
<1> QED
  BY <1>1, ContentsStayExact, PTL

-------------------------------------------------------------------------------
(* A window of the abstract specification holds the accepted events of the *)
(* slides it covers.                                                       *)
LEMMA WindowIs ==
  ASSUME TypeOK, NEW q \in Query, NEW from \in Int, NEW upto \in Int
  PROVE  Abstract!Window(q, from, upto) =
           [start |-> from, end |-> upto,
            ids |-> Between(Mine(q) \ queries[q].late, Slots(q), from, upto - 1)]
<1> DEFINE A == {i \in 1 .. Len(log) :
                   /\ q \in log[i].match
                   /\ i \notin Late[q]
                   /\ Abstract!SlideOf(q, log[i].ts) \in from .. upto - 1}
           B == Between(Mine(q) \ queries[q].late, Slots(q), from, upto - 1)
<1>1. Late[q] = queries[q].late
  BY DEF Late
<1>2. ASSUME NEW i \in Id
      PROVE  /\ Abstract!SlideOf(q, log[i].ts) = Slots(q)[i]
             /\ Slots(q)[i] \in Nat
  BY SlotType DEF Abstract!SlideOf, Target, BucketStartFor
<1>3. \A i \in Id : Slots(q)[i] \in from .. upto - 1
                      <=> from <= Slots(q)[i] /\ Slots(q)[i] <= upto - 1
  BY <1>2
<1>4. A = B
  BY <1>1, <1>2, <1>3 DEF Between, Mine, Id
<1>5. Abstract!Window(q, from, upto) = [start |-> from, end |-> upto, ids |-> A]
  BY DEF Abstract!Window
<1> QED
  BY <1>4, <1>5

(* The two specifications name the same slide of an event. *)
LEMMA SlideIs == \A q, ts : Abstract!SlideOf(q, ts) = Target(q, ts)
BY DEF Abstract!SlideOf, Target, BucketStartFor

(***************************************************************************)
(* One query's move to slide t, computed by pushing, trimming, flushing and*)
(* rebuilding buckets, is the abstract one: the same windows with the same *)
(* events, the same newest slide and the same horizon.                     *)
(***************************************************************************)
LEMMA MoveIs ==
  ASSUME ExactInv, NEW q \in Query, NEW t \in Nat
  PROVE  LET rq    == queries[q]
             moved == AdvanceToBucket(rq, Ring[q], t)
         IN  /\ Abstract!Closing(q, t) = WindowsClosedByAdvance(rq, Ring[q], t)
             /\ moved.emitted = Pending[q] \o Abstract!ClosedWindows(q, t)
             /\ moved.buckets # <<>>
             /\ BackStart(moved) = Abstract!NewestAfter(q, t)
             /\ FrontStart(moved) = Abstract!HorizonAfter(q, t)
<1> DEFINE rq    == queries[q]
           ring  == Ring[q]
           moved == AdvanceToBucket(rq, ring, t)
           bs    == rq.buckets
           k     == WindowsClosedByAdvance(rq, ring, t)
           fl    == FlushedWindows(bs, ring, k)
           N     == Mine(q) \ rq.late
           slot  == Slots(q)
           Goal  == /\ Abstract!Closing(q, t) = k
                    /\ moved.emitted = Pending[q] \o Abstract!ClosedWindows(q, t)
                    /\ moved.buckets # <<>>
                    /\ BackStart(moved) = Abstract!NewestAfter(q, t)
                    /\ FrontStart(moved) = Abstract!HorizonAfter(q, t)
<1> SUFFICES Goal
  OBVIOUS
<1>1. /\ TypeOK /\ ring \in Nat \ {0}
      /\ rq \in RunningQuery(Id) /\ RingOK(bs, ring)
  BY QueryConstants DEF ExactInv, EngineInv, QueryInv
<1>2. /\ bs \in Seq(Bucket(Id)) /\ rq.emitted \in Seq(WindowState(Id))
      /\ DOMAIN rq = {"buckets", "emitted", "late"}
  BY <1>1 DEF RunningQuery
<1>3. BucketsExact(bs, N, slot) /\ NoneNewer(bs, N, slot)
  BY DEF ExactInv, ContentInv
<1>4. \A i \in N : slot[i] \in Nat
  BY <1>1, SlotType DEF Mine
<1>5. /\ Newest[q] = IF bs = <<>> THEN -1 ELSE BackStart(rq)
      /\ Horizon[q] = IF bs = <<>> THEN 0 ELSE FrontStart(rq)
      /\ Pending[q] = rq.emitted
  BY DEF Newest, Horizon, Pending
<1>6. k \in 0 .. ring
  BY <1>1, ClosedBounded
<1>7. /\ moved \in RunningQuery(Id)
      /\ moved.buckets # <<>> /\ RingOK(moved.buckets, ring)
      /\ moved.late = rq.late
      /\ bs = <<>> => moved.emitted = rq.emitted /\ BackStart(moved) = t
      /\ bs # <<>> =>
           /\ moved.emitted = rq.emitted \o fl
           /\ BackStart(moved) = Larger(BackStart(rq), t)
           /\ FrontStart(moved) = Larger(FrontStart(rq), t + 1 - ring)
  <2> HIDE DEF rq, ring
  <2> QED
    BY <1>1, AdvanceLemma, ZenonT(60)
<1>8. CASE bs = <<>>
  <2>1. Newest[q] = -1
    BY <1>5, <1>8
  <2>2. Abstract!Closing(q, t) = 0 /\ k = 0
    BY <1>8, <2>1 DEF Abstract!Closing, WindowsClosedByAdvance
  <2>3. Abstract!ClosedWindows(q, t) = <<>>
    BY <2>2 DEF Abstract!ClosedWindows
  <2>4. Pending[q] \o <<>> = Pending[q]
    BY <1>2, <1>5, ConcatEmptySeq
  <2>5. Abstract!NewestAfter(q, t) = t
    BY <2>1 DEF Abstract!NewestAfter, Abstract!Greatest
  <2>6. Abstract!HorizonAfter(q, t) = t
    BY <2>1 DEF Abstract!HorizonAfter
  <2>7. FrontStart(moved) = t
    <3> DEFINE b == NewBucket(t)
    <3>1. moved = [rq EXCEPT !.buckets = << b >>]
      BY <1>8 DEF AdvanceToBucket
    <3>2. b.start = t
      BY DEF NewBucket
    <3> HIDE DEF b, moved
    <3>3. moved.buckets = << b >>
      BY <1>2, <3>1
    <3> QED
      BY <3>2, <3>3 DEF FrontStart
  <2> HIDE DEF moved, k
  <2> QED
    BY <1>5, <1>7, <1>8, <2>2, <2>3, <2>4, <2>5, <2>6, <2>7
<1>9. CASE bs # <<>>
  <2> DEFINE back  == BackStart(rq)
             front == FrontStart(rq)
  <2>1. /\ back \in Nat /\ front \in Nat
        /\ back = bs[Len(bs)].start /\ front = bs[1].start
    BY <1>1, <1>2, <1>9, EndsLemma DEF BackStart, FrontStart
  <2>2. Newest[q] = back /\ Horizon[q] = front /\ Newest[q] # -1
    BY <1>5, <1>9, <2>1
  <2>3. Abstract!Closing(q, t) = k
    <3>1. Abstract!Closing(q, t) = IF t <= back THEN 0 ELSE Abstract!Least(t - back, ring)
      BY <2>2 DEF Abstract!Closing
    <3>2. k = IF t <= back THEN 0 ELSE Smaller(t - back, ring)
      BY <1>9 DEF WindowsClosedByAdvance
    <3>3. \A a, b : Abstract!Least(a, b) = Smaller(a, b)
      BY DEF Abstract!Least, Smaller
    <3> HIDE DEF k, back, ring
    <3> QED
      BY <3>1, <3>2, <3>3
  <2>4. Abstract!ClosedWindows(q, t) = fl
    <3> DEFINE cw == Abstract!ClosedWindows(q, t)
    <3>1. cw = [i \in 1 .. k |->
                 Abstract!Window(q, Abstract!Greatest(front, back + i - ring), back + i)]
      <4> HIDE DEF k, back, front
      <4> QED
        BY <2>2, <2>3 DEF Abstract!ClosedWindows
    <3>2. k \in Nat
      BY <1>6
    <3>3. DOMAIN fl = 1 .. k /\ fl = [i \in 1 .. k |-> fl[i]]
      BY DEF FlushedWindows
    <3> HIDE DEF k, back, front, cw
    <3>4. /\ fl \in Seq(WindowState(Id)) /\ Len(fl) = k
          /\ \A i \in 1 .. k :
               /\ fl[i].end = bs[Len(bs)].start + i
               /\ fl[i].start = Larger(bs[1].start, bs[Len(bs)].start + i - ring)
      <4> HIDE DEF bs, ring
      <4> QED
        BY <1>1, <1>2, <1>9, <3>2, FlushedLemma, ZenonT(60)
    <3>5. ASSUME NEW i \in 1 .. k
          PROVE  Abstract!Window(q, Abstract!Greatest(front, back + i - ring), back + i) = fl[i]
      <4> DEFINE from == Larger(front, back + i - ring)
      <4>1. /\ i \in Nat /\ back + i \in Int /\ from \in Int
            /\ Abstract!Greatest(front, back + i - ring) = from
        <5>1. i \in Nat /\ back \in Nat /\ front \in Nat /\ ring \in Nat
          BY <1>1, <2>1, <3>2
        <5> HIDE DEF ring
        <5>2. back + i \in Int /\ back + i - ring \in Int
          BY <5>1
        <5> QED
          BY <5>1, <5>2 DEF Larger, Abstract!Greatest
      <4>2. fl[i].end = back + i /\ fl[i].start = from
        BY <2>1, <3>4
      <4>3. fl[i].ids = Between(N, slot, from, back + i - 1)
        <5>1. FlushedWindows(bs, ring, k)[i].ids =
                Between(N, slot, Larger(bs[1].start, bs[Len(bs)].start + i - ring),
                        bs[Len(bs)].start + i - 1)
          <6> HIDE DEF bs, ring, N, slot
          <6> QED
            BY <1>1, <1>2, <1>3, <1>4, <1>9, <3>2, FlushedExact
        <5> QED
          BY <2>1, <5>1
      <4>4. fl[i] \in WindowState(Id)
        BY <3>4, SeqElements
      <4> HIDE DEF fl
      <4>5. fl[i] = [start |-> fl[i].start, end |-> fl[i].end, ids |-> fl[i].ids]
        BY <4>4 DEF WindowState
      <4> HIDE DEF from
      <4> DEFINE upto == back + i
      <4>6. fl[i] = [start |-> from, end |-> upto, ids |-> Between(N, slot, from, upto - 1)]
        <5> DEFINE C == Between(N, slot, from, back + i - 1)
        <5>1. fl[i].ids = C /\ fl[i].end = upto /\ fl[i].start = from
          BY <4>2, <4>3
        <5> HIDE DEF C, upto
        <5>2. fl[i] = [start |-> from, end |-> upto, ids |-> C]
          BY <4>5, <5>1
        <5> QED
          <6>1. back + i - 1 = upto - 1
            BY <2>1, <4>1, SMTT(40) DEF upto
          <6> HIDE DEF N, slot
          <6>2. C = Between(N, slot, from, upto - 1)
            BY <6>1 DEF C
          <6> QED
            BY <5>2, <6>2
      <4>7. upto \in Int /\ from \in Int
        BY <4>1
      <4> HIDE DEF upto
      <4>8. Abstract!Window(q, from, upto) =
              [start |-> from, end |-> upto, ids |-> Between(N, slot, from, upto - 1)]
        BY <1>1, <4>7, WindowIs, Zenon
      <4>9. Abstract!Window(q, from, upto) = fl[i]
        BY <4>6, <4>8, Zenon
      <4>10. Abstract!Window(q, Abstract!Greatest(front, back + i - ring), upto) = fl[i]
        BY <4>1, <4>9
      <4> QED
        BY <4>10 DEF upto
    <3> HIDE DEF fl
    <3>6. cw = [i \in 1 .. k |-> fl[i]]
      BY <3>1, <3>5
    <3> QED
      BY <3>3, <3>6 DEF cw
  <2>5. Abstract!NewestAfter(q, t) = Larger(back, t)
    BY <2>2 DEF Abstract!NewestAfter, Abstract!Greatest, Larger
  <2>6. Abstract!HorizonAfter(q, t) = Larger(front, t + 1 - ring)
    BY <2>2 DEF Abstract!HorizonAfter, Abstract!Greatest, Larger
  <2> HIDE DEF moved, k, fl, back, front
  <2> QED
    BY <1>5, <1>7, <1>9, <2>3, <2>4, <2>5, <2>6 DEF back, front
<1> QED
  BY <1>8, <1>9

(* The initial states are abstract initial states. *)
LEMMA RefinesInit == Init => Abstract!Init
<1> SUFFICES ASSUME Init PROVE Abstract!Init
  OBVIOUS
<1>1. \A q \in Query : queries[q].buckets = <<>> /\ queries[q].emitted = <<>>
                        /\ queries[q].late = {}
  BY DEF Init, NewQuery
<1>2. /\ Newest = [q \in Query |-> -1] /\ Horizon = [q \in Query |-> 0]
      /\ Late = [q \in Query |-> {}] /\ Pending = [q \in Query |-> <<>>]
  BY <1>1 DEF Newest, Horizon, Late, Pending
<1> QED
  BY <1>2 DEF Init, Abstract!Init, Abstract!Query, Query

(* What the mapping makes of one query after a step. *)
LEMMA MappedAfter ==
  ASSUME NEW q \in Query, queries'[q].buckets # <<>>
  PROVE  /\ Newest'[q] = BackStart(queries'[q])
         /\ Horizon'[q] = FrontStart(queries'[q])
         /\ Late'[q] = queries'[q].late
         /\ Pending'[q] = queries'[q].emitted
BY DEF Newest, Horizon, Late, Pending, BackStart, FrontStart

(* A query the step leaves alone is left alone in the abstract state. *)
LEMMA MappedSame ==
  ASSUME NEW q \in Query, queries'[q] = queries[q]
  PROVE  /\ Newest'[q] = Newest[q] /\ Horizon'[q] = Horizon[q]
         /\ Late'[q] = Late[q] /\ Pending'[q] = Pending[q]
BY DEF Newest, Horizon, Late, Pending, BackStart, FrontStart

(* The mapped variables are functions on the queries. *)
LEMMA MappedFunctions ==
  /\ Newest' = [q \in Query |-> Newest'[q]]
  /\ Horizon' = [q \in Query |-> Horizon'[q]]
  /\ Late' = [q \in Query |-> Late'[q]]
  /\ Pending' = [q \in Query |-> Pending'[q]]
BY DEF Newest, Horizon, Late, Pending

(* An accepted event is an abstract Accept: every query it matches moves,  *)
(* and the event is late exactly when its slide is behind the new horizon. *)
LEMMA RefinesProcess ==
  ASSUME ExactInv, NEW e \in Event, Process(e)
  PROVE  Abstract!Accept(e)
<1> DEFINE id == Len(log) + 1
           t(q) == Target(q, e.ts)
<1>1. EngineInv /\ TypeOK /\ e.ts \in Nat /\ e.match \subseteq Query
  BY ConstantsAssumption DEF ExactInv, EngineInv, Event, Ts
<1>2. /\ log' = Append(log, e) /\ taken' = taken /\ finished' = finished /\ ~finished
  BY DEF Process
<1>3. ASSUME NEW q \in Query, q \in e.match
      PROVE  /\ Abstract!Room(q, Abstract!Closing(q, t(q)))
             /\ Pending'[q] = Pending[q] \o Abstract!ClosedWindows(q, t(q))
             /\ Newest'[q] = Abstract!NewestAfter(q, t(q))
             /\ Horizon'[q] = Abstract!HorizonAfter(q, t(q))
             /\ Late'[q] = IF t(q) < Horizon'[q] THEN Late[q] \cup {id} ELSE Late[q]
  <2> DEFINE rq    == queries[q]
             ring  == Ring[q]
             tq    == Target(q, e.ts)
             moved == AdvanceToBucket(rq, ring, tq)
             after == ProcessMatching(rq, ring, tq, id)
             N     == Mine(q) \ rq.late
             new   == Slots(q)'
  <2>1. queries'[q] = after /\ CanAdvance(rq, ring, Capacity[q], tq)
    BY <1>1, <1>3, ProcessEffect
  <2>2. tq \in Nat
    BY <1>1, TargetType
  <2>3. /\ id \in Id' /\ Id \subseteq Id'
        /\ \A i \in Id : new[i] = Slots(q)[i]
        /\ new[id] = tq
    BY <1>1, <1>2, LogGrows
  <2>4. /\ rq \in RunningQuery(Id') /\ RingOK(rq.buckets, ring) /\ ring \in Nat \ {0}
    <3>1. rq \in RunningQuery(Id) /\ RingOK(rq.buckets, ring)
      BY <1>1 DEF EngineInv, QueryInv
    <3> QED
      BY <2>3, <3>1, QueryConstants, TypesGrow
  <2>5. /\ BucketsExact(rq.buckets, N, new) /\ NoneNewer(rq.buckets, N, new)
        /\ \A i \in N : new[i] \in Nat
    <3>1. /\ BucketsExact(rq.buckets, N, Slots(q)) /\ NoneNewer(rq.buckets, N, Slots(q))
      BY DEF ExactInv, ContentInv
    <3>2. \A i \in N : new[i] = Slots(q)[i] /\ Slots(q)[i] \in Nat
      BY <1>1, <2>3, SlotType DEF Mine
    <3> HIDE DEF N, new, rq
    <3> QED
      BY <3>1, <3>2 DEF BucketsExact, NoneNewer
  <2>6. InSlide(new, id, tq)
    BY <2>3 DEF InSlide
  <2>7. /\ tq < FrontStart(moved) => after.late = rq.late \cup {id}
        /\ ~(tq < FrontStart(moved)) => after.late = rq.late
        /\ tq < FrontStart(moved) =>
             BucketsExact(after.buckets, N, new) /\ NoneNewer(after.buckets, N, new)
        /\ ~(tq < FrontStart(moved)) =>
             /\ BucketsExact(after.buckets, N \cup {id}, new)
             /\ NoneNewer(after.buckets, N \cup {id}, new)
    <3> DEFINE J == Id'
    <3>1. id \in J /\ rq \in RunningQuery(J)
      BY <2>3, <2>4
    <3> HIDE DEF N, new, rq, ring, tq, id, J
    <3> QED
      BY <2>2, <2>4, <2>5, <2>6, <3>1, ProcessExact
  <2>8. /\ after \in RunningQuery(Id')
        /\ after.emitted = moved.emitted
        /\ after.buckets # <<>> /\ RingOK(after.buckets, ring)
        /\ BackStart(after) = BackStart(moved)
        /\ FrontStart(after) = FrontStart(moved)
    <3> HIDE DEF rq, ring, tq, id
    <3> QED
      BY <2>2, <2>3, <2>4, ProcessLemma
  <2>9. /\ Abstract!Closing(q, tq) = WindowsClosedByAdvance(rq, ring, tq)
        /\ moved.emitted = Pending[q] \o Abstract!ClosedWindows(q, tq)
        /\ moved.buckets # <<>>
        /\ BackStart(moved) = Abstract!NewestAfter(q, tq)
        /\ FrontStart(moved) = Abstract!HorizonAfter(q, tq)
    <3> HIDE DEF tq
    <3> QED
      BY <2>2, MoveIs, Zenon
  <2>10. Late[q] = rq.late /\ Pending[q] = rq.emitted
    BY DEF Late, Pending
  <2> HIDE DEF moved, after, tq
  <2>11. /\ Newest'[q] = BackStart(after) /\ Horizon'[q] = FrontStart(after)
         /\ Late'[q] = after.late /\ Pending'[q] = after.emitted
    BY <2>1, <2>8, MappedAfter
  <2>12. Abstract!Room(q, Abstract!Closing(q, tq))
    BY <2>1, <2>9, <2>10 DEF Abstract!Room, CanAdvance, CanEmit
  <2> HIDE DEF rq, id
  <2> QED
    BY <2>7, <2>8, <2>9, <2>10, <2>11, <2>12 DEF tq
<1>4. ASSUME NEW q \in Query, q \notin e.match
      PROVE  /\ Pending'[q] = Pending[q] /\ Newest'[q] = Newest[q]
             /\ Horizon'[q] = Horizon[q] /\ Late'[q] = Late[q]
  BY <1>1, <1>4, ProcessEffect, MappedSame
<1>5. \A q \in Query : Abstract!SlideOf(q, e.ts) = t(q)
  BY SlideIs
<1> HIDE DEF t, id
<1>6. \A q \in e.match : Abstract!Room(q, Abstract!Closing(q, Abstract!SlideOf(q, e.ts)))
  BY <1>1, <1>3, <1>5
<1>7. Pending' = [q \in Query |->
        IF q \in e.match THEN Pending[q] \o Abstract!ClosedWindows(q, Abstract!SlideOf(q, e.ts))
                         ELSE Pending[q]]
  BY <1>3, <1>4, <1>5, MappedFunctions
<1>8. Newest' = [q \in Query |->
        IF q \in e.match THEN Abstract!NewestAfter(q, Abstract!SlideOf(q, e.ts)) ELSE Newest[q]]
  BY <1>3, <1>4, <1>5, MappedFunctions
<1>9. Horizon' = [q \in Query |->
        IF q \in e.match THEN Abstract!HorizonAfter(q, Abstract!SlideOf(q, e.ts)) ELSE Horizon[q]]
  BY <1>3, <1>4, <1>5, MappedFunctions
<1>10. Late' = [q \in Query |->
        IF q \in e.match /\ Abstract!SlideOf(q, e.ts) < Horizon'[q]
          THEN Late[q] \cup {id} ELSE Late[q]]
  BY <1>3, <1>4, <1>5, MappedFunctions
<1>11. Abstract!Query = Query
  BY DEF Abstract!Query, Query
<1>12. Abstract!Move(e.match, e.ts)
  BY <1>6, <1>7, <1>8, <1>9, <1>11 DEF Abstract!Move
<1> QED
  BY <1>2, <1>10, <1>11, <1>12 DEF Abstract!Accept, id

(* An accepted watermark is an abstract Advance of every query. *)
LEMMA RefinesAdvance ==
  ASSUME ExactInv, NEW ts \in Ts, AdvanceTo(ts)
  PROVE  Abstract!Advance(ts)
<1> DEFINE t(q) == Target(q, ts)
<1>1. EngineInv /\ ts \in Nat
  BY ConstantsAssumption DEF ExactInv, Ts
<1>2. log' = log /\ taken' = taken /\ finished' = finished /\ ~finished
  BY DEF AdvanceTo
<1>3. ASSUME NEW q \in Query
      PROVE  /\ Abstract!Room(q, Abstract!Closing(q, t(q)))
             /\ Pending'[q] = Pending[q] \o Abstract!ClosedWindows(q, t(q))
             /\ Newest'[q] = Abstract!NewestAfter(q, t(q))
             /\ Horizon'[q] = Abstract!HorizonAfter(q, t(q))
             /\ Late'[q] = Late[q]
  <2> DEFINE rq    == queries[q]
             ring  == Ring[q]
             tq    == Target(q, ts)
             moved == AdvanceToBucket(rq, ring, tq)
  <2>1. queries'[q] = moved /\ CanAdvance(rq, ring, Capacity[q], tq)
    BY <1>1, AdvanceEffect
  <2>2. tq \in Nat
    BY <1>1, TargetType
  <2>3. rq \in RunningQuery(Id) /\ RingOK(rq.buckets, ring) /\ ring \in Nat \ {0}
    BY <1>1, QueryConstants DEF EngineInv, QueryInv
  <2>4. moved.late = rq.late
    <3> HIDE DEF rq, ring, tq
    <3> QED
      BY <2>2, <2>3, AdvanceEnds
  <2>5. /\ Abstract!Closing(q, tq) = WindowsClosedByAdvance(rq, ring, tq)
        /\ moved.emitted = Pending[q] \o Abstract!ClosedWindows(q, tq)
        /\ moved.buckets # <<>>
        /\ BackStart(moved) = Abstract!NewestAfter(q, tq)
        /\ FrontStart(moved) = Abstract!HorizonAfter(q, tq)
    <3> HIDE DEF tq
    <3> QED
      BY <2>2, MoveIs, Zenon
  <2>6. Late[q] = rq.late /\ Pending[q] = rq.emitted
    BY DEF Late, Pending
  <2> HIDE DEF moved, tq
  <2>7. /\ Newest'[q] = BackStart(moved) /\ Horizon'[q] = FrontStart(moved)
        /\ Late'[q] = moved.late /\ Pending'[q] = moved.emitted
    BY <2>1, <2>5, MappedAfter
  <2>8. Abstract!Room(q, Abstract!Closing(q, tq))
    BY <2>1, <2>5, <2>6 DEF Abstract!Room, CanAdvance, CanEmit
  <2> QED
    BY <2>4, <2>5, <2>6, <2>7, <2>8 DEF tq
<1>4. \A q \in Query : Abstract!SlideOf(q, ts) = t(q)
  BY SlideIs
<1> HIDE DEF t
<1>5. \A q \in Query : Abstract!Room(q, Abstract!Closing(q, Abstract!SlideOf(q, ts)))
  BY <1>3, <1>4
<1>6. Pending' = [q \in Query |->
        IF q \in Query THEN Pending[q] \o Abstract!ClosedWindows(q, Abstract!SlideOf(q, ts))
                       ELSE Pending[q]]
  BY <1>3, <1>4, MappedFunctions
<1>7. Newest' = [q \in Query |->
        IF q \in Query THEN Abstract!NewestAfter(q, Abstract!SlideOf(q, ts)) ELSE Newest[q]]
  BY <1>3, <1>4, MappedFunctions
<1>8. Horizon' = [q \in Query |->
        IF q \in Query THEN Abstract!HorizonAfter(q, Abstract!SlideOf(q, ts)) ELSE Horizon[q]]
  BY <1>3, <1>4, MappedFunctions
<1>9. Late' = Late
  <2>1. Late = [q \in Query |-> Late[q]]
    BY DEF Late
  <2> QED
    BY <1>3, <2>1, MappedFunctions
<1>10. Abstract!Query = Query
  BY DEF Abstract!Query, Query
<1>11. Abstract!Move(Query, ts)
  BY <1>5, <1>6, <1>7, <1>8, <1>10 DEF Abstract!Move
<1> QED
  BY <1>2, <1>9, <1>10, <1>11 DEF Abstract!Advance

(* finish is an abstract Finish: the trailing window covers the slides from*)
(* the horizon to the newest.                                              *)
LEMMA RefinesFinish ==
  ASSUME ExactInv, Finish
  PROVE  Abstract!Finish
<1>1. /\ log' = log /\ taken' = taken /\ finished' = TRUE /\ ~finished
      /\ queries' = [q \in Query |-> FinishQuery(queries[q])]
  BY DEF Finish
<1>2. ASSUME NEW q \in Query
      PROVE  /\ Newest[q] # -1 => Abstract!Room(q, 1)
             /\ Pending'[q] = IF Newest[q] = -1 THEN Pending[q]
                  ELSE Append(Pending[q], Abstract!Window(q, Horizon[q], Newest[q] + 1))
             /\ Newest'[q] = Newest[q] /\ Horizon'[q] = Horizon[q] /\ Late'[q] = Late[q]
  <2> DEFINE rq   == queries[q]
             ring == Ring[q]
             bs   == rq.buckets
             f    == FinishQuery(rq)
             N    == Mine(q) \ rq.late
             slot == Slots(q)
             w    == MergedWindow(bs, BackStart(rq) + 1)
  <2>1. queries'[q] = f
    BY <1>1
  <2>2. /\ TypeOK /\ ring \in Nat \ {0} /\ rq \in RunningQuery(Id) /\ RingOK(bs, ring)
        /\ BucketsExact(bs, N, slot)
    BY QueryConstants DEF ExactInv, EngineInv, QueryInv, ContentInv
  <2>3. /\ bs \in Seq(Bucket(Id)) /\ rq.emitted \in Seq(WindowState(Id))
        /\ DOMAIN rq = {"buckets", "emitted", "late"}
    BY <2>2 DEF RunningQuery
  <2>4. \A i \in N : slot[i] \in Nat
    BY <2>2, SlotType DEF Mine
  <2>5. /\ Newest[q] = IF bs = <<>> THEN -1 ELSE BackStart(rq)
        /\ Horizon[q] = IF bs = <<>> THEN 0 ELSE FrontStart(rq)
        /\ Late[q] = rq.late /\ Pending[q] = rq.emitted
    BY DEF Newest, Horizon, Late, Pending
  <2>6. CASE bs = <<>>
    <3>1. f = rq
      BY <2>6 DEF FinishQuery
    <3>2. queries'[q] = queries[q]
      BY <2>1, <3>1
    <3> QED
      BY <2>5, <2>6, <3>2, MappedSame
  <2>7. CASE bs # <<>>
    <3> DEFINE back  == BackStart(rq)
               front == FrontStart(rq)
               upto  == back + 1
    <3>1. /\ back \in Nat /\ front \in Nat
          /\ back = bs[Len(bs)].start /\ front = bs[1].start
      BY <2>2, <2>3, <2>7, EndsLemma DEF BackStart, FrontStart
    <3>2. Newest[q] = back /\ Horizon[q] = front /\ Newest[q] # -1
      BY <2>5, <2>7, <3>1
    <3>3. f = [rq EXCEPT !.emitted = Append(@, w)]
      BY <2>7 DEF FinishQuery
    <3>4. /\ w \in WindowState(Id) /\ w.start = front /\ w.end = upto
      <4>1. upto \in Nat
        BY <3>1
      <4> HIDE DEF upto, bs
      <4>2. MergedWindow(bs, upto) \in WindowState(Id)
            /\ MergedWindow(bs, upto).start = bs[1].start
            /\ MergedWindow(bs, upto).end = upto
        BY <2>3, <2>7, <4>1, MergedLemma
      <4> QED
        BY <3>1, <4>2 DEF upto
    <3>5. w.ids = Between(N, slot, front, back)
      <4>1. MergedWindow(bs, upto).ids =
              Between(N, slot, bs[1].start, bs[Len(bs)].start)
        <5> HIDE DEF bs, N, slot, upto, ring
        <5> QED
          BY <2>2, <2>3, <2>4, <2>7, MergeExact
      <4> QED
        BY <3>1, <4>1
    <3> HIDE DEF w, f
    <3>6. f.buckets = bs /\ f.late = rq.late /\ f.emitted = Append(rq.emitted, w)
      BY <2>3, <3>3
    <3>7. Abstract!Window(q, front, upto) = w
      <4>1. upto \in Int /\ front \in Int /\ upto - 1 = back
        BY <3>1
      <4> HIDE DEF upto, front, back
      <4>2. Abstract!Window(q, front, upto) =
              [start |-> front, end |-> upto, ids |-> Between(N, slot, front, upto - 1)]
        BY <2>2, <4>1, WindowIs, Zenon
      <4>3. w = [start |-> w.start, end |-> w.end, ids |-> w.ids]
        BY <3>4 DEF WindowState
      <4> DEFINE C == Between(N, slot, front, back)
      <4>4. Abstract!Window(q, front, upto) = [start |-> front, end |-> upto, ids |-> C]
        BY <4>1, <4>2
      <4>5. w.ids = C
        BY <3>5
      <4> HIDE DEF C
      <4>6. w = [start |-> front, end |-> upto, ids |-> C]
        BY <3>4, <4>3, <4>5
      <4> QED
        BY <4>4, <4>6
    <3>8. /\ Newest'[q] = BackStart(f) /\ Horizon'[q] = FrontStart(f)
          /\ Late'[q] = f.late /\ Pending'[q] = f.emitted
      BY <2>1, <2>7, <3>6, MappedAfter
    <3>9. BackStart(f) = back /\ FrontStart(f) = front
      BY <3>6 DEF BackStart, FrontStart
    <3>10. Abstract!Room(q, 1)
      BY <2>5, <2>7 DEF Finish, FinishPreflight, EnsureCanFinish, CanEmit, Abstract!Room
    <3> HIDE DEF back, front
    <3> QED
      BY <2>5, <3>2, <3>6, <3>7, <3>8, <3>9, <3>10 DEF upto
  <2> QED
    BY <2>6, <2>7
<1>3. Pending' = [q \in Query |-> IF Newest[q] = -1 THEN Pending[q]
        ELSE Append(Pending[q], Abstract!Window(q, Horizon[q], Newest[q] + 1))]
  BY <1>2, MappedFunctions
<1>4. Newest' = Newest /\ Horizon' = Horizon /\ Late' = Late
  <2>1. /\ Newest = [q \in Query |-> Newest[q]] /\ Horizon = [q \in Query |-> Horizon[q]]
        /\ Late = [q \in Query |-> Late[q]]
    BY DEF Newest, Horizon, Late
  <2> QED
    BY <1>2, <2>1, MappedFunctions
<1>5. Abstract!Query = Query
  BY DEF Abstract!Query, Query
<1> QED
  BY <1>1, <1>2, <1>3, <1>4, <1>5 DEF Abstract!Finish

(* A drain is an abstract Take. *)
LEMMA RefinesTake ==
  ASSUME ExactInv, TakeWindowStates
  PROVE  Abstract!Take
<1>1. /\ log' = log /\ finished' = finished
      /\ taken' = [q \in Query |-> taken[q] \o queries[q].emitted]
      /\ queries' = [q \in Query |-> [queries[q] EXCEPT !.emitted = <<>>]]
  BY DEF TakeWindowStates
<1>2. ASSUME NEW q \in Query
      PROVE  /\ queries'[q].buckets = queries[q].buckets
             /\ queries'[q].emitted = <<>> /\ queries'[q].late = queries[q].late
  <2>1. queries[q] \in RunningQuery(Id)
    BY DEF ExactInv, EngineInv, QueryInv
  <2> DEFINE rq == queries[q]
  <2>2. queries'[q] = [rq EXCEPT !.emitted = <<>>]
    BY <1>1, Zenon
  <2>3. DOMAIN rq = {"buckets", "emitted", "late"}
    BY <2>1 DEF RunningQuery
  <2> HIDE DEF rq
  <2>4. [rq EXCEPT !.emitted = <<>>].buckets = rq.buckets
        /\ [rq EXCEPT !.emitted = <<>>].emitted = <<>>
        /\ [rq EXCEPT !.emitted = <<>>].late = rq.late
    BY <2>3
  <2> QED
    BY <2>2, <2>4 DEF rq
<1>3. Pending' = [q \in Query |-> <<>>]
  BY <1>2 DEF Pending
<1>4. Newest' = Newest /\ Horizon' = Horizon /\ Late' = Late
  BY <1>2 DEF Newest, Horizon, Late, BackStart, FrontStart
<1>5. taken' = [q \in Query |-> taken[q] \o Pending[q]]
  BY <1>1 DEF Pending
<1>6. Abstract!Query = Query
  BY DEF Abstract!Query, Query
<1> QED
  BY <1>1, <1>3, <1>4, <1>5, <1>6 DEF Abstract!Take

(* Every step of the engine is an abstract step, or invisible: a refused   *)
(* call changes nothing the abstract specification sees.                   *)
LEMMA RefinesNext ==
  ASSUME ExactInv, [Next]_vars
  PROVE  [Abstract!Next]_(Abstract!vars)
<1>1. Abstract!Event = Event /\ Abstract!Ts = Ts
  BY DEF Abstract!Event, Abstract!Ts, Abstract!Query, Event, Ts, Query
<1>2. ASSUME NEW e \in Event, Process(e) PROVE Abstract!Next
  BY <1>1, <1>2, RefinesProcess DEF Abstract!Next
<1>3. ASSUME NEW ts \in Ts, AdvanceTo(ts) PROVE Abstract!Next
  BY <1>1, <1>3, RefinesAdvance DEF Abstract!Next
<1>4. CASE Finish
  BY <1>4, RefinesFinish DEF Abstract!Next
<1>5. CASE TakeWindowStates
  BY <1>5, RefinesTake DEF Abstract!Next
<1>6. CASE UNCHANGED <<queries, log, taken, finished>>
  <2>1. Newest' = Newest /\ Horizon' = Horizon /\ Late' = Late /\ Pending' = Pending
    BY <1>6 DEF Newest, Horizon, Late, Pending, BackStart, FrontStart
  <2> QED
    BY <1>6, <2>1 DEF Abstract!vars
<1>7. Refuse \/ RefuseFinish \/ UNCHANGED vars => UNCHANGED <<queries, log, taken, finished>>
  BY DEF Refuse, RefuseFinish, vars
<1> QED
  BY <1>2, <1>3, <1>4, <1>5, <1>6, <1>7 DEF Next

(* The engine implements the sliding windows it promises: for every number *)
(* of queries, ring size, capacity and stream, each completed window is    *)
(* the one computed from the accepted events of its slides, each late      *)
(* event is older than the horizon, and backpressure is invisible.         *)
THEOREM EngineImplementsSlidingWindows == Spec => ImplementsSlidingWindows
<1>1. Init => Abstract!Init
  BY RefinesInit
<1>2. ExactInv /\ [Next]_vars => [Abstract!Next]_(Abstract!vars)
  BY RefinesNext
<1> QED
  BY <1>1, <1>2, ContentsStayExact, PTL DEF Spec, Abstract!Spec, ImplementsSlidingWindows

(***************************************************************************)
(* Replay.  The driver adds to the engine's invariant where it is in the   *)
(* stream, and that windows it can drain hold events: the newest bucket    *)
(* always holds the event it was opened for, so the first window that      *)
(* waits is never empty.                                                   *)
(***************************************************************************)
Filled(rq) ==
  /\ rq.buckets # <<>> => rq.buckets[Len(rq.buckets)].ids # {}
  /\ rq.emitted # <<>> => rq.emitted[1].ids # {}

ReplayInv ==
  /\ ExactInv
  /\ event \in Event
  /\ pc # "failed" => (finished <=> pc \in {"output", "done"})
  /\ \A q \in Query : Filled(queries[q])
  /\ pc = "done" => \A q \in Query : queries[q].emitted = <<>>
  /\ pc = "bailed" => AlertMin # 1

(* The first window a slide closes holds what the newest bucket holds. *)
LEMMA FirstFlushed ==
  ASSUME NEW I, NEW bs \in Seq(Bucket(I)), bs # <<>>, NEW ring \in Nat \ {0},
         NEW k \in Nat \ {0}, RingOK(bs, ring)
  PROVE  bs[Len(bs)].ids \subseteq FlushedWindows(bs, ring, k)[1].ids
<1> DEFINE n == Len(bs)
           p == Pushed(bs, 0)
           t == Trimmed(p, ring)
<1>1. /\ n \in Nat /\ n >= 1 /\ n <= ring
      /\ \A j \in 1 .. n : bs[j] \in Bucket(I)
  BY SeqElements DEF RingOK
<1>2. p = [j \in 1 .. n |-> bs[j]]
  BY <1>1 DEF Pushed
<1>3. p \in Seq(Bucket(I)) /\ Len(p) = n
  BY <1>1, <1>2, FunctionIsSeq
<1>4. Larger(1, n + 1 - ring) = 1
  BY <1>1 DEF Larger
<1>5. t = SubSeq(p, 1, n) /\ p[n] = bs[n]
  BY <1>1, <1>2, <1>3, <1>4 DEF Trimmed
<1> HIDE DEF p
<1>6. Len(t) = n /\ t[n] = p[n]
  BY <1>1, <1>3, <1>5
<1>7. t[n] = bs[n]
  BY <1>5, <1>6
<1> HIDE DEF t
<1> DEFINE w == MergedWindow(t, bs[Len(bs)].start + 1)
<1>8. w.ids = UNION {t[j].ids : j \in 1 .. Len(t)}
  BY DEF MergedWindow
<1>9. t[n].ids \subseteq w.ids
  BY <1>1, <1>6, <1>8
<1> HIDE DEF w
<1>10. FlushedWindows(bs, ring, k)[1] = w
  <2>1. 1 \in 1 .. k
    OBVIOUS
  <2> QED
    BY <2>1 DEF FlushedWindows, w, t, p
<1> QED
  BY <1>7, <1>9, <1>10

(* process leaves no empty newest bucket, and no empty window in front. *)
LEMMA ProcessFills ==
  ASSUME NEW I, NEW rq \in RunningQuery(I), NEW ring \in Nat \ {0},
         NEW bucket \in Nat, NEW id \in I, RingOK(rq.buckets, ring), Filled(rq)
  PROVE  Filled(ProcessMatching(rq, ring, bucket, id))
<1> DEFINE moved == AdvanceToBucket(rq, ring, bucket)
           after == ProcessMatching(rq, ring, bucket, id)
           k     == WindowsClosedByAdvance(rq, ring, bucket)
           n     == Len(moved.buckets)
           open  == {j \in 1 .. n : moved.buckets[j].start = bucket}
           put   == [j \in 1 .. n |->
                       IF j \in open
                         THEN [moved.buckets[j] EXCEPT !.ids = @ \cup {id}]
                         ELSE moved.buckets[j]]
           fl    == FlushedWindows(rq.buckets, ring, k)
<1>1. /\ moved \in RunningQuery(I)
      /\ moved.buckets # <<>> /\ RingOK(moved.buckets, ring)
      /\ moved.late = rq.late
      /\ rq.buckets = <<>> =>
           moved.emitted = rq.emitted /\ BackStart(moved) = bucket
      /\ rq.buckets # <<>> =>
           /\ moved.emitted = rq.emitted \o FlushedWindows(rq.buckets, ring, k)
           /\ BackStart(moved) = Larger(BackStart(rq), bucket)
           /\ FrontStart(moved) = Larger(FrontStart(rq), bucket + 1 - ring)
  BY AdvanceLemma, ZenonT(60)
<1>2. /\ rq.buckets \in Seq(Bucket(I)) /\ rq.emitted \in Seq(WindowState(I))
      /\ moved.buckets \in Seq(Bucket(I)) /\ moved.emitted \in Seq(WindowState(I))
  BY <1>1 DEF RunningQuery
<1>3. n \in Nat /\ n >= 1 /\ \A j \in 1 .. n : moved.buckets[j] \in Bucket(I)
  BY <1>1, <1>2, SeqElements
<1>4. after = IF open = {} THEN [moved EXCEPT !.late = @ \cup {id}]
                           ELSE [moved EXCEPT !.buckets = put]
  BY DEF ProcessMatching
<1>5. after.emitted = moved.emitted
  BY <1>1, <1>4 DEF RunningQuery
<1>6. moved.emitted # <<>> => moved.emitted[1].ids # {}
  <2>1. CASE rq.buckets = <<>>
    BY <1>1, <2>1 DEF Filled
  <2>2. CASE rq.buckets # <<>> /\ bucket <= BackStart(rq)
    <3>1. moved = rq
      BY <2>2 DEF AdvanceToBucket
    <3> QED
      BY <3>1 DEF Filled
  <2>3. CASE rq.buckets # <<>> /\ ~ (bucket <= BackStart(rq))
    <3>1. BackStart(rq) \in Nat
      BY <1>2, <2>3, EndsLemma DEF BackStart
    <3>2. k = Smaller(bucket - BackStart(rq), ring)
      BY <2>3 DEF WindowsClosedByAdvance
    <3>3. k \in Nat \ {0}
      BY <2>3, <3>1, <3>2 DEF Smaller
    <3>4. rq.buckets[Len(rq.buckets)].ids # {}
      BY <2>3 DEF Filled
    <3>5. fl[1].ids # {}
      <4> HIDE DEF k
      <4> QED
        BY <1>2, <2>3, <3>3, <3>4, FirstFlushed
    <3>6. fl \in Seq(WindowState(I)) /\ Len(fl) = k
      <4> DEFINE back == rq.buckets[Len(rq.buckets)].start
      <4> HIDE DEF k
      <4> QED
        BY <1>2, <2>3, <3>3, FlushedLemma, SMTT(30)
    <3>7. moved.emitted = rq.emitted \o fl
      BY <1>1, <2>3
    <3> HIDE DEF fl, k, moved
    <3>8. CASE rq.emitted = <<>>
      BY <3>3, <3>5, <3>6, <3>7, <3>8, ConcatEmptySeq
    <3>9. CASE rq.emitted # <<>>
      <4>1. Len(rq.emitted) \in Nat /\ Len(rq.emitted) >= 1
        BY <1>2, <3>9, SeqElements
      <4>2. moved.emitted[1] = rq.emitted[1]
        BY <1>2, <3>6, <3>7, <4>1, ConcatProperties
      <4> QED
        BY <3>9, <4>2 DEF Filled
    <3> QED
      BY <3>8, <3>9
  <2> QED
    BY <2>1, <2>2, <2>3
<1>7. after.buckets # <<>> => after.buckets[Len(after.buckets)].ids # {}
  <2>1. CASE n \in open
    <3>1. after.buckets = put
      BY <1>1, <1>4, <2>1 DEF RunningQuery
    <3>2. put \in Seq(Bucket(I)) /\ Len(put) = n
      <4>1. \A j \in 1 .. n : put[j] \in Bucket(I)
        <5> SUFFICES ASSUME NEW j \in 1 .. n PROVE put[j] \in Bucket(I)
          OBVIOUS
        <5>1. moved.buckets[j] \in Bucket(I)
          BY <1>3
        <5> DEFINE b == moved.buckets[j]
        <5>2. put[j] = IF j \in open THEN [b EXCEPT !.ids = @ \cup {id}] ELSE b
          OBVIOUS
        <5> HIDE DEF b, put, open
        <5>3. b \in Bucket(I)
          BY <5>1 DEF b
        <5> QED
          BY <5>2, <5>3 DEF Bucket
      <4>2. put \in [1 .. n -> Bucket(I)]
        <5> HIDE DEF open
        <5> QED
          BY <4>1
      <4> HIDE DEF put
      <4> QED
        BY <1>3, <4>2, FunctionIsSeq
    <3>3. put[n] = [moved.buckets[n] EXCEPT !.ids = @ \cup {id}]
      BY <1>3, <2>1
    <3>4. moved.buckets[n] \in Bucket(I)
      BY <1>3
    <3>5. id \in put[n].ids
      BY <3>3, <3>4 DEF Bucket
    <3> QED
      BY <3>1, <3>2, <3>5
  <2>2. CASE n \notin open
    <3>1. BackStart(moved) # bucket
      BY <1>3, <2>2 DEF BackStart
    <3>2. rq.buckets # <<>> /\ bucket <= BackStart(rq)
      BY <1>1, <3>1 DEF Larger
    <3>3. moved = rq
      BY <3>2 DEF AdvanceToBucket
    <3>4. moved.buckets[n].ids # {}
      BY <3>2, <3>3 DEF Filled
    <3>5. CASE open = {}
      <4>1. after.buckets = moved.buckets
        BY <1>1, <1>4, <3>5 DEF RunningQuery
      <4> QED
        BY <3>4, <4>1
    <3>6. CASE open # {}
      <4>1. after.buckets = put
        BY <1>1, <1>4, <3>6 DEF RunningQuery
      <4>2. Len(put) = n
        <5>1. put \in [1 .. n -> {put[j] : j \in 1 .. n}]
          OBVIOUS
        <5> HIDE DEF put
        <5> QED
          BY <1>3, <5>1, FunctionIsSeq
      <4>3. put[n] = moved.buckets[n]
        BY <1>3, <2>2
      <4> QED
        BY <3>4, <4>1, <4>2, <4>3
    <3> QED
      BY <3>5, <3>6
  <2> QED
    BY <2>1, <2>2
<1> HIDE DEF after, moved
<1> QED
  BY <1>5, <1>6, <1>7 DEF Filled, after

(* An empty query, a drained one and a finished one. *)
LEMMA FilledStays ==
  ASSUME NEW I, NEW rq \in RunningQuery(I), NEW ring \in Nat \ {0},
         RingOK(rq.buckets, ring), Filled(rq)
  PROVE  /\ Filled([rq EXCEPT !.emitted = <<>>])
         /\ Filled(FinishQuery(rq))
<1>1. rq.buckets \in Seq(Bucket(I)) /\ rq.emitted \in Seq(WindowState(I))
  BY DEF RunningQuery
<1>2. Filled([rq EXCEPT !.emitted = <<>>])
  BY DEF Filled, RunningQuery
<1>3. CASE rq.buckets = <<>>
  BY <1>2, <1>3 DEF FinishQuery
<1>4. CASE rq.buckets # <<>>
  <2> DEFINE n == Len(rq.buckets)
             w == MergedWindow(rq.buckets, BackStart(rq) + 1)
             e == rq.emitted
  <2>1. n \in Nat /\ n >= 1 /\ BackStart(rq) \in Nat
    BY <1>1, <1>4, EndsLemma DEF BackStart
  <2>2. w.ids = UNION {rq.buckets[j].ids : j \in 1 .. n}
    BY DEF MergedWindow
  <2>3. w.ids # {}
    <3>1. rq.buckets[n].ids # {} /\ n \in 1 .. n
      BY <1>4, <2>1 DEF Filled
    <3> HIDE DEF w
    <3> QED
      BY <2>2, <3>1
  <2>4. w \in WindowState(I)
    BY <1>1, <1>4, <2>1, MergedLemma
  <2>5. FinishQuery(rq) = [rq EXCEPT !.emitted = Append(e, w)]
    BY <1>4 DEF FinishQuery
  <2>6. FinishQuery(rq).emitted = Append(e, w) /\ FinishQuery(rq).buckets = rq.buckets
    BY <2>5 DEF RunningQuery
  <2> HIDE DEF w
  <2>7. Len(e) \in Nat /\ (e # <<>> => Len(e) >= 1)
    BY <1>1, SeqElements
  <2>8. Append(e, w)[1] = IF e = <<>> THEN w ELSE e[1]
    BY <1>1, <2>4, <2>7, AppendProperties
  <2>9. Append(e, w)[1].ids # {}
    BY <2>3, <2>8 DEF Filled
  <2> QED
    BY <1>2, <2>6, <2>9 DEF Filled
<1> QED
  BY <1>3, <1>4

(* What the engine's invariant says of one query of the vector. *)
LEMMA EngineQuery ==
  ASSUME EngineInv, NEW q \in Query
  PROVE  /\ queries[q] \in RunningQuery(Id) /\ RingOK(queries[q].buckets, Ring[q])
         /\ Ring[q] \in Nat \ {0} /\ Capacity[q] \in Nat /\ Capacity[q] >= Ring[q]
         /\ queries[q].emitted \in Seq(WindowState(Id))
BY QueryConstants, PlannedCapacity DEF EngineInv, QueryInv, RunningQuery

(* The engine refuses only while windows wait, and then one of them has    *)
(* estimates, when no alert threshold filters them.                        *)
LEMMA RefusalsDrain ==
  ASSUME ReplayInv, NEW e \in Event, ~ProcessPreflight(e) \/ ~FinishPreflight
  PROVE  AlertMin = 1 => Drainable
<1>1. EngineInv /\ TypeOK
  BY DEF ReplayInv, ExactInv, EngineInv
<1>2. \E q \in Query : queries[q].emitted # <<>>
  <2> SUFFICES ASSUME \A q \in Query : queries[q].emitted = <<>> PROVE FALSE
    OBVIOUS
  <2>1. ASSUME NEW q \in Query, NEW k \in 0 .. Ring[q]
        PROVE  CanEmit(queries[q], Capacity[q], k)
    <3>1. Len(queries[q].emitted) = 0
      OBVIOUS
    <3> QED
      BY <1>1, <3>1, EngineQuery DEF CanEmit
  <2>2. ProcessPreflight(e)
    <3> SUFFICES ASSUME NEW q \in Query, q \in e.match
                 PROVE  EnsureCanAdvance(q, e.ts)
      BY DEF ProcessPreflight, EnsureCanProcess
    <3>1. Target(q, e.ts) \in Nat
      BY ConstantsAssumption, TargetType DEF Event, Ts
    <3>2. WindowsClosedByAdvance(queries[q], Ring[q], Target(q, e.ts)) \in 0 .. Ring[q]
      BY <1>1, <3>1, EngineQuery, ClosedBounded
    <3> QED
      BY <2>1, <3>2 DEF EnsureCanAdvance, CanAdvance
  <2>3. FinishPreflight
    <3> SUFFICES ASSUME NEW q \in Query PROVE EnsureCanFinish(q)
      BY DEF FinishPreflight
    <3>1. 1 \in 0 .. Ring[q]
      BY QueryConstants
    <3> QED
      BY <2>1, <3>1 DEF EnsureCanFinish
  <2> QED
    BY <2>2, <2>3
<1>3. PICK q \in Query : queries[q].emitted # <<>>
  BY <1>2
<1> DEFINE w == queries[q].emitted[1]
<1>4. Len(queries[q].emitted) \in Nat /\ Len(queries[q].emitted) >= 1 /\ w \in WindowState(Id)
  BY <1>1, <1>3, EngineQuery, SeqElements
<1>5. w.ids # {} /\ w.ids \subseteq Id
  BY <1>3, <1>4 DEF ReplayInv, Filled, WindowState
<1>6. Len(log) \in Nat
  BY <1>1 DEF TypeOK
<1>7. IsFiniteSet(w.ids) /\ Cardinality(w.ids) \in Nat
  <2>1. IsFiniteSet(Id)
    BY <1>6, FS_Interval DEF Id
  <2> HIDE DEF w
  <2>2. IsFiniteSet(w.ids)
    BY <1>5, <2>1, FS_Subset
  <2> QED
    BY <2>2, FS_CardinalityType
<1>8. Cardinality(w.ids) # 0
  <2> HIDE DEF w
  <2> QED
    BY <1>5, <1>7, FS_EmptySet
<1>9. AlertMin = 1 => HasEstimates(w)
  <2> HIDE DEF w
  <2> QED
    BY <1>7, <1>8 DEF HasEstimates
<1> QED
  BY <1>3, <1>4, <1>9 DEF Drainable

(* Every step of the driver is a call of the engine, or leaves it alone. *)
LEMMA ReplayStepIsCall ==
  ASSUME event \in Event, [ReplayNext]_allVars
  PROVE  [Next]_vars
<1>1. CASE ProcessEvent
  BY <1>1 DEF ProcessEvent, Next
<1>2. CASE DrainIfFull \/ DrainAndRetry \/ Output
  BY <1>2 DEF DrainIfFull, DrainAndRetry, Output, Next
<1>3. CASE FinishReplay
  BY <1>3 DEF FinishReplay, Next
<1>4. CASE Read \/ EndOfFile \/ Faults \/ Terminated \/ UNCHANGED allVars
  BY <1>4 DEF Read, EndOfFile, Faults, ReadFails, SnapshotsFail, Terminated, allVars
<1> QED
  BY <1>1, <1>2, <1>3, <1>4 DEF ReplayNext, Step

(* The driver starts with the engine. *)
LEMMA ReplayInitKeeps == ReplayInit => ReplayInv
<1> SUFFICES ASSUME ReplayInit PROVE ReplayInv
  OBVIOUS
<1>1. ExactInv
  BY ExactInit DEF ReplayInit
<1>2. event \in Event
  BY ConstantsAssumption DEF ReplayInit, Event, Ts
<1>3. \A q \in Query : queries[q] = NewQuery
  BY DEF ReplayInit, Init
<1>4. Filled(NewQuery)
  BY DEF Filled, NewQuery
<1>5. finished = FALSE /\ pc = "read"
  BY DEF ReplayInit, Init
<1> QED
  BY <1>1, <1>2, <1>3, <1>4, <1>5 DEF ReplayInv

(* Draining leaves filled queries filled, and nothing waiting. *)
LEMMA DrainFills ==
  ASSUME EngineInv, \A q \in Query : Filled(queries[q]), TakeWindowStates
  PROVE  /\ \A q \in Query : Filled(queries'[q]) /\ queries'[q].emitted = <<>>
         /\ finished' = finished
<1>1. queries' = [q \in Query |-> [queries[q] EXCEPT !.emitted = <<>>]]
  BY DEF TakeWindowStates
<1>2. ASSUME NEW q \in Query
      PROVE  Filled(queries'[q]) /\ queries'[q].emitted = <<>>
  <2>1. queries'[q] = [queries[q] EXCEPT !.emitted = <<>>]
    BY <1>1, Zenon
  <2>2. queries[q] \in RunningQuery(Id)
    BY EngineQuery
  <2>3. Filled([queries[q] EXCEPT !.emitted = <<>>])
    BY EngineQuery, FilledStays
  <2> QED
    BY <2>1, <2>2, <2>3 DEF RunningQuery
<1> QED
  BY <1>2 DEF TakeWindowStates

(* Every step of the driver keeps its invariant. *)
LEMMA ReplayStepKeeps ==
  ASSUME ReplayInv, [ReplayNext]_allVars
  PROVE  ReplayInv'
<1>1. /\ ExactInv /\ event \in Event
      /\ pc # "failed" => (finished <=> pc \in {"output", "done"})
      /\ \A q \in Query : Filled(queries[q])
      /\ pc = "done" => \A q \in Query : queries[q].emitted = <<>>
      /\ pc = "bailed" => AlertMin # 1
  BY DEF ReplayInv
<1>2. EngineInv /\ TypeOK
  BY <1>1 DEF ExactInv, EngineInv
<1>3. ExactInv'
  BY <1>1, ReplayStepIsCall, ExactNext
<1>4. finished \in BOOLEAN
  BY <1>2 DEF TypeOK
<1>5. CASE UNCHANGED vars /\ (Read \/ EndOfFile \/ Faults \/ Terminated \/ UNCHANGED allVars)
  <2>1. /\ queries' = queries /\ finished' = finished
        /\ event' \in Event
    BY <1>1, <1>5 DEF vars, allVars, driver, Read, EndOfFile, Faults, ReadFails, SnapshotsFail,
                      Terminated
  <2>2. \/ pc = "read" /\ pc' \in {"process", "finish"}
        \/ pc' = "failed"
        \/ pc' = pc
    BY <1>5 DEF allVars, driver, Read, EndOfFile, Faults, ReadFails, SnapshotsFail, Terminated
  <2> QED
    BY <1>1, <1>3, <2>1, <2>2 DEF ReplayInv
<1>6. CASE ProcessEvent
  <2>1. Process(event) /\ pc = "process" /\ pc' = "drain" /\ event' = event
    BY <1>6 DEF ProcessEvent
  <2>2. ASSUME NEW q \in Query PROVE Filled(queries'[q])
    <3> DEFINE id == Len(log) + 1
    <3>1. /\ queries'[q] = IF q \in event.match
                             THEN ProcessMatching(queries[q], Ring[q], Target(q, event.ts), id)
                             ELSE queries[q]
          /\ log' = Append(log, event)
      BY <1>1, <1>2, <2>1, ProcessEffect
    <3>2. CASE q \in event.match
      <4>1. Target(q, event.ts) \in Nat
        BY <1>1, ConstantsAssumption, TargetType DEF Event, Ts
      <4>2. /\ queries[q] \in RunningQuery(Id) /\ RingOK(queries[q].buckets, Ring[q])
            /\ Ring[q] \in Nat \ {0}
        BY <1>2, EngineQuery
      <4>3. Id \subseteq Id \cup {id}
        OBVIOUS
      <4>4. queries[q] \in RunningQuery(Id \cup {id})
        BY <4>2, <4>3, TypesGrow
      <4> HIDE DEF id
      <4>5. id \in Id \cup {id} /\ Filled(queries[q])
        BY <1>1
      <4>6. Filled(ProcessMatching(queries[q], Ring[q], Target(q, event.ts), id))
        BY <4>1, <4>2, <4>4, <4>5, ProcessFills
      <4> QED
        BY <3>1, <3>2, <4>6
    <3>3. CASE q \notin event.match
      BY <1>1, <3>1, <3>3
    <3> QED
      BY <3>2, <3>3
  <2>3. finished' = finished
    BY <2>1 DEF Process
  <2> QED
    BY <1>1, <1>3, <2>1, <2>2, <2>3 DEF ReplayInv
<1>7. CASE DrainIfFull
  <2>1. pc = "drain" /\ pc' = "read" /\ event' = event
    BY <1>7 DEF DrainIfFull
  <2>2. \A q \in Query : Filled(queries'[q])
    BY <1>1, <1>2, <1>7, DrainFills DEF DrainIfFull, vars
  <2>3. finished' = finished
    BY <1>1, <1>2, <1>7, DrainFills DEF DrainIfFull, vars
  <2> QED
    BY <1>1, <1>3, <2>1, <2>2, <2>3 DEF ReplayInv
<1>8. CASE DrainAndRetry
  <2>1. /\ pc \in {"process", "finish"} /\ event' = event /\ TakeWindowStates
        /\ ~ProcessPreflight(event) \/ ~FinishPreflight
        /\ pc' = IF Drainable THEN pc ELSE "bailed"
    BY <1>8 DEF DrainAndRetry
  <2>2. AlertMin = 1 => Drainable
    BY <1>1, <2>1, RefusalsDrain
  <2>3. (\A q \in Query : Filled(queries'[q])) /\ finished' = finished
    BY <1>1, <1>2, <2>1, DrainFills
  <2>4. pc' \in {"process", "finish", "bailed"} /\ (pc' = "bailed" => AlertMin # 1)
    BY <2>1, <2>2
  <2> QED
    BY <1>1, <1>3, <2>1, <2>3, <2>4 DEF ReplayInv
<1>9. CASE FinishReplay
  <2>1. Finish /\ pc = "finish" /\ pc' = "output" /\ event' = event
    BY <1>9 DEF FinishReplay
  <2>2. finished' = TRUE /\ queries' = [q \in Query |-> FinishQuery(queries[q])]
    BY <2>1 DEF Finish
  <2>3. ASSUME NEW q \in Query PROVE Filled(queries'[q])
    <3>1. queries'[q] = FinishQuery(queries[q])
      BY <2>2, Zenon
    <3> QED
      BY <1>1, <1>2, <3>1, EngineQuery, FilledStays
  <2> QED
    BY <1>1, <1>3, <2>1, <2>2, <2>3 DEF ReplayInv
<1>10. CASE Output
  <2>1. pc = "output" /\ pc' = "done" /\ event' = event
    BY <1>10 DEF Output
  <2>2. /\ \A q \in Query : Filled(queries'[q]) /\ queries'[q].emitted = <<>>
        /\ finished' = finished
    BY <1>1, <1>2, <1>10, DrainFills DEF Output, vars
  <2> QED
    BY <1>1, <1>3, <2>1, <2>2 DEF ReplayInv
<1>11. Read \/ EndOfFile \/ Faults \/ Terminated \/ UNCHANGED allVars => UNCHANGED vars
  BY DEF Read, EndOfFile, Faults, ReadFails, SnapshotsFail, Terminated, allVars
<1> QED
  BY <1>5, <1>6, <1>7, <1>8, <1>9, <1>10, <1>11 DEF ReplayNext, Step

(* The invariant of replay, in every reachable state. *)
THEOREM ReplayInvariant == ReplaySpec => []ReplayInv
BY ReplayInitKeeps, ReplayStepKeeps, PTL DEF ReplaySpec

(* Every behaviour of replay is one of the engine: what is proved of the   *)
(* engine holds while replay drives it.                                    *)
THEOREM ReplayDrivesEngine == ReplaySpec => Spec
<1>1. ReplayInv /\ [ReplayNext]_allVars => [Next]_vars
  BY ReplayStepIsCall DEF ReplayInv
<1>2. ReplayInit => Init
  BY DEF ReplayInit
<1> QED
  BY <1>1, <1>2, ReplayInvariant, PTL DEF ReplaySpec, Spec

(* What replay prints covers the whole capture: when it is done, every     *)
(* event that passed a query's filter was late or is in a window that was  *)
(* drained, whatever mix of full-buffer drains and retries got there.      *)
THEOREM ReplayOutputComplete == ReplaySpec => []OutputComplete
<1>1. ReplayInv => OutputComplete
  <2> SUFFICES ASSUME ReplayInv, pc = "done", NEW q \in Query, NEW i \in Id,
                      q \in log[i].match, i \notin queries[q].late
               PROVE  \E w \in 1 .. Len(taken[q]) : i \in taken[q][w].ids
    BY DEF OutputComplete
  <2>1. finished = TRUE /\ queries[q].emitted = <<>> /\ ExactInv /\ EngineInv
    BY DEF ReplayInv, ExactInv, EngineInv, TypeOK
  <2>2. taken[q] \in Seq(WindowState(Id))
    BY <2>1 DEF EngineInv, QueryInv
  <2>3. i \in Mine(q) \ queries[q].late
    BY DEF Mine
  <2>4. Accounted(queries[q], taken[q] \o queries[q].emitted, Mine(q) \ queries[q].late,
                  Slots(q), TRUE)
    BY <2>1 DEF ExactInv, ContentInv
  <2>5. taken[q] \o queries[q].emitted = taken[q]
    BY <2>1, <2>2, ConcatEmptySeq
  <2>6. InSome(taken[q], i)
    BY <2>3, <2>4, <2>5 DEF Accounted
  <2> QED
    BY <2>6 DEF InSome
<1> QED
  BY <1>1, ReplayInvariant, PTL

(* Without alert thresholds replay never gives up on an event: whenever the*)
(* engine refuses, a window with estimates is there to be drained.         *)
THEOREM ReplayNeverGivesUp == AlertMin = 1 => (ReplaySpec => [](pc # "bailed"))
<1> SUFFICES ASSUME AlertMin = 1 PROVE ReplaySpec => [](pc # "bailed")
  OBVIOUS
<1>1. ReplayInv => pc # "bailed"
  BY DEF ReplayInv
<1> QED
  BY <1>1, ReplayInvariant, PTL
===============================================================================
