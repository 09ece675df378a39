--------------------------- MODULE WindowRingProofs ---------------------------
(***************************************************************************)
(* What the operators of WindowRing preserve, for every ring, every target *)
(* and every set I of events, and which events its buckets and windows     *)
(* hold.                                                                   *)
(***************************************************************************)
EXTENDS WindowRing, SequenceTheorems, TLAPS

(* A function on 1 .. n is a sequence of length n. *)
LEMMA FunctionIsSeq ==
  ASSUME NEW S, NEW n \in Nat, NEW f \in [1 .. n -> S]
  PROVE  f \in Seq(S) /\ Len(f) = n
<1>1. f \in Seq(S)
  BY SeqDef
<1>2. DOMAIN f = 1 .. n /\ DOMAIN f = 1 .. Len(f) /\ Len(f) \in Nat
  BY <1>1, LenProperties
<1> QED
  BY <1>1, <1>2

(* What membership in Seq gives: a length, and elements of the set. *)
LEMMA SeqElements ==
  ASSUME NEW S, NEW s \in Seq(S)
  PROVE  /\ Len(s) \in Nat
         /\ \A j \in 1 .. Len(s) : s[j] \in S
         /\ s # <<>> => Len(s) >= 1
BY LenProperties, ElementOfSeq, EmptySeq

(* Pushing k empty buckets behind a ring keeps it typed and consecutive.   *)
LEMMA PushedLemma ==
  ASSUME NEW I, NEW bs \in Seq(Bucket(I)), bs # <<>>, NEW k \in Nat,
         Consecutive(bs)
  PROVE  /\ Pushed(bs, k) \in Seq(Bucket(I))
         /\ Len(Pushed(bs, k)) = Len(bs) + k
         /\ \A j \in 1 .. Len(bs) + k :
              Pushed(bs, k)[j].start = bs[1].start + (j - 1)
<1> DEFINE n == Len(bs)
           p == Pushed(bs, k)
<1>1. n \in Nat /\ n >= 1 /\ \A j \in 1 .. n : bs[j] \in Bucket(I)
  BY SeqElements
<1>2. \A j \in 1 .. n : bs[j].start \in Nat /\ bs[j].ids \in SUBSET I
  BY <1>1 DEF Bucket
<1> HIDE DEF n
<1>3. \A j \in 1 .. n + k :
        p[j] = IF j <= n THEN bs[j] ELSE NewBucket(bs[n].start + (j - n))
  BY <1>1 DEF Pushed, n
<1>4. ASSUME NEW j \in 1 .. n + k
      PROVE  /\ p[j] \in Bucket(I)
             /\ p[j].start = bs[1].start + (j - 1)
  <2>1. CASE j <= n
    <3>1. p[j] = bs[j] /\ j \in 1 .. n
      BY <1>1, <1>3, <2>1
    <3>2. bs[j] \in Bucket(I) /\ bs[j].start = bs[1].start + (j - 1)
      BY <1>1, <3>1 DEF n, Consecutive
    <3> QED
      BY <3>1, <3>2
  <2>2. CASE ~(j <= n)
    <3>1. p[j] = NewBucket(bs[n].start + (j - n))
      BY <1>3, <2>2
    <3>2. bs[n].start = bs[1].start + (n - 1) /\ bs[1].start \in Nat
      BY <1>1, <1>2 DEF n, Consecutive
    <3>3. bs[n].start + (j - n) = bs[1].start + (j - 1)
      BY <1>1, <3>2
    <3>4. bs[1].start + (j - 1) \in Nat
      BY <3>2
    <3> QED
      BY <2>2, <3>1, <3>3, <3>4 DEF NewBucket, Bucket
  <2> QED
    BY <2>1, <2>2
<1>5. p \in [1 .. n + k -> Bucket(I)]
  BY <1>4 DEF Pushed, n
<1>6. p \in Seq(Bucket(I)) /\ Len(p) = n + k
  BY <1>1, <1>5, FunctionIsSeq
<1> QED
  BY <1>4, <1>6 DEF n

(* Trimming keeps the last buckets: the ring stays typed and consecutive   *)
(* and is no longer than window_buckets.                                   *)
LEMMA TrimmedLemma ==
  ASSUME NEW I, NEW bs \in Seq(Bucket(I)), bs # <<>>, NEW ring \in Nat \ {0},
         Consecutive(bs)
  PROVE  LET t     == Trimmed(bs, ring)
             first == Larger(1, Len(bs) + 1 - ring)
         IN  /\ t \in Seq(Bucket(I)) /\ t # <<>>
             /\ first \in 1 .. Len(bs)
             /\ Len(t) = Len(bs) - first + 1
             /\ RingOK(t, ring)
             /\ \A j \in 1 .. Len(t) : t[j] = bs[first + (j - 1)]
<1> DEFINE n == Len(bs)
           first == Larger(1, n + 1 - ring)
           t == Trimmed(bs, ring)
<1>1. n \in Nat /\ n >= 1 /\ \A j \in 1 .. n : bs[j] \in Bucket(I)
  BY SeqElements
<1>2. \A j \in 1 .. n : bs[j].start \in Nat
  BY <1>1 DEF Bucket
<1>3. first \in 1 .. n /\ n - first + 1 <= ring
  BY <1>1 DEF Larger
<1>4. t = SubSeq(bs, first, n)
  BY DEF Trimmed
<1> HIDE DEF n, first, t
<1>5. \A i \in first .. n : bs[i] \in Bucket(I)
  BY <1>1, <1>3
<1>6. /\ t \in Seq(Bucket(I))
      /\ Len(t) = n - first + 1
      /\ \A i \in 1 .. n - first + 1 : t[i] = bs[first + i - 1]
  <2>1. /\ SubSeq(bs, first, n) \in Seq(Bucket(I))
        /\ Len(SubSeq(bs, first, n)) = IF first <= n THEN n - first + 1 ELSE 0
        /\ \A i \in 1 .. n - first + 1 : SubSeq(bs, first, n)[i] = bs[first + i - 1]
    BY <1>1, <1>3, <1>5, SubSeqProperties
  <2> QED
    BY <1>1, <1>3, <1>4, <2>1
<1>7. \A j \in 1 .. Len(t) : t[j] = bs[first + (j - 1)]
  BY <1>1, <1>3, <1>6
<1>8. ASSUME NEW j \in 1 .. Len(t)
      PROVE  t[j].start = t[1].start + (j - 1)
  <2>1. first + (j - 1) \in 1 .. n /\ first \in 1 .. n /\ 1 \in 1 .. Len(t)
    BY <1>1, <1>3, <1>6
  <2>2. t[j] = bs[first + (j - 1)] /\ t[1] = bs[first]
    <3>1. t[1] = bs[first + (1 - 1)]
      BY <1>7, <2>1
    <3> QED
      BY <1>7, <2>1, <3>1
  <2>3. /\ bs[first + (j - 1)].start = bs[1].start + (first + (j - 1) - 1)
        /\ bs[first].start = bs[1].start + (first - 1)
        /\ bs[1].start \in Nat
    BY <1>1, <1>2, <2>1 DEF n, Consecutive
  <2>4. first \in Nat /\ j \in Nat
    BY <1>1, <1>3, <1>6
  <2>5. \A b \in Nat : b + (first + (j - 1) - 1) = (b + (first - 1)) + (j - 1)
    BY <2>4
  <2> QED
    BY <2>2, <2>3, <2>5
<1>9. RingOK(t, ring)
  BY <1>1, <1>3, <1>6, <1>8 DEF RingOK, Consecutive
<1>10. t # <<>>
  <2>1. Len(t) # 0
    BY <1>1, <1>3, <1>6
  <2> QED
    BY <2>1, EmptySeq
<1> QED
  BY <1>3, <1>6, <1>7, <1>9, <1>10 DEF n, first, t

(* The merge of a non-empty ring is a window that starts at its front.     *)
LEMMA MergedLemma ==
  ASSUME NEW I, NEW bs \in Seq(Bucket(I)), bs # <<>>, NEW end \in Nat
  PROVE  /\ MergedWindow(bs, end) \in WindowState(I)
         /\ MergedWindow(bs, end).start = bs[1].start
         /\ MergedWindow(bs, end).end = end
<1>1. Len(bs) \in Nat /\ Len(bs) >= 1 /\ \A j \in 1 .. Len(bs) : bs[j] \in Bucket(I)
  BY SeqElements
<1>2. \A j \in 1 .. Len(bs) : bs[j].start \in Nat /\ bs[j].ids \in SUBSET I
  BY <1>1 DEF Bucket
<1>3. bs[1].start \in Nat
  BY <1>1, <1>2
<1>4. UNION {bs[j].ids : j \in 1 .. Len(bs)} \in SUBSET I
  BY <1>2
<1> QED
  BY <1>3, <1>4 DEF MergedWindow, WindowState

(* Where a non-empty ring begins and ends. *)
LEMMA EndsLemma ==
  ASSUME NEW I, NEW bs \in Seq(Bucket(I)), bs # <<>>, NEW ring \in Nat,
         RingOK(bs, ring)
  PROVE  /\ Len(bs) \in Nat /\ Len(bs) >= 1 /\ Len(bs) <= ring
         /\ bs[1].start \in Nat /\ bs[Len(bs)].start \in Nat
         /\ bs[Len(bs)].start = bs[1].start + (Len(bs) - 1)
<1>1. Len(bs) \in Nat /\ Len(bs) >= 1 /\ \A j \in 1 .. Len(bs) : bs[j] \in Bucket(I)
  BY SeqElements
<1>2. \A j \in 1 .. Len(bs) : bs[j].start \in Nat /\ bs[j].start = bs[1].start + (j - 1)
  BY <1>1 DEF Bucket, RingOK, Consecutive
<1>3. Len(bs) <= ring
  BY DEF RingOK
<1> QED
  BY <1>1, <1>2, <1>3

(* d slides, each a push and a trim, end d slides later and give up the    *)
(* buckets that are window_buckets or more behind.                         *)
LEMMA SlideLemma ==
  ASSUME NEW I, NEW bs \in Seq(Bucket(I)), bs # <<>>, NEW ring \in Nat \ {0},
         NEW d \in Nat, RingOK(bs, ring)
  PROVE  LET r    == Trimmed(Pushed(bs, d), ring)
             back == bs[Len(bs)].start
         IN  /\ r \in Seq(Bucket(I)) /\ r # <<>> /\ RingOK(r, ring)
             /\ r[1].start = Larger(bs[1].start, back + d + 1 - ring)
             /\ r[Len(r)].start = back + d
<1> DEFINE n == Len(bs)
           b1 == bs[1].start
           back == bs[Len(bs)].start
           p == Pushed(bs, d)
           first == Larger(1, Len(p) + 1 - ring)
           r == Trimmed(p, ring)
<1>1. n \in Nat /\ n >= 1 /\ b1 \in Nat /\ back \in Nat /\ back = b1 + (n - 1)
  BY EndsLemma
<1>2. /\ p \in Seq(Bucket(I)) /\ Len(p) = n + d
      /\ \A j \in 1 .. n + d : p[j].start = b1 + (j - 1)
  <2>1. Consecutive(bs)
    BY DEF RingOK
  <2> QED
    BY <2>1, PushedLemma
<1> HIDE DEF n, b1, back, p
<1>3. p # <<>>
  <2>1. Len(p) # 0
    BY <1>1, <1>2
  <2> QED
    BY <2>1, EmptySeq
<1>4. p[1].start = b1
  <2>1. p[1].start = b1 + (1 - 1)
    BY <1>1, <1>2
  <2> QED
    BY <1>1, <2>1
<1>5. Consecutive(p)
  BY <1>2, <1>4 DEF Consecutive
<1>6. /\ r \in Seq(Bucket(I)) /\ r # <<>> /\ RingOK(r, ring)
      /\ first \in 1 .. Len(p)
      /\ Len(r) = Len(p) - first + 1
      /\ \A j \in 1 .. Len(r) : r[j] = p[first + (j - 1)]
  BY <1>2, <1>3, <1>5, TrimmedLemma
<1>7. b1 + (first - 1) = Larger(b1, back + d + 1 - ring)
  <2>1. first = Larger(1, n + d + 1 - ring)
    BY <1>2
  <2>2. \A x \in Int : b1 + (Larger(1, x) - 1) = Larger(b1, b1 + (x - 1))
    BY <1>1 DEF Larger
  <2> DEFINE x == n + d + 1 - ring
  <2>3. x \in Int /\ back + d + 1 - ring = b1 + (x - 1)
    BY <1>1
  <2>4. b1 + (Larger(1, x) - 1) = Larger(b1, b1 + (x - 1))
    BY <2>2, <2>3
  <2> HIDE DEF first
  <2> QED
    BY <2>1, <2>3, <2>4
<1> HIDE DEF r, first
<1>8. /\ first \in 1 .. n + d /\ first \in Nat
      /\ Len(r) = n + d - first + 1
  BY <1>1, <1>2, <1>6
<1>9. 1 \in 1 .. Len(r) /\ Len(r) \in 1 .. Len(r) /\ Len(r) \in Nat
  BY <1>1, <1>8
<1>10. first + (1 - 1) = first /\ first + (Len(r) - 1) = n + d
  BY <1>1, <1>8
<1>11. r[1] = p[first] /\ r[Len(r)] = p[n + d]
  <2>1. r[1] = p[first + (1 - 1)] /\ r[Len(r)] = p[first + (Len(r) - 1)]
    BY <1>6, <1>9
  <2> QED
    BY <1>10, <2>1
<1>12. p[first].start = b1 + (first - 1) /\ p[n + d].start = b1 + (n + d - 1)
  <2>1. p[first].start = b1 + (first - 1)
    BY <1>2, <1>8
  <2>2. \A m \in Nat : m = n + d => m \in 1 .. n + d
    BY <1>1
  <2>3. \A m \in Nat : m = n + d => p[m].start = b1 + (m - 1)
    BY <1>2, <2>2
  <2>4. n + d \in Nat
    BY <1>1
  <2> QED
    BY <1>1, <2>1, <2>3, <2>4
<1>13. b1 + (n + d - 1) = back + d
  BY <1>1
<1>14. r[1].start = Larger(b1, back + d + 1 - ring) /\ r[Len(r)].start = back + d
  BY <1>7, <1>11, <1>12, <1>13
<1> QED
  BY <1>6, <1>14 DEF r, p, b1, back

(* The i-th flushed window ends i slides after the back of the ring and    *)
(* starts at the front of the ring, or later when the ring was full.       *)
LEMMA FlushedLemma ==
  ASSUME NEW I, NEW bs \in Seq(Bucket(I)), bs # <<>>, NEW ring \in Nat \ {0},
         NEW k \in Nat, RingOK(bs, ring)
  PROVE  LET ws   == FlushedWindows(bs, ring, k)
             back == bs[Len(bs)].start
         IN  /\ ws \in Seq(WindowState(I))
             /\ Len(ws) = k
             /\ \A i \in 1 .. k :
                  /\ ws[i].end = back + i
                  /\ ws[i].start = Larger(bs[1].start, back + i - ring)
<1> DEFINE b1 == bs[1].start
           back == bs[Len(bs)].start
           ws == FlushedWindows(bs, ring, k)
           ringAt(i) == Trimmed(Pushed(bs, i - 1), ring)
<1>1. b1 \in Nat /\ back \in Nat
  BY EndsLemma
<1>2. ASSUME NEW d \in Nat
      PROVE  LET r == Trimmed(Pushed(bs, d), ring)
             IN  /\ r \in Seq(Bucket(I)) /\ r # <<>>
                 /\ r[1].start = Larger(b1, back + d + 1 - ring)
  BY SlideLemma
<1> HIDE DEF b1
<1>3. ASSUME NEW i \in 1 .. k
      PROVE  /\ MergedWindow(ringAt(i), back + i) \in WindowState(I)
             /\ MergedWindow(ringAt(i), back + i).end = back + i
             /\ MergedWindow(ringAt(i), back + i).start = Larger(b1, back + i - ring)
  <2> HIDE DEF back
  <2>1. i - 1 \in Nat /\ back + i \in Nat /\ back + (i - 1) + 1 - ring = back + i - ring
    BY <1>1
  <2>2. /\ ringAt(i) \in Seq(Bucket(I)) /\ ringAt(i) # <<>>
        /\ ringAt(i)[1].start = Larger(b1, back + (i - 1) + 1 - ring)
    BY <1>2, <2>1
  <2> HIDE DEF ringAt
  <2> QED
    BY <2>1, <2>2, MergedLemma
<1>4. \A i \in 1 .. k : ws[i] = MergedWindow(ringAt(i), back + i)
  BY DEF FlushedWindows
<1>5. ws \in [1 .. k -> WindowState(I)]
  BY <1>3 DEF FlushedWindows
<1>6. ws \in Seq(WindowState(I)) /\ Len(ws) = k
  BY <1>5, FunctionIsSeq
<1> HIDE DEF ringAt, ws
<1> QED
  BY <1>3, <1>4, <1>6 DEF ws, b1

(* A rebuilt ring is consecutive, no longer than window_buckets, empty, and*)
(* ends at the target.                                                     *)
LEMMA RebuildLemma ==
  ASSUME NEW I, NEW ring \in Nat \ {0}, NEW target \in Nat
  PROVE  LET r == RebuildTrailingRing(ring, target)
         IN  /\ r \in Seq(Bucket(I)) /\ r # <<>>
             /\ RingOK(r, ring)
             /\ r[1].start = Larger(0, target + 1 - ring)
             /\ r[Len(r)].start = target
             /\ \A j \in 1 .. Len(r) : r[j].ids = {}
<1> DEFINE first == target - Smaller(ring - 1, target)
           r == RebuildTrailingRing(ring, target)
           n == target - first + 1
<1>1. first \in Nat /\ first <= target /\ n \in Nat /\ n >= 1 /\ n <= ring
      /\ first = Larger(0, target + 1 - ring)
  BY DEF Smaller, Larger
<1>2. r = [j \in 1 .. n |-> NewBucket(first + (j - 1))]
  BY DEF RebuildTrailingRing
<1> HIDE DEF r, first
<1>3. \A j \in 1 .. n : r[j] \in Bucket(I) /\ r[j].start = first + (j - 1) /\ r[j].ids = {}
  BY <1>1, <1>2 DEF NewBucket, Bucket
<1>4. r \in [1 .. n -> Bucket(I)]
  BY <1>2, <1>3
<1>5. r \in Seq(Bucket(I)) /\ Len(r) = n
  BY <1>1, <1>4, FunctionIsSeq
<1>6. r # <<>>
  <2>1. Len(r) # 0
    BY <1>1, <1>5
  <2> QED
    BY <2>1, EmptySeq
<1>7. r[1].start = first /\ r[Len(r)].start = target
  BY <1>1, <1>3, <1>5
<1>8. RingOK(r, ring)
  BY <1>1, <1>3, <1>5, <1>7 DEF RingOK, Consecutive
<1> QED
  BY <1>1, <1>3, <1>5, <1>6, <1>7, <1>8 DEF r
(* windows_closed_by_advance never exceeds window_buckets. *)
LEMMA ClosedBounded ==
  ASSUME NEW I, NEW rq \in RunningQuery(I), NEW ring \in Nat \ {0},
         NEW target \in Nat
  PROVE  WindowsClosedByAdvance(rq, ring, target) \in 0 .. ring
<1>1. CASE rq.buckets = <<>> \/ target <= BackStart(rq)
  BY <1>1 DEF WindowsClosedByAdvance
<1>2. CASE ~(rq.buckets = <<>> \/ target <= BackStart(rq))
  <2>1. rq.buckets \in Seq(Bucket(I))
    BY DEF RunningQuery
  <2>2. rq.buckets[Len(rq.buckets)] \in Bucket(I)
    BY <1>2, <2>1, SeqElements
  <2>3. BackStart(rq) \in Nat
    BY <2>2 DEF BackStart, Bucket
  <2> QED
    BY <1>2, <2>3 DEF WindowsClosedByAdvance, Smaller
<1> QED
  BY <1>1, <1>2

(***************************************************************************)
(* advance_to_bucket: the result is typed and has a consecutive ring that  *)
(* reaches the target; it flushed exactly the predicted windows, each of   *)
(* them ending after the old back and no later than the new one, and the   *)
(* front of the ring never moves back.                                     *)
(***************************************************************************)
LEMMA AdvanceLemma ==
  ASSUME NEW I, NEW rq \in RunningQuery(I), NEW ring \in Nat \ {0},
         NEW target \in Nat, RingOK(rq.buckets, ring)
  PROVE  LET moved == AdvanceToBucket(rq, ring, target)
             k     == WindowsClosedByAdvance(rq, ring, target)
         IN  /\ moved \in RunningQuery(I)
             /\ moved.buckets # <<>> /\ RingOK(moved.buckets, ring)
             /\ moved.late = rq.late
             /\ rq.buckets = <<>> =>
                  moved.emitted = rq.emitted /\ BackStart(moved) = target
             /\ rq.buckets # <<>> =>
                  /\ moved.emitted = rq.emitted \o FlushedWindows(rq.buckets, ring, k)
                  /\ BackStart(moved) = Larger(BackStart(rq), target)
                  /\ FrontStart(moved) = Larger(FrontStart(rq), target + 1 - ring)
<1> DEFINE k     == WindowsClosedByAdvance(rq, ring, target)
           bs    == rq.buckets
           n     == Len(bs)
           moved == AdvanceToBucket(rq, ring, target)
<1>1. bs \in Seq(Bucket(I)) /\ rq.emitted \in Seq(WindowState(I)) /\ rq.late \in SUBSET I
  BY DEF RunningQuery
<1>2. k \in Nat /\ k <= ring
  BY ClosedBounded
<1>3. CASE bs = <<>>
  <2> DEFINE nb == NewBucket(target)
  <2>1. nb \in Bucket(I) /\ nb.start = target
    BY DEF NewBucket, Bucket
  <2>2. moved = [rq EXCEPT !.buckets = << nb >>]
    BY <1>3 DEF AdvanceToBucket
  <2> HIDE DEF nb
  <2>3. << nb >> \in Seq(Bucket(I)) /\ Len(<< nb >>) = 1 /\ << nb >>[1] = nb
    BY <2>1
  <2>4. RingOK(<< nb >>, ring)
    BY <2>1, <2>3 DEF RingOK, Consecutive, Bucket
  <2>5. /\ moved.buckets = << nb >> /\ moved.emitted = rq.emitted
        /\ moved.late = rq.late /\ moved \in RunningQuery(I)
    BY <1>1, <2>2, <2>3 DEF RunningQuery
  <2>6. BackStart(moved) = target
    BY <2>1, <2>3, <2>5 DEF BackStart
  <2> QED
    BY <1>3, <2>4, <2>5, <2>6
<1>4. bs # <<>> =>
        /\ n \in Nat /\ n >= 1 /\ n <= ring
        /\ FrontStart(rq) \in Nat /\ BackStart(rq) \in Nat
        /\ BackStart(rq) = FrontStart(rq) + (n - 1)
  BY <1>1, EndsLemma DEF FrontStart, BackStart
<1>5. CASE bs # <<>> /\ target <= BackStart(rq)
  <2>1. moved = rq /\ k = 0
    BY <1>5 DEF AdvanceToBucket, WindowsClosedByAdvance
  <2>2. FlushedWindows(bs, ring, 0) = <<>>
    BY DEF FlushedWindows
  <2>3. rq.emitted \o <<>> = rq.emitted
    BY <1>1, ConcatEmptySeq
  <2>4. /\ Larger(BackStart(rq), target) = BackStart(rq)
        /\ Larger(FrontStart(rq), target + 1 - ring) = FrontStart(rq)
    BY <1>4, <1>5 DEF Larger
  <2> QED
    BY <1>5, <2>1, <2>2, <2>3, <2>4
<1>6. CASE bs # <<>> /\ ~(target <= BackStart(rq))
  <2> DEFINE fl == FlushedWindows(bs, ring, k)
             nb == MovedRing(bs, ring, BackStart(rq), target)
  <2>1. moved = [rq EXCEPT !.emitted = @ \o fl, !.buckets = nb]
    BY <1>6 DEF AdvanceToBucket
  <2>2. fl \in Seq(WindowState(I)) /\ rq.emitted \o fl \in Seq(WindowState(I))
    BY <1>1, <1>2, <1>6, FlushedLemma, ConcatProperties
  <2>3. /\ nb \in Seq(Bucket(I)) /\ nb # <<>> /\ RingOK(nb, ring)
        /\ nb[Len(nb)].start = target
        /\ nb[1].start = Larger(FrontStart(rq), target + 1 - ring)
    <3> DEFINE back == BackStart(rq)
               d == target - back
    <3>1. back \in Nat /\ d \in Nat /\ FrontStart(rq) \in Nat /\ back < target
          /\ back + d = target /\ back + d + 1 - ring = target + 1 - ring
          /\ FrontStart(rq) <= back
      <4>1. /\ n \in Nat /\ n >= 1 /\ FrontStart(rq) \in Nat /\ back \in Nat
            /\ back = FrontStart(rq) + (n - 1) /\ ~(target <= back)
        BY <1>4, <1>6
      <4> HIDE DEF n, back
      <4> QED
        BY <4>1
    <3>2. CASE d > ring
      <4> DEFINE r == RebuildTrailingRing(ring, target)
      <4>1. nb = r
        BY <3>2 DEF MovedRing
      <4>2. Larger(0, target + 1 - ring) = Larger(FrontStart(rq), target + 1 - ring)
        BY <3>1, <3>2 DEF Larger
      <4>3. /\ r \in Seq(Bucket(I)) /\ r # <<>> /\ RingOK(r, ring)
            /\ r[1].start = Larger(0, target + 1 - ring)
            /\ r[Len(r)].start = target
        BY RebuildLemma
      <4> HIDE DEF r, nb
      <4> QED
        BY <4>1, <4>2, <4>3
    <3>3. CASE ~(d > ring)
      <4> DEFINE r == Trimmed(Pushed(bs, d), ring)
      <4>1. nb = r
        BY <3>3 DEF MovedRing
      <4> HIDE DEF d
      <4>2. /\ r \in Seq(Bucket(I)) /\ r # <<>> /\ RingOK(r, ring)
            /\ r[1].start = Larger(FrontStart(rq), back + d + 1 - ring)
            /\ r[Len(r)].start = back + d
        BY <1>1, <1>6, <3>1, SlideLemma DEF FrontStart, BackStart
      <4> HIDE DEF r, nb
      <4> QED
        BY <3>1, <4>1, <4>2
    <3> QED
      BY <3>2, <3>3
  <2> HIDE DEF fl, nb
  <2>4. /\ moved.buckets = nb /\ moved.emitted = rq.emitted \o fl
        /\ moved.late = rq.late /\ moved \in RunningQuery(I)
    BY <1>1, <2>1, <2>2, <2>3 DEF RunningQuery
  <2>5. Larger(BackStart(rq), target) = target
    BY <1>4, <1>6 DEF Larger
  <2> QED
    BY <1>6, <2>3, <2>4, <2>5 DEF BackStart, FrontStart, fl
<1> QED
  BY <1>3, <1>5, <1>6

(***************************************************************************)
(* process: on top of what advance_to_bucket does, one open bucket or the  *)
(* late counter takes the event; no bucket moves.                          *)
(***************************************************************************)
LEMMA ProcessLemma ==
  ASSUME NEW I, NEW rq \in RunningQuery(I), NEW ring \in Nat \ {0},
         NEW bucket \in Nat, NEW id \in I, RingOK(rq.buckets, ring)
  PROVE  LET moved == AdvanceToBucket(rq, ring, bucket)
             after == ProcessMatching(rq, ring, bucket, id)
         IN  /\ after \in RunningQuery(I)
             /\ after.emitted = moved.emitted
             /\ after.buckets # <<>> /\ RingOK(after.buckets, ring)
             /\ BackStart(after) = BackStart(moved)
             /\ FrontStart(after) = FrontStart(moved)
<1> DEFINE moved == AdvanceToBucket(rq, ring, bucket)
           after == ProcessMatching(rq, ring, bucket, id)
           n     == Len(moved.buckets)
           open  == {j \in 1 .. n : moved.buckets[j].start = bucket}
           put   == [j \in 1 .. n |->
                       IF j \in open
                         THEN [moved.buckets[j] EXCEPT !.ids = @ \cup {id}]
                         ELSE moved.buckets[j]]
<1> DEFINE Goal ==
             /\ after \in RunningQuery(I)
             /\ after.emitted = moved.emitted
             /\ after.buckets # <<>> /\ RingOK(after.buckets, ring)
             /\ BackStart(after) = BackStart(moved)
             /\ FrontStart(after) = FrontStart(moved)
<1> SUFFICES Goal
  OBVIOUS
<1>1. moved \in RunningQuery(I) /\ moved.buckets # <<>> /\ RingOK(moved.buckets, ring)
  BY AdvanceLemma, ZenonT(60)
<1>2. after = IF open = {} THEN [moved EXCEPT !.late = @ \cup {id}]
                           ELSE [moved EXCEPT !.buckets = put]
  BY DEF ProcessMatching
<1> HIDE DEF moved, after
<1>3. /\ moved.buckets \in Seq(Bucket(I)) /\ moved.emitted \in Seq(WindowState(I))
      /\ moved.late \in SUBSET I
  BY <1>1 DEF RunningQuery
<1>4. n \in Nat /\ n >= 1 /\ \A j \in 1 .. n : moved.buckets[j] \in Bucket(I)
  BY <1>1, <1>3, SeqElements
<1>5. CASE open = {}
  <2>1. after = [moved EXCEPT !.late = @ \cup {id}]
    BY <1>2, <1>5
  <2>2. /\ after \in RunningQuery(I) /\ after.buckets = moved.buckets
        /\ after.emitted = moved.emitted
    BY <1>1, <1>3, <2>1 DEF RunningQuery
  <2> QED
    BY <1>1, <2>2 DEF BackStart, FrontStart
<1>6. CASE open # {}
  <2>1. after = [moved EXCEPT !.buckets = put]
    BY <1>2, <1>6
  <2>2. \A j \in 1 .. n : put[j] \in Bucket(I) /\ put[j].start = moved.buckets[j].start
    <3> SUFFICES ASSUME NEW j \in 1 .. n
                 PROVE  put[j] \in Bucket(I) /\ put[j].start = moved.buckets[j].start
      OBVIOUS
    <3>1. moved.buckets[j] \in [start : Nat, ids : SUBSET I]
      BY <1>4 DEF Bucket
    <3>2. put[j] = IF j \in open THEN [moved.buckets[j] EXCEPT !.ids = @ \cup {id}]
                                 ELSE moved.buckets[j]
      OBVIOUS
    <3> HIDE DEF put, open
    <3> QED
      BY <3>1, <3>2 DEF Bucket
  <2>3. put \in [1 .. n -> Bucket(I)]
    BY <2>2
  <2> HIDE DEF put
  <2>4. put \in Seq(Bucket(I)) /\ Len(put) = n
    BY <1>4, <2>3, FunctionIsSeq
  <2>5. /\ after \in RunningQuery(I) /\ after.buckets = put
        /\ after.emitted = moved.emitted
    BY <1>1, <1>3, <2>1, <2>4 DEF RunningQuery
  <2>6. put # <<>>
    <3>1. Len(put) # 0
      BY <1>4, <2>4
    <3> QED
      BY <3>1, EmptySeq
  <2>7. put[1].start = moved.buckets[1].start /\ put[n].start = moved.buckets[n].start
    BY <1>4, <2>2
  <2>8. RingOK(put, ring)
    BY <1>1, <1>4, <2>2, <2>4, <2>7 DEF RingOK, Consecutive
  <2> QED
    BY <2>2, <2>4, <2>5, <2>6, <2>7, <2>8 DEF BackStart, FrontStart
<1> QED
  BY <1>5, <1>6

(* finish: at most one more window, from the front of the ring to the end  *)
(* of its back bucket; the ring stays.                                     *)
LEMMA FinishLemma ==
  ASSUME NEW I, NEW rq \in RunningQuery(I), NEW ring \in Nat \ {0},
         RingOK(rq.buckets, ring)
  PROVE  /\ FinishQuery(rq) \in RunningQuery(I)
         /\ FinishQuery(rq).buckets = rq.buckets
         /\ rq.buckets = <<>> => FinishQuery(rq).emitted = rq.emitted
         /\ rq.buckets # <<>> =>
              \E w \in WindowState(I) :
                /\ w.start = FrontStart(rq) /\ w.end = BackStart(rq) + 1
                /\ FinishQuery(rq).emitted = Append(rq.emitted, w)
<1>1. rq.buckets \in Seq(Bucket(I)) /\ rq.emitted \in Seq(WindowState(I))
  BY DEF RunningQuery
<1>2. CASE rq.buckets = <<>>
  BY <1>2 DEF FinishQuery
<1>3. CASE rq.buckets # <<>>
  <2> DEFINE w == MergedWindow(rq.buckets, BackStart(rq) + 1)
  <2>1. rq.buckets[Len(rq.buckets)] \in Bucket(I)
    BY <1>1, <1>3, SeqElements
  <2>2. BackStart(rq) + 1 \in Nat
    BY <2>1 DEF BackStart, Bucket
  <2>3. w \in WindowState(I) /\ w.start = FrontStart(rq) /\ w.end = BackStart(rq) + 1
    BY <1>1, <1>3, <2>2, MergedLemma DEF FrontStart
  <2>4. FinishQuery(rq) = [rq EXCEPT !.emitted = Append(@, w)]
    BY <1>3 DEF FinishQuery
  <2> HIDE DEF w
  <2>5. Append(rq.emitted, w) \in Seq(WindowState(I))
    BY <1>1, <2>3, AppendProperties
  <2>6. /\ FinishQuery(rq) \in RunningQuery(I) /\ FinishQuery(rq).buckets = rq.buckets
        /\ FinishQuery(rq).emitted = Append(rq.emitted, w)
    BY <2>4, <2>5 DEF RunningQuery
  <2> QED
    BY <1>3, <2>3, <2>6
<1> QED
  BY <1>2, <1>3

(* The types grow with the set of events. *)
LEMMA TypesGrow ==
  ASSUME NEW I, NEW J, I \subseteq J
  PROVE  /\ \A rq \in RunningQuery(I) : rq \in RunningQuery(J)
         /\ \A ws \in Seq(WindowState(I)) : ws \in Seq(WindowState(J))
<1>1. Bucket(I) \subseteq Bucket(J) /\ WindowState(I) \subseteq WindowState(J)
  BY DEF Bucket, WindowState
<1>2. \A s \in Seq(Bucket(I)) : s \in Seq(Bucket(J))
  BY <1>1, SeqMonotonic
<1>3. \A s \in Seq(WindowState(I)) : s \in Seq(WindowState(J))
  BY <1>1, SeqMonotonic
<1> QED
  BY <1>2, <1>3 DEF RunningQuery

(* Windows in time order stay so when later ones are put behind them. *)
LEMMA ConcatInOrder ==
  ASSUME NEW I, NEW ws \in Seq(WindowState(I)), NEW vs \in Seq(WindowState(I)),
         InOrder(ws), InOrder(vs),
         \A i \in 1 .. Len(ws), j \in 1 .. Len(vs) :
           ws[i].end < vs[j].end /\ ws[i].start <= vs[j].start
  PROVE  InOrder(ws \o vs)
<1> DEFINE c == ws \o vs
           m == Len(ws)
           n == Len(vs)
<1>1. m \in Nat /\ n \in Nat
  BY SeqElements
<1>2. /\ Len(c) = m + n
      /\ \A i \in 1 .. m + n : c[i] = IF i <= m THEN ws[i] ELSE vs[i - m]
  BY ConcatProperties
<1> SUFFICES ASSUME NEW i \in 1 .. m + n, NEW j \in 1 .. m + n, i < j
             PROVE  c[i].end < c[j].end /\ c[i].start <= c[j].start
  BY <1>2 DEF InOrder
<1> HIDE DEF c, m, n
<1>3. CASE j <= m
  BY <1>1, <1>2, <1>3 DEF InOrder, m
<1>4. CASE i <= m /\ j > m
  <2>1. c[i] = ws[i] /\ c[j] = vs[j - m] /\ i \in 1 .. m /\ j - m \in 1 .. n
    BY <1>1, <1>2, <1>4
  <2> QED
    BY <2>1 DEF m, n
<1>5. CASE i > m
  <2>1. /\ c[i] = vs[i - m] /\ c[j] = vs[j - m]
        /\ i - m \in 1 .. n /\ j - m \in 1 .. n /\ i - m < j - m
    BY <1>1, <1>2, <1>5
  <2> QED
    BY <2>1 DEF InOrder, n
<1> QED
  BY <1>1, <1>3, <1>4, <1>5

(* The windows flushed by one advance come out in time order. *)
LEMMA FlushedInOrder ==
  ASSUME NEW I, NEW bs \in Seq(Bucket(I)), bs # <<>>, NEW ring \in Nat \ {0},
         NEW k \in Nat, RingOK(bs, ring)
  PROVE  InOrder(FlushedWindows(bs, ring, k))
<1> DEFINE ws == FlushedWindows(bs, ring, k)
           back == bs[Len(bs)].start
           b1 == bs[1].start
<1>1. back \in Nat /\ b1 \in Nat
  BY EndsLemma
<1>2. /\ Len(ws) = k
      /\ \A i \in 1 .. k : ws[i].end = back + i /\ ws[i].start = Larger(b1, back + i - ring)
  BY FlushedLemma, SMTT(40)
<1> HIDE DEF ws, back, b1
<1> SUFFICES ASSUME NEW i \in 1 .. k, NEW j \in 1 .. k, i < j
             PROVE  ws[i].end < ws[j].end /\ ws[i].start <= ws[j].start
  BY <1>2 DEF InOrder, ws
<1>3. back + i < back + j /\ Larger(b1, back + i - ring) <= Larger(b1, back + j - ring)
  BY <1>1 DEF Larger
<1> QED
  BY <1>2, <1>3

(* Event i is counted in one of the windows. *)
InSome(ws, i) == \E w \in 1 .. Len(ws) : i \in ws[w].ids

(* A window of a concatenation is a window of one of its parts. *)
LEMMA InSomeConcat ==
  ASSUME NEW S, NEW ws \in Seq(S), NEW vs \in Seq(S), NEW i
  PROVE  InSome(ws \o vs, i) <=> InSome(ws, i) \/ InSome(vs, i)
<1> DEFINE c == ws \o vs
           m == Len(ws)
           n == Len(vs)
<1>1. m \in Nat /\ n \in Nat
  BY SeqElements
<1>2. /\ Len(c) = m + n
      /\ \A j \in 1 .. m + n : c[j] = IF j <= m THEN ws[j] ELSE vs[j - m]
  BY ConcatProperties
<1> HIDE DEF c, m, n
<1>3. ASSUME NEW j \in 1 .. m, i \in ws[j].ids PROVE InSome(c, i)
  <2>1. j \in 1 .. m + n /\ c[j] = ws[j]
    BY <1>1, <1>2
  <2> QED
    BY <1>2, <1>3, <2>1 DEF InSome
<1>4. ASSUME NEW j \in 1 .. n, i \in vs[j].ids PROVE InSome(c, i)
  <2> DEFINE h == m + j
  <2>1. h \in 1 .. m + n /\ ~(h <= m) /\ h - m = j
    BY <1>1
  <2> HIDE DEF h
  <2>2. c[h] = vs[j]
    BY <1>2, <2>1
  <2> QED
    BY <1>2, <1>4, <2>1, <2>2 DEF InSome
<1>5. ASSUME NEW j \in 1 .. m + n, i \in c[j].ids
      PROVE  InSome(ws, i) \/ InSome(vs, i)
  <2>1. CASE j <= m
    <3>1. j \in 1 .. m /\ c[j] = ws[j]
      BY <1>1, <1>2, <2>1
    <3> QED
      BY <1>5, <3>1 DEF InSome, m
  <2>2. CASE ~(j <= m)
    <3>1. j - m \in 1 .. n /\ c[j] = vs[j - m]
      BY <1>1, <1>2, <2>2
    <3> QED
      BY <1>5, <3>1 DEF InSome, n
  <2> QED
    BY <2>1, <2>2
<1>6. InSome(c, i) => InSome(ws, i) \/ InSome(vs, i)
  BY <1>2, <1>5 DEF InSome
<1>7. InSome(ws, i) \/ InSome(vs, i) => InSome(c, i)
  BY <1>3, <1>4 DEF InSome, m, n
<1> QED
  BY <1>6, <1>7 DEF c

-------------------------------------------------------------------------------
(***************************************************************************)
(* Which events the buckets and windows hold: N is the set of events a     *)
(* query has put into buckets (the ones it matched and did not count late),*)
(* slot[i] is the slide of event i.                                        *)
(***************************************************************************)

(* The events of N that belong to the slides from .. upto. *)
Between(N, slot, from, upto) == {i \in N : from <= slot[i] /\ slot[i] <= upto}

(* Event id belongs to slide b. *)
InSlide(slot, id, b) == slot[id] = b

(* Every bucket holds exactly the events of its own slide. *)
BucketsExact(bs, N, slot) ==
  \A j \in 1 .. Len(bs) : bs[j].ids = {i \in N : slot[i] = bs[j].start}

(* Nothing is newer than the back of the ring. *)
NoneNewer(bs, N, slot) ==
  \A i \in N : bs # <<>> /\ slot[i] <= bs[Len(bs)].start

(* A merge of consecutive exact buckets holds the events of their slides.  *)
LEMMA MergeExact ==
  ASSUME NEW I, NEW bs \in Seq(Bucket(I)), bs # <<>>, NEW ring \in Nat,
         RingOK(bs, ring), NEW N, NEW slot, \A i \in N : slot[i] \in Nat, NEW end,
         BucketsExact(bs, N, slot)
  PROVE  MergedWindow(bs, end).ids =
           Between(N, slot, bs[1].start, bs[Len(bs)].start)
<1> DEFINE n == Len(bs)
           b1 == bs[1].start
           U == UNION {bs[j].ids : j \in 1 .. n}
<1>1. n \in Nat /\ n >= 1 /\ b1 \in Nat /\ bs[n].start = b1 + (n - 1)
  BY EndsLemma
<1>2. \A j \in 1 .. n : bs[j].start = b1 + (j - 1)
  BY DEF RingOK, Consecutive
<1>3. \A j \in 1 .. n : bs[j].ids = {i \in N : slot[i] = bs[j].start}
  BY DEF BucketsExact
<1>4. MergedWindow(bs, end).ids = U
  BY DEF MergedWindow
<1> HIDE DEF n, b1
<1>5. ASSUME NEW i, i \in U PROVE i \in Between(N, slot, b1, b1 + (n - 1))
  <2>1. PICK j \in 1 .. n : i \in bs[j].ids
    BY <1>5
  <2>2. i \in N /\ slot[i] = b1 + (j - 1)
    BY <1>2, <1>3, <2>1
  <2> QED
    BY <1>1, <2>2 DEF Between
<1>6. ASSUME NEW i \in Between(N, slot, b1, b1 + (n - 1)) PROVE i \in U
  <2>1. i \in N /\ slot[i] \in Nat /\ b1 <= slot[i] /\ slot[i] <= b1 + (n - 1)
    BY DEF Between
  <2> DEFINE j == slot[i] - b1 + 1
  <2>2. j \in 1 .. n /\ slot[i] = b1 + (j - 1)
    BY <1>1, <2>1
  <2> HIDE DEF j
  <2>3. i \in bs[j].ids
    BY <1>2, <1>3, <2>1, <2>2
  <2> QED
    BY <2>2, <2>3
<1>7. U = Between(N, slot, b1, b1 + (n - 1))
  BY <1>5, <1>6
<1> QED
  BY <1>1, <1>4, <1>7 DEF n, b1

(* Pushing empty buckets and trimming old ones keeps every bucket exact:   *)
(* nothing can belong to a slide nobody has reached.                       *)
LEMMA SlideExact ==
  ASSUME NEW I, NEW bs \in Seq(Bucket(I)), bs # <<>>, NEW ring \in Nat \ {0},
         NEW d \in Nat, RingOK(bs, ring), NEW N, NEW slot, \A i \in N : slot[i] \in Nat,
         BucketsExact(bs, N, slot), NoneNewer(bs, N, slot)
  PROVE  BucketsExact(Trimmed(Pushed(bs, d), ring), N, slot)
<1> DEFINE n == Len(bs)
           b1 == bs[1].start
           p == Pushed(bs, d)
           r == Trimmed(p, ring)
           first == Larger(1, Len(p) + 1 - ring)
<1>1. /\ n \in Nat /\ n >= 1 /\ b1 \in Nat
      /\ bs[n].start \in Nat /\ bs[n].start = b1 + (n - 1)
  BY EndsLemma
<1>2. /\ p \in Seq(Bucket(I)) /\ Len(p) = n + d
      /\ \A j \in 1 .. n + d : p[j].start = b1 + (j - 1)
  BY PushedLemma DEF RingOK
<1>3. \A j \in 1 .. n + d :
        p[j] = IF j <= n THEN bs[j] ELSE NewBucket(bs[n].start + (j - n))
  BY <1>1 DEF Pushed
<1>4. \A i \in N : slot[i] \in Nat /\ slot[i] <= bs[n].start
  BY DEF NoneNewer
<1> HIDE DEF n, b1, p
<1>5. ASSUME NEW j \in 1 .. n + d
      PROVE  p[j].ids = {i \in N : slot[i] = p[j].start}
  <2>1. CASE j <= n
    <3>1. p[j] = bs[j] /\ j \in 1 .. n
      BY <1>1, <1>3, <2>1
    <3> QED
      BY <3>1 DEF BucketsExact, n
  <2>2. CASE ~(j <= n)
    <3>1. p[j].ids = {}
      <4>1. p[j] = NewBucket(bs[n].start + (j - n))
        BY <1>3, <2>2
      <4>2. \A x : NewBucket(x).ids = {}
        BY DEF NewBucket
      <4> QED
        BY <4>1, <4>2
    <3>2. p[j].start = b1 + (j - 1) /\ b1 + (j - 1) > bs[n].start
      BY <1>1, <1>2, <2>2
    <3>3. \A i \in N : slot[i] # p[j].start
      BY <1>1, <1>4, <3>2
    <3> QED
      BY <3>1, <3>3
  <2> QED
    BY <2>1, <2>2
<1>6. p # <<>>
  <2>1. Len(p) # 0
    BY <1>1, <1>2
  <2> QED
    BY <2>1, EmptySeq
<1>7. Consecutive(p)
  <2>1. p[1].start = b1
    <3>1. p[1].start = b1 + (1 - 1)
      BY <1>1, <1>2
    <3> QED
      BY <1>1, <3>1
  <2> QED
    BY <1>2, <2>1 DEF Consecutive
<1>8. /\ first \in 1 .. Len(p) /\ Len(r) = Len(p) - first + 1
      /\ \A j \in 1 .. Len(r) : r[j] = p[first + (j - 1)]
  BY <1>2, <1>6, <1>7, TrimmedLemma
<1> HIDE DEF r, first
<1>9. \A j \in 1 .. Len(r) : first + (j - 1) \in 1 .. n + d
  BY <1>1, <1>2, <1>8
<1>10. \A j \in 1 .. Len(r) : r[j].ids = {i \in N : slot[i] = r[j].start}
  BY <1>5, <1>8, <1>9
<1> QED
  BY <1>10 DEF BucketsExact, r, p

(***************************************************************************)
(* The window flushed by slide m holds exactly the events of the slides it *)
(* covers, from the front of the ring, or ring slides back, up to its end. *)
(***************************************************************************)
LEMMA FlushedExact ==
  ASSUME NEW I, NEW bs \in Seq(Bucket(I)), bs # <<>>, NEW ring \in Nat \ {0},
         NEW k \in Nat, RingOK(bs, ring), NEW N, NEW slot, \A i \in N : slot[i] \in Nat,
         BucketsExact(bs, N, slot), NoneNewer(bs, N, slot), NEW m \in 1 .. k
  PROVE  LET back == bs[Len(bs)].start
         IN  FlushedWindows(bs, ring, k)[m].ids =
               Between(N, slot, Larger(bs[1].start, back + m - ring), back + m - 1)
<1> DEFINE back == bs[Len(bs)].start
           b1 == bs[1].start
           d == m - 1
           r == Trimmed(Pushed(bs, d), ring)
<1>1. back \in Nat /\ b1 \in Nat
  BY EndsLemma
<1>2. d \in Nat /\ m = d + 1
  OBVIOUS
<1>3. FlushedWindows(bs, ring, k)[m] = MergedWindow(r, back + m)
  BY DEF FlushedWindows
<1> HIDE DEF d
<1>4. /\ r \in Seq(Bucket(I)) /\ r # <<>> /\ RingOK(r, ring)
      /\ r[1].start = Larger(b1, back + d + 1 - ring)
      /\ r[Len(r)].start = back + d
  BY <1>2, SlideLemma
<1>5. BucketsExact(r, N, slot)
  BY <1>2, SlideExact
<1> HIDE DEF r, back, b1
<1>6. MergedWindow(r, back + m).ids = Between(N, slot, r[1].start, r[Len(r)].start)
  BY <1>4, <1>5, MergeExact
<1>7. back + d + 1 - ring = back + m - ring /\ back + d = back + m - 1
  BY <1>1, <1>2
<1> QED
  BY <1>3, <1>4, <1>6, <1>7 DEF back, b1

(* advance_to_bucket keeps every bucket exact and nothing newer than the   *)
(* back of the ring, whether it seeds, slides or rebuilds the ring.        *)
LEMMA AdvanceExact ==
  ASSUME NEW I, NEW rq \in RunningQuery(I), NEW ring \in Nat \ {0},
         NEW target \in Nat, RingOK(rq.buckets, ring),
         NEW N, NEW slot, \A i \in N : slot[i] \in Nat,
         BucketsExact(rq.buckets, N, slot), NoneNewer(rq.buckets, N, slot)
  PROVE  LET moved == AdvanceToBucket(rq, ring, target)
         IN  /\ BucketsExact(moved.buckets, N, slot)
             /\ NoneNewer(moved.buckets, N, slot)
<1> DEFINE moved == AdvanceToBucket(rq, ring, target)
           bs    == rq.buckets
           k     == WindowsClosedByAdvance(rq, ring, target)
           fl    == FlushedWindows(bs, ring, k)
           nb    == MovedRing(bs, ring, BackStart(rq), target)
<1>1. bs \in Seq(Bucket(I)) /\ DOMAIN rq = {"buckets", "emitted", "late"}
  BY DEF RunningQuery
<1>2. CASE bs = <<>>
  <2>1. N = {}
    BY <1>2 DEF NoneNewer
  <2>2. moved.buckets = << NewBucket(target) >>
    <3>1. moved = [rq EXCEPT !.buckets = << NewBucket(target) >>]
      BY <1>2 DEF AdvanceToBucket
    <3> QED
      BY <1>1, <3>1
  <2>3. NewBucket(target).ids = {}
    BY DEF NewBucket
  <2> HIDE DEF moved
  <2>4. BucketsExact(moved.buckets, N, slot)
    <3> DEFINE b == NewBucket(target)
    <3>1. moved.buckets = << b >> /\ b.ids = {}
      BY <2>2, <2>3
    <3> HIDE DEF b
    <3> QED
      BY <2>1, <3>1 DEF BucketsExact
  <2>5. NoneNewer(moved.buckets, N, slot)
    BY <2>1 DEF NoneNewer
  <2> QED
    BY <2>4, <2>5 DEF moved
<1>3. CASE bs # <<>> /\ target <= BackStart(rq)
  <2>1. moved = rq
    BY <1>3 DEF AdvanceToBucket
  <2> QED
    BY <2>1
<1>4. CASE bs # <<>> /\ ~(target <= BackStart(rq))
  <2> DEFINE back == BackStart(rq)
             d    == target - back
  <2>1. moved.buckets = nb
    <3>1. moved = [rq EXCEPT !.emitted = @ \o fl, !.buckets = nb]
      BY <1>4 DEF AdvanceToBucket
    <3> HIDE DEF nb, fl
    <3> QED
      BY <1>1, <3>1
  <2>2. back \in Nat /\ back < target /\ back = bs[Len(bs)].start
    <3>1. back \in Nat
      BY <1>1, <1>4, EndsLemma DEF BackStart
    <3> QED
      BY <1>4, <3>1 DEF BackStart
  <2>3. \A i \in N : slot[i] \in Nat /\ slot[i] <= back
    BY <2>2 DEF NoneNewer
  <2>4. moved.buckets # <<>> /\ moved.buckets[Len(moved.buckets)].start = target
    <3>1. moved.buckets # <<>> /\ BackStart(moved) = Larger(back, target)
      BY <1>4, AdvanceLemma, ZenonT(60)
    <3>2. Larger(back, target) = target
      BY <2>2 DEF Larger
    <3> QED
      BY <3>1, <3>2 DEF BackStart
  <2>5. NoneNewer(moved.buckets, N, slot)
    <3> HIDE DEF moved, back
    <3> QED
      BY <2>2, <2>3, <2>4 DEF NoneNewer
  <2>6. BucketsExact(nb, N, slot)
    <3> HIDE DEF back
    <3>1. CASE d > ring
      <4> DEFINE r == RebuildTrailingRing(ring, target)
      <4>1. nb = r
        BY <3>1 DEF MovedRing, back
      <4>2. /\ r \in Seq(Bucket(I)) /\ r # <<>> /\ RingOK(r, ring)
            /\ r[1].start = Larger(0, target + 1 - ring)
            /\ \A j \in 1 .. Len(r) : r[j].ids = {}
        BY RebuildLemma
      <4> HIDE DEF r
      <4>3. r[1].start \in Nat /\ r[1].start > back
        BY <2>2, <3>1, <4>2 DEF Larger
      <4>4. Len(r) \in Nat /\ \A j \in 1 .. Len(r) : r[j].start = r[1].start + (j - 1)
        BY <4>2, SeqElements DEF RingOK, Consecutive
      <4>5. \A j \in 1 .. Len(r) : r[j].start > back
        BY <2>2, <4>3, <4>4
      <4>6. \A j \in 1 .. Len(r) : \A i \in N : slot[i] # r[j].start
        BY <2>2, <2>3, <4>5
      <4> QED
        BY <4>1, <4>2, <4>6 DEF BucketsExact
    <3>2. CASE ~(d > ring)
      <4>1. nb = Trimmed(Pushed(bs, d), ring)
        BY <3>2 DEF MovedRing, back
      <4>2. d \in Nat
        BY <2>2
      <4> HIDE DEF d
      <4> QED
        BY <1>1, <1>4, <4>1, <4>2, SlideExact
    <3> QED
      BY <3>1, <3>2
  <2> QED
    BY <2>1, <2>5, <2>6
<1> QED
  BY <1>2, <1>3, <1>4

(* Where the ring is after an advance: it reaches the target, and its back *)
(* and front never go back.                                                *)
LEMMA AdvanceEnds ==
  ASSUME NEW I, NEW rq \in RunningQuery(I), NEW ring \in Nat \ {0},
         NEW target \in Nat, RingOK(rq.buckets, ring)
  PROVE  LET moved == AdvanceToBucket(rq, ring, target)
         IN  /\ moved \in RunningQuery(I)
             /\ moved.buckets # <<>> /\ RingOK(moved.buckets, ring)
             /\ moved.late = rq.late
             /\ BackStart(moved) \in Nat /\ FrontStart(moved) \in Nat
             /\ target <= BackStart(moved)
             /\ rq.buckets # <<>> =>
                  /\ BackStart(rq) \in Nat /\ FrontStart(rq) \in Nat
                  /\ FrontStart(rq) <= FrontStart(moved)
                  /\ BackStart(rq) <= BackStart(moved)
<1> DEFINE moved == AdvanceToBucket(rq, ring, target)
           k     == WindowsClosedByAdvance(rq, ring, target)
<1>1. /\ moved \in RunningQuery(I)
      /\ moved.buckets # <<>> /\ RingOK(moved.buckets, ring)
      /\ moved.late = rq.late
      /\ rq.buckets = <<>> =>
           moved.emitted = rq.emitted /\ BackStart(moved) = target
      /\ rq.buckets # <<>> =>
           /\ moved.emitted = rq.emitted \o FlushedWindows(rq.buckets, ring, k)
           /\ BackStart(moved) = Larger(BackStart(rq), target)
           /\ FrontStart(moved) = Larger(FrontStart(rq), target + 1 - ring)
  BY AdvanceLemma, ZenonT(60)
<1> HIDE DEF moved, k
<1>2. moved.buckets \in Seq(Bucket(I)) /\ rq.buckets \in Seq(Bucket(I))
  BY <1>1 DEF RunningQuery
<1>3. BackStart(moved) \in Nat /\ FrontStart(moved) \in Nat
  BY <1>1, <1>2, EndsLemma DEF BackStart, FrontStart
<1>4. rq.buckets # <<>> => BackStart(rq) \in Nat /\ FrontStart(rq) \in Nat
  BY <1>2, EndsLemma DEF BackStart, FrontStart
<1>5. rq.buckets # <<>> =>
        /\ FrontStart(rq) <= Larger(FrontStart(rq), target + 1 - ring)
        /\ BackStart(rq) <= Larger(BackStart(rq), target)
        /\ target <= Larger(BackStart(rq), target)
  BY <1>4 DEF Larger
<1>6. rq.buckets # <<>> =>
        /\ FrontStart(rq) <= FrontStart(moved)
        /\ BackStart(rq) <= BackStart(moved)
        /\ target <= BackStart(moved)
  BY <1>1, <1>5
<1> QED
  BY <1>1, <1>3, <1>4, <1>6 DEF moved

(***************************************************************************)
(* process: the event is counted late exactly when its slide is older than *)
(* the front of the moved ring; otherwise the one bucket of its slide takes*)
(* it.  Either way every bucket stays exact.                               *)
(***************************************************************************)
LEMMA ProcessExact ==
  ASSUME NEW I, NEW rq \in RunningQuery(I), NEW ring \in Nat \ {0},
         NEW bucket \in Nat, NEW id \in I, RingOK(rq.buckets, ring),
         NEW N, NEW slot, \A i \in N : slot[i] \in Nat,
         BucketsExact(rq.buckets, N, slot), NoneNewer(rq.buckets, N, slot),
         InSlide(slot, id, bucket)
  PROVE  LET moved == AdvanceToBucket(rq, ring, bucket)
             after == ProcessMatching(rq, ring, bucket, id)
             old   == bucket < FrontStart(moved)
         IN  /\ old => after.late = rq.late \cup {id}
             /\ ~old => after.late = rq.late
             /\ old => /\ BucketsExact(after.buckets, N, slot)
                       /\ NoneNewer(after.buckets, N, slot)
             /\ ~old => /\ BucketsExact(after.buckets, N \cup {id}, slot)
                        /\ NoneNewer(after.buckets, N \cup {id}, slot)
<1> DEFINE moved == AdvanceToBucket(rq, ring, bucket)
           after == ProcessMatching(rq, ring, bucket, id)
           old   == bucket < FrontStart(moved)
           N2    == IF old THEN N ELSE N \cup {id}
           bs    == moved.buckets
           n     == Len(bs)
           open  == {j \in 1 .. n : bs[j].start = bucket}
           put   == [j \in 1 .. n |->
                       IF j \in open THEN [bs[j] EXCEPT !.ids = @ \cup {id}]
                                     ELSE bs[j]]
           Goal  == /\ old => after.late = rq.late \cup {id}
                    /\ ~old => after.late = rq.late
                    /\ old => /\ BucketsExact(after.buckets, N, slot)
                              /\ NoneNewer(after.buckets, N, slot)
                    /\ ~old => /\ BucketsExact(after.buckets, N \cup {id}, slot)
                               /\ NoneNewer(after.buckets, N \cup {id}, slot)
<1> SUFFICES Goal
  OBVIOUS
<1>1. /\ moved \in RunningQuery(I) /\ bs # <<>> /\ RingOK(bs, ring)
      /\ moved.late = rq.late /\ bucket <= BackStart(moved)
  BY AdvanceEnds
<1>2. BucketsExact(bs, N, slot) /\ NoneNewer(bs, N, slot)
  BY AdvanceExact
<1>3. after = IF open = {} THEN [moved EXCEPT !.late = @ \cup {id}]
                           ELSE [moved EXCEPT !.buckets = put]
  BY DEF ProcessMatching
<1>4. bucket <= BackStart(moved)
  BY <1>1
<1> HIDE DEF moved, after
<1>5. bs \in Seq(Bucket(I)) /\ DOMAIN moved = {"buckets", "emitted", "late"}
  BY <1>1 DEF RunningQuery
<1>6. /\ n \in Nat /\ n >= 1 /\ bs[1].start \in Nat
      /\ bs[n].start = bs[1].start + (n - 1)
  BY <1>1, <1>5, EndsLemma
<1>7. \A j \in 1 .. n : bs[j].start = bs[1].start + (j - 1)
  BY <1>1 DEF RingOK, Consecutive
<1>8. /\ FrontStart(moved) = bs[1].start /\ BackStart(moved) = bs[n].start
  BY DEF FrontStart, BackStart
<1>9. \A j \in 1 .. n : bs[j].ids = {i \in N : slot[i] = bs[j].start}
  BY <1>2 DEF BucketsExact
<1>10. \A i \in N : slot[i] <= bs[n].start
  BY <1>2 DEF NoneNewer
<1>11. open = {} <=> old
  <2>1. ASSUME old PROVE open = {}
    <3>1. ASSUME NEW j \in 1 .. n PROVE bs[j].start # bucket
      <4> DEFINE b1 == bs[1].start
      <4>1. b1 \in Nat /\ bucket < b1 /\ bs[j].start = b1 + (j - 1)
        BY <1>6, <1>7, <1>8, <2>1
      <4>2. j \in Nat /\ j >= 1
        BY <1>6
      <4> HIDE DEF b1, bs
      <4> QED
        BY <4>1, <4>2
    <3> QED
      BY <3>1
  <2>2. ASSUME ~old PROVE open # {}
    <3> DEFINE j == bucket - bs[1].start + 1
    <3>1. j \in 1 .. n /\ bs[1].start + (j - 1) = bucket
      BY <1>4, <1>6, <1>8, <2>2, SMTT(40)
    <3> HIDE DEF j
    <3>2. bs[j].start = bucket
      BY <1>7, <3>1
    <3> QED
      BY <3>1, <3>2
  <2> QED
    BY <2>1, <2>2
<1>12. CASE old
  <2>1. after = [moved EXCEPT !.late = @ \cup {id}]
    BY <1>3, <1>11, <1>12
  <2>2. after.late = rq.late \cup {id} /\ after.buckets = bs
    BY <1>1, <1>5, <2>1
  <2> HIDE DEF old
  <2> QED
    BY <1>2, <1>12, <2>2
<1>13. CASE ~old
  <2>1. after = [moved EXCEPT !.buckets = put]
    BY <1>3, <1>11, <1>13
  <2> HIDE DEF open
  <2>2. put \in [1 .. n -> Bucket(I)] /\ \A j \in 1 .. n :
          /\ put[j].start = bs[j].start
          /\ put[j].ids = IF j \in open THEN bs[j].ids \cup {id} ELSE bs[j].ids
    <3> SUFFICES ASSUME NEW j \in 1 .. n
                 PROVE  /\ put[j] \in Bucket(I) /\ put[j].start = bs[j].start
                        /\ put[j].ids = IF j \in open THEN bs[j].ids \cup {id} ELSE bs[j].ids
      OBVIOUS
    <3>1. bs[j] \in [start : Nat, ids : SUBSET I]
      BY <1>5, SeqElements DEF Bucket
    <3>2. put[j] = IF j \in open THEN [bs[j] EXCEPT !.ids = @ \cup {id}] ELSE bs[j]
      OBVIOUS
    <3> HIDE DEF put, bs
    <3> QED
      BY <3>1, <3>2 DEF Bucket
  <2> HIDE DEF put
  <2>3. after.late = rq.late /\ after.buckets = put
    BY <1>1, <1>5, <2>1
  <2>4. Len(put) = n
    BY <1>6, <2>2, FunctionIsSeq
  <2>5. N2 = N \cup {id}
    BY <1>13
  <2> HIDE DEF N2, bs, n
  <2>6. ASSUME NEW j \in 1 .. n
        PROVE  put[j].ids = {i \in N2 : slot[i] = put[j].start}
    <3>1. j \in open <=> bs[j].start = bucket
      BY DEF open
    <3>2. bs[j].ids = {i \in N : slot[i] = bs[j].start}
      BY <1>9
    <3>3. /\ put[j].start = bs[j].start
          /\ put[j].ids = IF j \in open THEN bs[j].ids \cup {id} ELSE bs[j].ids
      BY <2>2
    <3> QED
      BY <2>5, <3>1, <3>2, <3>3 DEF InSlide
  <2>7. BucketsExact(put, N2, slot)
    BY <2>4, <2>6 DEF BucketsExact
  <2>8. put # <<>>
    <3>1. Len(put) # 0
      BY <1>6, <2>4
    <3> QED
      BY <3>1, EmptySeq
  <2>9. put[Len(put)].start = bs[n].start
    <3>1. n \in 1 .. n
      BY <1>6
    <3>2. put[n].start = bs[n].start
      BY <2>2, <3>1
    <3> QED
      BY <2>4, <3>2
  <2>10. NoneNewer(put, N2, slot)
    BY <1>4, <1>8, <1>10, <2>5, <2>8, <2>9 DEF NoneNewer, InSlide
  <2> HIDE DEF old
  <2> QED
    BY <1>13, <2>3, <2>5, <2>7, <2>10
<1> QED
  BY <1>12, <1>13
===============================================================================
