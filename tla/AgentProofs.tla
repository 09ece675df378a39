------------------------------ MODULE AgentProofs -----------------------------
(***************************************************************************)
(* The agent's safety for every configuration, every number of queries,    *)
(* series, lanes, blocks and clients, every channel capacity and every     *)
(* interleaving of the main thread with capture, exporters, HTTP server    *)
(* and faults.  Six invariants, each inductive given those before it:      *)
(* BootInv (the configuration and its plans), HttpInv (the slots of the    *)
(* server), RingInv (what a lane's ring holds), CaptureInv (events in      *)
(* flight), ExportInv (what is published and posted), FinalInv (the order  *)
(* of the end).                                                            *)
(***************************************************************************)
EXTENDS Agent, SequenceTheorems, FiniteSetTheorems, WellFoundedInduction, TLAPS

(***************************************************************************)
(* Least elements, counting up to a bound, and folds.                      *)
(***************************************************************************)

(* A nonempty set of naturals has a least element. *)
LEMMA LeastNat ==
  ASSUME NEW T \in SUBSET Nat, T # {}
  PROVE  \E x \in T : \A y \in T : x <= y
<1>1. PICK x \in T : \A y \in T : ~ (<<y, x>> \in OpToRel(<, Nat))
  BY NatLessThanWellFounded, WFMin, Zenon
<1>2. \A y \in T : ~ (y < x)
  BY <1>1 DEF OpToRel
<1> QED
  BY <1>2

(* Induction up to n: P is the set of numbers that are fine. *)
LEMMA UpTo ==
  ASSUME NEW n \in Nat, NEW P, 0 \in P, \A m \in 1 .. n : m - 1 \in P => m \in P
  PROVE  \A m \in 0 .. n : m \in P
<1> DEFINE T == {m \in 0 .. n : m \notin P}
<1> SUFFICES ASSUME T # {} PROVE FALSE
  OBVIOUS
<1>0. T \in SUBSET Nat /\ T # {}
  OBVIOUS
<1> HIDE DEF T
<1>1. PICK m \in T : \A y \in T : m <= y
  BY <1>0, LeastNat
<1> USE DEF T
<1>2. m \in 1 .. n /\ m - 1 \in 0 .. n /\ ~ (m <= m - 1)
  BY <1>1
<1>3. m - 1 \in P
  BY <1>1, <1>2
<1> QED
  BY <1>1, <1>2, <1>3

(* Min and Max of two numbers. *)
LEMMA MinTwo ==
  ASSUME NEW a \in Nat, NEW b \in Nat
  PROVE  Min({a, b}) = IF a <= b THEN a ELSE b
<1> DEFINE m == IF a <= b THEN a ELSE b
           P(x) == \A y \in {a, b} : x <= y
<1>1. m \in {a, b} /\ P(m)
  OBVIOUS
<1>2. \A x \in {a, b} : P(x) => x = m
  OBVIOUS
<1> HIDE DEF m, P
<1>3. Min({a, b}) = CHOOSE x \in {a, b} : P(x)
  BY DEF Min, P
<1> QED
  BY <1>1, <1>2, <1>3 DEF m

(* Likewise for the larger one. *)
LEMMA MaxTwo ==
  ASSUME NEW a \in Nat, NEW b \in Nat
  PROVE  Max({a, b}) = IF a >= b THEN a ELSE b
<1> DEFINE m == IF a >= b THEN a ELSE b
           P(x) == \A y \in {a, b} : x >= y
<1>1. m \in {a, b} /\ P(m)
  OBVIOUS
<1>2. \A x \in {a, b} : P(x) => x = m
  OBVIOUS
<1> HIDE DEF m, P
<1>3. Max({a, b}) = CHOOSE x \in {a, b} : P(x)
  BY DEF Max, P
<1> QED
  BY <1>1, <1>2, <1>3 DEF m

(* The largest of 1 .. m, and of a set that has m + 1 besides. *)
LEMMA MaxOfInitial ==
  ASSUME NEW m \in Nat \ {0}, NEW t \in SUBSET (1 .. m), m \in t
  PROVE  Max(t) = m
<1> DEFINE P(x) == \A y \in t : x >= y
<1>1. m \in t /\ P(m)
  OBVIOUS
<1>2. \A x \in t : P(x) => x = m
  OBVIOUS
<1> HIDE DEF P
<1>3. Max(t) = CHOOSE x \in t : P(x)
  BY DEF Max, P
<1> QED
  BY <1>1, <1>2, <1>3

(* The function a fold over 1 .. n iterates, with the step as a table. *)
IsTable(g, n, base, st) ==
  g = [t \in SUBSET (1 .. n) |-> IF t = {} THEN base ELSE st[<<g[t \ {Max(t)}], Max(t)>>]]

(* There is such a function: a table for 1 .. m - 1 is one for the subsets *)
(* of 1 .. m without m, and gives the others in one step.                  *)
LEMMA TableExists ==
  ASSUME NEW n \in Nat, NEW V, NEW base \in V, NEW st \in [V \X (1 .. n) -> V]
  PROVE  \E g \in [SUBSET (1 .. n) -> V] : IsTable(g, n, base, st)
<1> DEFINE P == {m \in 0 .. n : \E g \in [SUBSET (1 .. m) -> V] : IsTable(g, m, base, st)}
<1>1. 0 \in P
  <2> DEFINE g == [t \in SUBSET (1 .. 0) |-> base]
  <2>1. \A t \in SUBSET (1 .. 0) : t = {}
    OBVIOUS
  <2>2. g \in [SUBSET (1 .. 0) -> V] /\ IsTable(g, 0, base, st)
    BY <2>1 DEF IsTable
  <2> HIDE DEF g
  <2>3. 0 \in 0 .. n
    OBVIOUS
  <2> QED
    BY <2>2, <2>3
<1>2. ASSUME NEW m \in 1 .. n, m - 1 \in P PROVE m \in P
  <2>1. PICK g \in [SUBSET (1 .. m - 1) -> V] : IsTable(g, m - 1, base, st)
    BY <1>2
  <2> DEFINE h == [t \in SUBSET (1 .. m) |->
                     IF m \in t THEN st[<<g[t \ {m}], m>>] ELSE g[t]]
  <2>2. \A t \in SUBSET (1 .. m) : t \ {m} \in SUBSET (1 .. m - 1)
                                   /\ (m \notin t => t \in SUBSET (1 .. m - 1))
    OBVIOUS
  <2>3. \A v \in V : st[<<v, m>>] \in V
    OBVIOUS
  <2>4. h \in [SUBSET (1 .. m) -> V]
    BY <2>1, <2>2, <2>3
  <2>5. ASSUME NEW t \in SUBSET (1 .. m)
        PROVE  h[t] = IF t = {} THEN base ELSE st[<<h[t \ {Max(t)}], Max(t)>>]
    <3>1. CASE m \in t
      <4>1. Max(t) = m
        BY <3>1, MaxOfInitial
      <4>2. h[t] = st[<<g[t \ {m}], m>>] /\ h[t \ {m}] = g[t \ {m}]
        BY <3>1, <2>2
      <4> QED
        BY <3>1, <4>1, <4>2
    <3>2. CASE m \notin t
      <4>1. t \in SUBSET (1 .. m - 1) /\ h[t] = g[t]
        BY <2>2, <3>2
      <4>2. g[t] = IF t = {} THEN base ELSE st[<<g[t \ {Max(t)}], Max(t)>>]
        BY <2>1, <4>1 DEF IsTable
      <4>3. t \ {Max(t)} \in SUBSET (1 .. m) /\ m \notin t \ {Max(t)}
        BY <3>2
      <4>4. h[t \ {Max(t)}] = g[t \ {Max(t)}]
        BY <4>3
      <4> QED
        BY <4>1, <4>2, <4>4
    <3> QED
      BY <3>1, <3>2
  <2> HIDE DEF h
  <2>6. IsTable(h, m, base, st)
    BY <2>4, <2>5 DEF IsTable
  <2> QED
    BY <2>4, <2>6
<1> HIDE DEF P
<1>3. n \in P
  BY <1>1, <1>2, UpTo
<1> QED
  BY <1>3 DEF P

(* The function a recursion over 0 .. n defines, likewise. *)
IsRecursion(f, n, base, st) ==
  \A i \in 0 .. n : f[i] = IF i = 0 THEN base ELSE st[<<f[i - 1], i>>]

(* There is such a function too. *)
LEMMA RecursionExists ==
  ASSUME NEW n \in Nat, NEW V, NEW base \in V, NEW st \in [V \X (1 .. n) -> V]
  PROVE  \E f \in [0 .. n -> V] : IsRecursion(f, n, base, st)
<1> DEFINE Sol(f, m) == \A i \in 0 .. m : f[i] = IF i = 0 THEN base ELSE st[<<f[i - 1], i>>]
           P == {m \in 0 .. n : \E f \in [0 .. m -> V] : Sol(f, m)}
<1>1. 0 \in P
  <2> DEFINE f == [i \in 0 .. 0 |-> base]
  <2>1. f \in [0 .. 0 -> V] /\ Sol(f, 0)
    OBVIOUS
  <2> HIDE DEF f
  <2> QED
    BY <2>1
<1>2. ASSUME NEW m \in 1 .. n, m - 1 \in P PROVE m \in P
  <2>1. PICK f \in [0 .. m - 1 -> V] : Sol(f, m - 1)
    BY <1>2
  <2> DEFINE h == [i \in 0 .. m |-> IF i = m THEN st[<<f[m - 1], m>>] ELSE f[i]]
  <2>2. m - 1 \in 0 .. m - 1 /\ \A i \in 0 .. m : i # m => i \in 0 .. m - 1
    OBVIOUS
  <2>3. f[m - 1] \in V /\ st[<<f[m - 1], m>>] \in V
    BY <2>2
  <2>4. h \in [0 .. m -> V]
    BY <2>2, <2>3
  <2>5. Sol(h, m)
    <3> SUFFICES ASSUME NEW i \in 0 .. m
                 PROVE  h[i] = IF i = 0 THEN base ELSE st[<<h[i - 1], i>>]
      OBVIOUS
    <3>1. CASE i = m
      <4>1. h[m] = st[<<f[m - 1], m>>] /\ h[m - 1] = f[m - 1] /\ m # 0
        OBVIOUS
      <4> HIDE DEF h
      <4> QED
        BY <3>1, <4>1
    <3>2. CASE i # m
      <4>1. i \in 0 .. m - 1 /\ h[i] = f[i]
        BY <3>2
      <4>2. i # 0 => h[i - 1] = f[i - 1]
        BY <3>2
      <4>3. f[i] = IF i = 0 THEN base ELSE st[<<f[i - 1], i>>]
        BY <2>1, <4>1
      <4> HIDE DEF h
      <4> QED
        BY <4>1, <4>2, <4>3
    <3> QED
      BY <3>1, <3>2
  <2> HIDE DEF h, Sol
  <2> QED
    BY <2>4, <2>5
<1> HIDE DEF P
<1>3. n \in P
  BY <1>1, <1>2, UpTo
<1> QED
  <2>1. PICK f \in [0 .. n -> V] : Sol(f, n)
    BY <1>3 DEF P
  <2>2. IsRecursion(f, n, base, st)
    BY <2>1 DEF IsRecursion
  <2> QED
    BY <2>2

(* The largest of some of the numbers 1 .. n is one of them. *)
LEMMA MaxIn ==
  ASSUME NEW n \in Nat, NEW t \in SUBSET (1 .. n), t # {}
  PROVE  Max(t) \in t
<1> DEFINE T == {u \in 0 .. n : \A y \in t : y <= u}
<1>1. T \in SUBSET Nat /\ n \in T
  OBVIOUS
<1> HIDE DEF T
<1>2. PICK u \in T : \A v \in T : u <= v
  BY <1>1, LeastNat
<1>3. u \in 0 .. n /\ \A y \in t : y <= u
  BY <1>2 DEF T
<1>4. u \in t
  <2> SUFFICES ASSUME u \notin t PROVE FALSE
    OBVIOUS
  <2>0. PICK z \in t : TRUE
    OBVIOUS
  <2>1. u # 0 /\ \A y \in t : y <= u - 1
    <3>1. z \in 1 .. n /\ z <= u
      BY <1>3, <2>0
    <3>2. u # 0
      BY <1>3, <3>1
    <3>3. ASSUME NEW y \in t PROVE y <= u - 1
      <4>1. y \in 1 .. n /\ y <= u /\ y # u
        BY <1>3, <3>3
      <4> QED
        BY <1>3, <4>1
    <3> QED
      BY <3>2, <3>3
  <2>2. u - 1 \in T
    BY <1>3, <2>1 DEF T
  <2> QED
    BY <1>2, <1>3, <2>2
<1>5. t \in SUBSET (1 .. u) /\ u \in Nat \ {0}
  BY <1>3, <1>4
<1> QED
  BY <1>4, <1>5, MaxOfInitial

(* A fold that adds up encoded lengths is a number. *)
LEMMA EncodedSum ==
  ASSUME NEW fields \in Seq(Field)
  PROVE  FoldLeft(LAMBDA sum, f : sum + EncodedLen[f], 0, fields) \in Nat
<1> DEFINE n == Len(fields)
           Eq(g) == g = [t \in SUBSET DOMAIN fields |->
                           IF t = {} THEN 0
                           ELSE g[t \ {Max(t)}] + EncodedLen[fields[Max(t)]]]
           G == CHOOSE g : Eq(g)
           st == [x \in Nat \X (1 .. n) |-> x[1] + EncodedLen[fields[x[2]]]]
<1>1. n \in Nat /\ DOMAIN fields = 1 .. n /\ \A i \in 1 .. n : fields[i] \in Field
  BY LenProperties, ElementOfSeq
<1>2. FoldLeft(LAMBDA sum, f : sum + EncodedLen[f], 0, fields) = G[DOMAIN fields]
  BY Zenon DEF FoldLeft, MapThenFoldSet
<1>3. \A f \in Field : EncodedLen[f] \in Nat
  BY DEF Field, EncodedLen
<1>4. /\ st \in [Nat \X (1 .. n) -> Nat]
      /\ \A v \in Nat, i \in 1 .. n : st[<<v, i>>] = v + EncodedLen[fields[i]]
  BY <1>1, <1>3
<1>5. \E g : Eq(g)
  <2> HIDE DEF st
  <2>1. PICK g \in [SUBSET (1 .. n) -> Nat] : IsTable(g, n, 0, st)
    BY <1>1, <1>4, TableExists
  <2>2. ASSUME NEW t \in SUBSET (1 .. n)
        PROVE  g[t] = IF t = {} THEN 0 ELSE g[t \ {Max(t)}] + EncodedLen[fields[Max(t)]]
    <3>1. g[t] = IF t = {} THEN 0 ELSE st[<<g[t \ {Max(t)}], Max(t)>>]
      BY <2>1 DEF IsTable
    <3>2. t # {} => Max(t) \in 1 .. n
      BY <1>1, MaxIn
    <3>3. t \ {Max(t)} \in SUBSET (1 .. n)
      OBVIOUS
    <3>4. g[t \ {Max(t)}] \in Nat
      BY <2>1, <3>3
    <3> QED
      BY <1>4, <3>1, <3>2, <3>4
  <2>3. Eq(g)
    BY <1>1, <2>1, <2>2
  <2> HIDE DEF Eq
  <2> QED
    BY <2>3
<1>6. Eq(G)
  <2> HIDE DEF Eq
  <2> QED
    BY <1>5
<1>7. \A t \in SUBSET (1 .. n) :
        G[t] = IF t = {} THEN 0 ELSE G[t \ {Max(t)}] + EncodedLen[fields[Max(t)]]
  <2> HIDE DEF G
  <2> QED
    BY <1>1, <1>6
<1> HIDE DEF G, Eq, st
<1> DEFINE P == {m \in 0 .. n : G[1 .. m] \in Nat}
<1>8. 0 \in P
  <2>1. 1 .. 0 = {} /\ {} \in SUBSET (1 .. n)
    OBVIOUS
  <2>2. 0 \in 0 .. n
    BY <1>1
  <2>3. G[1 .. 0] = 0
    BY <1>7, <2>1
  <2> QED
    BY <2>2, <2>3
<1>9. ASSUME NEW m \in 1 .. n, m - 1 \in P PROVE m \in P
  <2>1. /\ 1 .. m \in SUBSET (1 .. n) /\ m \in 1 .. m /\ 1 .. m # {} /\ m \in Nat \ {0}
        /\ (1 .. m) \ {m} = 1 .. m - 1
    OBVIOUS
  <2>2. Max(1 .. m) = m
    BY <2>1, MaxOfInitial
  <2>3. G[1 .. m] = G[1 .. m - 1] + EncodedLen[fields[m]]
    BY <1>7, <2>1, <2>2
  <2> QED
    BY <1>1, <1>3, <1>9, <2>3
<1> HIDE DEF P
<1>10. n \in 0 .. n
  BY <1>1
<1>11. \A m \in 0 .. n : m \in P
  BY <1>1, <1>8, <1>9, UpTo
<1> QED
  BY <1>1, <1>2, <1>10, <1>11 DEF P

(* One stage is charged with its own bytes. *)
LEMMA OneStage ==
  ASSUME NEW s, NEW kb, StageBytes(s, kb) \in Nat
  PROVE  StateBytes(<<s>>, kb) = StageBytes(s, kb)
<1> DEFINE x == StageBytes(s, kb)
           Eq(g) == g = [t \in SUBSET DOMAIN <<s>> |->
                           IF t = {} THEN 0
                           ELSE g[t \ {Max(t)}] + StageBytes(<<s>>[Max(t)], kb)]
           G == CHOOSE g : Eq(g)
<1>1. StateBytes(<<s>>, kb) = G[DOMAIN <<s>>]
  BY Zenon DEF StateBytes, FoldLeft, MapThenFoldSet
<1>2. DOMAIN <<s>> = {1} /\ <<s>>[1] = s
  OBVIOUS
<1>3. Max({1}) = 1
  <2>1. {1} \in SUBSET (1 .. 1) /\ 1 \in Nat \ {0} /\ 1 \in {1}
    OBVIOUS
  <2> QED
    BY <2>1, MaxOfInitial
<1>4. \A t \in SUBSET {1} : t = {} \/ t = {1}
  OBVIOUS
<1>5. \E g : Eq(g)
  <2> DEFINE g == [t \in SUBSET {1} |-> IF t = {} THEN 0 ELSE x]
  <2>1. \A t \in SUBSET {1} :
          g[t] = IF t = {} THEN 0 ELSE g[t \ {Max(t)}] + StageBytes(<<s>>[Max(t)], kb)
    <3> SUFFICES ASSUME NEW t \in SUBSET {1}
                 PROVE g[t] = IF t = {} THEN 0 ELSE g[t \ {Max(t)}] + StageBytes(<<s>>[Max(t)], kb)
      OBVIOUS
    <3>1. CASE t = {}
      BY <3>1
    <3>2. CASE t = {1}
      <4>1. t \ {Max(t)} = {} /\ <<s>>[Max(t)] = s
        BY <1>2, <1>3, <3>2
      <4>2. g[{}] = 0 /\ g[t] = x
        BY <3>2
      <4> QED
        BY <3>2, <4>1, <4>2
    <3> QED
      BY <1>4, <3>1, <3>2
  <2>2. g = [t \in SUBSET {1} |-> g[t]]
    OBVIOUS
  <2>3. Eq(g)
    <3> HIDE DEF g
    <3> QED
      BY <1>2, <2>1, <2>2
  <2> HIDE DEF Eq
  <2> QED
    BY <2>3
<1>6. Eq(G)
  <2> HIDE DEF Eq
  <2> QED
    BY <1>5
<1> HIDE DEF G
<1>7. G[{}] = 0 /\ G[{1}] = G[{1} \ {Max({1})}] + StageBytes(<<s>>[Max({1})], kb)
  BY <1>2, <1>6
<1>8. {1} \ {Max({1})} = {} /\ <<s>>[Max({1})] = s
  BY <1>2, <1>3
<1>9. G[{1}] = 0 + x
  BY <1>7, <1>8
<1> QED
  BY <1>1, <1>2, <1>9

(***************************************************************************)
(* The planner.                                                            *)
(***************************************************************************)

(* A clamped number is within its limits, and not below a number that was  *)
(* not below it.                                                           *)
LEMMA ClampBounds ==
  ASSUME NEW n \in Nat, NEW low \in Nat, NEW high \in Nat, low <= high
  PROVE  /\ Clamp(n, low, high) \in Nat
         /\ Clamp(n, low, high) >= low /\ Clamp(n, low, high) <= high
         /\ Clamp(n, low, high) >= n \/ Clamp(n, low, high) = high
<1>1. Max({n, low}) = IF n >= low THEN n ELSE low
  BY MaxTwo
<1>2. Max({n, low}) \in Nat
  BY <1>1
<1> DEFINE m == Max({n, low})
<1> HIDE DEF m
<1>3. Min({m, high}) = IF m <= high THEN m ELSE high
  BY <1>2, MinTwo DEF m
<1>4. Clamp(n, low, high) = IF m <= high THEN m ELSE high
  BY <1>3, Zenon DEF Clamp, m
<1>5. m = IF n >= low THEN n ELSE low
  BY <1>1 DEF m
<1> QED
  BY <1>4, <1>5

(* The registers of a HyperLogLog. *)
LEMMA RegistersPositive ==
  ASSUME NEW x \in 4 .. 18
  PROVE  2 ^ x \in Nat \ {0}
<1>1. \/ x = 4 \/ x = 5 \/ x = 6 \/ x = 7 \/ x = 8 \/ x = 9 \/ x = 10 \/ x = 11 \/ x = 12
      \/ x = 13 \/ x = 14 \/ x = 15 \/ x = 16 \/ x = 17 \/ x = 18
  BY SMT
<1>2. \/ 2 ^ x = 2 ^ 4 \/ 2 ^ x = 2 ^ 5 \/ 2 ^ x = 2 ^ 6 \/ 2 ^ x = 2 ^ 7 \/ 2 ^ x = 2 ^ 8
      \/ 2 ^ x = 2 ^ 9 \/ 2 ^ x = 2 ^ 10 \/ 2 ^ x = 2 ^ 11 \/ 2 ^ x = 2 ^ 12
      \/ 2 ^ x = 2 ^ 13 \/ 2 ^ x = 2 ^ 14 \/ 2 ^ x = 2 ^ 15 \/ 2 ^ x = 2 ^ 16
      \/ 2 ^ x = 2 ^ 17 \/ 2 ^ x = 2 ^ 18
  BY <1>1, Zenon
<1>3. /\ 2 ^ 4 \in Nat \ {0} /\ 2 ^ 5 \in Nat \ {0} /\ 2 ^ 6 \in Nat \ {0}
      /\ 2 ^ 7 \in Nat \ {0} /\ 2 ^ 8 \in Nat \ {0} /\ 2 ^ 9 \in Nat \ {0}
      /\ 2 ^ 10 \in Nat \ {0} /\ 2 ^ 11 \in Nat \ {0} /\ 2 ^ 12 \in Nat \ {0}
      /\ 2 ^ 13 \in Nat \ {0} /\ 2 ^ 14 \in Nat \ {0} /\ 2 ^ 15 \in Nat \ {0}
      /\ 2 ^ 16 \in Nat \ {0} /\ 2 ^ 17 \in Nat \ {0} /\ 2 ^ 18 \in Nat \ {0}
  BY SMT
<1> QED
  BY <1>2, <1>3, Zenon

(* What the rows of the accuracy table give. *)
LEMMA AccuracyFacts ==
  ASSUME NEW e \in DOMAIN Accuracy
  PROVE  /\ Accuracy[e].width \in Nat \ {0} /\ Accuracy[e].depth \in Nat
         /\ Accuracy[e].capacity \in Nat /\ Accuracy[e].k \in Nat
         /\ Precision(e) \in 4 .. 18
<1>1. Accuracy[e] \in [width : Nat \ {0}, depth : Nat, capacity : Nat, precision : Nat, k : Nat]
  BY PlannerAssumption
<1>2. Accuracy[e].precision \in Nat
  BY <1>1
<1>3. Precision(e) \in 4 .. 18
  <2>1. 4 \in Nat /\ 18 \in Nat /\ 4 <= 18
    OBVIOUS
  <2> DEFINE p == Clamp(Accuracy[e].precision, 4, 18)
  <2>2. p \in Nat /\ p >= 4 /\ p <= 18
    BY <1>2, <2>1, ClampBounds
  <2> HIDE DEF p
  <2>3. p \in 4 .. 18
    BY <2>2
  <2> QED
    BY <2>3 DEF p, Precision
<1> QED
  BY <1>1, <1>3

(* Integer division. *)
LEMMA DivideFacts ==
  ASSUME NEW a \in Nat, NEW b \in Nat \ {0}
  PROVE  a \div b \in Nat /\ (a \div b) * b <= a
  OBVIOUS

(* The sizes of a valid document are numbers. *)
LEMMA DocumentFacts ==
  ASSUME NEW d \in Document, Valid(d)
  PROVE  /\ KeyBytes(d) \in Nat /\ Budget(d) \in Nat
         /\ Buckets(d) \in Nat \ {0} /\ Resident(d) \in Nat \ {0}
         /\ d.error \in DOMAIN Accuracy /\ Precision(d.error) \in 4 .. 18
         /\ d.series \in Nat \ {0} /\ d.limit \in Nat
<1>1. /\ d.size \in Nat /\ d.slide \in Nat /\ d.group \in Seq(STRING) /\ d.limit \in Nat
      /\ d.series \in Nat /\ d.memory \in Seq(Nat)
  BY DEF Document
<1>2. /\ d.slide > 0 /\ d.series > 0 /\ Range(d.group) \subseteq Field
      /\ d.error \in DOMAIN Accuracy /\ MeasureOk(d)
  BY DEF Valid
<1>3. KeyBytes(d) \in Nat
  <2> DEFINE fields == CASE d.measure = "entropy"  -> <<d.field>>
                         [] d.measure = "quantile" -> <<>>
                         [] OTHER                  -> d.group
             sum == FoldLeft(LAMBDA s, f : s + EncodedLen[f], 0, fields)
  <2>1. fields \in Seq(Field)
    <3>1. CASE d.measure = "entropy"
      <4>1. d.field \in Field
        BY <1>2, <3>1 DEF MeasureOk
      <4>2. fields = <<d.field>>
        BY <3>1
      <4> QED
        BY <4>1, <4>2
    <3>2. CASE d.measure = "quantile"
      BY <3>2
    <3>3. CASE d.measure \notin {"entropy", "quantile"}
      <4>1. fields = d.group
        BY <3>3
      <4>2. \A i \in 1 .. Len(d.group) : d.group[i] \in Field
        BY <1>1, <1>2, LenProperties DEF Range
      <4>3. d.group \in Seq(Field)
        BY <1>1, <4>2, LenProperties, SeqDef
      <4> QED
        BY <4>1, <4>3
    <3> QED
      BY <3>1, <3>2, <3>3
  <2>2. KeyBytes(d) = sum + (IF fields = <<>> THEN 0 ELSE Len(fields) - 1)
    BY Zenon DEF KeyBytes
  <2> HIDE DEF fields
  <2>3. sum \in Nat
    BY <2>1, EncodedSum
  <2>4. fields = <<>> \/ Len(fields) \in Nat \ {0}
    BY <2>1, LenProperties, EmptySeq
  <2> HIDE DEF sum
  <2> QED
    BY <2>2, <2>3, <2>4
<1>4. Budget(d) \in Nat
  <2>1. CASE d.memory = <<>>
    BY <2>1, PlannerAssumption DEF Budget
  <2>2. CASE d.memory # <<>>
    BY <1>1, <2>2 DEF Budget
  <2> QED
    BY <2>1, <2>2
<1>5. Buckets(d) \in Nat \ {0}
  <2>1. d.size \div d.slide \in Nat
    <3>1. d.slide \in Nat \ {0}
      BY <1>1, <1>2
    <3> QED
      BY <1>1, <3>1, DivideFacts
  <2>2. Max({d.size \div d.slide, 1}) = IF d.size \div d.slide >= 1 THEN d.size \div d.slide ELSE 1
    BY <2>1, MaxTwo
  <2> QED
    BY <2>1, <2>2 DEF Buckets
<1>6. Resident(d) \in Nat \ {0}
  BY <1>5 DEF Resident
<1>7. Precision(d.error) \in 4 .. 18
  BY <1>2, AccuracyFacts
<1> QED
  BY <1>1, <1>2, <1>3, <1>4, <1>5, <1>6, <1>7

(* One stage, or two, that the runtime executes and can construct. *)
LEMMA BuildableOne ==
  ASSUME NEW s, s.kind \in {"spaceSaving", "hllMap", "hll", "kll"}, Constructs(s)
  PROVE  Buildable(<<s>>)
<1>1. DOMAIN <<s>> = {1} /\ <<s>>[1] = s
  OBVIOUS
<1>2. Shape(<<s>>) = <<s.kind>>
  BY <1>1 DEF Shape
<1>3. \A i \in DOMAIN <<s>> : Constructs(<<s>>[i])
  BY <1>1
<1> QED
  BY <1>2, <1>3, Zenon DEF Buildable

(* And one whose plan has two stages. *)
LEMMA BuildableTwo ==
  ASSUME NEW s, NEW t, s.kind = "spaceSaving", t.kind \in {"countMin", "hll"},
         Constructs(s), Constructs(t)
  PROVE  Buildable(<<s, t>>)
<1>1. DOMAIN <<s, t>> = {1, 2} /\ <<s, t>>[1] = s /\ <<s, t>>[2] = t
  OBVIOUS
<1>2. Shape(<<s, t>>) = <<s.kind, t.kind>>
  BY <1>1 DEF Shape
<1>3. \A i \in DOMAIN <<s, t>> : Constructs(<<s, t>>[i])
  BY <1>1
<1> QED
  BY <1>2, <1>3, Zenon DEF Buildable

(* A SpaceSaving stage of positive capacity. *)
LEMMA SpaceSavingConstructs ==
  ASSUME NEW c \in Nat \ {0}
  PROVE  /\ SpaceSavingOf(c).kind = "spaceSaving" /\ SpaceSavingOf(c).capacity = c
         /\ Constructs(SpaceSavingOf(c))
  BY DEF SpaceSavingOf, Constructs

(* The keys of an HllMap: the planner's budget, by its own formula. *)
LEMMA HllKeys ==
  ASSUME NEW d \in Document, Valid(d)
  PROVE  /\ HllKeyPreference(d) \in Nat \ {0}
         /\ HllKeyBudget(d) \in Nat
         /\ Min({d.series, HllKeyPreference(d)}) \in Nat \ {0}
         /\ HllKeyBudget(d) > 0 =>
              (HllKeyBudget(d) * (2 ^ Precision(d.error) + 2 * KeyBytes(d) + 48 + 32) + 64)
                * Resident(d) <= Budget(d)
         /\ 2 ^ Precision(d.error) + 2 * KeyBytes(d) + 48 + 32 \in Nat \ {0}
<1>1. /\ KeyBytes(d) \in Nat /\ Budget(d) \in Nat /\ Resident(d) \in Nat \ {0}
      /\ Precision(d.error) \in 4 .. 18 /\ d.series \in Nat \ {0}
  BY DocumentFacts
<1>2. 2 ^ Precision(d.error) \in Nat \ {0}
  BY <1>1, RegistersPositive
<1> DEFINE perKey == 2 ^ Precision(d.error) + 2 * KeyBytes(d) + 48 + 32
           share  == Budget(d) \div Resident(d)
<1>3. perKey \in Nat \ {0}
  BY <1>1, <1>2
<1>4. share \in Nat /\ share * Resident(d) <= Budget(d)
  BY <1>1, DivideFacts
<1>5. HllKeyBudget(d) = IF share < 64 THEN 0 ELSE (share - 64) \div perKey
  BY Zenon DEF HllKeyBudget
<1>6. HllKeyPreference(d) \in Nat \ {0}
  <2> DEFINE x == d.series * 4
             c == Clamp(x, 1024, 65536)
  <2>1. x \in Nat /\ 1024 \in Nat /\ 65536 \in Nat /\ 1024 <= 65536
    BY <1>1
  <2> HIDE DEF x
  <2>2. c \in Nat /\ c >= 1024
    BY <2>1, ClampBounds
  <2> HIDE DEF c
  <2>3. c \in Nat \ {0}
    BY <2>2
  <2> QED
    BY <2>3 DEF c, x, HllKeyPreference
<1>7. Min({d.series, HllKeyPreference(d)}) \in Nat \ {0}
  <2>1. HllKeyPreference(d) \in Nat \ {0}
    BY <1>6
  <2>2. Min({d.series, HllKeyPreference(d)})
          = IF d.series <= HllKeyPreference(d) THEN d.series ELSE HllKeyPreference(d)
    BY <1>1, <2>1, MinTwo
  <2> QED
    BY <1>1, <2>1, <2>2
<1> HIDE DEF perKey, share
<1>8. share >= 64 =>
        /\ share - 64 \in Nat
        /\ (share - 64) \div perKey \in Nat
        /\ ((share - 64) \div perKey) * perKey <= share - 64
  BY <1>3, <1>4, DivideFacts
<1>9. HllKeyBudget(d) \in Nat
  BY <1>5, <1>8, <1>4
<1>10. HllKeyBudget(d) > 0 => (HllKeyBudget(d) * perKey + 64) * Resident(d) <= Budget(d)
  <2> SUFFICES ASSUME HllKeyBudget(d) > 0
               PROVE  (HllKeyBudget(d) * perKey + 64) * Resident(d) <= Budget(d)
    OBVIOUS
  <2>1. share >= 64
    BY <1>4, <1>5
  <2> DEFINE used == HllKeyBudget(d) * perKey + 64
  <2>2. used \in Nat /\ used <= share
    BY <1>3, <1>4, <1>5, <1>8, <1>9, <2>1
  <2> HIDE DEF used
  <2>3. used * Resident(d) <= share * Resident(d) /\ used * Resident(d) \in Nat
        /\ share * Resident(d) \in Nat
    BY <1>1, <1>4, <2>2
  <2>4. used * Resident(d) <= Budget(d)
    BY <1>1, <1>4, <2>3
  <2> QED
    BY <2>4 DEF used
<1> QED
  BY <1>3, <1>6, <1>7, <1>9, <1>10 DEF perKey

(* What is planned for a grouped distinct count, if anything is. *)
LEMMA DistinctKeys ==
  ASSUME NEW d \in Document, Valid(d), d.measure = "distinct", d.group # <<>>,
         Stages(d) # <<>>
  PROVE  LET s == [kind |-> "hllMap", precision |-> Precision(d.error),
                   keys |-> Min({HllKeyPreference(d), HllKeyBudget(d)})]
         IN  /\ Stages(d) = <<s>>
             /\ s.keys \in Nat \ {0} /\ s.keys <= HllKeyBudget(d) /\ HllKeyBudget(d) \in Nat \ {0}
<1> DEFINE keys == Min({HllKeyPreference(d), HllKeyBudget(d)})
           s == [kind |-> "hllMap", precision |-> Precision(d.error), keys |-> keys]
<1>1. /\ HllKeyPreference(d) \in Nat \ {0} /\ HllKeyBudget(d) \in Nat
      /\ Min({d.series, HllKeyPreference(d)}) \in Nat \ {0}
  BY HllKeys
<1>2. Stages(d) = DistinctStages(d)
  BY DEF Stages
<1>3. /\ DistinctStages(d) = <<s>>
      /\ ~(HllKeyBudget(d) < Min({d.series, HllKeyPreference(d)}))
  BY <1>2, Zenon DEF DistinctStages
<1>4. HllKeyBudget(d) \in Nat \ {0}
  BY <1>1, <1>3
<1>5. keys = IF HllKeyPreference(d) <= HllKeyBudget(d) THEN HllKeyPreference(d)
                                                       ELSE HllKeyBudget(d)
  <2>1. HllKeyPreference(d) \in Nat
    BY <1>1
  <2> QED
    BY <1>1, <2>1, MinTwo
<1> HIDE DEF keys
<1>6. keys \in Nat \ {0} /\ keys <= HllKeyBudget(d)
  BY <1>1, <1>4, <1>5
<1>7. s.keys = keys
  OBVIOUS
<1>8. Stages(d) = <<s>> /\ s.keys \in Nat \ {0} /\ s.keys <= HllKeyBudget(d)
      /\ HllKeyBudget(d) \in Nat \ {0}
  BY <1>2, <1>3, <1>4, <1>6, <1>7
<1> QED
  BY <1>8, Zenon DEF keys

(* Whatever is planned for a valid document can be built. *)
LEMMA PlannedStagesBuild ==
  ASSUME NEW d \in Document, Valid(d), Plannable(d)
  PROVE  Buildable(Stages(d))
<1>1. /\ d.error \in DOMAIN Accuracy /\ Precision(d.error) \in 4 .. 18
      /\ d.series \in Nat \ {0} /\ d.limit \in Nat
  BY DocumentFacts
<1> DEFINE a == Accuracy[d.error]
<1>2. a.width \in Nat \ {0} /\ a.depth \in Nat /\ a.capacity \in Nat /\ a.k \in Nat
  BY <1>1, AccuracyFacts
<1>3. Precision(EntropyAccuracy) \in 4 .. 18
  BY PlannerAssumption, AccuracyFacts
<1>4. Stages(d) # <<>> /\ (d.measure \in {"count", "sum"} => a.depth > 0)
  BY DEF Plannable
<1>5. d.measure \in {"count", "sum", "heavy_hitters", "distinct", "entropy", "quantile"}
  BY DEF Valid, MeasureOk
<1>6. /\ 2 ^ 16 = 65536 /\ 2 ^ 20 = 1048576
  BY SMT
<1>7. CASE d.measure \in {"count", "sum"}
  <2> DEFINE x == d.series * 4
             c == Clamp(x, 256, 65536)
             t == [kind |-> "countMin", width |-> a.width, depth |-> a.depth]
  <2>1. x \in Nat /\ 256 \in Nat /\ 65536 \in Nat /\ 256 <= 65536
    BY <1>1
  <2> HIDE DEF x
  <2>2. c \in Nat /\ c >= 256
    BY <2>1, ClampBounds
  <2> HIDE DEF c
  <2>3. c \in Nat \ {0}
    BY <2>2
  <2>4. SpaceSavingOf(c).kind = "spaceSaving" /\ Constructs(SpaceSavingOf(c))
    BY <2>3, SpaceSavingConstructs
  <2>5. t.kind = "countMin" /\ Constructs(t)
    BY <1>2, <1>4, <1>7 DEF Constructs
  <2>6. Stages(d) = <<SpaceSavingOf(c), t>>
    BY <1>7 DEF Stages, c, x
  <2> HIDE DEF t
  <2> QED
    BY <2>4, <2>5, <2>6, BuildableTwo
<1>8. CASE d.measure = "heavy_hitters"
  <2> DEFINE m == Max({a.capacity, d.limit * 4})
             c == Clamp(m, 256, 2 ^ 20)
  <2>1. d.limit * 4 \in Nat
    BY <1>1
  <2>2. m = IF a.capacity >= d.limit * 4 THEN a.capacity ELSE d.limit * 4
    BY <1>2, <2>1, MaxTwo
  <2>3. m \in Nat /\ 256 \in Nat /\ 2 ^ 20 \in Nat /\ 256 <= 2 ^ 20
    BY <1>2, <1>6, <2>1, <2>2
  <2> HIDE DEF m
  <2>4. c \in Nat /\ c >= 256
    BY <2>3, ClampBounds
  <2>5. c \in Nat \ {0}
    BY <1>6, <2>4
  <2> HIDE DEF c
  <2>6. SpaceSavingOf(c).kind = "spaceSaving" /\ Constructs(SpaceSavingOf(c))
    BY <2>5, SpaceSavingConstructs
  <2>7. Stages(d) = <<SpaceSavingOf(c)>>
    BY <1>8 DEF Stages, c, m
  <2> QED
    BY <2>6, <2>7, BuildableOne
<1>9. CASE d.measure = "distinct" /\ d.group = <<>>
  <2> DEFINE s == [kind |-> "hll", precision |-> Precision(d.error)]
  <2>1. s.kind = "hll" /\ Constructs(s)
    BY <1>1 DEF Constructs
  <2>2. Stages(d) = <<s>>
    BY <1>9 DEF Stages, DistinctStages
  <2> HIDE DEF s
  <2> QED
    BY <2>1, <2>2, BuildableOne
<1>10. CASE d.measure = "distinct" /\ d.group # <<>>
  <2> DEFINE s == [kind |-> "hllMap", precision |-> Precision(d.error),
                   keys |-> Min({HllKeyPreference(d), HllKeyBudget(d)})]
  <2>1. Stages(d) = <<s>> /\ s.keys \in Nat \ {0}
    BY <1>4, <1>10, DistinctKeys
  <2>2. s.kind = "hllMap" /\ s.precision \in 4 .. 18
    BY <1>1
  <2> HIDE DEF s
  <2>3. Constructs(s)
    BY <2>1, <2>2 DEF Constructs
  <2> QED
    BY <2>1, <2>2, <2>3, BuildableOne
<1>11. CASE d.measure = "entropy"
  <2> DEFINE c == Clamp(a.capacity, 256, 2 ^ 16)
             t == [kind |-> "hll", precision |-> Precision(EntropyAccuracy)]
  <2>1. 256 \in Nat /\ 2 ^ 16 \in Nat /\ 256 <= 2 ^ 16
    BY <1>6
  <2>2. c \in Nat /\ c >= 256
    BY <1>2, <2>1, ClampBounds
  <2>3. c \in Nat \ {0}
    BY <1>6, <2>2
  <2> HIDE DEF c
  <2>4. SpaceSavingOf(c).kind = "spaceSaving" /\ Constructs(SpaceSavingOf(c))
    BY <2>3, SpaceSavingConstructs
  <2>5. t.kind = "hll" /\ Constructs(t)
    BY <1>3 DEF Constructs
  <2>6. Stages(d) = EntropyStages(d)
    BY <1>11 DEF Stages
  <2>7. Stages(d) = <<SpaceSavingOf(c), t>>
    BY <1>4, <2>6, Zenon DEF EntropyStages, c
  <2> HIDE DEF t
  <2> QED
    BY <2>4, <2>5, <2>7, BuildableTwo
<1>12. CASE d.measure = "quantile"
  <2> DEFINE c == Clamp(a.k, 8, 2 ^ 16)
             s == [kind |-> "kll", k |-> c]
  <2>1. 8 \in Nat /\ 2 ^ 16 \in Nat /\ 8 <= 2 ^ 16
    BY <1>6
  <2>2. c \in Nat /\ c >= 8
    BY <1>2, <2>1, ClampBounds
  <2> HIDE DEF c
  <2>3. s.kind = "kll" /\ Constructs(s)
    BY <1>6, <2>2 DEF Constructs
  <2>4. Stages(d) = QuantileStages(d)
    BY <1>12 DEF Stages
  <2>5. Stages(d) = <<s>>
    BY <1>4, <2>4, Zenon DEF QuantileStages, c
  <2> HIDE DEF s
  <2> QED
    BY <2>3, <2>5, BuildableOne
<1> QED
  BY <1>5, <1>7, <1>8, <1>9, <1>10, <1>11, <1>12

KeysOf(d) == LET s == Stages(d)[1] IN IF s.kind = "hllMap" THEN s.keys ELSE s.capacity

(* What one document is promised: the budget holds for a grouped distinct  *)
(* count without being checked, and every group that may be exported is    *)
(* tracked, up to the ceiling.                                             *)
LEMMA PlanHonest ==
  ASSUME NEW d \in Document, Valid(d), d.group # <<>>, Stages(d) # <<>>
  PROVE  /\ d.measure = "distinct" => MemoryOf(d) <= Budget(d)
         /\ KeysOf(d) >= Min({ExportBound(d), 65536})
<1>1. /\ KeyBytes(d) \in Nat /\ Budget(d) \in Nat /\ Resident(d) \in Nat \ {0}
      /\ d.error \in DOMAIN Accuracy /\ Precision(d.error) \in 4 .. 18
      /\ d.series \in Nat \ {0} /\ d.limit \in Nat
  BY DocumentFacts
<1> DEFINE a == Accuracy[d.error]
<1>2. a.capacity \in Nat
  BY <1>1, AccuracyFacts
<1>3. d.measure \in {"count", "sum", "heavy_hitters", "distinct", "entropy", "quantile"}
  BY DEF Valid, MeasureOk
<1>4. 2 ^ 20 = 1048576
  BY SMT
<1>5. CASE d.measure = "distinct"
  <2> DEFINE s == [kind |-> "hllMap", precision |-> Precision(d.error),
                   keys |-> Min({HllKeyPreference(d), HllKeyBudget(d)})]
             perKey == 2 ^ Precision(d.error) + 2 * KeyBytes(d) + 48 + 32
  <2>1. /\ Stages(d) = <<s>> /\ s.keys \in Nat \ {0} /\ s.keys <= HllKeyBudget(d)
        /\ HllKeyBudget(d) \in Nat \ {0}
    BY <1>5, DistinctKeys
  <2>2. s.kind = "hllMap" /\ s.precision = Precision(d.error)
    OBVIOUS
  <2>3. /\ perKey \in Nat \ {0}
        /\ (HllKeyBudget(d) * perKey + 64) * Resident(d) <= Budget(d)
    <3>1. HllKeyBudget(d) > 0
      BY <2>1
    <3> QED
      BY <3>1, HllKeys, Zenon
  <2> HIDE DEF s
  <2>4. StageBytes(s, KeyBytes(d)) = s.keys * perKey + 64
    BY <2>2 DEF StageBytes
  <2> DEFINE full == HllKeyBudget(d) * perKey + 64
             used == s.keys * perKey + 64
  <2> HIDE DEF perKey
  <2>5. used \in Nat /\ full \in Nat /\ used <= full
    BY <2>1, <2>3
  <2>6. StateBytes(Stages(d), KeyBytes(d)) = used
    <3>1. StageBytes(s, KeyBytes(d)) \in Nat
      BY <2>4, <2>5
    <3> QED
      BY <2>1, <2>4, <3>1, OneStage
  <2>7. MemoryOf(d) = used * Resident(d)
    BY <2>6, Zenon DEF MemoryOf
  <2> HIDE DEF full, used
  <2>8. used * Resident(d) <= full * Resident(d) /\ used * Resident(d) \in Nat
        /\ full * Resident(d) \in Nat
    BY <1>1, <2>5
  <2>9. full * Resident(d) <= Budget(d)
    BY <2>3 DEF full
  <2>10. MemoryOf(d) <= Budget(d)
    BY <1>1, <2>7, <2>8, <2>9
  <2>11. Stages(d)[1] = s
    BY <2>1
  <2>12. KeysOf(d) = s.keys
    BY <2>2, <2>11, Zenon DEF KeysOf
  <2>13. ExportBound(d) = Min({d.series, s.keys})
    <3>1. ExportBound(d) = Min({d.series, Stages(d)[1].keys})
      BY <1>5 DEF ExportBound
    <3> QED
      BY <2>11, <3>1
  <2>14. Min({d.series, s.keys}) = IF d.series <= s.keys THEN d.series ELSE s.keys
    BY <1>1, <2>1, MinTwo
  <2>15. ExportBound(d) \in Nat /\ ExportBound(d) <= s.keys
    BY <1>1, <2>1, <2>13, <2>14
  <2>16. Min({ExportBound(d), 65536}) = IF ExportBound(d) <= 65536 THEN ExportBound(d) ELSE 65536
    BY <2>15, MinTwo
  <2>17. s.keys >= Min({ExportBound(d), 65536})
    BY <2>1, <2>15, <2>16
  <2> QED
    BY <2>10, <2>12, <2>17
<1>6. CASE d.measure \in {"count", "sum"}
  <2> DEFINE x == d.series * 4
             c == Clamp(x, 256, 65536)
  <2>1. x \in Nat /\ 256 \in Nat /\ 65536 \in Nat /\ 256 <= 65536
    BY <1>1
  <2> HIDE DEF x
  <2>2. /\ c \in Nat /\ c >= 256
        /\ c >= x \/ c = 65536
    BY <2>1, ClampBounds
  <2> HIDE DEF c
  <2>3. c \in Nat \ {0}
    BY <2>2
  <2>4. SpaceSavingOf(c).kind = "spaceSaving" /\ SpaceSavingOf(c).capacity = c
    BY <2>3, SpaceSavingConstructs
  <2>5. Stages(d)[1] = SpaceSavingOf(c)
    BY <1>6 DEF Stages, c, x
  <2>6. KeysOf(d) = c
    BY <2>4, <2>5 DEF KeysOf
  <2>7. ExportBound(d) = d.series
    BY <1>6 DEF ExportBound
  <2>8. Min({d.series, 65536}) = IF d.series <= 65536 THEN d.series ELSE 65536
    BY <1>1, MinTwo
  <2>9. c >= Min({d.series, 65536})
    BY <1>1, <2>2, <2>8 DEF x
  <2> QED
    BY <1>6, <2>6, <2>7, <2>9
<1>7. CASE d.measure = "heavy_hitters"
  <2> DEFINE m == Max({a.capacity, d.limit * 4})
             c == Clamp(m, 256, 2 ^ 20)
             b == Min({d.limit, d.series})
  <2>1. d.limit * 4 \in Nat
    BY <1>1
  <2>2. m = IF a.capacity >= d.limit * 4 THEN a.capacity ELSE d.limit * 4
    BY <1>2, <2>1, MaxTwo
  <2>3. m \in Nat /\ 256 \in Nat /\ 2 ^ 20 \in Nat /\ 256 <= 2 ^ 20
    BY <1>2, <1>4, <2>1, <2>2
  <2> HIDE DEF m
  <2>4. /\ c \in Nat /\ c >= 256
        /\ c >= m \/ c = 2 ^ 20
    BY <2>3, ClampBounds
  <2> HIDE DEF c
  <2>5. c \in Nat \ {0}
    BY <2>4
  <2>6. SpaceSavingOf(c).kind = "spaceSaving" /\ SpaceSavingOf(c).capacity = c
    BY <2>5, SpaceSavingConstructs
  <2>7. Stages(d)[1] = SpaceSavingOf(c)
    BY <1>7 DEF Stages, c, m
  <2>8. KeysOf(d) = c
    BY <2>6, <2>7 DEF KeysOf
  <2>9. ExportBound(d) = b
    BY <1>7 DEF ExportBound
  <2>10. b = IF d.limit <= d.series THEN d.limit ELSE d.series
    BY <1>1, MinTwo
  <2> HIDE DEF b
  <2>11. b \in Nat /\ b <= d.limit
    BY <1>1, <2>10
  <2>12. Min({b, 65536}) = IF b <= 65536 THEN b ELSE 65536
    BY <2>11, MinTwo
  <2>13. m >= d.limit
    BY <1>1, <1>2, <2>2
  <2>14. c >= Min({b, 65536})
    BY <1>1, <1>4, <2>3, <2>4, <2>11, <2>12, <2>13
  <2> QED
    BY <1>7, <2>8, <2>9, <2>14
<1>8. CASE d.measure \in {"entropy", "quantile"}
  BY <1>8 DEF Stages, EntropyStages, QuantileStages
<1> QED
  BY <1>3, <1>5, <1>6, <1>7, <1>8

(* What the agent accepts, the runtime and the lanes can start with. *)
LEMMA AcceptedStarts ==
  ASSUME NEW c \in Configuration, Accepted(c)
  PROVE  RuntimeBuilds(c, Plans(c)) /\ LanesStart(c)
<1>1. /\ c.queries \in Seq(Document) /\ c.shards \in Nat /\ c.batch \in Nat
      /\ c.cpus.given \in BOOLEAN /\ c.cpus.capture \in Seq(Nat) /\ c.cpus.runtime \in Seq(Nat)
  <2>1. c.cpus \in [given : BOOLEAN, capture : Seq(Nat), runtime : Seq(Nat)]
    BY DEF Configuration
  <2> QED
    BY <2>1 DEF Configuration
<1>2. c.shards > 0 /\ c.batch > 0 /\ CpuAffinityOk(c)
  BY DEF Accepted, ConfigOk
<1>3. /\ \A i \in DOMAIN c.queries : Valid(c.queries[i]) /\ Plannable(c.queries[i])
      /\ IsInjective([i \in DOMAIN c.queries |-> c.queries[i].name])
  BY DEF Accepted, Loads
<1> DEFINE p == Plans(c)
<1>4. DOMAIN p = DOMAIN c.queries
  BY DEF Plans
<1>5. \A i \in DOMAIN c.queries : p[i].name = c.queries[i].name
                                  /\ p[i].stages = Stages(c.queries[i])
  BY DEF Plans, Plan
<1> HIDE DEF p
<1>6. [i \in DOMAIN p |-> p[i].name] = [i \in DOMAIN c.queries |-> c.queries[i].name]
  BY <1>4, <1>5
<1>7. ASSUME NEW i \in DOMAIN p
      PROVE  Buildable(p[i].stages)
  <2>1. c.queries[i] \in Document
    BY <1>1, <1>4
  <2> QED
    BY <1>3, <1>4, <1>5, <2>1, PlannedStagesBuild
<1>8. EnginesBuild(c, p)
  <2> QED
    BY <1>2, <1>3, <1>6, <1>7, Zenon DEF EnginesBuild
<1>9. RuntimeBuilds(c, p)
  <2>1. c.cpus.given => /\ Len(c.cpus.runtime) = c.shards /\ IsInjective(c.cpus.runtime)
                        /\ Range(c.cpus.runtime) \subseteq 0 .. MaxLinuxCpuId
    BY <1>2, Zenon DEF CpuAffinityOk
  <2>2. MaxLinuxCpuId = CpuSetSize - 1
    BY DEF MaxLinuxCpuId, CpuSetSize
  <2> QED
    BY <1>8, <2>1, <2>2, Zenon DEF RuntimeBuilds
<1>10. LanesStart(c)
  <2>1. Senders(c) = CaptureLanes(c)
    BY Zenon DEF Senders, CaptureLanes
  <2>2. ASSUME c.cpus.given, NEW l \in 1 .. CaptureLanes(c)
        PROVE  l \in DOMAIN c.cpus.capture /\ c.cpus.capture[l] < CpuSetSize
    <3>1. Len(c.cpus.capture) = CaptureLanes(c) /\ Range(c.cpus.capture) \subseteq 0 .. MaxLinuxCpuId
      BY <1>2, <2>2, Zenon DEF CpuAffinityOk
    <3>2. DOMAIN c.cpus.capture = 1 .. Len(c.cpus.capture)
      BY <1>1, LenProperties
    <3>3. l \in DOMAIN c.cpus.capture
      BY <3>1, <3>2
    <3>4. c.cpus.capture[l] \in 0 .. MaxLinuxCpuId
      BY <3>1, <3>3 DEF Range
    <3>5. MaxLinuxCpuId \in Nat /\ MaxLinuxCpuId < CpuSetSize /\ CpuSetSize \in Nat
      BY DEF MaxLinuxCpuId, CpuSetSize
    <3>6. c.cpus.capture[l] < CpuSetSize
      BY <3>4, <3>5
    <3> QED
      BY <3>3, <3>6
  <2> QED
    BY <2>1, <2>2, Zenon DEF LanesStart
<1> QED
  BY <1>9, <1>10 DEF p

(***************************************************************************)
(* Start-up.                                                               *)
(***************************************************************************)

(* The plans of an agent that builds its runtime are those of an accepted  *)
(* configuration.                                                          *)
BootInv ==
  /\ at \in {"loading", "building"} => config \in Config
  /\ at = "building" => Accepted(config) /\ plans = Plans(config)

(* Every step but LoadPlans leaves the configuration alone or the start-up *)
(* behind.                                                                 *)
LEMMA BootStep ==
  ASSUME [Next]_agentVars
  PROVE  \/ LoadPlans
         \/ UNCHANGED <<at, config, plans>>
         \/ at' \notin {"loading", "building"}
<1> USE DEF boot, mainVars
<1>1. CASE UNCHANGED agentVars
  BY <1>1 DEF agentVars
<1>2. CASE LoadPlans
  BY <1>2
<1>3. CASE \/ LoadPlansFails \/ BuildRuntime \/ BuildRuntimeFails \/ Bind \/ BindFails
           \/ SpawnCapture \/ SpawnCaptureFails
  BY <1>3 DEF LoadPlansFails, BuildRuntime, BuildRuntimeFails, Bind, BindFails, SpawnCapture,
              SpawnCaptureFails
<1>4. CASE \/ Run \/ RunFails \/ FinishRuntime \/ ExportSnapshotsNow \/ FinishQueueLocal
           \/ JoinCapture \/ Serve \/ StopServices \/ JoinHttp \/ JoinExporters \/ Signal
  BY <1>4 DEF Run, RunFails, FinishRuntime, ExportSnapshotsNow, FinishQueueLocal, JoinCapture,
              Serve, StopServices, JoinHttp, JoinExporters, Signal
<1>5. ASSUME NEW e \in Exporter, Exports(e) \/ SpawnExporterFails(e)
      PROVE  \/ UNCHANGED <<at, config, plans>>
             \/ at' \notin {"loading", "building"}
  BY <1>5 DEF Exports, SpawnExporterFails
<1>6. CASE \/ Gate \/ AcceptLoop \/ Clients \/ QuickClient \/ CaptureThread \/ Kernel \/ Faults
           \/ \E l \in Lanes : LaneThread(l)
  BY <1>6 DEF Gate, AcceptLoop, Clients, QuickClient, CaptureThread, Kernel, Faults, LaneThread
<1> QED
  BY <1>1, <1>2, <1>3, <1>4, <1>5, <1>6, Zenon DEF Next, MainThread

(* The invariant. *)
LEMMA BootInvariant == Spec => []BootInv
<1>1. Init => BootInv
  BY DEF Init, BootInv
<1>2. BootInv /\ [Next]_agentVars => BootInv'
  <2> SUFFICES ASSUME BootInv, [Next]_agentVars PROVE BootInv'
    OBVIOUS
  <2>1. CASE LoadPlans
    BY <2>1 DEF LoadPlans, BootInv
  <2>2. CASE UNCHANGED <<at, config, plans>>
    BY <2>2, Zenon DEF BootInv
  <2>3. CASE at' \notin {"loading", "building"}
    BY <2>3, Zenon DEF BootInv
  <2> QED
    BY <2>1, <2>2, <2>3, BootStep
<1> QED
  BY <1>1, <1>2, PTL DEF Spec

(* "Failing closed on any error": no configuration that from_yaml and      *)
(* load_plans let through is refused later, by the runtime's engines, the  *)
(* constructors of their sketches, the worker pool or the capture lanes.   *)
THEOREM AgentAdmissionSuffices == Spec => []AdmittedStarts
<1>1. BootInv => AdmittedStarts
  <2> SUFFICES ASSUME BootInv, at = "building"
               PROVE  RuntimeBuilds(config, plans) /\ LanesStart(config)
    BY DEF AdmittedStarts
  <2>1. config \in Configuration /\ Accepted(config) /\ plans = Plans(config)
    BY AgentAssumption DEF BootInv
  <2> QED
    BY <2>1, AcceptedStarts
<1> QED
  BY <1>1, BootInvariant, PTL

(* The planner's sizing of an HllMap and the IR's charge for it agree for  *)
(* every document, and a grouped plan tracks what it may export.           *)
THEOREM AgentPlansHonest == Spec => []PlansHonest
<1>1. BootInv => PlansHonest
  <2> SUFFICES ASSUME BootInv, at = "loading", NEW i \in DOMAIN config.queries,
                      Valid(config.queries[i]), config.queries[i].group # <<>>,
                      Stages(config.queries[i]) # <<>>
               PROVE  /\ config.queries[i].measure = "distinct"
                           => MemoryOf(config.queries[i]) <= Budget(config.queries[i])
                      /\ KeysOf(config.queries[i]) >= Min({ExportBound(config.queries[i]), 65536})
    BY DEF PlansHonest, KeysOf
  <2>1. config \in Configuration
    BY AgentAssumption DEF BootInv
  <2>2. config.queries \in Seq(Document)
    BY <2>1 DEF Configuration
  <2>3. config.queries[i] \in Document
    BY <2>2
  <2> QED
    BY <2>3, PlanHonest
<1> QED
  BY <1>1, BootInvariant, PTL

(***************************************************************************)
(* The HTTP server.                                                        *)
(***************************************************************************)

(* A slot is taken exactly while a connection thread lives. *)
HttpInv ==
  /\ conns \in [Client -> Nat]
  /\ active = conns["quick"] + conns["slow"]

(* The steps that touch slots and threads; the others do not time out. *)
LEMMA HttpStep ==
  ASSUME [Next]_agentVars
  PROVE  \/ UNCHANGED <<active, conns>> /\ (http' = http \/ http' # "timedout")
         \/ \E c \in Client : Accept(c) \/ EndConnection(c)
         \/ DrainTimeout
<1> USE DEF httpVars
<1>1. CASE UNCHANGED agentVars
  BY <1>1 DEF agentVars
<1>2. CASE \/ LoadPlans \/ LoadPlansFails \/ BuildRuntime \/ BuildRuntimeFails \/ Bind
           \/ BindFails \/ SpawnCapture \/ SpawnCaptureFails
  BY <1>2 DEF LoadPlans, LoadPlansFails, BuildRuntime, BuildRuntimeFails, Bind, BindFails,
              SpawnCapture, SpawnCaptureFails, Listen
<1>3. CASE \/ Run \/ RunFails \/ FinishRuntime \/ ExportSnapshotsNow \/ FinishQueueLocal
           \/ JoinCapture \/ Serve \/ StopServices \/ JoinHttp \/ JoinExporters \/ Signal
  BY <1>3 DEF Run, RunFails, FinishRuntime, ExportSnapshotsNow, FinishQueueLocal, JoinCapture,
              Serve, StopServices, JoinHttp, JoinExporters, Signal
<1>4. ASSUME NEW e \in Exporter, Exports(e) \/ SpawnExporterFails(e)
      PROVE  UNCHANGED <<active, conns>> /\ (http' = http \/ http' # "timedout")
  BY <1>4 DEF Exports, SpawnExporterFails, Listen
<1>5. CASE AcceptLoop \/ Clients \/ QuickClient
  BY <1>5 DEF AcceptLoop, Clients, QuickClient, StopAccepting, Drained, TurnAway, AcceptFails,
              Client
<1>6. CASE \/ Gate \/ CaptureThread \/ Kernel \/ Faults
           \/ \E l \in Lanes : LaneThread(l)
  BY <1>6 DEF Gate, CaptureThread, Kernel, Faults, LaneThread
<1> QED
  BY <1>1, <1>2, <1>3, <1>4, <1>5, <1>6, Zenon DEF Next, MainThread

(* The invariant. *)
LEMMA HttpInvariant == Spec => []HttpInv
<1>1. Init => HttpInv
  BY DEF Init, HttpInit, HttpInv, Client
<1>2. HttpInv /\ [Next]_agentVars => HttpInv'
  <2> SUFFICES ASSUME HttpInv, [Next]_agentVars PROVE HttpInv'
    OBVIOUS
  <2>0. /\ "quick" \in Client /\ "slow" \in Client /\ \A c \in Client : c = "quick" \/ c = "slow"
    BY DEF Client
  <2>1. CASE UNCHANGED <<active, conns>>
    BY <2>1, Zenon DEF HttpInv
  <2>2. ASSUME NEW c \in Client, Accept(c) PROVE HttpInv'
    BY <2>0, <2>2 DEF Accept, HttpInv
  <2>3. ASSUME NEW c \in Client, EndConnection(c) PROVE HttpInv'
    BY <2>0, <2>3 DEF EndConnection, HttpInv
  <2>4. CASE DrainTimeout
    BY <2>4, Zenon DEF DrainTimeout, HttpInv
  <2> QED
    BY <2>1, <2>2, <2>3, <2>4, HttpStep, Zenon
<1> QED
  BY <1>1, <1>2, PTL DEF Spec

(* The drain gives up only over a client that really is slow. *)
THEOREM AgentDrainWaitsForClients == Spec => DrainWaitsForClients
<1>1. HttpInv /\ [Next]_agentVars =>
        [http' = "timedout" /\ http # "timedout" => conns["slow"] > 0]_agentVars
  <2> SUFFICES ASSUME HttpInv, [Next]_agentVars, http' = "timedout", http # "timedout"
               PROVE  conns["slow"] > 0
    OBVIOUS
  <2>1. DrainTimeout
    BY HttpStep DEF Accept, EndConnection
  <2>2. active # 0 /\ conns["quick"] = 0
    BY <2>1 DEF DrainTimeout
  <2>3. conns["slow"] \in Nat /\ active = conns["quick"] + conns["slow"]
    BY DEF HttpInv, Client
  <2> QED
    BY <2>2, <2>3
<1> QED
  BY <1>1, HttpInvariant, PTL DEF Spec, DrainWaitsForClients

(***************************************************************************)
(* The ring of a lane.                                                     *)
(***************************************************************************)

(* n consecutive packets after packet s. *)
Span(s, n) == [i \in 1 .. n |-> s + i]

(* A span is a sequence of numbers. *)
LEMMA SpanIsSeq ==
  ASSUME NEW s \in Nat, NEW n \in Nat
  PROVE  /\ Span(s, n) \in Seq(Nat) /\ Len(Span(s, n)) = n
         /\ \A i \in 1 .. n : Span(s, n)[i] = s + i
  BY DEF Span

(* The empty one. *)
LEMMA SpanEmpty ==
  ASSUME NEW s \in Nat
  PROVE  Span(s, 0) = <<>>
  BY DEF Span

(* A span after a span. *)
LEMMA SpanConcat ==
  ASSUME NEW s \in Nat, NEW n \in Nat, NEW m \in Nat
  PROVE  Span(s, n) \o Span(s + n, m) = Span(s, n + m)
<1> DEFINE a == Span(s, n)  b == Span(s + n, m)  c == Span(s, n + m)
<1>1. a \in Seq(Nat) /\ Len(a) = n /\ \A i \in 1 .. n : a[i] = s + i
  BY SpanIsSeq
<1>2. b \in Seq(Nat) /\ Len(b) = m /\ \A i \in 1 .. m : b[i] = s + n + i
  <2>1. s + n \in Nat
    OBVIOUS
  <2> QED
    BY <2>1, SpanIsSeq
<1>3. c \in Seq(Nat) /\ Len(c) = n + m /\ \A i \in 1 .. n + m : c[i] = s + i
  <2>1. n + m \in Nat
    OBVIOUS
  <2> QED
    BY <2>1, SpanIsSeq
<1> HIDE DEF a, b, c
<1>4. /\ a \o b \in Seq(Nat) /\ Len(a \o b) = n + m
      /\ \A i \in 1 .. n + m : (a \o b)[i] = IF i <= n THEN a[i] ELSE b[i - n]
  BY <1>1, <1>2, ConcatProperties
<1>5. ASSUME NEW i \in 1 .. n + m PROVE (a \o b)[i] = c[i]
  <2>1. CASE i <= n
    <3>1. i \in 1 .. n
      BY <2>1
    <3> QED
      BY <1>1, <1>3, <1>4, <2>1, <3>1
  <2>2. CASE ~(i <= n)
    <3>1. i - n \in 1 .. m /\ s + n + (i - n) = s + i
      BY <2>2
    <3>2. (a \o b)[i] = b[i - n]
      BY <1>4, <2>2
    <3> QED
      BY <1>2, <1>3, <3>1, <3>2
  <2> QED
    BY <2>1, <2>2
<1>6. a \o b = c
  BY <1>3, <1>4, <1>5, SeqEqual
<1> QED
  BY <1>6 DEF a, b, c

(* The end of a span. *)
LEMMA SpanTail ==
  ASSUME NEW s \in Nat, NEW n \in Nat, NEW a \in 0 .. n
  PROVE  SubSeq(Span(s, n), a + 1, n) = Span(s + a, n - a)
<1> DEFINE f == Span(s, n)  g == SubSeq(f, a + 1, n)  h == Span(s + a, n - a)
<1>1. f \in Seq(Nat) /\ Len(f) = n /\ \A i \in 1 .. n : f[i] = s + i
  BY SpanIsSeq
<1>2. h \in Seq(Nat) /\ Len(h) = n - a /\ \A i \in 1 .. n - a : h[i] = s + a + i
  <2>1. s + a \in Nat /\ n - a \in Nat
    OBVIOUS
  <2> QED
    BY <2>1, SpanIsSeq
<1> HIDE DEF f, h
<1>3. /\ g \in Seq(Nat) /\ Len(g) = n - a
      /\ \A i \in 1 .. n - a : g[i] = f[a + i]
  <2>1. /\ a + 1 \in 1 .. Len(f) + 1 /\ n \in a + 1 - 1 .. Len(f)
        /\ a + 1 \in Int /\ n \in Int
    BY <1>1
  <2>2. g \in Seq(Nat) /\ Len(g) = IF a + 1 <= n THEN n - (a + 1) + 1 ELSE 0
    BY <1>1, <2>1, SubSeqProperties
  <2>3. \A i \in 1 .. n - (a + 1) + 1 : g[i] = f[a + 1 + i - 1]
    BY <1>1, <2>1, SubSeqProperties, SMTT(40)
  <2>4. \A i \in 1 .. n - a : i \in 1 .. n - (a + 1) + 1 /\ a + 1 + i - 1 = a + i
    OBVIOUS
  <2>5. Len(g) = n - a
    BY <2>2
  <2> HIDE DEF g
  <2> QED
    BY <2>2, <2>3, <2>4, <2>5
<1> HIDE DEF g
<1>4. \A i \in 1 .. n - a : g[i] = h[i]
  BY <1>1, <1>2, <1>3
<1>5. g = h
  BY <1>2, <1>3, <1>4, SeqEqual
<1> QED
  BY <1>5 DEF f, g, h

(* One more packet. *)
LEMMA SpanAppend ==
  ASSUME NEW s \in Nat, NEW n \in Nat
  PROVE  Append(Span(s, n), s + n + 1) = Span(s, n + 1)
<1> DEFINE a == Span(s, n)  c == Span(s, n + 1)  b == Append(a, s + n + 1)
<1>1. a \in Seq(Nat) /\ Len(a) = n /\ \A i \in 1 .. n : a[i] = s + i
  BY SpanIsSeq
<1>2. c \in Seq(Nat) /\ Len(c) = n + 1 /\ \A i \in 1 .. n + 1 : c[i] = s + i
  BY SpanIsSeq
<1> HIDE DEF a, c
<1>3. /\ b \in Seq(Nat) /\ Len(b) = n + 1
      /\ \A i \in 1 .. n : b[i] = a[i]
      /\ b[n + 1] = s + n + 1
  BY <1>1, AppendProperties
<1> HIDE DEF b
<1>4. \A i \in 1 .. n + 1 : b[i] = c[i]
  <2>1. \A i \in 1 .. n + 1 : i \in 1 .. n \/ i = n + 1
    OBVIOUS
  <2> QED
    BY <1>1, <1>2, <1>3, <2>1
<1>5. b = c
  BY <1>2, <1>3, <1>4, SeqEqual
<1> QED
  BY <1>5 DEF a, b, c

(* The block j places after block c of the ring. *)
Slot(c, j) == IF c + j < BlockCount THEN c + j ELSE c + j - BlockCount

(* The remainders of the code are these places. *)
LEMMA SlotIsMod ==
  ASSUME NEW c \in Block, NEW j \in 0 .. BlockCount
  PROVE  /\ (c + j) % BlockCount = Slot(c, j) /\ Slot(c, j) \in Block
         /\ Slot(c, 0) = c /\ Slot(c, BlockCount) = c
<1> BlockCount \in Nat \ {0}
  BY CaptureAssumption
<1>1. c \in Nat /\ c < BlockCount /\ j \in Nat /\ j <= BlockCount
  BY DEF Block
<1>2. \A a, b \in Nat : b # 0 /\ a < b => a % b = a
  OBVIOUS
<1>3. \A a, b \in Nat : b # 0 /\ a < b => (a + b) % b = a
  OBVIOUS
<1>4. Slot(c, j) \in Nat /\ Slot(c, j) < BlockCount
  BY <1>1 DEF Slot
<1>5. (c + j) % BlockCount = Slot(c, j)
  <2>1. CASE c + j < BlockCount
    BY <1>1, <1>2, <2>1 DEF Slot
  <2>2. CASE ~(c + j < BlockCount)
    <3> DEFINE a == c + j - BlockCount
    <3>1. a \in Nat /\ a < BlockCount /\ a + BlockCount = c + j
      BY <1>1, <2>2
    <3> HIDE DEF a
    <3>2. (a + BlockCount) % BlockCount = a
      BY <1>3, <3>1
    <3> QED
      BY <2>2, <3>1, <3>2 DEF Slot, a
  <2> QED
    BY <2>1, <2>2
<1> QED
  BY <1>1, <1>4, <1>5 DEF Slot, Block

(* Different places are different blocks, and moving on moves them all. *)
LEMMA SlotFacts ==
  ASSUME NEW c \in Block
  PROVE  /\ \A i, j \in 0 .. BlockCount - 1 : Slot(c, i) = Slot(c, j) => i = j
         /\ \A j \in 0 .. BlockCount - 1 : Slot(Slot(c, j), 1) = Slot(c, j + 1)
         /\ \A j \in 0 .. BlockCount - 2 : Slot(Slot(c, 1), j) = Slot(c, j + 1)
         /\ Slot(Slot(c, 1), BlockCount - 1) = c
<1> BlockCount \in Nat \ {0}
  BY CaptureAssumption
<1> QED
  BY DEF Slot, Block

(* Blocks from the cursor on that hold consecutive packets are what is     *)
(* still to be visited: bounds[j] packets come before block j.             *)
Bounds(r, bounds) ==
  \A j \in 0 .. BlockCount - 1 :
    /\ bounds[j] <= bounds[j + 1]
    /\ r.data[Slot(r.current, j)] = Span(bounds[j], bounds[j + 1] - bounds[j])

(* Lengths of adjacent spans. *)
LEMMA Differences ==
  ASSUME NEW x \in Nat, NEW y \in Nat, NEW z \in Nat, x <= y, y <= z
  PROVE  y - x \in Nat /\ z - y \in Nat /\ x + (y - x) = y /\ (y - x) + (z - y) = z - x
  OBVIOUS

(* What the lane has yet to visit, as one span. *)
LEMMA UnvisitedIs ==
  ASSUME NEW l, NEW bounds \in [0 .. BlockCount -> Nat],
         ring[l].data \in [Block -> Seq(Nat)], ring[l].current \in Block, ring[l].at \in Nat,
         Bounds(ring[l], bounds), bounds[0] + ring[l].at <= bounds[BlockCount]
  PROVE  Unvisited(l) = Span(bounds[0] + ring[l].at,
                             bounds[BlockCount] - (bounds[0] + ring[l].at))
<1> BlockCount \in Nat \ {0}
  BY CaptureAssumption
<1> DEFINE r == ring[l]
           N == BlockCount
           Eq(f) == f = [i \in 0 .. BlockCount |->
                           IF i = 0 THEN <<>>
                           ELSE f[i - 1] \o r.data[(r.current + i - 1) % BlockCount]]
           F == CHOOSE f : Eq(f)
<1>1. Unvisited(l) = SubSeq(F[BlockCount], r.at + 1, Len(F[BlockCount]))
  BY Zenon DEF Unvisited
<1> DEFINE st == [x \in Seq(Nat) \X (1 .. N) |-> x[1] \o r.data[(r.current + x[2] - 1) % N]]
<1>2. \A i \in 1 .. N : (r.current + i - 1) % N = Slot(r.current, i - 1)
                        /\ Slot(r.current, i - 1) \in Block
  <2> SUFFICES ASSUME NEW i \in 1 .. N
               PROVE  (r.current + i - 1) % N = Slot(r.current, i - 1)
                      /\ Slot(r.current, i - 1) \in Block
    OBVIOUS
  <2>1. i - 1 \in 0 .. BlockCount /\ r.current + (i - 1) = r.current + i - 1
    BY DEF Block
  <2>2. (r.current + (i - 1)) % N = Slot(r.current, i - 1) /\ Slot(r.current, i - 1) \in Block
    BY <2>1, SlotIsMod
  <2> QED
    BY <2>1, <2>2
<1>3. /\ st \in [Seq(Nat) \X (1 .. N) -> Seq(Nat)]
      /\ \A v \in Seq(Nat), i \in 1 .. N :
           st[<<v, i>>] = v \o r.data[(r.current + i - 1) % N]
  <2>1. \A v \in Seq(Nat), i \in 1 .. N :
           v \o r.data[(r.current + i - 1) % N] \in Seq(Nat)
    BY <1>2, ConcatProperties
  <2> QED
    BY <2>1
<1>4. \E f : Eq(f)
  <2> HIDE DEF st
  <2>1. PICK f \in [0 .. N -> Seq(Nat)] :
          \A i \in 0 .. N : f[i] = IF i = 0 THEN <<>> ELSE st[<<f[i - 1], i>>]
    <3>1. <<>> \in Seq(Nat) /\ N \in Nat
      OBVIOUS
    <3>2. st \in [Seq(Nat) \X (1 .. N) -> Seq(Nat)]
      BY <1>3
    <3>3. PICK f \in [0 .. N -> Seq(Nat)] : IsRecursion(f, N, <<>>, st)
      BY <3>1, <3>2, RecursionExists
    <3> QED
      BY <3>3 DEF IsRecursion
  <2>2. \A i \in 0 .. N :
          f[i] = IF i = 0 THEN <<>> ELSE f[i - 1] \o r.data[(r.current + i - 1) % N]
    <3>1. \A i \in 0 .. N : i # 0 => i \in 1 .. N /\ f[i - 1] \in Seq(Nat)
      OBVIOUS
    <3> QED
      BY <1>3, <2>1, <3>1
  <2>3. Eq(f)
    BY <2>1, <2>2
  <2> HIDE DEF Eq
  <2> QED
    BY <2>3
<1>5. Eq(F)
  <2> HIDE DEF Eq
  <2> QED
    BY <1>4
<1>6. F[0] = <<>> /\ \A i \in 1 .. N : F[i] = F[i - 1] \o r.data[Slot(r.current, i - 1)]
  <2> HIDE DEF F
  <2>1. \A i \in 0 .. N :
          F[i] = IF i = 0 THEN <<>> ELSE F[i - 1] \o r.data[(r.current + i - 1) % N]
    BY <1>5
  <2>2. 0 \in 0 .. N /\ \A i \in 1 .. N : i \in 0 .. N /\ i # 0
    OBVIOUS
  <2> QED
    BY <1>2, <2>1, <2>2
<1> HIDE DEF F, Eq, st
<1> DEFINE P == {i \in 0 .. N : /\ bounds[0] <= bounds[i]
                                /\ F[i] = Span(bounds[0], bounds[i] - bounds[0])}
<1>7. 0 \in P
  <2>1. 0 \in 0 .. N /\ bounds[0] \in Nat
    OBVIOUS
  <2>2. Span(bounds[0], 0) = <<>> /\ bounds[0] - bounds[0] = 0
    BY <2>1, SpanEmpty
  <2> QED
    BY <1>6, <2>1, <2>2
<1>8. ASSUME NEW i \in 1 .. N, i - 1 \in P PROVE i \in P
  <2>1. /\ i - 1 \in 0 .. N - 1 /\ i \in 0 .. N /\ i - 1 + 1 = i
        /\ bounds[i] \in Nat /\ bounds[i - 1] \in Nat /\ bounds[0] \in Nat
    OBVIOUS
  <2>2. /\ bounds[i - 1] <= bounds[i]
        /\ r.data[Slot(r.current, i - 1)] = Span(bounds[i - 1], bounds[i] - bounds[i - 1])
    BY <2>1 DEF Bounds
  <2>3. bounds[0] <= bounds[i - 1] /\ F[i - 1] = Span(bounds[0], bounds[i - 1] - bounds[0])
    BY <1>8
  <2> DEFINE n == bounds[i - 1] - bounds[0]
             m == bounds[i] - bounds[i - 1]
  <2>4. n \in Nat /\ m \in Nat /\ bounds[0] + n = bounds[i - 1] /\ n + m = bounds[i] - bounds[0]
    <3> DEFINE x == bounds[0]  y == bounds[i - 1]  z == bounds[i]
    <3>1. x \in Nat /\ y \in Nat /\ z \in Nat /\ x <= y /\ y <= z
      BY <2>1, <2>2, <2>3, Zenon
    <3> HIDE DEF x, y, z
    <3>2. y - x \in Nat /\ z - y \in Nat /\ x + (y - x) = y /\ (y - x) + (z - y) = z - x
      BY <3>1, Differences
    <3> QED
      BY <3>2, Zenon DEF x, y, z
  <2>5. F[i] = Span(bounds[0], n) \o Span(bounds[0] + n, m)
    BY <1>6, <2>2, <2>3, <2>4
  <2> HIDE DEF n, m
  <2>6. Span(bounds[0], n) \o Span(bounds[0] + n, m) = Span(bounds[0], n + m)
    <3> DEFINE x == bounds[0]
    <3>1. x \in Nat
      BY <2>1
    <3> HIDE DEF x
    <3>2. Span(x, n) \o Span(x + n, m) = Span(x, n + m)
      BY <2>4, <3>1, SpanConcat, Zenon
    <3> QED
      BY <3>2 DEF x
  <2>7. bounds[0] <= bounds[i]
    BY <2>1, <2>2, <2>3
  <2> QED
    BY <2>1, <2>4, <2>5, <2>6, <2>7
<1> HIDE DEF P
<1>9. N \in P
  <2>1. N \in 0 .. N
    OBVIOUS
  <2>2. \A i \in 0 .. N : i \in P
    BY <1>7, <1>8, UpTo
  <2> QED
    BY <2>1, <2>2
<1> DEFINE b == bounds[0]  n == bounds[N] - bounds[0]
<1>10. F[N] = Span(b, n) /\ b \in Nat /\ n \in Nat /\ r.at \in 0 .. n
       /\ n - r.at = bounds[BlockCount] - (bounds[0] + ring[l].at)
  BY <1>9 DEF P
<1> HIDE DEF b, n
<1>11. Len(Span(b, n)) = n /\ SubSeq(Span(b, n), r.at + 1, n) = Span(b + r.at, n - r.at)
  BY <1>10, SpanIsSeq, SpanTail
<1> QED
  BY <1>1, <1>10, <1>11 DEF b

RingType ==
  [user : [Block -> BOOLEAN], data : [Block -> Seq(Nat)], fill : Block, current : Block,
   at : Nat]

(* The k blocks from the cursor on are the lane's, with consecutive packets*)
(* of which `seen' are visited and s are stored; bounds[j] packets come    *)
(* before block j.                                                         *)
HandedOver(r, s, seen, k, bounds) ==
  /\ Bounds(r, bounds)
  /\ bounds[0] + r.at = seen
  /\ \A j \in 0 .. BlockCount : bounds[j] <= s
  /\ \A j \in k .. BlockCount : bounds[j] = s
  /\ \A j \in 0 .. BlockCount - 1 : j < k => bounds[j] < bounds[j + 1]
  /\ \A j \in 0 .. BlockCount - 1 : r.user[Slot(r.current, j)] <=> j < k
  /\ k > 0 => seen < bounds[1]
  /\ k = 0 => r.at = 0
  /\ r.fill = Slot(r.current, k)

(* A lane that has visited v of s stored packets. *)
GoodRing(r, s, v) ==
  /\ r \in RingType /\ s \in Nat /\ v \in Seq(Nat)
  /\ v = Span(0, Len(v))
  /\ \E k \in 0 .. BlockCount, bounds \in [0 .. BlockCount -> Nat] :
       HandedOver(r, s, Len(v), k, bounds)

(* A new socket has such a ring. *)
LEMMA GoodEmpty == GoodRing(EmptyRing, 0, <<>>)
<1> BlockCount \in Nat \ {0}
  BY CaptureAssumption
<1> DEFINE b == [j \in 0 .. BlockCount |-> 0]
<1>1. EmptyRing \in RingType
  BY DEF EmptyRing, RingType, Block
<1>2. <<>> = Span(0, 0) /\ Len(<<>>) = 0 /\ <<>> \in Seq(Nat)
  BY SpanEmpty
<1>3. b \in [0 .. BlockCount -> Nat] /\ \A j \in 0 .. BlockCount : b[j] = 0
  OBVIOUS
<1> HIDE DEF b
<1>4. /\ \A c \in Block : EmptyRing.user[c] = FALSE /\ EmptyRing.data[c] = <<>>
      /\ EmptyRing.fill = 0 /\ EmptyRing.current = 0 /\ EmptyRing.at = 0
  BY DEF EmptyRing
<1>5. /\ 0 \in Block /\ Slot(0, 0) = 0 /\ \A j \in 0 .. BlockCount - 1 : Slot(0, j) \in Block
  BY DEF Block, Slot
<1>6. Bounds(EmptyRing, b)
  <2> SUFFICES ASSUME NEW j \in 0 .. BlockCount - 1
               PROVE  /\ b[j] <= b[j + 1]
                      /\ EmptyRing.data[Slot(EmptyRing.current, j)] = Span(b[j], b[j + 1] - b[j])
    BY DEF Bounds
  <2>1. b[j] = 0 /\ b[j + 1] = 0
    BY <1>3
  <2>2. EmptyRing.data[Slot(EmptyRing.current, j)] = <<>>
    BY <1>4, <1>5
  <2> QED
    BY <1>2, <2>1, <2>2
<1>7. HandedOver(EmptyRing, 0, 0, 0, b)
  <2>1. \A j \in 0 .. BlockCount - 1 : ~EmptyRing.user[Slot(EmptyRing.current, j)]
    BY <1>4, <1>5
  <2>2. /\ b[0] + EmptyRing.at = 0 /\ \A j \in 0 .. BlockCount : b[j] <= 0 /\ b[j] = 0
    BY <1>3, <1>4
  <2>3. EmptyRing.fill = Slot(EmptyRing.current, 0) /\ EmptyRing.at = 0
    BY <1>4, <1>5
  <2>4. \A j \in 0 .. BlockCount - 1 : ~(j < 0)
    OBVIOUS
  <2> QED
    BY <1>6, <2>1, <2>2, <2>3, <2>4 DEF HandedOver
<1>8. 0 \in 0 .. BlockCount /\ 0 \in Nat
  OBVIOUS
<1> QED
  BY <1>1, <1>2, <1>3, <1>7, <1>8 DEF GoodRing

(* The kernel retires a block. *)
LEMMA GoodRetire ==
  ASSUME NEW r, NEW s, NEW v, GoodRing(r, s, v), ~r.user[r.fill],
         NEW n \in Nat \ {0}, NEW t \in RingType,
         t.user = [r.user EXCEPT ![r.fill] = TRUE],
         t.data = [r.data EXCEPT ![r.fill] = Span(s, n)],
         t.fill = (r.fill + 1) % BlockCount,
         t.current = r.current, t.at = r.at
  PROVE  GoodRing(t, s + n, v)
<1> BlockCount \in Nat \ {0}
  BY CaptureAssumption
<1>1. /\ r \in RingType /\ s \in Nat /\ v \in Seq(Nat) /\ Len(v) \in Nat
      /\ v = Span(0, Len(v))
  BY LenProperties DEF GoodRing
<1>2. /\ r.user \in [Block -> BOOLEAN] /\ r.data \in [Block -> Seq(Nat)]
      /\ r.fill \in Block /\ r.current \in Block /\ r.at \in Nat
  BY <1>1 DEF RingType
<1>3. PICK k \in 0 .. BlockCount, b \in [0 .. BlockCount -> Nat] :
        HandedOver(r, s, Len(v), k, b)
  BY DEF GoodRing
<1> DEFINE seen == Len(v)
           S(j) == Slot(r.current, j)
<1>4. /\ b[0] + r.at = seen
      /\ \A j \in 0 .. BlockCount : b[j] <= s
      /\ \A j \in k .. BlockCount : b[j] = s
      /\ \A j \in 0 .. BlockCount - 1 : j < k => b[j] < b[j + 1]
      /\ \A j \in 0 .. BlockCount - 1 : r.user[S(j)] <=> j < k
      /\ k > 0 => seen < b[1]
      /\ k = 0 => r.at = 0
      /\ r.fill = S(k)
  BY <1>3 DEF HandedOver
<1>5. \A j \in 0 .. BlockCount - 1 :
        b[j] <= b[j + 1] /\ r.data[S(j)] = Span(b[j], b[j + 1] - b[j])
  BY <1>3 DEF HandedOver, Bounds
<1>6. k \in 0 .. BlockCount - 1
  <2> SUFFICES ASSUME k = BlockCount PROVE FALSE
    OBVIOUS
  <2>1. r.fill = S(0)
    BY <1>2, <1>4, SlotIsMod
  <2>2. 0 \in 0 .. BlockCount - 1 /\ 0 < k
    OBVIOUS
  <2> QED
    BY <1>4, <2>1, <2>2
<1>7. /\ \A j \in 0 .. BlockCount - 1 : S(j) \in Block
      /\ \A j \in 0 .. BlockCount - 1 : S(j) = S(k) => j = k
  <2>1. \A j \in 0 .. BlockCount - 1 : j \in 0 .. BlockCount
    OBVIOUS
  <2>2. \A j \in 0 .. BlockCount - 1 : S(j) \in Block
    BY <1>2, <2>1, SlotIsMod
  <2>3. \A i, j \in 0 .. BlockCount - 1 : S(i) = S(j) => i = j
    BY <1>2, SlotFacts
  <2> HIDE DEF S
  <2> QED
    BY <1>6, <2>2, <2>3
<1>8. t.fill = S(k + 1)
  <2>1. 1 \in 0 .. BlockCount
    OBVIOUS
  <2>2. (r.fill + 1) % BlockCount = Slot(r.fill, 1)
    BY <1>2, <2>1, SlotIsMod
  <2>3. Slot(S(k), 1) = S(k + 1)
    BY <1>2, <1>6, SlotFacts
  <2> QED
    BY <1>4, <2>2, <2>3
<1> DEFINE b2 == [j \in 0 .. BlockCount |-> IF j <= k THEN b[j] ELSE s + n]
<1>9. b2 \in [0 .. BlockCount -> Nat]
  BY <1>1
<1>10. \A j \in 0 .. BlockCount : b2[j] = IF j <= k THEN b[j] ELSE s + n
  OBVIOUS
<1> HIDE DEF b2, S
<1>11. ASSUME NEW j \in 0 .. BlockCount - 1
       PROVE  /\ b2[j] <= b2[j + 1]
              /\ t.data[S(j)] = Span(b2[j], b2[j + 1] - b2[j])
              /\ j < k + 1 => b2[j] < b2[j + 1]
              /\ t.user[S(j)] <=> j < k + 1
  <2>0. j \in 0 .. BlockCount /\ j + 1 \in 0 .. BlockCount /\ b[j] \in Nat /\ b[j + 1] \in Nat
    OBVIOUS
  <2>1. CASE j < k
    <3>1. b2[j] = b[j] /\ b2[j + 1] = b[j + 1]
      BY <1>6, <1>10, <2>0, <2>1
    <3>2. S(j) # r.fill /\ S(j) \in Block
      BY <1>4, <1>7, <2>1
    <3>3. t.data[S(j)] = r.data[S(j)] /\ t.user[S(j)] = r.user[S(j)]
      BY <1>2, <3>2
    <3>4. b[j] < b[j + 1] /\ (r.user[S(j)] <=> TRUE) /\ j < k + 1
      BY <1>4, <2>1
    <3> QED
      BY <1>5, <2>0, <3>1, <3>3, <3>4
  <2>2. CASE j = k
    <3>1. b2[j] = s /\ b2[j + 1] = s + n
      <4>1. k \in k .. BlockCount /\ ~(k + 1 <= k) /\ k <= k
        BY <1>6
      <4> QED
        BY <1>4, <1>10, <2>0, <2>2, <4>1
    <3>2. S(j) = r.fill /\ S(j) \in Block
      BY <1>4, <1>7, <2>2
    <3>3. t.data[S(j)] = Span(s, n) /\ t.user[S(j)] = TRUE
      BY <1>2, <3>2
    <3>4. s + n - s = n /\ s < s + n /\ s <= s + n /\ j < k + 1
      BY <1>1, <2>2
    <3>5. b2[j] <= b2[j + 1] /\ b2[j] < b2[j + 1] /\ b2[j + 1] - b2[j] = n
      BY <1>1, <3>1, <3>4
    <3>6. t.data[S(j)] = Span(b2[j], b2[j + 1] - b2[j])
      BY <3>1, <3>3, <3>5
    <3> QED
      BY <3>3, <3>4, <3>5, <3>6, Zenon
  <2>3. CASE j > k
    <3>1. b2[j] = s + n /\ b2[j + 1] = s + n
      BY <1>6, <1>10, <2>0, <2>3
    <3>2. S(j) # r.fill /\ S(j) \in Block
      BY <1>4, <1>7, <1>6, <2>3
    <3>3. t.data[S(j)] = r.data[S(j)] /\ t.user[S(j)] = r.user[S(j)]
      BY <1>2, <3>2
    <3>4. b[j] = s /\ b[j + 1] = s /\ ~(j < k) /\ ~(j < k + 1)
      <4>1. j \in k .. BlockCount /\ j + 1 \in k .. BlockCount
        BY <2>3
      <4> QED
        BY <1>4, <1>6, <2>3, <4>1
    <3>5. s - s = 0 /\ (s + n) - (s + n) = 0 /\ s + n <= s + n /\ s + n \in Nat
      BY <1>1
    <3>6. Span(s, 0) = <<>> /\ Span(s + n, 0) = <<>>
      BY <1>1, <3>5, SpanEmpty
    <3>7. r.data[S(j)] = <<>> /\ (r.user[S(j)] <=> FALSE)
      BY <1>4, <1>5, <3>4, <3>5, <3>6
    <3> QED
      BY <3>1, <3>3, <3>4, <3>5, <3>6, <3>7
  <2> QED
    BY <1>6, <2>1, <2>2, <2>3
<1>12. HandedOver(t, s + n, seen, k + 1, b2)
  <2>1. Bounds(t, b2)
    BY <1>11 DEF Bounds, S
  <2>2. b2[0] + t.at = seen
    <3>1. b2[0] = b[0]
      BY <1>6, <1>10
    <3> QED
      BY <1>4, <3>1
  <2>3. \A j \in 0 .. BlockCount : b2[j] <= s + n
    <3> SUFFICES ASSUME NEW j \in 0 .. BlockCount PROVE b2[j] <= s + n
      OBVIOUS
    <3>1. b[j] \in Nat /\ b[j] <= s
      BY <1>4
    <3>2. b2[j] = b[j] \/ b2[j] = s + n
      BY <1>10
    <3> QED
      BY <1>1, <3>1, <3>2
  <2>4. \A j \in k + 1 .. BlockCount : b2[j] = s + n
    BY <1>6, <1>10
  <2>5. \A j \in 0 .. BlockCount - 1 : j < k + 1 => b2[j] < b2[j + 1]
    BY <1>11
  <2>6. \A j \in 0 .. BlockCount - 1 : t.user[Slot(t.current, j)] <=> j < k + 1
    BY <1>11 DEF S
  <2>7. seen < b2[1]
    <3>1. CASE k > 0
      <4>1. b2[1] = b[1]
        BY <1>6, <1>10, <3>1
      <4> QED
        BY <1>4, <3>1, <4>1
    <3>2. CASE k = 0
      <4>1. b2[1] = s + n
        BY <1>10, <3>2
      <4>2. b[0] = s /\ r.at = 0
        <5>1. 0 \in k .. BlockCount
          BY <3>2
        <5> QED
          BY <1>4, <3>2, <5>1
      <4>3. seen = s
        BY <1>1, <1>4, <4>2
      <4> QED
        BY <1>1, <4>1, <4>3
    <3> QED
      BY <1>6, <3>1, <3>2
  <2>8. t.fill = Slot(t.current, k + 1)
    BY <1>8 DEF S
  <2>9. ~(k + 1 = 0)
    BY <1>6
  <2> QED
    BY <2>1, <2>2, <2>3, <2>4, <2>5, <2>6, <2>7, <2>8, <2>9 DEF HandedOver
<1>13. k + 1 \in 0 .. BlockCount /\ s + n \in Nat
  BY <1>1, <1>6
<1> QED
  BY <1>1, <1>9, <1>12, <1>13 DEF GoodRing

(* The lane visits a packet of the block it holds: it is the next one, and *)
(* the block is kept or released.                                          *)
LEMMA GoodVisit ==
  ASSUME NEW r, NEW s, NEW v, GoodRing(r, s, v), r.user[r.current]
  PROVE  LET block == r.data[r.current]
         IN  /\ block[r.at + 1] = Len(v) + 1
             /\ GoodRing(IF r.at + 1 < Len(block) THEN [r EXCEPT !.at = @ + 1] ELSE Released(r),
                         s, Append(v, block[r.at + 1]))
<1> BlockCount \in Nat \ {0}
  BY CaptureAssumption
<1> DEFINE seen  == Len(v)
           block == r.data[r.current]
           S(j)  == Slot(r.current, j)
           w     == Append(v, seen + 1)
<1>1. /\ r \in RingType /\ s \in Nat /\ v \in Seq(Nat) /\ seen \in Nat
      /\ v = Span(0, seen)
  BY LenProperties DEF GoodRing
<1>2. /\ r.user \in [Block -> BOOLEAN] /\ r.data \in [Block -> Seq(Nat)]
      /\ r.fill \in Block /\ r.current \in Block /\ r.at \in Nat
  BY <1>1 DEF RingType
<1>3. PICK k \in 0 .. BlockCount, b \in [0 .. BlockCount -> Nat] :
        HandedOver(r, s, seen, k, b)
  BY DEF GoodRing
<1>4. /\ b[0] + r.at = seen
      /\ \A j \in 0 .. BlockCount : b[j] <= s
      /\ \A j \in k .. BlockCount : b[j] = s
      /\ \A j \in 0 .. BlockCount - 1 : j < k => b[j] < b[j + 1]
      /\ \A j \in 0 .. BlockCount - 1 : r.user[S(j)] <=> j < k
      /\ k > 0 => seen < b[1]
      /\ r.fill = S(k)
  BY <1>3 DEF HandedOver
<1>5. \A j \in 0 .. BlockCount - 1 :
        b[j] <= b[j + 1] /\ r.data[S(j)] = Span(b[j], b[j + 1] - b[j])
  BY <1>3 DEF HandedOver, Bounds
<1>6. /\ S(0) = r.current /\ 0 \in 0 .. BlockCount - 1 /\ k \in Nat \ {0}
      /\ b[0] \in Nat /\ b[1] \in Nat /\ 1 \in 0 .. BlockCount
  <2>1. S(0) = r.current
    BY <1>2, SlotIsMod
  <2>2. 0 \in 0 .. BlockCount - 1 /\ 1 \in 0 .. BlockCount /\ 0 \in 0 .. BlockCount
    OBVIOUS
  <2>3. 0 < k
    BY <1>4, <2>1, <2>2
  <2> QED
    BY <2>1, <2>2, <2>3
<1>7. block = Span(b[0], b[1] - b[0]) /\ b[0] <= b[1] /\ seen < b[1] /\ b[0] + r.at = seen
  <2>1. 0 + 1 = 1 /\ k > 0
    BY <1>6
  <2> QED
    BY <1>4, <1>5, <1>6, <2>1
<1> HIDE DEF seen, S
<1>8. /\ b[1] - b[0] \in Nat /\ r.at + 1 \in 1 .. b[1] - b[0]
      /\ b[0] + (r.at + 1) = seen + 1
  BY <1>1, <1>2, <1>6, <1>7, SMTT(40)
<1>9. Len(block) = b[1] - b[0] /\ block[r.at + 1] = seen + 1
  <2>1. /\ Len(Span(b[0], b[1] - b[0])) = b[1] - b[0]
        /\ \A i \in 1 .. b[1] - b[0] : Span(b[0], b[1] - b[0])[i] = b[0] + i
    BY <1>6, <1>8, SpanIsSeq, Zenon
  <2>2. Len(block) = b[1] - b[0] /\ block[r.at + 1] = b[0] + (r.at + 1)
    BY <1>7, <1>8, <2>1, Zenon
  <2> QED
    BY <1>8, <2>2, Zenon
<1>10. w = Span(0, seen + 1) /\ w \in Seq(Nat) /\ Len(w) = seen + 1
  <2>0. 0 \in Nat /\ 0 + seen + 1 = seen + 1
    BY <1>1
  <2>1. Append(Span(0, seen), 0 + seen + 1) = Span(0, seen + 1)
    BY <1>1, <2>0, SpanAppend, Zenon
  <2>2. w = Span(0, seen + 1)
    BY <1>1, <2>0, <2>1, Zenon
  <2>3. Span(0, seen + 1) \in Seq(Nat) /\ Len(Span(0, seen + 1)) = seen + 1
    BY <1>1, SpanIsSeq
  <2> QED
    BY <2>2, <2>3
<1>10a. seen = b[0] + r.at /\ (r.at + 1 < Len(block) <=> seen + 1 < b[1])
       /\ (~(r.at + 1 < Len(block)) => b[1] = seen + 1)
  <2> DEFINE x == b[0]  y == b[1]  a == r.at  n == Len(block)
  <2>1. /\ x \in Nat /\ y \in Nat /\ a \in Nat /\ seen \in Nat /\ x + a = seen /\ seen < y
        /\ n = y - x
    BY <1>1, <1>2, <1>6, <1>7, <1>9, Zenon
  <2> HIDE DEF x, y, a, n
  <2>2. seen = x + a /\ (a + 1 < n => seen + 1 < y) /\ (seen + 1 < y => a + 1 < n)
        /\ (~(a + 1 < n) => y = seen + 1)
    BY <2>1
  <2> QED
    BY <2>2, Zenon DEF x, y, a, n
<1> HIDE DEF w
<1>11. CASE r.at + 1 < Len(block)
  <2> DEFINE t == [r EXCEPT !.at = @ + 1]
  <2>1. /\ t \in RingType /\ t.user = r.user /\ t.data = r.data /\ t.fill = r.fill
        /\ t.current = r.current /\ t.at = r.at + 1
    <3>1. r.at + 1 \in Nat
      BY <1>2
    <3>2. /\ t.user = r.user /\ t.data = r.data /\ t.fill = r.fill
          /\ t.current = r.current /\ t.at = r.at + 1
      BY <1>1 DEF RingType
    <3>3. t \in RingType
      BY <1>1, <3>1 DEF RingType
    <3> QED
      BY <3>2, <3>3
  <2> HIDE DEF t
  <2>2. Bounds(t, b)
    BY <1>3, <2>1 DEF HandedOver, Bounds
  <2>3. b[0] + t.at = seen + 1 /\ seen + 1 < b[1] /\ k # 0
    BY <1>1, <1>2, <1>6, <1>11, <1>10a, <2>1
  <2>4. HandedOver(t, s, seen + 1, k, b)
    BY <1>4, <2>1, <2>2, <2>3 DEF HandedOver, S
  <2>5. GoodRing(t, s, w)
    BY <1>1, <1>3, <1>10, <2>1, <2>4 DEF GoodRing
  <2>6. GoodRing(IF r.at + 1 < Len(block) THEN t ELSE Released(r), s, w)
    BY <1>11, <2>5
  <2>7. w = Append(v, block[r.at + 1])
    BY <1>9 DEF w
  <2>8. /\ block[r.at + 1] = Len(v) + 1
        /\ GoodRing(IF r.at + 1 < Len(block) THEN [r EXCEPT !.at = @ + 1] ELSE Released(r),
                    s, Append(v, block[r.at + 1]))
    BY <1>9, <2>6, <2>7, Zenon DEF t, seen
  <2> QED
    BY <2>8, Zenon
<1>12. CASE ~(r.at + 1 < Len(block))
  <2> DEFINE t  == Released(r)
             b2 == [j \in 0 .. BlockCount |-> IF j < BlockCount THEN b[j + 1] ELSE s]
             k2 == k - 1
  <2>1. /\ t \in RingType /\ t.user = [r.user EXCEPT ![r.current] = FALSE]
        /\ t.data = [r.data EXCEPT ![r.current] = <<>>]
        /\ t.fill = r.fill /\ t.current = S(1) /\ t.at = 0
    <3>1. (r.current + 1) % BlockCount = S(1) /\ S(1) \in Block
      BY <1>2, <1>6, SlotIsMod DEF S
    <3>2. t = [r EXCEPT !.user = [r.user EXCEPT ![r.current] = FALSE],
                        !.data = [r.data EXCEPT ![r.current] = <<>>],
                        !.current = S(1), !.at = 0]
      BY <1>1, <3>1 DEF Released, RingType
    <3>3. /\ [r.user EXCEPT ![r.current] = FALSE] \in [Block -> BOOLEAN]
          /\ [r.data EXCEPT ![r.current] = <<>>] \in [Block -> Seq(Nat)]
      BY <1>2
    <3> HIDE DEF t
    <3> QED
      BY <1>1, <3>1, <3>2, <3>3 DEF RingType
  <2> HIDE DEF t
  <2>2. b2 \in [0 .. BlockCount -> Nat]
    BY <1>1
  <2>3. \A j \in 0 .. BlockCount : b2[j] = IF j < BlockCount THEN b[j + 1] ELSE s
    OBVIOUS
  <2> HIDE DEF b2
  <2>4. b[1] = seen + 1
    BY <1>12, <1>10a
  <2>5. b[BlockCount] = s
    <3>1. BlockCount \in k .. BlockCount
      BY <1>6
    <3> QED
      BY <1>4, <3>1
  <2>6. /\ \A j \in 0 .. BlockCount - 1 : S(j) \in Block
        /\ \A i, j \in 0 .. BlockCount - 1 : S(i) = S(j) => i = j
        /\ \A j \in 0 .. BlockCount - 2 : Slot(S(1), j) = S(j + 1)
        /\ Slot(S(1), BlockCount - 1) = r.current
    <3>1. \A j \in 0 .. BlockCount - 1 : j \in 0 .. BlockCount
      OBVIOUS
    <3>2. \A j \in 0 .. BlockCount - 1 : S(j) \in Block
      BY <1>2, <3>1, SlotIsMod DEF S
    <3>3. /\ \A i, j \in 0 .. BlockCount - 1 : S(i) = S(j) => i = j
          /\ \A j \in 0 .. BlockCount - 2 : Slot(S(1), j) = S(j + 1)
          /\ Slot(S(1), BlockCount - 1) = r.current
      BY <1>2, SlotFacts DEF S
    <3> QED
      BY <3>2, <3>3
  <2>7. ASSUME NEW j \in 0 .. BlockCount - 1
        PROVE  /\ b2[j] <= b2[j + 1]
               /\ t.data[Slot(t.current, j)] = Span(b2[j], b2[j + 1] - b2[j])
               /\ j < k2 => b2[j] < b2[j + 1]
               /\ t.user[Slot(t.current, j)] <=> j < k2
    <3>1. CASE j < BlockCount - 1
      <4>1. /\ j \in 0 .. BlockCount - 2 /\ j + 1 \in 0 .. BlockCount - 1
            /\ j \in 0 .. BlockCount /\ j + 1 \in 0 .. BlockCount
            /\ j < BlockCount /\ j + 1 < BlockCount /\ j + 1 # 0
        BY <3>1
      <4>2. b2[j] = b[j + 1] /\ b2[j + 1] = b[j + 1 + 1]
        BY <2>3, <4>1
      <4>3. Slot(t.current, j) = S(j + 1) /\ S(j + 1) \in Block /\ S(j + 1) # r.current
        BY <1>6, <2>1, <2>6, <4>1
      <4>4. t.data[S(j + 1)] = r.data[S(j + 1)] /\ t.user[S(j + 1)] = r.user[S(j + 1)]
        BY <1>2, <2>1, <4>3
      <4>5. /\ b[j + 1] <= b[j + 1 + 1]
            /\ r.data[S(j + 1)] = Span(b[j + 1], b[j + 1 + 1] - b[j + 1])
        BY <1>5, <4>1
      <4>6. /\ j + 1 < k => b[j + 1] < b[j + 1 + 1]
            /\ r.user[S(j + 1)] <=> j + 1 < k
        BY <1>4, <4>1
      <4>7. j + 1 < k <=> j < k2
        BY <1>6
      <4> HIDE DEF k2
      <4>8. t.user[Slot(t.current, j)] <=> j < k2
        BY <4>3, <4>4, <4>6, <4>7
      <4>9. t.data[Slot(t.current, j)] = Span(b2[j], b2[j + 1] - b2[j])
        BY <4>2, <4>3, <4>4, <4>5
      <4>10. b2[j] <= b2[j + 1] /\ (j < k2 => b2[j] < b2[j + 1])
        BY <4>2, <4>5, <4>6, <4>7
      <4> QED
        BY <4>8, <4>9, <4>10
    <3>2. CASE j = BlockCount - 1
      <4>1. b2[j] = s /\ b2[j + 1] = s
        BY <2>3, <2>5, <3>2
      <4>2. Slot(t.current, j) = r.current
        BY <2>1, <2>6, <3>2
      <4>3. t.data[Slot(t.current, j)] = <<>> /\ t.user[Slot(t.current, j)] = FALSE
        BY <1>2, <2>1, <4>2
      <4>4. ~(j < k2) /\ s - s = 0 /\ s <= s
        BY <1>1, <1>3, <3>2
      <4>5. Span(s, 0) = <<>>
        BY <1>1, SpanEmpty
      <4> HIDE DEF k2
      <4> QED
        BY <4>1, <4>3, <4>4, <4>5
    <3> QED
      BY <3>1, <3>2
  <2>8. HandedOver(t, s, seen + 1, k2, b2)
    <3>1. Bounds(t, b2)
      BY <2>7 DEF Bounds
    <3>2. b2[0] + t.at = seen + 1
      BY <1>1, <2>1, <2>3, <2>4
    <3>3. \A j \in 0 .. BlockCount : b2[j] <= s
      <4> SUFFICES ASSUME NEW j \in 0 .. BlockCount PROVE b2[j] <= s
        OBVIOUS
      <4>1. CASE j < BlockCount
        <5>1. j + 1 \in 0 .. BlockCount
          BY <4>1
        <5> QED
          BY <1>4, <2>3, <4>1, <5>1
      <4>2. CASE ~(j < BlockCount)
        BY <1>1, <2>3, <4>2
      <4> QED
        BY <4>1, <4>2
    <3>4. \A j \in k2 .. BlockCount : b2[j] = s
      <4> SUFFICES ASSUME NEW j \in k2 .. BlockCount PROVE b2[j] = s
        OBVIOUS
      <4>0. j \in 0 .. BlockCount
        BY <1>6
      <4>1. CASE j < BlockCount
        <5>1. j + 1 \in k .. BlockCount
          BY <1>6, <4>1
        <5> QED
          BY <1>4, <2>3, <4>0, <4>1, <5>1
      <4>2. CASE ~(j < BlockCount)
        BY <1>1, <2>3, <4>0, <4>2
      <4> QED
        BY <4>1, <4>2
    <3>5. k2 > 0 => seen + 1 < b2[1]
      <4> SUFFICES ASSUME k2 > 0 PROVE seen + 1 < b2[1]
        OBVIOUS
      <4>1. 1 < k /\ 1 \in 0 .. BlockCount - 1 /\ 1 < BlockCount /\ 1 + 1 = 2
        BY <1>3, <1>6
      <4>2. b2[1] = b[2] /\ b[1] < b[2]
        BY <1>4, <2>3, <4>1
      <4> QED
        BY <2>4, <4>2
    <3>6. t.fill = Slot(t.current, k2)
      <4>1. k2 \in 0 .. BlockCount - 1 /\ k2 + 1 = k
        BY <1>3, <1>6
      <4>2. CASE k2 \in 0 .. BlockCount - 2
        <5> HIDE DEF k2
        <5> QED
          BY <1>4, <2>1, <2>6, <4>1, <4>2
      <4>3. CASE k2 = BlockCount - 1
        <5>1. S(BlockCount) = r.current
          BY <1>2, SlotIsMod DEF S
        <5>2. k = BlockCount
          BY <4>1, <4>3
        <5> HIDE DEF k2
        <5> QED
          BY <1>4, <2>1, <2>6, <4>3, <5>1, <5>2
      <4> HIDE DEF k2
      <4> QED
        BY <4>1, <4>2, <4>3
    <3>7. /\ \A j \in 0 .. BlockCount - 1 : j < k2 => b2[j] < b2[j + 1]
          /\ \A j \in 0 .. BlockCount - 1 : t.user[Slot(t.current, j)] <=> j < k2
      BY <2>7
    <3> HIDE DEF k2
    <3> QED
      BY <2>1, <3>1, <3>2, <3>3, <3>4, <3>5, <3>6, <3>7 DEF HandedOver
  <2>9. k2 \in 0 .. BlockCount
    BY <1>3, <1>6
  <2>10. GoodRing(t, s, w)
    <3> HIDE DEF k2
    <3>1. HandedOver(t, s, Len(w), k2, b2) /\ w = Span(0, Len(w))
      BY <1>10, <2>8
    <3> QED
      BY <1>1, <1>10, <2>1, <2>2, <2>9, <3>1, Zenon DEF GoodRing
  <2>11. GoodRing(IF r.at + 1 < Len(block) THEN [r EXCEPT !.at = @ + 1] ELSE t, s, w)
    BY <1>12, <2>10
  <2>12. w = Append(v, block[r.at + 1])
    BY <1>9 DEF w
  <2>13. /\ block[r.at + 1] = Len(v) + 1
         /\ GoodRing(IF r.at + 1 < Len(block) THEN [r EXCEPT !.at = @ + 1] ELSE Released(r),
                     s, Append(v, block[r.at + 1]))
    BY <1>9, <2>11, <2>12, Zenon DEF t, seen
  <2> QED
    BY <2>13, Zenon
<1> QED
  BY <1>11, <1>12

(* What was visited and what is to be visited are all packets, in order. *)
LEMMA GoodOrder ==
  ASSUME NEW l, GoodRing(ring[l], stored[l], visited[l])
  PROVE  visited[l] \o Unvisited(l) = [i \in 1 .. stored[l] |-> i]
<1> BlockCount \in Nat \ {0}
  BY CaptureAssumption
<1> DEFINE r == ring[l]  s == stored[l]  v == visited[l]  seen == Len(v)
<1>1. r \in RingType /\ s \in Nat /\ v \in Seq(Nat) /\ seen \in Nat /\ v = Span(0, seen)
  BY LenProperties DEF GoodRing
<1>2. r.data \in [Block -> Seq(Nat)] /\ r.current \in Block /\ r.at \in Nat
  BY <1>1 DEF RingType
<1>3. PICK k \in 0 .. BlockCount, b \in [0 .. BlockCount -> Nat] :
        HandedOver(r, s, seen, k, b)
  BY DEF GoodRing
<1>4. Bounds(r, b) /\ b[0] + r.at = seen
  BY <1>3 DEF HandedOver
<1>5. b[BlockCount] = s
  <2>1. BlockCount \in k .. BlockCount
    OBVIOUS
  <2> QED
    BY <1>3, <2>1 DEF HandedOver
<1>6. seen <= s
  <2>1. CASE k = 0
    <3>1. 0 \in k .. BlockCount
      BY <2>1
    <3>2. b[0] = s /\ r.at = 0
      BY <1>3, <2>1, <3>1 DEF HandedOver
    <3> QED
      BY <1>1, <1>4, <3>2
  <2>2. CASE k > 0
    <3>1. 1 \in 0 .. BlockCount
      OBVIOUS
    <3>2. seen < b[1] /\ b[1] <= s /\ b[1] \in Nat
      BY <1>3, <2>2, <3>1 DEF HandedOver
    <3> QED
      BY <1>1, <3>2
  <2> QED
    BY <2>1, <2>2
<1>7. Unvisited(l) = Span(b[0] + r.at, b[BlockCount] - (b[0] + r.at))
  BY <1>2, <1>4, <1>5, <1>6, UnvisitedIs
<1>8. Unvisited(l) = Span(seen, s - seen)
  BY <1>4, <1>5, <1>7
<1> HIDE DEF seen, s, v
<1>9. Span(0, seen) \o Span(0 + seen, s - seen) = Span(0, seen + (s - seen))
  <2>1. 0 \in Nat /\ s - seen \in Nat
    BY <1>1, <1>6
  <2> QED
    BY <1>1, <2>1, SpanConcat, Zenon
<1>10. 0 + seen = seen /\ seen + (s - seen) = s
  BY <1>1
<1>11. v \o Unvisited(l) = Span(0, s)
  BY <1>1, <1>8, <1>9, <1>10
<1>12. Span(0, s) = [i \in 1 .. s |-> i]
  BY <1>1 DEF Span
<1> QED
  BY <1>11, <1>12 DEF v, s

(***************************************************************************)
(* The ring under every step of the agent.                                 *)
(***************************************************************************)
Booting == {"loading", "building", "binding", "spawning"}
Early   == {"off", "start", "reading", "sending"}

(* Sockets of lanes that are joined or read have a ring in order; as long  *)
(* as lanes may still be joined, the others have never had a packet.       *)
RingInv ==
  /\ lane \in [Lane -> {"none", "joined", "running", "ok", "error"}]
  /\ ring \in [Lane -> RingType]
  /\ stored \in [Lane -> Nat]
  /\ visited \in [Lane -> Seq(Nat)]
  /\ \A l \in Lane : lane[l] \in {"joined", "running"} =>
       GoodRing(ring[l], stored[l], visited[l])
  /\ \A l \in Lane : lane[l] = "none" /\ capAt \in Early =>
       ring[l] = EmptyRing /\ stored[l] = 0 /\ visited[l] = <<>>
  /\ source \notin AfPacket => \A l \in Lane : lane[l] = "none"
  /\ at \in Booting => capAt = "off"

(* Steps that do not concern lanes. *)
RingQuiet ==
  /\ UNCHANGED <<lane, ring, stored, visited>>
  /\ source' \notin AfPacket => source \notin AfPacket
  /\ capAt' \in Early => capAt \in Early
  /\ at' \in Booting => at \in Booting /\ (capAt = "off" => capAt' = "off")

(* They keep the invariant. *)
LEMMA RingStays ==
  ASSUME RingInv, RingQuiet
  PROVE  RingInv'
  BY DEF RingInv, RingQuiet

(* The steps of the main thread and of everything but capture. *)
LEMMA MainRingQuiet ==
  ASSUME RingInv, \/ MainThread \/ BuildRuntimeFails \/ BindFails \/ SpawnCaptureFails
                  \/ RunFails \/ Signal \/ UNCHANGED agentVars
                  \/ \E e \in Exporter : Exports(e) \/ SpawnExporterFails(e)
                  \/ Gate \/ AcceptLoop \/ Clients \/ QuickClient
  PROVE  RingQuiet
<1> USE DEF captureVars, mainVars, Booting, Early, RingQuiet
<1>1. CASE UNCHANGED agentVars
  BY <1>1 DEF agentVars
<1>2. CASE \/ LoadPlans \/ LoadPlansFails \/ BuildRuntime \/ BuildRuntimeFails \/ Bind
           \/ BindFails \/ SpawnCaptureFails
  BY <1>2 DEF LoadPlans, LoadPlansFails, BuildRuntime, BuildRuntimeFails, Bind, BindFails,
              SpawnCaptureFails
<1>3. CASE SpawnCapture
  BY <1>3 DEF SpawnCapture, RingInv, traffic
<1>4. CASE \/ Run \/ RunFails \/ FinishRuntime \/ ExportSnapshotsNow \/ FinishQueueLocal
  BY <1>4 DEF Run, RunFails, FinishRuntime, ExportSnapshotsNow, FinishQueueLocal
<1>5. CASE \/ JoinCapture \/ Serve \/ StopServices \/ JoinHttp \/ JoinExporters \/ Signal
  BY <1>5 DEF JoinCapture, Serve, StopServices, JoinHttp, JoinExporters, Signal
<1>6. ASSUME NEW e \in Exporter, Exports(e) \/ SpawnExporterFails(e)
      PROVE  RingQuiet
  BY <1>6 DEF Exports, SpawnExporterFails
<1>7. CASE Gate \/ AcceptLoop \/ Clients \/ QuickClient
  BY <1>7 DEF Gate, AcceptLoop, Clients, QuickClient
<1> HIDE DEF RingQuiet
<1> QED
  BY <1>1, <1>2, <1>3, <1>4, <1>5, <1>6, <1>7, Zenon DEF MainThread

(* The steps of capture that do not concern lanes. *)
LEMMA CaptureRingQuiet ==
  ASSUME UNCHANGED at,
         \/ PinFails \/ OpenStream \/ AllSpawned \/ Abort \/ FirstDone \/ JoinLanes
         \/ SendBlocking \/ StreamStops(shutdown) \/ ReadFile(shutdown) \/ StreamFails
         \/ EbpfRecord(shutdown)
  PROVE  RingQuiet
<1> USE DEF Booting, Early, RingQuiet, traffic, AfPacket
<1>1. CASE PinFails \/ OpenStream \/ AllSpawned \/ Abort \/ FirstDone \/ JoinLanes
  BY <1>1 DEF PinFails, OpenStream, AllSpawned, Abort, FirstDone, JoinLanes, CaptureFails
<1>2. CASE SendBlocking \/ StreamStops(shutdown) \/ ReadFile(shutdown) \/ EbpfRecord(shutdown)
  BY <1>2 DEF SendBlocking, StreamStops, ReadFile, EbpfRecord
<1>3. CASE StreamFails
  BY <1>3 DEF StreamFails, EbpfFails, CaptureFails
<1> HIDE DEF RingQuiet
<1> QED
  BY <1>1, <1>2, <1>3

(* Lanes have their rings. *)
LEMMA LanesAreLane == Lanes \subseteq Lane
<1>1. LaneCount \in Nat \ {0}
  BY CaptureAssumption
<1> QED
  BY <1>1 DEF Lanes, Lane

(* An open that fails closes the sockets; only a source without lanes      *)
(* starts again.                                                           *)
LEMMA OpenFailsRing ==
  ASSUME RingInv, UNCHANGED at, OpenFails
  PROVE  RingInv'
<1>1. /\ lane' = [l \in Lane |-> "none"] /\ UNCHANGED <<ring, stored, visited>>
      /\ capAt = "start"
  BY DEF OpenFails, traffic
<1>2. \/ capAt' = "error" /\ source' = source
      \/ source = "fallback" /\ source' = "fallen" /\ capAt' = "start"
  BY DEF OpenFails, EbpfFails, CaptureFails
<1>3. at \notin Booting
  BY <1>1 DEF RingInv
<1>4. lane' \in [Lane -> {"none", "joined", "running", "ok", "error"}]
      /\ \A l \in Lane : lane'[l] = "none"
  BY <1>1
<1>5. ASSUME NEW l \in Lane, capAt' \in Early
      PROVE  ring'[l] = EmptyRing /\ stored'[l] = 0 /\ visited'[l] = <<>>
  <2>1. source = "fallback"
    BY <1>2, <1>5 DEF Early
  <2>2. lane[l] = "none" /\ capAt \in Early
    BY <1>1, <2>1 DEF RingInv, AfPacket, Early
  <2> QED
    BY <1>1, <2>2 DEF RingInv
<1> QED
  BY <1>1, <1>3, <1>4, <1>5 DEF RingInv

(* A lane is joined, or begins to read. *)
LEMMA JoinLaneRing ==
  ASSUME RingInv, UNCHANGED at, JoinLane \/ SpawnLane \/ SpawnFails
  PROVE  RingInv'
<1>0. UNCHANGED <<ring, stored, visited, source>>
  BY DEF JoinLane, SpawnLane, SpawnFails, traffic
<1>1. CASE JoinLane
  <2>1. PICK l \in Lanes :
          /\ lane[l] = "none"
          /\ lane' = [lane EXCEPT ![l] = IF source = "fanout" THEN "joined" ELSE "running"]
    BY <1>1 DEF JoinLane
  <2>2. l \in Lane /\ capAt = "start" /\ source \in AfPacket
    BY <1>1, LanesAreLane DEF JoinLane
  <2>3. ring[l] = EmptyRing /\ stored[l] = 0 /\ visited[l] = <<>>
    BY <2>1, <2>2 DEF RingInv, Early
  <2>4. GoodRing(ring[l], stored[l], visited[l])
    BY <2>3, GoodEmpty
  <2>5. /\ lane' \in [Lane -> {"none", "joined", "running", "ok", "error"}]
        /\ \A m \in Lane : m # l => lane'[m] = lane[m]
        /\ lane'[l] # "none"
    BY <2>1, <2>2 DEF RingInv
  <2>6. at \notin Booting /\ capAt \in Early
    BY <2>2 DEF RingInv, Early
  <2>7. ASSUME NEW m \in Lane
        PROVE  /\ lane'[m] \in {"joined", "running"} =>
                    GoodRing(ring[m], stored[m], visited[m])
               /\ lane'[m] = "none" => ring[m] = EmptyRing /\ stored[m] = 0 /\ visited[m] = <<>>
    BY <2>4, <2>5, <2>6 DEF RingInv
  <2> QED
    BY <1>0, <2>2, <2>5, <2>6, <2>7 DEF RingInv
<1>2. CASE SpawnLane
  <2>1. PICK l \in Lanes : lane[l] = "joined" /\ lane' = [lane EXCEPT ![l] = "running"]
    BY <1>2 DEF SpawnLane
  <2>2. l \in Lane /\ capAt = "spawning" /\ capAt' \notin Early
    BY <1>2, LanesAreLane DEF SpawnLane, Early
  <2>3. /\ lane' \in [Lane -> {"none", "joined", "running", "ok", "error"}]
        /\ \A m \in Lane : m # l => lane'[m] = lane[m]
        /\ lane'[l] = "running"
    BY <2>1, <2>2 DEF RingInv
  <2>4. at \notin Booting /\ source \in AfPacket
    BY <2>1, <2>2 DEF RingInv
  <2>5. ASSUME NEW m \in Lane, lane'[m] \in {"joined", "running"}
        PROVE  GoodRing(ring[m], stored[m], visited[m])
    <3>1. lane[m] \in {"joined", "running"}
      BY <2>1, <2>3, <2>5
    <3> QED
      BY <3>1 DEF RingInv
  <2> QED
    BY <1>0, <2>2, <2>3, <2>4, <2>5 DEF RingInv
<1>3. CASE SpawnFails
  <2>1. /\ lane' = [l \in Lane |-> IF lane[l] = "joined" THEN "none" ELSE lane[l]]
        /\ capAt = "spawning" /\ capAt' \notin Early
    BY <1>3 DEF SpawnFails, Early
  <2>2. /\ lane' \in [Lane -> {"none", "joined", "running", "ok", "error"}]
        /\ \A m \in Lane : lane'[m] = "none" \/ lane'[m] = lane[m]
    BY <2>1 DEF RingInv
  <2>3. at \notin Booting
    BY <2>1 DEF RingInv
  <2>4. ASSUME NEW m \in Lane, lane'[m] \in {"joined", "running"}
        PROVE  GoodRing(ring[m], stored[m], visited[m])
    <3>1. lane[m] \in {"joined", "running"}
      BY <2>2, <2>4
    <3> QED
      BY <3>1 DEF RingInv
  <2>5. source' \notin AfPacket => \A l \in Lane : lane'[l] = "none"
    BY <1>0, <2>2 DEF RingInv
  <2> QED
    BY <1>0, <2>1, <2>2, <2>3, <2>4, <2>5 DEF RingInv
<1> QED
  BY <1>1, <1>2, <1>3

(* A step of one lane that is joined or read, or of the kernel on its ring:*)
(* what the lane has afterwards is enough.                                 *)
LEMMA OneLaneRing ==
  ASSUME RingInv, UNCHANGED <<at, source, capAt>>,
         NEW l \in Lane, lane[l] \in {"joined", "running"},
         NEW state \in {"joined", "running", "ok", "error"}, NEW r \in RingType,
         NEW s \in Nat, NEW v \in Seq(Nat),
         lane' = [lane EXCEPT ![l] = state], ring' = [ring EXCEPT ![l] = r],
         stored' = [stored EXCEPT ![l] = s], visited' = [visited EXCEPT ![l] = v],
         state \in {"joined", "running"} => GoodRing(r, s, v)
  PROVE  RingInv'
<1>1. /\ lane' \in [Lane -> {"none", "joined", "running", "ok", "error"}]
      /\ lane'[l] = state /\ \A m \in Lane : m # l => lane'[m] = lane[m]
  BY DEF RingInv
<1>2. /\ ring' \in [Lane -> RingType]
      /\ ring'[l] = r /\ \A m \in Lane : m # l => ring'[m] = ring[m]
  BY DEF RingInv
<1>3. /\ stored' \in [Lane -> Nat]
      /\ stored'[l] = s /\ \A m \in Lane : m # l => stored'[m] = stored[m]
  BY DEF RingInv
<1>4. /\ visited' \in [Lane -> Seq(Nat)]
      /\ visited'[l] = v /\ \A m \in Lane : m # l => visited'[m] = visited[m]
  BY DEF RingInv
<1>5. ASSUME NEW m \in Lane, lane'[m] \in {"joined", "running"}
      PROVE  GoodRing(ring'[m], stored'[m], visited'[m])
  <2>1. CASE m = l
    BY <1>1, <1>2, <1>3, <1>4, <1>5, <2>1
  <2>2. CASE m # l
    <3>1. GoodRing(ring[m], stored[m], visited[m])
      BY <1>1, <1>5, <2>2 DEF RingInv
    <3> QED
      BY <1>2, <1>3, <1>4, <2>2, <3>1
  <2> QED
    BY <2>1, <2>2
<1>6. ASSUME NEW m \in Lane, lane'[m] = "none", capAt' \in Early
      PROVE  ring'[m] = EmptyRing /\ stored'[m] = 0 /\ visited'[m] = <<>>
  <2>1. m # l
    BY <1>1, <1>6
  <2> QED
    BY <1>1, <1>2, <1>3, <1>4, <1>6, <2>1 DEF RingInv
<1>7. source \in AfPacket
  BY DEF RingInv
<1> QED
  BY <1>1, <1>2, <1>3, <1>4, <1>5, <1>6, <1>7 DEF RingInv

(* What a lane that is joined or read has. *)
LEMMA LaneHas ==
  ASSUME RingInv, NEW l \in Lane, lane[l] \in {"joined", "running"}
  PROVE  /\ GoodRing(ring[l], stored[l], visited[l])
         /\ ring[l] \in RingType /\ stored[l] \in Nat /\ visited[l] \in Seq(Nat)
         /\ ring[l].user \in [Block -> BOOLEAN] /\ ring[l].data \in [Block -> Seq(Nat)]
         /\ ring[l].fill \in Block /\ ring[l].current \in Block /\ ring[l].at \in Nat
         /\ stored = [stored EXCEPT ![l] = stored[l]]
         /\ visited = [visited EXCEPT ![l] = visited[l]]
         /\ lane = [lane EXCEPT ![l] = lane[l]]
<1>1. GoodRing(ring[l], stored[l], visited[l])
  BY DEF RingInv
<1>2. ring[l] \in RingType /\ stored[l] \in Nat /\ visited[l] \in Seq(Nat)
  BY <1>1 DEF GoodRing
<1>3. /\ stored = [stored EXCEPT ![l] = stored[l]]
      /\ visited = [visited EXCEPT ![l] = visited[l]]
      /\ lane = [lane EXCEPT ![l] = lane[l]]
  BY DEF RingInv
<1> QED
  BY <1>1, <1>2, <1>3 DEF RingType

(* The end of a lane. *)
LEMMA EndLaneRing ==
  ASSUME RingInv, UNCHANGED <<at, source, capAt, stored>>, NEW l \in Lane, lane[l] = "running",
         NEW how \in {"ok", "error"}, EndLane(l, how),
         NEW v \in Seq(Nat), visited' = [visited EXCEPT ![l] = v]
  PROVE  RingInv'
<1>1. EmptyRing \in RingType
  BY GoodEmpty DEF GoodRing
<1>2. stored[l] \in Nat /\ stored = [stored EXCEPT ![l] = stored[l]]
  BY LaneHas
<1>3. lane' = [lane EXCEPT ![l] = how] /\ ring' = [ring EXCEPT ![l] = EmptyRing]
  BY DEF EndLane
<1>4. how \in {"joined", "running", "ok", "error"} /\ how \notin {"joined", "running"}
      /\ lane[l] \in {"joined", "running"}
  OBVIOUS
<1>5. stored' = [stored EXCEPT ![l] = stored[l]]
  BY <1>2
<1> DEFINE s == stored[l]
<1>6. s \in Nat /\ stored' = [stored EXCEPT ![l] = s]
  BY <1>2, <1>5
<1> HIDE DEF s
<1> QED
  BY <1>1, <1>3, <1>4, <1>6, OneLaneRing

(* The kernel retires a block. *)
LEMMA RetireBlockRing ==
  ASSUME RingInv, UNCHANGED at, NEW l \in Lane, NEW n \in 1 .. MaxBlock, RetireBlock(l, n)
  PROVE  RingInv'
<1> DEFINE r == ring[l]  s == stored[l]  v == visited[l]
           t == [r EXCEPT !.user[r.fill] = TRUE,
                          !.data[r.fill] = [i \in 1 .. n |-> s + i],
                          !.fill = (@ + 1) % BlockCount]
<1>0. MaxBlock \in Nat /\ BlockCount \in Nat \ {0}
  BY CaptureAssumption
<1>1. /\ lane[l] \in {"joined", "running"} /\ ~r.user[r.fill]
      /\ stored' = [stored EXCEPT ![l] = s + n]
      /\ UNCHANGED <<source, capAt, lane, visited>>
  BY DEF RetireBlock
<1>2. ring' = [ring EXCEPT ![l] = t]
  BY DEF RetireBlock, RingInv
<1>3. /\ GoodRing(r, s, v)
      /\ r \in RingType /\ s \in Nat /\ v \in Seq(Nat)
      /\ r.user \in [Block -> BOOLEAN] /\ r.data \in [Block -> Seq(Nat)]
      /\ r.fill \in Block
      /\ visited = [visited EXCEPT ![l] = v] /\ lane = [lane EXCEPT ![l] = lane[l]]
  BY <1>1, LaneHas
<1>4. n \in Nat \ {0} /\ s + n \in Nat
  BY <1>0, <1>3
<1>5. Span(s, n) = [i \in 1 .. n |-> s + i] /\ Span(s, n) \in Seq(Nat)
  BY <1>3, <1>4, SpanIsSeq DEF Span
<1>6. (r.fill + 1) % BlockCount \in Block
  <2>1. 1 \in 0 .. BlockCount
    BY <1>0
  <2>2. (r.fill + 1) % BlockCount = Slot(r.fill, 1) /\ Slot(r.fill, 1) \in Block
    BY <1>3, <2>1, SlotIsMod, Zenon
  <2> QED
    BY <2>2, Zenon
<1>7. /\ t.user = [r.user EXCEPT ![r.fill] = TRUE]
      /\ t.data = [r.data EXCEPT ![r.fill] = Span(s, n)]
      /\ t.fill = (r.fill + 1) % BlockCount /\ t.current = r.current /\ t.at = r.at
  BY <1>3, <1>5 DEF RingType
<1>8. t \in RingType
  <2>1. /\ [r.user EXCEPT ![r.fill] = TRUE] \in [Block -> BOOLEAN]
        /\ [r.data EXCEPT ![r.fill] = Span(s, n)] \in [Block -> Seq(Nat)]
    BY <1>3, <1>5
  <2>2. t = [r EXCEPT !.user = [r.user EXCEPT ![r.fill] = TRUE],
                      !.data = [r.data EXCEPT ![r.fill] = Span(s, n)],
                      !.fill = (r.fill + 1) % BlockCount]
    BY <1>3, <1>5 DEF RingType
  <2> HIDE DEF t
  <2> QED
    BY <1>3, <1>6, <2>1, <2>2 DEF RingType
<1> HIDE DEF r, s, v, t
<1>9. GoodRing(t, s + n, v)
  BY <1>1, <1>3, <1>4, <1>7, <1>8, GoodRetire
<1> DEFINE state == lane[l]  sn == s + n
<1>10. /\ state \in {"joined", "running", "ok", "error"} /\ lane' = [lane EXCEPT ![l] = state]
       /\ visited' = [visited EXCEPT ![l] = v] /\ sn \in Nat
       /\ stored' = [stored EXCEPT ![l] = sn] /\ GoodRing(t, sn, v)
  BY <1>1, <1>3, <1>4, <1>9
<1> HIDE DEF sn
<1> QED
  BY <1>1, <1>2, <1>3, <1>8, <1>10, OneLaneRing, ZenonT(60) DEF v

(* The lane visits a packet, or ends over it. *)
LEMMA VisitPacketRing ==
  ASSUME RingInv, UNCHANGED at, NEW l \in Lane, VisitPacket(l, shutdown)
  PROVE  RingInv'
<1> DEFINE r == ring[l]  s == stored[l]  v == visited[l]
           block == r.data[r.current]
           packet == block[r.at + 1]
           w == Append(v, packet)
           t == IF r.at + 1 < Len(block) THEN [r EXCEPT !.at = @ + 1] ELSE Released(r)
<1>1. /\ lane[l] = "running" /\ r.user[r.current] /\ UNCHANGED <<source, capAt, stored>>
  BY DEF VisitPacket
<1>2. \/ EndLane(l, "ok") /\ UNCHANGED visited
      \/ EndLane(l, "ok") /\ visited' = [visited EXCEPT ![l] = w]
      \/ /\ visited' = [visited EXCEPT ![l] = w] /\ ring' = [ring EXCEPT ![l] = t]
         /\ UNCHANGED lane
  <2>1. visited' = [visited EXCEPT ![l] = Append(@, packet)] =>
          visited' = [visited EXCEPT ![l] = w]
    BY DEF RingInv
  <2> QED
    BY <2>1 DEF VisitPacket
<1>3. /\ GoodRing(r, s, v) /\ s \in Nat /\ v \in Seq(Nat)
      /\ visited = [visited EXCEPT ![l] = v] /\ lane = [lane EXCEPT ![l] = lane[l]]
      /\ stored = [stored EXCEPT ![l] = s]
  BY <1>1, LaneHas
<1>4. GoodRing(t, s, w)
  BY <1>1, <1>3, GoodVisit, Zenon
<1>5. t \in RingType /\ w \in Seq(Nat)
  BY <1>4, Zenon DEF GoodRing
<1> HIDE DEF r, s, v, block, packet, w, t
<1>6. CASE EndLane(l, "ok") /\ UNCHANGED visited
  BY <1>1, <1>3, <1>6, EndLaneRing
<1>7. CASE EndLane(l, "ok") /\ visited' = [visited EXCEPT ![l] = w]
  BY <1>1, <1>5, <1>7, EndLaneRing
<1>8. CASE /\ visited' = [visited EXCEPT ![l] = w] /\ ring' = [ring EXCEPT ![l] = t]
           /\ UNCHANGED lane
  <2> DEFINE state == "running"
  <2>1. /\ state \in {"joined", "running", "ok", "error"} /\ lane' = [lane EXCEPT ![l] = state]
        /\ stored' = [stored EXCEPT ![l] = s] /\ lane[l] \in {"joined", "running"}
    BY <1>1, <1>3, <1>8
  <2> HIDE DEF state
  <2> QED
    BY <1>1, <1>3, <1>4, <1>5, <1>8, <2>1, OneLaneRing, ZenonT(60)
<1> QED
  BY <1>2, <1>6, <1>7, <1>8

(* The lane ends. *)
LEMMA StopLaneRing ==
  ASSUME RingInv, UNCHANGED at, NEW l \in Lane, StopLane(l, shutdown) \/ LaneFails(l)
  PROVE  RingInv'
<1>1. /\ lane[l] = "running" /\ (EndLane(l, "ok") \/ EndLane(l, "error"))
      /\ UNCHANGED <<source, capAt, stored, visited>>
  BY DEF StopLane, LaneFails, traffic
<1> DEFINE v == visited[l]
<1>2. v \in Seq(Nat) /\ lane[l] = "running" /\ visited' = [visited EXCEPT ![l] = v]
  BY <1>1, LaneHas DEF StopLane, LaneFails
<1> HIDE DEF v
<1> QED
  BY <1>1, <1>2, EndLaneRing

(* The invariant. *)
LEMMA RingInvariant == Spec => []RingInv
<1>1. Init => RingInv
  <2> SUFFICES ASSUME Init PROVE RingInv
    OBVIOUS
  <2>1. /\ capAt = "off" /\ at = "loading"
        /\ lane = [l \in Lane |-> "none"] /\ ring = [l \in Lane |-> EmptyRing]
        /\ stored = [l \in Lane |-> 0] /\ visited = [l \in Lane |-> <<>>]
    BY DEF Init, CaptureInit
  <2>2. EmptyRing \in RingType
    BY GoodEmpty DEF GoodRing
  <2> QED
    BY <2>1, <2>2 DEF RingInv
<1>2. RingInv /\ [Next]_agentVars => RingInv'
  <2> SUFFICES ASSUME RingInv, [Next]_agentVars PROVE RingInv'
    OBVIOUS
  <2>1. CASE \/ MainThread \/ BuildRuntimeFails \/ BindFails \/ SpawnCaptureFails
             \/ RunFails \/ Signal \/ UNCHANGED agentVars
             \/ \E e \in Exporter : Exports(e) \/ SpawnExporterFails(e)
             \/ Gate \/ AcceptLoop \/ Clients \/ QuickClient
    BY <2>1, MainRingQuiet, RingStays
  <2>2. CASE CaptureThread \/ Kernel \/ Faults \/ \E l \in Lanes : LaneThread(l)
    <3>0. UNCHANGED at
      BY <2>2 DEF CaptureThread, Kernel, Faults, LaneThread, mainVars
    <3>1. CASE \/ PinFails \/ OpenStream \/ AllSpawned \/ Abort \/ FirstDone \/ JoinLanes
               \/ SendBlocking \/ StreamStops(shutdown) \/ ReadFile(shutdown) \/ StreamFails
               \/ EbpfRecord(shutdown)
      BY <3>0, <3>1, CaptureRingQuiet, RingStays
    <3>2. CASE OpenFails
      BY <3>0, <3>2, OpenFailsRing
    <3>3. CASE JoinLane \/ SpawnLane \/ SpawnFails
      BY <3>0, <3>3, JoinLaneRing
    <3>4. ASSUME NEW l \in Lanes, NEW n \in 1 .. MaxBlock, RetireBlock(l, n)
          PROVE  RingInv'
      BY <3>0, <3>4, RetireBlockRing, LanesAreLane
    <3>5. ASSUME NEW l \in Lanes, VisitPacket(l, shutdown) PROVE RingInv'
      BY <3>0, <3>5, VisitPacketRing, LanesAreLane
    <3>6. ASSUME NEW l \in Lanes, StopLane(l, shutdown) \/ LaneFails(l) PROVE RingInv'
      BY <3>0, <3>6, StopLaneRing, LanesAreLane
    <3> QED
      BY <2>2, <3>1, <3>2, <3>3, <3>4, <3>5, <3>6, Zenon
      DEF CaptureThread, Kernel, Faults, LaneThread
  <2> QED
    BY <2>1, <2>2, Zenon DEF Next
<1> QED
  BY <1>1, <1>2, PTL DEF Spec

(* The packets of a ring are visited in order, without gap or repetition,  *)
(* for every number of blocks and every interleaving of the kernel's       *)
(* handing over and the lane's visits, with lanes joining, ending, failing *)
(* and a source falling back around them.                                  *)
THEOREM AgentRingInOrder == Spec => []RingInOrder
<1>1. RingInv => RingInOrder
  <2> SUFFICES ASSUME RingInv, NEW l \in Lanes, lane[l] = "running"
               PROVE  visited[l] \o Unvisited(l) = [i \in 1 .. stored[l] |-> i]
    BY DEF RingInOrder
  <2>1. GoodRing(ring[l], stored[l], visited[l])
    BY LanesAreLane DEF RingInv
  <2> QED
    BY <2>1, GoodOrder
<1> QED
  BY <1>1, RingInvariant, PTL

(***************************************************************************)
(* The newest windows.                                                     *)
(***************************************************************************)
Estimate == [query : Query, end : Nat, series : Series]

(* The estimates of the window of q that ends at w, and of the w-th windows*)
(* of all queries: there are none before the first.                        *)
Full(q, w) == {[query |-> q, end |-> w, series |-> s] : s \in Series}

Newest(w) == [q \in Query |-> IF w = 0 THEN {} ELSE Full(q, w)]

(***************************************************************************)
(* Capture and the end of it: every accepted event is processed or in the  *)
(* channel; a source that is no AF_PACKET ring has no lanes, and capture   *)
(* ends after its lanes; a runtime that finishes, or has ended well, has   *)
(* emptied the channel after the last sender.                              *)
(***************************************************************************)
CaptureInv ==
  /\ chan \in Nat /\ processed \in Nat /\ accepted = processed + chan
  /\ capAt \in {"reading", "sending"} => source \notin AfPacket
  /\ capAt \in {"off", "start"} /\ source # "fanout" => \A l \in Lanes : lane[l] = "none"
  /\ CaptureEnded => \A l \in Lanes : lane[l] \notin {"joined", "running"}
  /\ sourceDone \/ at = "exporting" => CaptureEnded /\ chan = 0
  /\ sourceDone => at \notin Booting \cup {"running"}

(***************************************************************************)
(* The exporters: what is published is the newest window of every query as *)
(* a whole, what a thread holds for posting is a whole window later than   *)
(* the last one exported, and the log of the posts is in order.            *)
(***************************************************************************)
Item == Estimate \cup Nat

ThreadType ==
  [at : {"off", "waiting", "reading", "posting", "ended"}, stopping : BOOLEAN,
   picked : SUBSET Item, attempt : Nat]

OfQuery(set, q) == {x \in set : x.query = q}

(* Nothing of query q, or one whole window after `low' and up to `high'. *)
OneWindow(set, q, low, high) ==
  \/ OfQuery(set, q) = {}
  \/ \E w \in low + 1 .. high : OfQuery(set, q) = Full(q, w)

ExportInv ==
  /\ windows \in Nat /\ snapshots \in Nat /\ services \in BOOLEAN
  /\ thread \in [Exporter -> ThreadType] /\ tried \in [Exporter -> SUBSET Item]
  /\ exported \in [Exporter -> Seq(SUBSET Item)] /\ lastEnd \in [Query -> Nat]
  /\ estimates = Newest(windows)
  /\ \A q \in Query : lastEnd[q] <= windows
  /\ thread["otlp"].at = "posting" =>
       \A q \in Query : OneWindow(thread["otlp"].picked, q, lastEnd[q], windows)
  /\ \A i \in DOMAIN exported["otlp"] : \A q \in Query :
       OneWindow(exported["otlp"][i], q, 0, lastEnd[q])
  /\ \A i \in DOMAIN exported["otlp"] : \A j \in 1 .. i - 1 : \A q \in Query :
       OfQuery(exported["otlp"][i], q) # {} /\ OfQuery(exported["otlp"][j], q) # {} =>
         EndOf(OfQuery(exported["otlp"][j], q)) < EndOf(OfQuery(exported["otlp"][i], q))

(* Exporter e has read for the last time. *)
LastRead(e) ==
  \/ thread[e].at = "ended"
  \/ thread[e].at = "posting" /\ thread[e].stopping

(* The exporters are told to stop after the runtime has published for the  *)
(* last time, so that one that has read for the last time has tried the    *)
(* final state, or exported it before; and every exporter that was         *)
(* configured is one that started.                                         *)
FinalInv ==
  /\ setup.exporters \subseteq Exporter
  /\ services => at \in {"stopHttp", "stopExporters", "done"}
  /\ \A e \in Exporter : thread[e].stopping \/ thread[e].at = "ended" => services
  /\ LastRead("otlp") =>
       \A q \in Query : estimates[q] \subseteq tried["otlp"] \/ windows <= lastEnd[q]
  /\ LastRead("gateway") /\ snapshots # 0 => tried["gateway"] = {snapshots}
  /\ sourceDone \/ at \in {"spawning", "running", "exporting", "joining", "serving", "stopping"} =>
       /\ \A e \in setup.exporters : thread[e].at # "off"
       /\ "gateway" \in setup.exporters => gate # "none"
  /\ sourceDone =>
       /\ at \in {"joining", "serving", "stopping", "stopHttp", "stopExporters", "done"}
       /\ "gateway" \in setup.exporters => exportLost \/ snapshots = processed
       /\ at = "done" => \A e \in Exporter : thread[e].at \in {"off", "ended"}

(* Quotient and remainder. *)
LEMMA QuotientIs ==
  ASSUME NEW x \in Nat, NEW b \in Nat \ {0}, NEW r \in Nat, r < b
  PROVE  (x * b + r) \div b = x /\ (x * b + r) % b = r
<1> DEFINE a == x * b + r
<1>1. a \in Nat
  OBVIOUS
<1>2. a = x * b + r
  OBVIOUS
<1> HIDE DEF a
<1>3. /\ a \div b \in Nat /\ a % b \in Nat /\ a % b < b
      /\ a = b * (a \div b) + (a % b)
  BY <1>1
<1> DEFINE y == a \div b  t == a % b
<1>4. y \in Nat /\ t \in Nat /\ t < b /\ a = b * y + t
  BY <1>3
<1> HIDE DEF y, t
<1>5. ASSUME y < x PROVE FALSE
  <2>1. y + 1 <= x
    BY <1>4, <1>5
  <2>2. b * (y + 1) <= b * x
    BY <1>4, <2>1
  <2>3. b * (y + 1) = b * y + b /\ b * x = x * b /\ b * y \in Nat /\ x * b \in Nat
    BY <1>4
  <2> QED
    BY <1>2, <1>4, <2>2, <2>3
<1>6. ASSUME x < y PROVE FALSE
  <2>1. x + 1 <= y
    BY <1>4, <1>6
  <2>2. b * (x + 1) <= b * y
    BY <1>4, <2>1
  <2>3. b * (x + 1) = b * x + b /\ b * x = x * b /\ b * y \in Nat /\ x * b \in Nat
    BY <1>4
  <2> QED
    BY <1>2, <1>4, <2>2, <2>3
<1>7. y = x
  BY <1>4, <1>5, <1>6
<1>8. t = r
  <2>1. b * y = x * b /\ x * b \in Nat
    BY <1>4, <1>7
  <2> QED
    BY <1>2, <1>4, <2>1
<1> QED
  BY <1>7, <1>8 DEF a, y, t

(* A quotient grows with the number that is divided, and is below a factor *)
(* of a multiple above it.                                                 *)
LEMMA QuotientGrows ==
  ASSUME NEW a \in Nat, NEW c \in Nat, NEW b \in Nat \ {0}
  PROVE  /\ a <= c => a \div b <= c \div b
         /\ \A n \in Nat : a < n * b => a \div b < n
<1> DEFINE x == a \div b  y == c \div b
<1>1. /\ x \in Nat /\ x * b <= a /\ x * b \in Nat
      /\ y \in Nat /\ c < (y + 1) * b /\ (y + 1) * b \in Nat
  OBVIOUS
<1> HIDE DEF x, y
<1>2. ASSUME NEW n \in Nat, a < n * b PROVE x < n
  <2> SUFFICES ASSUME n <= x PROVE FALSE
    BY <1>1
  <2>1. n * b <= x * b /\ n * b \in Nat
    BY <1>1
  <2> QED
    BY <1>1, <1>2, <2>1
<1>3. ASSUME a <= c PROVE x <= y
  <2>1. a < (y + 1) * b /\ y + 1 \in Nat
    BY <1>1, <1>3
  <2>2. x < y + 1
    BY <1>2, <2>1
  <2> QED
    BY <1>1, <2>2
<1> QED
  BY <1>2, <1>3 DEF x, y

(* The end of a nonempty set of estimates is that of one of them. *)
LEMMA EndOfIs ==
  ASSUME NEW set, set # {}
  PROVE  \E x \in set : EndOf(set) = x.end
  BY DEF EndOf

(* What is held of each query after m of the estimates d: those of the     *)
(* latest end among them, or what was held before.                         *)
HeldAfter(f, m, d, base) ==
  \A q \in Query :
    \/ f[q] = base[q] /\ \A i \in 1 .. m : d[i].query # q
    \/ \E j \in 1 .. m :
         /\ d[j].query = q
         /\ \A i \in 1 .. m : d[i].query = q => d[i].end <= d[j].end
         /\ f[q] = {d[i] : i \in {k \in 1 .. m : d[k].query = q /\ d[k].end = d[j].end}}

(* One more. *)
LEMMA HeldStep ==
  ASSUME NEW n \in Nat, NEW d \in [1 .. n -> Estimate], NEW base \in [Query -> SUBSET Estimate],
         \A i \in 1 .. n : \A j \in 1 .. i : d[j].end <= d[i].end,
         \A q \in Query : \A x \in base[q] : \A i \in 1 .. n : x.end < d[i].end,
         NEW m \in 1 .. n, NEW f \in [Query -> SUBSET Estimate],
         HeldAfter(f, m - 1, d, base)
  PROVE  /\ PublishOne(f, d[m]) \in [Query -> SUBSET Estimate]
         /\ HeldAfter(PublishOne(f, d[m]), m, d, base)
<1> DEFINE e == d[m]  p == e.query  held == f[p]
           new == IF held = {} THEN {e}
                  ELSE IF EndOf(held) < e.end THEN {e}
                  ELSE IF EndOf(held) = e.end THEN held \cup {e}
                  ELSE held
           g == PublishOne(f, d[m])
<1>1. e \in Estimate /\ p \in Query /\ e.end \in Nat
  BY DEF Estimate
<1>2. g = [f EXCEPT ![p] = new]
  BY Zenon DEF PublishOne
<1>3. held \in SUBSET Estimate /\ new \in SUBSET Estimate
  BY <1>1
<1>4. /\ g \in [Query -> SUBSET Estimate] /\ g[p] = new
      /\ \A q \in Query : q # p => g[q] = f[q]
  BY <1>1, <1>2, <1>3
<1> HIDE DEF g
<1>5. \A i \in 1 .. m : i \in 1 .. n /\ (i = m \/ i \in 1 .. m - 1)
  OBVIOUS
<1>6. m \in 1 .. m /\ \A i \in 1 .. m - 1 : i \in 1 .. m /\ i \in 1 .. n
  OBVIOUS
<1>7. ASSUME NEW q \in Query, q # p
      PROVE  \/ g[q] = base[q] /\ \A i \in 1 .. m : d[i].query # q
             \/ \E j \in 1 .. m :
                  /\ d[j].query = q
                  /\ \A i \in 1 .. m : d[i].query = q => d[i].end <= d[j].end
                  /\ g[q] = {d[i] : i \in {k \in 1 .. m : d[k].query = q /\ d[k].end = d[j].end}}
  <2>1. CASE f[q] = base[q] /\ \A i \in 1 .. m - 1 : d[i].query # q
    BY <1>4, <1>5, <1>7, <2>1
  <2>2. ASSUME NEW j \in 1 .. m - 1, d[j].query = q,
               \A i \in 1 .. m - 1 : d[i].query = q => d[i].end <= d[j].end,
               f[q] = {d[i] : i \in {k \in 1 .. m - 1 : d[k].query = q /\ d[k].end = d[j].end}}
        PROVE  /\ j \in 1 .. m
               /\ \A i \in 1 .. m : d[i].query = q => d[i].end <= d[j].end
               /\ g[q] = {d[i] : i \in {k \in 1 .. m : d[k].query = q /\ d[k].end = d[j].end}}
    <3>1. d[m].query # q
      BY <1>7
    <3>2. {k \in 1 .. m - 1 : d[k].query = q /\ d[k].end = d[j].end}
            = {k \in 1 .. m : d[k].query = q /\ d[k].end = d[j].end}
      BY <1>5, <1>6, <3>1
    <3>3. \A i \in 1 .. m : d[i].query = q => d[i].end <= d[j].end
      BY <1>5, <2>2, <3>1
    <3> QED
      BY <1>4, <1>6, <1>7, <2>2, <3>2, <3>3
  <2>3. \/ f[q] = base[q] /\ \A i \in 1 .. m - 1 : d[i].query # q
        \/ \E j \in 1 .. m - 1 :
             /\ d[j].query = q
             /\ \A i \in 1 .. m - 1 : d[i].query = q => d[i].end <= d[j].end
             /\ f[q] = {d[i] : i \in {k \in 1 .. m - 1 : d[k].query = q /\ d[k].end = d[j].end}}
    BY DEF HeldAfter
  <2>4. CASE \E j \in 1 .. m - 1 :
             /\ d[j].query = q
             /\ \A i \in 1 .. m - 1 : d[i].query = q => d[i].end <= d[j].end
             /\ f[q] = {d[i] : i \in {k \in 1 .. m - 1 : d[k].query = q /\ d[k].end = d[j].end}}
    <3>1. PICK j \in 1 .. m - 1 :
             /\ d[j].query = q
             /\ \A i \in 1 .. m - 1 : d[i].query = q => d[i].end <= d[j].end
             /\ f[q] = {d[i] : i \in {k \in 1 .. m - 1 : d[k].query = q /\ d[k].end = d[j].end}}
      BY <2>4
    <3>2. /\ j \in 1 .. m
          /\ \A i \in 1 .. m : d[i].query = q => d[i].end <= d[j].end
          /\ g[q] = {d[i] : i \in {k \in 1 .. m : d[k].query = q /\ d[k].end = d[j].end}}
      BY <2>2, <3>1, Zenon
    <3> QED
      BY <3>1, <3>2
  <2> QED
    BY <2>1, <2>3, <2>4
<1>8. /\ \A i \in 1 .. m : d[i].query = p => d[i].end <= d[m].end
      /\ new = {d[i] : i \in {k \in 1 .. m : d[k].query = p /\ d[k].end = d[m].end}}
  <2>0. \A i \in 1 .. m : d[i].end <= d[m].end
    OBVIOUS
  <2> DEFINE K == {k \in 1 .. m : d[k].query = p /\ d[k].end = d[m].end}
  <2>1. m \in K
    BY <1>6
  <2>2. ASSUME f[p] = base[p], \A i \in 1 .. m - 1 : d[i].query # p
        PROVE  new = {d[i] : i \in K}
    <3>1. K = {m}
      BY <1>5, <2>1, <2>2
    <3>2. new = {e}
      <4>1. CASE held = {}
        BY <4>1
      <4>2. CASE held # {}
        <5>1. PICK x \in held : EndOf(held) = x.end
          BY <4>2, EndOfIs
        <5>2. x.end < e.end
          BY <1>1, <2>2, <5>1
        <5> QED
          BY <4>2, <5>1, <5>2
      <4> QED
        BY <4>1, <4>2
    <3> HIDE DEF K, new
    <3> QED
      BY <3>1, <3>2
  <2>3. ASSUME NEW j \in 1 .. m - 1, d[j].query = p,
               \A i \in 1 .. m - 1 : d[i].query = p => d[i].end <= d[j].end,
               f[p] = {d[i] : i \in {k \in 1 .. m - 1 : d[k].query = p /\ d[k].end = d[j].end}}
        PROVE  new = {d[i] : i \in K}
    <3> DEFINE J == {k \in 1 .. m - 1 : d[k].query = p /\ d[k].end = d[j].end}
    <3>1. j \in J /\ held = {d[i] : i \in J}
      BY <2>3
    <3>2. held # {} /\ \A x \in held : x.end = d[j].end
      BY <3>1
    <3>3. EndOf(held) = d[j].end
      BY <3>2, EndOfIs
    <3>4. d[j].end \in Nat /\ d[j].end <= e.end
      BY <1>1, <1>6, <2>0 DEF Estimate
    <3>5. \A i \in 1 .. m - 1 : d[i].end \in Nat
      BY <1>6 DEF Estimate
    <3>6. CASE d[j].end < e.end
      <4>1. K = {m}
        <5>1. ASSUME NEW k \in K PROVE k = m
          <6> SUFFICES ASSUME k # m PROVE FALSE
            OBVIOUS
          <6>1. k \in 1 .. m - 1 /\ d[k].query = p /\ d[k].end = e.end
            BY <1>5, <5>1
          <6> QED
            BY <1>1, <2>3, <3>4, <3>5, <3>6, <6>1
        <5> QED
          BY <2>1, <5>1
      <4>2. new = {e}
        BY <3>2, <3>3, <3>6
      <4> HIDE DEF K, new
      <4> QED
        BY <4>1, <4>2
    <3>7. CASE d[j].end = e.end
      <4>1. K = J \cup {m}
        BY <1>5, <1>6, <3>7
      <4>2. new = held \cup {e}
        BY <1>1, <3>2, <3>3, <3>7
      <4> HIDE DEF K, J, new, held
      <4> QED
        BY <3>1, <4>1, <4>2
    <3>8. d[j].end < e.end \/ d[j].end = e.end
      BY <1>1, <3>4
    <3> HIDE DEF K, J, new, held, e
    <3> QED
      BY <3>6, <3>7, <3>8
  <2> HIDE DEF K, new
  <2>4. new = {d[i] : i \in K}
    BY <1>1, <2>2, <2>3 DEF HeldAfter
  <2> QED
    BY <2>0, <2>4 DEF K
<1>9. HeldAfter(g, m, d, base)
  <2> SUFFICES ASSUME NEW q \in Query
               PROVE  \/ g[q] = base[q] /\ \A i \in 1 .. m : d[i].query # q
                      \/ \E j \in 1 .. m :
                           /\ d[j].query = q
                           /\ \A i \in 1 .. m : d[i].query = q => d[i].end <= d[j].end
                           /\ g[q] = {d[i] : i \in {k \in 1 .. m :
                                        d[k].query = q /\ d[k].end = d[j].end}}
    BY DEF HeldAfter
  <2>1. CASE q # p
    BY <1>7, <2>1
  <2>2. CASE q = p
    <3> HIDE DEF new
    <3>1. /\ d[m].query = q
          /\ \A i \in 1 .. m : d[i].query = q => d[i].end <= d[m].end
          /\ g[q] = {d[i] : i \in {k \in 1 .. m : d[k].query = q /\ d[k].end = d[m].end}}
      BY <1>4, <1>8, <2>2
    <3> QED
      BY <1>6, <3>1
  <2> QED
    BY <2>1, <2>2
<1> QED
  BY <1>4, <1>9 DEF g

(* All of a drained sequence, under one lock. *)
LEMMA PublishedFold ==
  ASSUME NEW n \in Nat, NEW d \in [1 .. n -> Estimate], estimates \in [Query -> SUBSET Estimate],
         \A i \in 1 .. n : \A j \in 1 .. i : d[j].end <= d[i].end,
         \A q \in Query : \A x \in estimates[q] : \A i \in 1 .. n : x.end < d[i].end
  PROVE  /\ PublishEstimates(d) \in [Query -> SUBSET Estimate]
         /\ HeldAfter(PublishEstimates(d), n, d, estimates)
<1> DEFINE V == [Query -> SUBSET Estimate]
           Eq(g) == g = [t \in SUBSET DOMAIN d |->
                           IF t = {} THEN estimates
                           ELSE PublishOne(g[t \ {Max(t)}], d[Max(t)])]
           G == CHOOSE g : Eq(g)
           st == [x \in V \X (1 .. n) |-> PublishOne(x[1], d[x[2]])]
<1>1. PublishEstimates(d) = G[DOMAIN d]
  BY Zenon DEF PublishEstimates, FoldLeft, MapThenFoldSet
<1>2. DOMAIN d = 1 .. n /\ \A i \in 1 .. n : d[i] \in Estimate
  OBVIOUS
<1>3. \A f \in V, i \in 1 .. n : PublishOne(f, d[i]) \in V
  <2> SUFFICES ASSUME NEW f \in V, NEW i \in 1 .. n PROVE PublishOne(f, d[i]) \in V
    OBVIOUS
  <2>1. d[i].query \in Query /\ d[i] \in Estimate
    BY <1>2 DEF Estimate
  <2> DEFINE held == f[d[i].query]
             new == IF held = {} THEN {d[i]}
                    ELSE IF EndOf(held) < d[i].end THEN {d[i]}
                    ELSE IF EndOf(held) = d[i].end THEN held \cup {d[i]}
                    ELSE held
  <2>2. PublishOne(f, d[i]) = [f EXCEPT ![d[i].query] = new]
    BY Zenon DEF PublishOne
  <2>3. held \in SUBSET Estimate /\ new \in SUBSET Estimate
    BY <2>1
  <2> HIDE DEF new
  <2> QED
    BY <2>1, <2>2, <2>3
<1> HIDE DEF V
<1>4. /\ st \in [V \X (1 .. n) -> V]
      /\ \A f \in V, i \in 1 .. n : st[<<f, i>>] = PublishOne(f, d[i])
  BY <1>3
<1>5. estimates \in V
  BY DEF V
<1>6. \E g : Eq(g) /\ g \in [SUBSET (1 .. n) -> V]
  <2> HIDE DEF st
  <2>1. PICK g \in [SUBSET (1 .. n) -> V] : IsTable(g, n, estimates, st)
    BY <1>4, <1>5, TableExists
  <2>2. ASSUME NEW t \in SUBSET (1 .. n)
        PROVE  g[t] = IF t = {} THEN estimates ELSE PublishOne(g[t \ {Max(t)}], d[Max(t)])
    <3>1. g[t] = IF t = {} THEN estimates ELSE st[<<g[t \ {Max(t)}], Max(t)>>]
      BY <2>1 DEF IsTable
    <3>2. t # {} => Max(t) \in 1 .. n
      BY MaxIn
    <3>3. t \ {Max(t)} \in SUBSET (1 .. n)
      OBVIOUS
    <3>4. g[t \ {Max(t)}] \in V
      BY <2>1, <3>3
    <3>5. CASE t = {}
      BY <3>1, <3>5
    <3>6. CASE t # {}
      <4>1. st[<<g[t \ {Max(t)}], Max(t)>>] = PublishOne(g[t \ {Max(t)}], d[Max(t)])
        BY <1>4, <3>2, <3>4, <3>6
      <4> QED
        BY <3>1, <3>6, <4>1
    <3> QED
      BY <3>5, <3>6
  <2>3. Eq(g)
    <3>1. g = [t \in SUBSET (1 .. n) |-> g[t]]
      BY <2>1
    <3>2. [t \in SUBSET (1 .. n) |-> g[t]]
            = [t \in SUBSET (1 .. n) |->
                 IF t = {} THEN estimates ELSE PublishOne(g[t \ {Max(t)}], d[Max(t)])]
      BY <2>2
    <3> QED
      BY <1>2, <3>1, <3>2, Zenon
  <2> HIDE DEF Eq
  <2> QED
    BY <2>1, <2>3
<1>7. Eq(G)
  <2> HIDE DEF Eq
  <2> QED
    BY <1>6
<1>8. \A t \in SUBSET (1 .. n) :
        G[t] = IF t = {} THEN estimates ELSE PublishOne(G[t \ {Max(t)}], d[Max(t)])
  <2> HIDE DEF G
  <2> QED
    BY <1>2, <1>7, Zenon
<1> HIDE DEF G, Eq, st
<1> DEFINE P == {m \in 0 .. n : G[1 .. m] \in V /\ HeldAfter(G[1 .. m], m, d, estimates)}
<1>9. 0 \in P
  <2>1. 1 .. 0 = {} /\ {} \in SUBSET (1 .. n) /\ 0 \in 0 .. n /\ \A i \in 1 .. 0 : FALSE
    OBVIOUS
  <2>2. G[1 .. 0] = estimates
    BY <1>8, <2>1
  <2>3. HeldAfter(estimates, 0, d, estimates)
    BY <2>1 DEF HeldAfter
  <2> QED
    BY <1>5, <2>1, <2>2, <2>3
<1>10. ASSUME NEW m \in 1 .. n, m - 1 \in P PROVE m \in P
  <2>1. /\ 1 .. m \in SUBSET (1 .. n) /\ m \in 1 .. m /\ 1 .. m # {} /\ m \in Nat \ {0}
        /\ (1 .. m) \ {m} = 1 .. m - 1 /\ m \in 0 .. n
    OBVIOUS
  <2>2. Max(1 .. m) = m
    BY <2>1, MaxOfInitial
  <2>3. G[1 .. m] = PublishOne(G[1 .. m - 1], d[m])
    BY <1>8, <2>1, <2>2
  <2> DEFINE f == G[1 .. m - 1]
  <2>4. f \in [Query -> SUBSET Estimate] /\ HeldAfter(f, m - 1, d, estimates)
    BY <1>10 DEF V
  <2> HIDE DEF f
  <2>5. /\ PublishOne(f, d[m]) \in [Query -> SUBSET Estimate]
        /\ HeldAfter(PublishOne(f, d[m]), m, d, estimates)
    BY <2>4, HeldStep
  <2> QED
    BY <2>1, <2>3, <2>5, Zenon DEF f, V
<1> HIDE DEF P
<1>11. n \in 0 .. n
  OBVIOUS
<1>12. \A m \in 0 .. n : m \in P
  BY <1>9, <1>10, UpTo
<1> QED
  BY <1>1, <1>2, <1>11, <1>12 DEF P, V

(* The windows the runtime drains: every query and every series of n ends. *)
LEMMA WindowsFacts ==
  ASSUME windows \in Nat, NEW n \in Nat
  PROVE  LET per == QueryCount * SeriesCount
             d   == Windows(n)
         IN  /\ per \in Nat \ {0} /\ n * per \in Nat
             /\ d \in [1 .. n * per -> Estimate]
             /\ \A i \in 1 .. n * per :
                  d[i].end > windows /\ d[i].end <= windows + n
             /\ \A i \in 1 .. n * per : \A j \in 1 .. i : d[j].end <= d[i].end
             /\ n > 0 => \A q \in Query, s \in Series :
                  \E i \in 1 .. n * per :
                    d[i] = [query |-> q, end |-> windows + n, series |-> s]
<1> DEFINE per == QueryCount * SeriesCount
           d == Windows(n)
           Q == QueryCount
           S == SeriesCount
<1>1. Q \in Nat \ {0} /\ S \in Nat \ {0}
  BY PublishedAssumption
<1>2. per \in Nat \ {0} /\ n * per \in Nat
  <2>1. per \in Nat /\ per # 0
    BY <1>1
  <2> HIDE DEF per
  <2> QED
    BY <2>1
<1>3. d = [i \in 1 .. n * per |->
             [query  |-> ((i - 1) % Q) + 1,
              end    |-> windows + ((i - 1) \div per) + 1,
              series |-> (((i - 1) \div Q) % S) + 1]]
  BY Zenon DEF Windows
<1> DEFINE N == n * per
<1> HIDE DEF per, Q, S, d, N
<1>4. N \in Nat /\ DOMAIN d = 1 .. N
  BY <1>2, <1>3 DEF N
<1>5. \A i \in 1 .. N : d[i] = [query  |-> ((i - 1) % Q) + 1,
                                end    |-> windows + ((i - 1) \div per) + 1,
                                series |-> (((i - 1) \div Q) % S) + 1]
  BY <1>3 DEF N
<1>6. \A a \in Nat : /\ a % Q \in Nat /\ a % Q < Q /\ a \div per \in Nat
                     /\ (a \div Q) % S \in Nat /\ (a \div Q) % S < S
  BY <1>1, <1>2
<1>7. \A i \in 1 .. N : i - 1 \in Nat
  BY <1>4
<1>8. ASSUME NEW i \in 1 .. N
      PROVE  d[i] \in Estimate /\ d[i].end = windows + ((i - 1) \div per) + 1
  <2> DEFINE x == (i - 1) % Q  y == (i - 1) \div per  z == ((i - 1) \div Q) % S
  <2>1. x \in Nat /\ x < Q /\ y \in Nat /\ z \in Nat /\ z < S
    BY <1>6, <1>7
  <2>2. d[i] = [query |-> x + 1, end |-> windows + y + 1, series |-> z + 1]
    BY <1>5
  <2> HIDE DEF x, y, z
  <2>3. x + 1 \in 1 .. Q /\ windows + y + 1 \in Nat /\ z + 1 \in 1 .. S
    BY <1>1, <2>1
  <2>4. d[i] \in Estimate
    BY <2>2, <2>3 DEF Estimate, Query, Series, Q, S
  <2> QED
    BY <2>2, <2>4 DEF y
<1>9. d \in [1 .. N -> Estimate]
  <2>1. d = [i \in 1 .. N |-> d[i]]
    BY <1>3 DEF N
  <2> QED
    BY <1>8, <2>1
<1>10. ASSUME NEW i \in 1 .. N
       PROVE  d[i].end > windows /\ d[i].end <= windows + n
  <2> DEFINE y == (i - 1) \div per
  <2>1. i - 1 \in Nat /\ i - 1 < n * per
    BY <1>4 DEF N
  <2>2. y \in Nat /\ y < n
    BY <1>2, <1>6, <2>1, QuotientGrows
  <2>3. d[i].end = windows + y + 1
    BY <1>8
  <2> HIDE DEF y
  <2> QED
    BY <2>2, <2>3
<1>11. ASSUME NEW i \in 1 .. N, NEW j \in 1 .. i
       PROVE  d[j].end <= d[i].end
  <2>1. j \in 1 .. N /\ i - 1 \in Nat /\ j - 1 \in Nat /\ j - 1 <= i - 1
    BY <1>4
  <2> DEFINE y == (i - 1) \div per  x == (j - 1) \div per
  <2>2. x <= y /\ x \in Nat /\ y \in Nat
    BY <1>2, <1>6, <2>1, QuotientGrows
  <2>3. d[i].end = windows + y + 1 /\ d[j].end = windows + x + 1
    BY <1>8, <2>1
  <2> HIDE DEF x, y
  <2> QED
    BY <2>2, <2>3
<1>12. ASSUME n > 0, NEW q \in Query, NEW s \in Series
       PROVE  \E i \in 1 .. N : d[i] = [query |-> q, end |-> windows + n, series |-> s]
  <2>1. /\ q - 1 \in Nat /\ q - 1 < Q /\ s - 1 \in Nat /\ s - 1 < S
        /\ n - 1 \in Nat
    BY <1>1, <1>12 DEF Query, Series, Q, S
  <2> DEFINE x == q - 1  z == s - 1  m == n - 1
  <2>2. x \in Nat /\ x < Q /\ z \in Nat /\ z < S /\ m \in Nat
    BY <2>1
  <2>3. x + 1 = q /\ z + 1 = s /\ m + 1 = n
    BY <2>1 DEF Query, Series
  <2> HIDE DEF x, z, m
  <2> DEFINE row == m * S + z
             r == z * Q + x
             a == row * Q + x
  <2>4. row \in Nat /\ r \in Nat
    BY <1>1, <2>2
  <2>5. r < per
    <3>1. z + 1 <= S
      BY <1>1, <2>2
    <3>2. (z + 1) * Q <= S * Q
      BY <1>1, <2>2, <3>1
    <3>3. (z + 1) * Q = z * Q + Q /\ z * Q \in Nat /\ S * Q = Q * S
      BY <1>1, <2>2
    <3>4. Q * S = per /\ per \in Nat
      BY <1>2 DEF per, Q, S
    <3> QED
      BY <1>1, <2>2, <3>2, <3>3, <3>4
  <2>6. a = m * per + r
    <3>1. row * Q = (m * S) * Q + z * Q
      BY <1>1, <2>2
    <3>2. (m * S) * Q = m * (Q * S)
      BY <1>1, <2>2
    <3>3. Q * S = per
      BY DEF per, Q, S
    <3>4. m * per \in Nat /\ z * Q \in Nat
      BY <1>1, <1>2, <2>2
    <3> QED
      BY <2>2, <3>1, <3>2, <3>3, <3>4
  <2> HIDE DEF r
  <2>7. a \div per = m
    BY <1>2, <2>2, <2>4, <2>5, <2>6, QuotientIs
  <2>8. a \div Q = row /\ a % Q = x
    <3> HIDE DEF row
    <3> QED
      BY <1>1, <2>2, <2>4, QuotientIs
  <2>9. row % S = z
    BY <1>1, <2>2, QuotientIs
  <2> HIDE DEF row
  <2>10. a \in Nat
    BY <1>1, <2>2, <2>4
  <2>11. a < N
    <3>1. m * per + per = N /\ m * per \in Nat
      <4>1. (m + 1) * per = m * per + per /\ m * per \in Nat
        BY <1>2, <2>2
      <4> QED
        BY <2>3, <4>1 DEF N
    <3> QED
      BY <1>2, <2>4, <2>5, <2>6, <3>1
  <2> HIDE DEF a
  <2> DEFINE i == a + 1
  <2>12. i \in 1 .. N /\ i - 1 = a
    BY <1>4, <2>10, <2>11
  <2> HIDE DEF i
  <2>13. d[i] = [query |-> (a % Q) + 1, end |-> windows + (a \div per) + 1,
                 series |-> ((a \div Q) % S) + 1]
    BY <1>5, <2>12, Zenon
  <2>14. windows + m + 1 = windows + n
    BY <2>2, <2>3
  <2>15. d[i] = [query |-> q, end |-> windows + n, series |-> s]
    BY <2>3, <2>7, <2>8, <2>9, <2>13, <2>14
  <2> QED
    BY <2>12, <2>15
<1>13. /\ per \in Nat \ {0} /\ n * per \in Nat
       /\ d \in [1 .. n * per -> Estimate]
       /\ \A i \in 1 .. n * per :
            d[i].end > windows /\ d[i].end <= windows + n
       /\ \A i \in 1 .. n * per : \A j \in 1 .. i : d[j].end <= d[i].end
       /\ n > 0 => \A q \in Query, s \in Series :
            \E i \in 1 .. n * per :
              d[i] = [query |-> q, end |-> windows + n, series |-> s]
  BY <1>2, <1>9, <1>10, <1>11, <1>12, Zenon DEF N
<1> QED
  BY <1>13, Zenon DEF per, d

(* A window has series, and its end. *)
LEMMA FullFacts ==
  ASSUME NEW q \in Query, NEW w \in Nat
  PROVE  /\ Full(q, w) \in SUBSET Estimate /\ Full(q, w) # {} /\ EndOf(Full(q, w)) = w
         /\ \A x \in Full(q, w) : x.query = q /\ x.end = w
<1>1. SeriesCount \in Nat \ {0}
  BY PublishedAssumption
<1>2. 1 \in Series
  BY <1>1 DEF Series
<1>3. \A x \in Full(q, w) : x \in Estimate /\ x.query = q /\ x.end = w
  BY DEF Full, Estimate
<1>4. Full(q, w) # {}
  BY <1>2 DEF Full
<1>5. EndOf(Full(q, w)) = w
  BY <1>3, <1>4, EndOfIs
<1> QED
  BY <1>3, <1>4, <1>5

(* After n more windows of every query the newest are the last of them. *)
LEMMA PublishWindows ==
  ASSUME windows \in Nat, estimates = Newest(windows), NEW n \in Nat
  PROVE  PublishEstimates(Windows(n)) = Newest(windows + n)
<1> DEFINE per == QueryCount * SeriesCount
           N == n * per
           d == Windows(n)
           f == PublishEstimates(d)
<1>1. /\ N \in Nat /\ d \in [1 .. N -> Estimate]
      /\ \A i \in 1 .. N : d[i].end > windows /\ d[i].end <= windows + n
      /\ \A i \in 1 .. N : \A j \in 1 .. i : d[j].end <= d[i].end
      /\ n > 0 => \A q \in Query, s \in Series :
           \E i \in 1 .. N : d[i] = [query |-> q, end |-> windows + n, series |-> s]
      /\ per \in Nat
  BY WindowsFacts, Zenon
<1>2. \A q \in Query : estimates[q] = IF windows = 0 THEN {} ELSE Full(q, windows)
  BY DEF Newest
<1>3. \A q \in Query : estimates[q] \in SUBSET Estimate /\ \A x \in estimates[q] : x.end = windows
  BY <1>2, FullFacts
<1>4. estimates \in [Query -> SUBSET Estimate]
  BY <1>3 DEF Newest
<1> HIDE DEF N, per, d
<1>5. \A i \in 1 .. N : d[i] \in Estimate /\ d[i].end \in Nat /\ d[i].query \in Query
                        /\ d[i].series \in Series
  BY <1>1 DEF Estimate
<1>6. \A q \in Query : \A x \in estimates[q] : \A i \in 1 .. N : x.end < d[i].end
  BY <1>1, <1>3, <1>5
<1>7. f \in [Query -> SUBSET Estimate] /\ HeldAfter(f, N, d, estimates)
  BY <1>1, <1>4, <1>6, PublishedFold
<1> HIDE DEF f
<1>8. ASSUME NEW q \in Query
      PROVE  f[q] = IF windows + n = 0 THEN {} ELSE Full(q, windows + n)
  <2>1. CASE n = 0
    <3>1. N = 0
      BY <1>1, <2>1 DEF N
    <3>2. f[q] = estimates[q]
      BY <1>7, <3>1 DEF HeldAfter
    <3>3. windows + n = windows
      BY <2>1
    <3> QED
      BY <1>2, <3>2, <3>3
  <2>2. CASE n > 0
    <3> DEFINE w == windows + n
    <3>0. w \in Nat /\ w # 0
      BY <2>2
    <3> HIDE DEF w
    <3>1. \A s \in Series : \E i \in 1 .. N : d[i] = [query |-> q, end |-> w, series |-> s]
      BY <1>1, <2>2 DEF w
    <3>2. PICK i1 \in 1 .. N : d[i1].query = q /\ d[i1].end = w
      <4>1. SeriesCount \in Nat \ {0}
        BY PublishedAssumption
      <4>2. 1 \in Series
        BY <4>1 DEF Series
      <4>3. PICK i \in 1 .. N : d[i] = [query |-> q, end |-> w, series |-> 1]
        BY <3>1, <4>2
      <4> QED
        BY <4>3
    <3>3. PICK j \in 1 .. N :
            /\ d[j].query = q
            /\ \A i \in 1 .. N : d[i].query = q => d[i].end <= d[j].end
            /\ f[q] = {d[i] : i \in {k \in 1 .. N : d[k].query = q /\ d[k].end = d[j].end}}
      BY <1>7, <3>2 DEF HeldAfter
    <3>4. d[j].end = w
      <4>1. d[j].end <= w /\ w <= d[j].end /\ d[j].end \in Nat
        BY <1>1, <1>5, <3>2, <3>3 DEF w
      <4> QED
        BY <3>0, <4>1
    <3>5. f[q] = {d[i] : i \in {k \in 1 .. N : d[k].query = q /\ d[k].end = w}}
      BY <3>3, <3>4
    <3>6. ASSUME NEW x \in f[q] PROVE x \in Full(q, w)
      <4>1. PICK i \in 1 .. N : x = d[i] /\ d[i].query = q /\ d[i].end = w
        BY <3>5, <3>6
      <4>2. d[i] = [query |-> q, end |-> w, series |-> d[i].series]
        BY <1>5, <4>1 DEF Estimate
      <4> QED
        BY <1>5, <4>1, <4>2 DEF Full
    <3>7. ASSUME NEW x \in Full(q, w) PROVE x \in f[q]
      <4>1. PICK s \in Series : x = [query |-> q, end |-> w, series |-> s]
        BY <3>7 DEF Full
      <4>2. PICK i \in 1 .. N : d[i] = x
        BY <3>1, <4>1
      <4>3. d[i].query = q /\ d[i].end = w
        BY <4>1, <4>2
      <4> QED
        BY <3>5, <4>2, <4>3
    <3>8. f[q] = Full(q, w)
      BY <3>6, <3>7
    <3> QED
      BY <3>0, <3>8 DEF w
  <2> QED
    BY <2>1, <2>2
<1>9. f = Newest(windows + n)
  BY <1>7, <1>8 DEF Newest
<1> QED
  BY <1>9 DEF f, d

(***************************************************************************)
(* Events: what was accepted is processed or in the channel, and nothing   *)
(* is offered once capture has ended.                                      *)
(***************************************************************************)

(* The steps that leave events and lanes alone. *)
CaptureQuiet ==
  /\ UNCHANGED <<chan, processed, accepted, capAt, source, lane>>
  /\ sourceDone' => sourceDone /\ (at' \in Booting \cup {"running"} => at \in Booting \cup {"running"})
  /\ at' = "exporting" => at = "exporting"

(* They keep the invariant. *)
LEMMA CaptureStays ==
  ASSUME CaptureInv, CaptureQuiet
  PROVE  CaptureInv'
  BY DEF CaptureInv, CaptureQuiet, CaptureEnded, Lanes

(* Those of the main thread, of the exporters and of the HTTP server. *)
LEMMA MainCapture ==
  ASSUME CaptureInv, RingInv,
         \/ MainThread \/ BuildRuntimeFails \/ BindFails \/ SpawnCaptureFails
         \/ RunFails \/ Signal \/ UNCHANGED agentVars
         \/ \E e \in Exporter : Exports(e) \/ SpawnExporterFails(e)
         \/ Gate \/ AcceptLoop \/ Clients \/ QuickClient
  PROVE  CaptureInv'
<1>1. CASE UNCHANGED agentVars
  <2>1. CaptureQuiet
    BY <1>1 DEF CaptureQuiet, agentVars, captureVars, mainVars, Booting
  <2> QED
    BY <2>1, CaptureStays
<1>2. CASE \/ LoadPlans \/ LoadPlansFails \/ BuildRuntime \/ BuildRuntimeFails \/ Bind
           \/ BindFails \/ SpawnCaptureFails
  <2>1. CaptureQuiet
    BY <1>2 DEF CaptureQuiet, captureVars, mainVars, Booting, LoadPlans, LoadPlansFails,
                BuildRuntime, BuildRuntimeFails, Bind, BindFails, SpawnCaptureFails
  <2> QED
    BY <2>1, CaptureStays
<1>3. CASE SpawnCapture
  <2>1. /\ capAt = "off" /\ capAt' = "start" /\ at = "spawning" /\ at' = "running"
        /\ UNCHANGED <<chan, processed, accepted, source, lane, sourceDone>>
    BY <1>3 DEF SpawnCapture, traffic, RingInv, Booting
  <2> QED
    BY <2>1 DEF CaptureInv, CaptureEnded, Lanes, Booting
<1>4. CASE Run
  <2>1. /\ UNCHANGED <<capAt, source, lane, sourceDone, at, accepted>> /\ at = "running"
    BY <1>4 DEF Run, mainVars
  <2>2. PICK n \in 0 .. chan : chan' = chan - n /\ processed' = processed + n
    BY <1>4 DEF Run
  <2>3. /\ chan' \in Nat /\ processed' \in Nat /\ accepted' = processed' + chan' /\ ~sourceDone
    BY <2>1, <2>2 DEF CaptureInv
  <2> QED
    BY <2>1, <2>3 DEF CaptureInv, CaptureEnded, Lanes
<1>5. CASE RunFails
  <2>1. /\ UNCHANGED <<capAt, source, lane, sourceDone, accepted>> /\ at = "running"
        /\ at' = "joining"
    BY <1>5 DEF RunFails
  <2>2. PICK n \in 0 .. chan : chan' = chan - n /\ processed' = processed + n
    BY <1>5 DEF RunFails
  <2>3. /\ chan' \in Nat /\ processed' \in Nat /\ accepted' = processed' + chan' /\ ~sourceDone
    BY <2>1, <2>2 DEF CaptureInv
  <2> QED
    BY <2>1, <2>3 DEF CaptureInv, CaptureEnded, Lanes
<1>6. CASE FinishRuntime \/ ExportSnapshotsNow \/ FinishQueueLocal
  <2>1. /\ UNCHANGED <<chan, processed, accepted, capAt, source, lane>> /\ CaptureEnded
        /\ chan = 0 /\ at' \in {"exporting", "joining"}
    BY <1>6 DEF FinishRuntime, ExportSnapshotsNow, FinishQueueLocal, captureVars, traffic,
                CaptureInv
  <2> QED
    BY <2>1 DEF CaptureInv, CaptureEnded, Lanes, Booting
<1>7. CASE \/ JoinCapture \/ Serve \/ StopServices \/ JoinHttp \/ JoinExporters \/ Signal
  <2>1. CaptureQuiet
    BY <1>7 DEF CaptureQuiet, captureVars, mainVars, Booting, JoinCapture, Serve, StopServices,
                JoinHttp, JoinExporters, Signal
  <2> QED
    BY <2>1, CaptureStays
<1>8. ASSUME NEW e \in Exporter, Exports(e) \/ SpawnExporterFails(e)
      PROVE  CaptureInv'
  <2>1. CaptureQuiet
    BY <1>8 DEF CaptureQuiet, captureVars, mainVars, Booting, Exports, SpawnExporterFails
  <2> QED
    BY <2>1, CaptureStays
<1>9. CASE Gate \/ AcceptLoop \/ Clients \/ QuickClient
  <2>1. CaptureQuiet
    BY <1>9 DEF CaptureQuiet, captureVars, mainVars, Booting, Gate, AcceptLoop, Clients,
                QuickClient
  <2> QED
    BY <2>1, CaptureStays
<1> QED
  BY <1>1, <1>2, <1>3, <1>4, <1>5, <1>6, <1>7, <1>8, <1>9, Zenon DEF MainThread

(* An offer puts at most one event into the channel, and counts it. *)
LEMMA OfferCounts ==
  ASSUME CaptureInv, OfferEvent \/ UNCHANGED <<chan, accepted>>, UNCHANGED processed
  PROVE  chan' \in Nat /\ processed' \in Nat /\ accepted' = processed' + chan'
  BY DEF CaptureInv, OfferEvent

(* The steps of a stream: the file, or the eBPF program. *)
LEMMA StreamCapture ==
  ASSUME CaptureInv, RingInv, UNCHANGED <<at, processed, sourceDone>>,
         \/ OpenStream \/ SendBlocking \/ StreamStops(shutdown) \/ ReadFile(shutdown)
         \/ StreamFails \/ EbpfRecord(shutdown) \/ PinFails
  PROVE  CaptureInv'
<1>1. OfferEvent \/ UNCHANGED <<chan, accepted>>
  BY DEF OpenStream, SendBlocking, StreamStops, ReadFile, StreamFails, EbpfRecord, PinFails,
         traffic
<1>2. chan' \in Nat /\ processed' \in Nat /\ accepted' = processed' + chan'
  BY <1>1, OfferCounts
<1>3. /\ capAt \in {"reading", "sending", "start"} /\ ~sourceDone /\ at # "exporting"
      /\ UNCHANGED lane
      /\ source # "fanout" /\ \A l \in Lanes : lane[l] = "none"
  <2>1. capAt \in {"reading", "sending", "start"} /\ UNCHANGED lane /\ source # "fanout"
    BY DEF OpenStream, SendBlocking, StreamStops, ReadFile, StreamFails, EbpfRecord, PinFails,
           CaptureInv, AfPacket
  <2>2. ~sourceDone /\ at # "exporting"
    BY <2>1 DEF CaptureInv, CaptureEnded
  <2>3. \A l \in Lanes : lane[l] = "none"
    BY <2>1, LanesAreLane DEF CaptureInv, RingInv
  <2> QED
    BY <2>1, <2>2, <2>3
<1>4. source' # "fanout" /\ (capAt' \in {"reading", "sending"} => source' \notin AfPacket)
  BY <1>3 DEF OpenStream, SendBlocking, StreamStops, ReadFile, StreamFails, EbpfRecord,
              PinFails, CaptureInv, AfPacket, EbpfFails, CaptureFails
<1>5. Lanes = {1} /\ Lanes' = {1}
  BY <1>3, <1>4 DEF Lanes
<1> QED
  BY <1>2, <1>3, <1>4, <1>5 DEF CaptureInv

(* Opening and ending AF_PACKET lanes. *)
LEMMA LanesCapture ==
  ASSUME CaptureInv, RingInv, UNCHANGED <<at, processed, sourceDone>>,
         \/ OpenFails \/ JoinLane \/ SpawnLane \/ AllSpawned \/ SpawnFails \/ Abort
         \/ FirstDone \/ JoinLanes
  PROVE  CaptureInv'
<1>1. /\ UNCHANGED <<chan, accepted>>
      /\ capAt \in {"start", "spawning", "spawned", "aborting", "waiting", "joining"}
  BY DEF OpenFails, JoinLane, SpawnLane, AllSpawned, SpawnFails, Abort, FirstDone, JoinLanes,
         traffic
<1>2. ~sourceDone /\ ~sourceDone' /\ at' # "exporting"
  BY <1>1 DEF CaptureInv, CaptureEnded
<1>3. chan' \in Nat /\ processed' \in Nat /\ accepted' = processed' + chan'
  BY <1>1 DEF CaptureInv
<1>4. capAt' \notin {"reading", "sending"}
  BY DEF OpenFails, JoinLane, SpawnLane, AllSpawned, SpawnFails, Abort, FirstDone, JoinLanes,
         EbpfFails, CaptureFails
<1>5. CASE OpenFails
  <2>1. \A l \in Lane : lane'[l] = "none"
    BY <1>5 DEF OpenFails
  <2>2. Lanes' \subseteq Lane
    BY LanesAreLane, CaptureAssumption DEF Lanes, Lane
  <2>3. \A l \in Lanes' : lane'[l] = "none"
    BY <2>1, <2>2
  <2> QED
    BY <1>2, <1>3, <1>4, <2>3 DEF CaptureInv
<1>6. CASE JoinLane
  <2>1. PICK l \in Lanes :
          capAt' = IF l < Max(Lanes) THEN "start"
                   ELSE IF source = "fanout" THEN "spawning" ELSE "waiting"
    BY <1>6 DEF JoinLane
  <2>2. UNCHANGED source /\ ~CaptureEnded'
    BY <1>6, <2>1 DEF JoinLane, CaptureEnded
  <2>3. source # "fanout" => capAt' = "waiting"
    <3> SUFFICES ASSUME source # "fanout" PROVE capAt' = "waiting"
      OBVIOUS
    <3>1. Lanes = {1} /\ l = 1
      BY DEF Lanes
    <3>2. Max({1}) = 1
      <4>1. {1} = {1, 1} /\ 1 \in Nat
        OBVIOUS
      <4> QED
        BY <4>1, MaxTwo
    <3> QED
      BY <2>1, <3>1, <3>2
  <2> QED
    BY <1>2, <1>3, <1>4, <2>2, <2>3 DEF CaptureInv
<1>7. CASE SpawnLane \/ AllSpawned \/ SpawnFails \/ FirstDone
  <2>1. capAt' \in {"spawning", "spawned", "waiting", "aborting", "joining"}
    BY <1>7 DEF SpawnLane, AllSpawned, SpawnFails, FirstDone
  <2> QED
    BY <1>2, <1>3, <2>1 DEF CaptureInv, CaptureEnded
<1>8. CASE Abort \/ JoinLanes
  <2>1. /\ capAt' \in {"ok", "error"} /\ UNCHANGED <<source, lane>>
        /\ \A l \in Lanes : lane[l] \in {"none", "ok", "error"}
    BY <1>8 DEF Abort, JoinLanes, CaptureFails, Joined
  <2>2. Lanes' = Lanes
    BY <2>1 DEF Lanes
  <2> QED
    BY <1>2, <1>3, <2>1, <2>2 DEF CaptureInv, CaptureEnded
<1> QED
  BY <1>5, <1>6, <1>7, <1>8

(* A lane, and the kernel that fills its ring. *)
LEMMA LaneCapture ==
  ASSUME CaptureInv, RingInv, UNCHANGED <<at, processed, sourceDone>>, NEW l \in Lanes,
         \/ \E n \in 1 .. MaxBlock : RetireBlock(l, n)
         \/ VisitPacket(l, shutdown) \/ StopLane(l, shutdown) \/ LaneFails(l)
  PROVE  CaptureInv'
<1>1. OfferEvent \/ UNCHANGED <<chan, accepted>>
  BY DEF RetireBlock, VisitPacket, StopLane, LaneFails, traffic
<1>2. chan' \in Nat /\ processed' \in Nat /\ accepted' = processed' + chan'
  BY <1>1, OfferCounts
<1>3. lane[l] \in {"joined", "running"} /\ UNCHANGED <<source, capAt>>
  BY DEF RetireBlock, VisitPacket, StopLane, LaneFails
<1>4. /\ ~CaptureEnded /\ ~sourceDone /\ at # "exporting"
      /\ ~(capAt \in {"off", "start"} /\ source # "fanout")
  BY <1>3 DEF CaptureInv
<1> QED
  BY <1>2, <1>3, <1>4 DEF CaptureInv, CaptureEnded

(* What was accepted is processed or in the channel, lanes have ended when *)
(* capture has, and a runtime that ended well has emptied the channel.     *)
LEMMA CaptureInvariant == Spec => []CaptureInv
<1>1. Init => CaptureInv
  <2> SUFFICES ASSUME Init PROVE CaptureInv
    OBVIOUS
  <2>1. /\ capAt = "off" /\ chan = 0 /\ processed = 0 /\ accepted = 0 /\ sourceDone = FALSE
        /\ at = "loading" /\ lane = [l \in Lane |-> "none"]
    BY DEF Init, CaptureInit
  <2>2. \A l \in Lanes : lane[l] = "none"
    BY <2>1, LanesAreLane
  <2> QED
    BY <2>1, <2>2 DEF CaptureInv, CaptureEnded
<1>2. RingInv /\ CaptureInv /\ [Next]_agentVars => CaptureInv'
  <2> SUFFICES ASSUME RingInv, CaptureInv, [Next]_agentVars PROVE CaptureInv'
    OBVIOUS
  <2>1. CASE \/ MainThread \/ BuildRuntimeFails \/ BindFails \/ SpawnCaptureFails
             \/ RunFails \/ Signal \/ UNCHANGED agentVars
             \/ \E e \in Exporter : Exports(e) \/ SpawnExporterFails(e)
             \/ Gate \/ AcceptLoop \/ Clients \/ QuickClient
    BY <2>1, MainCapture
  <2>2. CASE CaptureThread \/ Kernel \/ Faults \/ \E l \in Lanes : LaneThread(l)
    <3>0. UNCHANGED <<at, processed, sourceDone>>
      BY <2>2 DEF CaptureThread, Kernel, Faults, LaneThread, mainVars
    <3>1. CASE \/ OpenStream \/ SendBlocking \/ StreamStops(shutdown) \/ ReadFile(shutdown)
               \/ StreamFails \/ EbpfRecord(shutdown) \/ PinFails
      BY <3>0, <3>1, StreamCapture
    <3>2. CASE \/ OpenFails \/ JoinLane \/ SpawnLane \/ AllSpawned \/ SpawnFails \/ Abort
               \/ FirstDone \/ JoinLanes
      BY <3>0, <3>2, LanesCapture
    <3>3. ASSUME NEW l \in Lanes,
                 \/ \E n \in 1 .. MaxBlock : RetireBlock(l, n)
                 \/ VisitPacket(l, shutdown) \/ StopLane(l, shutdown) \/ LaneFails(l)
          PROVE  CaptureInv'
      BY <3>0, <3>3, LaneCapture
    <3> QED
      BY <2>2, <3>1, <3>2, <3>3, Zenon DEF CaptureThread, Kernel, Faults, LaneThread
  <2> QED
    BY <2>1, <2>2, Zenon DEF Next
<1> QED
  BY <1>1, <1>2, RingInvariant, PTL DEF Spec

(***************************************************************************)
(* The exporters: what is posted is whole windows, each later than the     *)
(* last one posted with success, whatever the runtime publishes meanwhile. *)
(***************************************************************************)

(* A window within bounds is one within wider bounds. *)
LEMMA OneWindowWider ==
  ASSUME NEW set, NEW q, NEW low \in Nat, NEW high \in Nat, NEW lower \in Nat, NEW higher \in Nat,
         lower <= low, high <= higher, OneWindow(set, q, low, high)
  PROVE  OneWindow(set, q, lower, higher)
<1>1. \A w \in low + 1 .. high : w \in lower + 1 .. higher
  OBVIOUS
<1> QED
  BY <1>1 DEF OneWindow

(* Steps that leave the estimates and the exporters alone. *)
LEMMA ExportStays ==
  ASSUME ExportInv, UNCHANGED <<windows, thread, tried, exported, lastEnd, estimates>>,
         services' \in BOOLEAN, snapshots' \in Nat
  PROVE  ExportInv'
  BY DEF ExportInv

(* The runtime closes n windows of every query and publishes them under    *)
(* one lock: the exporters' side does not notice.                          *)
LEMMA PublishExport ==
  ASSUME ExportInv, UNCHANGED <<thread, tried, exported, lastEnd, services>>, NEW n \in Nat,
         windows' = windows + n, estimates' = PublishEstimates(Windows(n)), snapshots' \in Nat
  PROVE  ExportInv'
<1>1. windows \in Nat /\ windows' \in Nat /\ windows <= windows'
  BY DEF ExportInv
<1>2. estimates' = Newest(windows')
  BY PublishWindows DEF ExportInv
<1>3. \A q \in Query : lastEnd[q] \in Nat /\ lastEnd[q] <= windows
  BY DEF ExportInv
<1>4. \A q \in Query : lastEnd[q] <= windows'
  BY <1>1, <1>3
<1>5. ASSUME thread["otlp"].at = "posting", NEW q \in Query
      PROVE  OneWindow(thread["otlp"].picked, q, lastEnd[q], windows')
  <2>1. OneWindow(thread["otlp"].picked, q, lastEnd[q], windows)
    BY <1>5 DEF ExportInv
  <2> QED
    BY <1>1, <1>3, <2>1, OneWindowWider
<1> QED
  BY <1>1, <1>2, <1>4, <1>5 DEF ExportInv

(* The exporters start, or do not. *)
LEMMA StartExport ==
  ASSUME ExportInv, UNCHANGED <<windows, snapshots, tried, exported, lastEnd, estimates>>,
         services' \in BOOLEAN, NEW on, StartExporters(on)
  PROVE  ExportInv'
<1>1. Off \in ThreadType /\ [Off EXCEPT !.at = "waiting"] \in ThreadType
  BY DEF Off, ThreadType
<1>2. thread' \in [Exporter -> ThreadType]
  BY <1>1 DEF StartExporters
<1>3. thread'["otlp"].at # "posting"
  BY DEF StartExporters, Off, Exporter
<1> QED
  BY <1>2, <1>3 DEF ExportInv

(* What the exporter reads of the estimates: of each query nothing, or the *)
(* newest window as a whole, if it is later than the last one exported.    *)
LEMMA PickedIs ==
  ASSUME ExportInv
  PROVE  /\ Picked("otlp") \in SUBSET Item /\ Picked("gateway") \in SUBSET Item
         /\ \A q \in Query : OneWindow(Picked("otlp"), q, lastEnd[q], windows)
         /\ \A q \in Query : windows > lastEnd[q] => estimates[q] \subseteq Picked("otlp")
<1>1. windows \in Nat /\ snapshots \in Nat /\ estimates = Newest(windows)
      /\ \A q \in Query : lastEnd[q] \in Nat
  BY DEF ExportInv
<1>2. Picked("otlp") = UNION {New(q) : q \in Query}
  BY DEF Picked
<1>3. Picked("gateway") \in SUBSET Item
  BY <1>1 DEF Picked, Item
<1>4. ASSUME NEW q \in Query
      PROVE  /\ New(q) = IF windows > lastEnd[q] THEN Full(q, windows) ELSE {}
             /\ windows > lastEnd[q] => estimates[q] \subseteq New(q)
  <2>1. estimates[q] = IF windows = 0 THEN {} ELSE Full(q, windows)
    BY <1>1 DEF Newest
  <2>2. \A x \in Full(q, windows) : x.end = windows
    BY <1>1, FullFacts
  <2>3. lastEnd[q] \in Nat
    BY <1>1
  <2>4. CASE windows > lastEnd[q]
    <3>1. windows # 0
      BY <1>1, <2>3, <2>4
    <3> QED
      BY <2>1, <2>2, <2>4, <3>1 DEF New
  <2>5. CASE ~(windows > lastEnd[q])
    BY <2>1, <2>2, <2>5 DEF New
  <2> QED
    BY <2>4, <2>5
<1>5. \A q \in Query : New(q) \in SUBSET Estimate /\ \A x \in New(q) : x.query = q
  BY <1>1, <1>4, FullFacts
<1>6. ASSUME NEW q \in Query
      PROVE  OneWindow(Picked("otlp"), q, lastEnd[q], windows)
  <2>1. OfQuery(Picked("otlp"), q) = New(q)
    BY <1>2, <1>5 DEF OfQuery
  <2>2. CASE windows > lastEnd[q]
    <3>1. windows \in lastEnd[q] + 1 .. windows
      BY <1>1, <2>2
    <3> QED
      BY <1>4, <2>1, <2>2, <3>1 DEF OneWindow
  <2>3. CASE ~(windows > lastEnd[q])
    BY <1>4, <2>1, <2>3 DEF OneWindow
  <2> QED
    BY <2>2, <2>3
<1>7. Picked("otlp") \in SUBSET Item
  BY <1>2, <1>5 DEF Item
<1>8. \A q \in Query : windows > lastEnd[q] => estimates[q] \subseteq Picked("otlp")
  BY <1>2, <1>4
<1> QED
  BY <1>3, <1>6, <1>7, <1>8

(* A thread that waits, retries or gives a post up. *)
LEMMA ThreadExport ==
  ASSUME ExportInv, NEW e \in Exporter,
         \/ WaitForIntervalOrShutdown(e, services) \/ RetryPost(e) \/ PostFails(e),
         UNCHANGED <<windows, services>>
  PROVE  ExportInv'
<1>1. /\ thread[e] \in ThreadType /\ thread[e].stopping \in BOOLEAN /\ thread[e].attempt \in Nat
      /\ thread \in [Exporter -> ThreadType]
  BY DEF ExportInv, ThreadType
<1>2. UNCHANGED <<snapshots, tried, exported, lastEnd, estimates>>
  BY DEF WaitForIntervalOrShutdown, RetryPost, PostFails, publishedVars
<1>3. thread' \in [Exporter -> ThreadType] /\ (thread'["otlp"].at = "posting" =>
        thread["otlp"].at = "posting" /\ thread'["otlp"].picked = thread["otlp"].picked)
  <2>1. CASE WaitForIntervalOrShutdown(e, services)
    <3> DEFINE t == [thread[e] EXCEPT !.at = "reading", !.stopping = services]
    <3>1. services \in BOOLEAN
      BY DEF ExportInv
    <3>2. t \in ThreadType /\ t.at = "reading"
      BY <1>1, <3>1 DEF ThreadType
    <3>3. thread' = [thread EXCEPT ![e] = t]
      BY <1>1, <2>1 DEF WaitForIntervalOrShutdown
    <3> HIDE DEF t
    <3> QED
      BY <1>1, <3>2, <3>3 DEF Exporter
  <2>2. CASE RetryPost(e)
    BY <1>1, <2>2 DEF RetryPost, ThreadType
  <2>3. CASE PostFails(e)
    <3>1. AfterPost(e) \in {"ended", "waiting"}
      BY DEF AfterPost
    <3> DEFINE t == [Off EXCEPT !.at = AfterPost(e)]
    <3>2. t \in ThreadType /\ t.at # "posting"
      BY <3>1 DEF Off, ThreadType
    <3>3. thread' = [thread EXCEPT ![e] = t]
      BY <2>3 DEF PostFails, Done
    <3> HIDE DEF t
    <3> QED
      BY <1>1, <3>2, <3>3 DEF Exporter
  <2> QED
    BY <2>1, <2>2, <2>3
<1> QED
  BY <1>2, <1>3 DEF ExportInv

(* A thread reads. *)
LEMMA ReadExport ==
  ASSUME ExportInv, NEW e \in Exporter, Read(e), UNCHANGED <<windows, services>>
  PROVE  ExportInv'
<1> DEFINE p == Picked(e)
<1>1. /\ thread[e] \in ThreadType /\ thread[e].stopping \in BOOLEAN
      /\ thread \in [Exporter -> ThreadType] /\ tried \in [Exporter -> SUBSET Item]
  BY DEF ExportInv, ThreadType
<1>2. p \in SUBSET Item /\ (e = "otlp" => \A q \in Query : OneWindow(p, q, lastEnd[q], windows))
  BY PickedIs DEF Exporter
<1>3. AfterPost(e) \in {"ended", "waiting"}
  BY DEF AfterPost
<1>4. /\ UNCHANGED <<snapshots, exported, lastEnd, estimates>>
      /\ thread' = [thread EXCEPT ![e].at = IF p = {} THEN AfterPost(e) ELSE "posting",
                                  ![e].picked = p, ![e].attempt = IF p = {} THEN 0 ELSE 1]
      /\ tried' = [tried EXCEPT ![e] = IF p = {} THEN @ ELSE p]
  BY DEF Read, publishedVars
<1> HIDE DEF p
<1>5. thread' \in [Exporter -> ThreadType]
  BY <1>1, <1>2, <1>3, <1>4 DEF ThreadType
<1>6. tried' \in [Exporter -> SUBSET Item]
  BY <1>1, <1>2, <1>4
<1>7. thread'["otlp"].at = "posting" =>
        \A q \in Query : OneWindow(thread'["otlp"].picked, q, lastEnd[q], windows)
  <2>1. CASE e = "otlp"
    <3>1. thread'["otlp"].picked = p
      BY <1>1, <1>4, <2>1 DEF ThreadType
    <3> QED
      BY <1>2, <2>1, <3>1
  <2>2. CASE e # "otlp"
    <3>1. thread'["otlp"] = thread["otlp"]
      BY <1>1, <1>4, <2>2 DEF Exporter
    <3> QED
      BY <3>1 DEF ExportInv
  <2> QED
    BY <2>1, <2>2
<1> QED
  BY <1>4, <1>5, <1>6, <1>7 DEF ExportInv

(* A post succeeds. *)
LEMMA PostExport ==
  ASSUME ExportInv, NEW e \in Exporter, PostSucceeds(e), UNCHANGED <<windows, services>>
  PROVE  ExportInv'
<1> DEFINE p == thread[e].picked
           t == [Off EXCEPT !.at = AfterPost(e)]
<1>1. /\ thread \in [Exporter -> ThreadType] /\ exported \in [Exporter -> Seq(SUBSET Item)]
      /\ tried \in [Exporter -> SUBSET Item] /\ lastEnd \in [Query -> Nat]
      /\ windows \in Nat /\ estimates = Newest(windows) /\ snapshots \in Nat
      /\ services \in BOOLEAN
      /\ \A q \in Query : lastEnd[q] \in Nat /\ lastEnd[q] <= windows
  BY DEF ExportInv
<1>2. p \in SUBSET Item
  BY <1>1 DEF ThreadType
<1>3. AfterPost(e) \in {"ended", "waiting"}
  BY DEF AfterPost
<1>4. t \in ThreadType /\ t.at # "posting"
  BY <1>3 DEF Off, ThreadType
<1>5. /\ thread' = [thread EXCEPT ![e] = t] /\ thread[e].at = "posting"
      /\ exported' = [exported EXCEPT ![e] = Append(exported[e], p)]
      /\ UNCHANGED <<estimates, snapshots, tried>>
  BY <1>1 DEF PostSucceeds, Done, publishedVars
<1> HIDE DEF t
<1>6. thread' \in [Exporter -> ThreadType] /\ exported' \in [Exporter -> Seq(SUBSET Item)]
  BY <1>1, <1>2, <1>4, <1>5
<1>7. CASE e = "gateway"
  <2>1. lastEnd' = lastEnd
    BY <1>7 DEF PostSucceeds
  <2>2. thread'["otlp"] = thread["otlp"] /\ exported'["otlp"] = exported["otlp"]
    BY <1>1, <1>5, <1>7 DEF Exporter
  <2> QED
    BY <1>1, <1>5, <1>6, <2>1, <2>2 DEF ExportInv
<1>8. CASE e = "otlp"
  <2> DEFINE log == exported["otlp"]  log2 == Append(log, p)
  <2>1. exported'["otlp"] = log2 /\ thread'["otlp"].at # "posting" /\ "otlp" \in Exporter
    BY <1>1, <1>4, <1>5, <1>8
  <2>2. log \in Seq(SUBSET Item)
    BY <1>1, <2>1
  <2>3. \A q \in Query : OneWindow(p, q, lastEnd[q], windows)
    BY <1>5, <1>8 DEF ExportInv
  <2>4. lastEnd' = [q \in Query |-> LET of == OfQuery(p, q)
                                    IN  IF of # {} /\ EndOf(of) > lastEnd[q] THEN EndOf(of)
                                                                             ELSE lastEnd[q]]
    BY <1>8 DEF PostSucceeds, OfQuery
  <2> HIDE DEF p
  <2>5. ASSUME NEW q \in Query
        PROVE  /\ lastEnd'[q] \in Nat /\ lastEnd'[q] <= windows /\ lastEnd[q] <= lastEnd'[q]
               /\ OneWindow(p, q, 0, lastEnd'[q])
               /\ OfQuery(p, q) # {} => lastEnd[q] < EndOf(OfQuery(p, q))
    <3>1. CASE OfQuery(p, q) = {}
      <4>1. lastEnd'[q] = lastEnd[q]
        BY <2>4, <3>1
      <4> QED
        BY <1>1, <3>1, <4>1 DEF OneWindow
    <3>2. CASE OfQuery(p, q) # {}
      <4>1. PICK w \in lastEnd[q] + 1 .. windows : OfQuery(p, q) = Full(q, w)
        BY <2>3, <3>2 DEF OneWindow
      <4>2. w \in Nat /\ lastEnd[q] < w /\ w <= windows
        BY <1>1, <4>1
      <4>3. EndOf(OfQuery(p, q)) = w
        BY <4>1, <4>2, FullFacts
      <4>4. lastEnd'[q] = w
        BY <1>1, <2>4, <3>2, <4>2, <4>3
      <4>5. w \in 0 + 1 .. w /\ lastEnd[q] \in Nat
        BY <1>1, <4>2
      <4>6. OneWindow(p, q, 0, w)
        BY <4>1, <4>5 DEF OneWindow
      <4> QED
        BY <4>2, <4>3, <4>4, <4>5, <4>6
    <3> QED
      BY <3>1, <3>2
  <2>6. lastEnd' \in [Query -> Nat]
    BY <2>4, <2>5
  <2>7. /\ \A i \in DOMAIN log : \A q \in Query : OneWindow(log[i], q, 0, lastEnd[q])
        /\ \A i \in DOMAIN log : \A j \in 1 .. i - 1 : \A q \in Query :
             OfQuery(log[i], q) # {} /\ OfQuery(log[j], q) # {} =>
               EndOf(OfQuery(log[j], q)) < EndOf(OfQuery(log[i], q))
    BY DEF ExportInv
  <2>8. /\ DOMAIN log2 = 1 .. Len(log) + 1 /\ DOMAIN log = 1 .. Len(log) /\ Len(log) \in Nat
        /\ \A i \in 1 .. Len(log) : log2[i] = log[i]
        /\ log2[Len(log) + 1] = p
    BY <1>2, <2>2 DEF p
  <2> HIDE DEF log, log2
  <2>9. ASSUME NEW i \in DOMAIN log2, NEW q \in Query
        PROVE  OneWindow(log2[i], q, 0, lastEnd'[q])
    <3>1. CASE i = Len(log) + 1
      BY <2>5, <2>8, <3>1
    <3>2. CASE i # Len(log) + 1
      <4>1. i \in DOMAIN log /\ log2[i] = log[i]
        BY <2>8, <3>2
      <4>2. OneWindow(log[i], q, 0, lastEnd[q])
        BY <2>7, <4>1
      <4>3. 0 \in Nat /\ 0 <= 0 /\ lastEnd[q] \in Nat /\ lastEnd'[q] \in Nat
            /\ lastEnd[q] <= lastEnd'[q]
        BY <1>1, <2>5
      <4>4. OneWindow(log[i], q, 0, lastEnd'[q])
        BY <4>2, <4>3, OneWindowWider, Zenon
      <4> QED
        BY <4>1, <4>4
    <3> QED
      BY <3>1, <3>2
  <2>10. ASSUME NEW i \in DOMAIN log2, NEW j \in 1 .. i - 1, NEW q \in Query,
                OfQuery(log2[i], q) # {}, OfQuery(log2[j], q) # {}
         PROVE  EndOf(OfQuery(log2[j], q)) < EndOf(OfQuery(log2[i], q))
    <3>1. j \in DOMAIN log /\ log2[j] = log[j]
      BY <2>8
    <3>2. CASE i = Len(log) + 1
      <4>1. OneWindow(log[j], q, 0, lastEnd[q]) /\ lastEnd[q] \in Nat
        BY <1>1, <2>7, <3>1
      <4>2. PICK w \in 0 + 1 .. lastEnd[q] : OfQuery(log[j], q) = Full(q, w)
        BY <2>10, <3>1, <4>1 DEF OneWindow
      <4>3. w \in Nat /\ w <= lastEnd[q]
        BY <4>1
      <4>4. EndOf(OfQuery(log[j], q)) = w
        BY <4>2, <4>3, FullFacts
      <4>5. lastEnd[q] < EndOf(OfQuery(p, q)) /\ log2[i] = p
        BY <2>5, <2>8, <2>10, <3>2
      <4>6. PICK v \in lastEnd[q] + 1 .. windows : OfQuery(p, q) = Full(q, v)
        BY <2>3, <2>10, <4>5 DEF OneWindow
      <4>7. v \in Nat /\ EndOf(OfQuery(p, q)) = v
        BY <1>1, <4>1, <4>6, FullFacts
      <4> QED
        BY <3>1, <4>1, <4>3, <4>4, <4>5, <4>7
    <3>3. CASE i # Len(log) + 1
      <4>1. i \in DOMAIN log /\ log2[i] = log[i]
        BY <2>8, <3>3
      <4> QED
        BY <2>7, <2>10, <3>1, <4>1
    <3> QED
      BY <3>2, <3>3
  <2> QED
    BY <1>1, <1>5, <1>6, <2>1, <2>5, <2>6, <2>9, <2>10 DEF ExportInv
<1> QED
  BY <1>7, <1>8 DEF Exporter

(* The invariant. *)
LEMMA ExportInvariant == Spec => []ExportInv
<1>1. Init => ExportInv
  <2> SUFFICES ASSUME Init PROVE ExportInv
    OBVIOUS
  <2>1. /\ windows = 0 /\ snapshots = 0 /\ services = FALSE /\ estimates = [q \in Query |-> {}]
        /\ thread = [e \in Exporter |-> Off] /\ lastEnd = [q \in Query |-> 0]
        /\ exported = [e \in Exporter |-> <<>>] /\ tried = [e \in Exporter |-> {}]
    BY DEF Init, PublishedInit
  <2>2. Off \in ThreadType /\ Off.at = "off"
    BY DEF Off, ThreadType
  <2>3. estimates = Newest(windows)
    BY <2>1 DEF Newest
  <2>4. /\ thread \in [Exporter -> ThreadType] /\ tried \in [Exporter -> SUBSET Item]
        /\ exported \in [Exporter -> Seq(SUBSET Item)] /\ lastEnd \in [Query -> Nat]
        /\ thread["otlp"].at # "posting" /\ DOMAIN exported["otlp"] = {}
    BY <2>1, <2>2 DEF Exporter
  <2>5. windows \in Nat /\ snapshots \in Nat /\ services \in BOOLEAN
    BY <2>1
  <2>6. \A q \in Query : lastEnd[q] <= windows
    BY <2>1
  <2> QED
    BY <2>3, <2>4, <2>5, <2>6, Zenon DEF ExportInv
<1>2. CaptureInv /\ ExportInv /\ [Next]_agentVars => ExportInv'
  <2> SUFFICES ASSUME CaptureInv, ExportInv, [Next]_agentVars PROVE ExportInv'
    OBVIOUS
  <2>0. services \in BOOLEAN /\ snapshots \in Nat /\ processed \in Nat
    BY DEF ExportInv, CaptureInv
  <2>1. CASE UNCHANGED agentVars
    BY <2>0, <2>1, ExportStays DEF agentVars, publishedVars, exporterVars, mainVars
  <2>2. CASE \/ LoadPlans \/ LoadPlansFails \/ BuildRuntime \/ BuildRuntimeFails
             \/ BindFails \/ SpawnCapture \/ SpawnCaptureFails \/ RunFails
             \/ JoinCapture \/ Serve \/ StopServices \/ JoinHttp \/ JoinExporters \/ Signal
    <3>1. /\ UNCHANGED <<windows, snapshots, thread, tried, exported, lastEnd, estimates>>
          /\ services' \in {services, TRUE}
      BY <2>2 DEF publishedVars, exporterVars, mainVars, LoadPlans, LoadPlansFails,
           BuildRuntime, BuildRuntimeFails, BindFails, SpawnCapture, SpawnCaptureFails,
           RunFails, JoinCapture, Serve, StopServices, JoinHttp, JoinExporters, Signal
    <3> QED
      BY <2>0, <3>1, ExportStays
  <2>3. CASE Gate \/ AcceptLoop \/ Clients \/ QuickClient \/ CaptureThread \/ Kernel \/ Faults
             \/ \E l \in Lanes : LaneThread(l)
    <3>1. UNCHANGED <<windows, snapshots, thread, tried, exported, lastEnd, estimates, services>>
      BY <2>3 DEF publishedVars, exporterVars, mainVars, Gate, IntervalPasses, AcceptLoop,
           Clients, QuickClient, CaptureThread, Kernel, Faults, LaneThread
    <3> QED
      BY <2>0, <3>1, ExportStays
  <2>4. CASE Bind
    <3>1. /\ UNCHANGED <<windows, snapshots, tried, exported, lastEnd, estimates, services>>
          /\ StartExporters(setup.exporters)
      BY <2>4 DEF Bind
    <3> DEFINE on == setup.exporters
    <3> HIDE DEF on
    <3>2. StartExporters(on)
      BY <3>1 DEF on
    <3> QED
      BY <2>0, <3>1, <3>2, StartExport
  <2>5. ASSUME NEW e \in Exporter, SpawnExporterFails(e) PROVE ExportInv'
    <3> DEFINE on == IF e = "gateway" THEN setup.exporters \ {e} ELSE {}
    <3>1. /\ UNCHANGED <<windows, snapshots, tried, exported, lastEnd, estimates>>
          /\ services' = TRUE /\ StartExporters(on)
      BY <2>5 DEF SpawnExporterFails
    <3> HIDE DEF on
    <3> QED
      BY <3>1, StartExport
  <2>6. ASSUME NEW e \in Exporter, Exports(e) PROVE ExportInv'
    <3>1. UNCHANGED <<windows, services>>
      BY <2>6 DEF Exports, mainVars
    <3>2. CASE WaitForIntervalOrShutdown(e, services) \/ RetryPost(e) \/ PostFails(e)
      BY <3>1, <3>2, ThreadExport
    <3>3. CASE Read(e)
      BY <3>1, <3>3, ReadExport
    <3>4. CASE PostSucceeds(e)
      BY <3>1, <3>4, PostExport
    <3> QED
      BY <2>6, <3>2, <3>3, <3>4 DEF Exports
  <2>7. CASE Run
    <3>1. PICK n \in 0 .. chan, w \in 0 .. 2 :
            /\ windows' = windows + w
            /\ \/ PublishQueueLocal(Windows(w), processed + n, FALSE)
               \/ Publish(Windows(w), processed + n)
      BY <2>7, Zenon DEF Run
    <3>2. UNCHANGED <<thread, tried, exported, lastEnd, services>>
      BY <2>7 DEF Run, exporterVars, mainVars
    <3>3. n \in Nat /\ w \in Nat /\ processed + n \in Nat
      BY <2>0 DEF CaptureInv
    <3>4. estimates' = PublishEstimates(Windows(w)) /\ snapshots' \in Nat
      BY <2>0, <3>1, <3>3 DEF Publish, PublishQueueLocal, ExportSnapshots, ExportFails
    <3> QED
      BY <3>1, <3>2, <3>3, <3>4, PublishExport, Zenon
  <2>8. CASE FinishRuntime \/ FinishQueueLocal
    <3>1. /\ windows' = windows + 1
          /\ PublishQueueLocal(Windows(1), processed, TRUE) \/ Publish(Windows(1), processed)
      BY <2>8 DEF FinishRuntime, FinishQueueLocal
    <3>2. UNCHANGED <<thread, tried, exported, lastEnd, services>>
      BY <2>8 DEF FinishRuntime, FinishQueueLocal, exporterVars
    <3>3. estimates' = PublishEstimates(Windows(1)) /\ snapshots' \in Nat /\ 1 \in Nat
      BY <2>0, <3>1 DEF Publish, PublishQueueLocal, ExportSnapshots, ExportFails
    <3> QED
      BY <3>1, <3>2, <3>3, PublishExport, Zenon
  <2>9. CASE ExportSnapshotsNow
    <3>1. /\ UNCHANGED <<windows, estimates, thread, tried, exported, lastEnd, services>>
          /\ snapshots' \in Nat
      BY <2>0, <2>9 DEF ExportSnapshotsNow, ExportSnapshots, ExportFails, exporterVars
    <3> QED
      BY <2>0, <3>1, ExportStays
  <2> QED
    BY <2>1, <2>2, <2>3, <2>4, <2>5, <2>6, <2>7, <2>8, <2>9, Zenon DEF Next, MainThread
<1> QED
  BY <1>1, <1>2, CaptureInvariant, PTL DEF Spec

(* What the OTLP exporter posts with success is whole windows, and of each *)
(* query each window at most once and in order, for any number of queries, *)
(* series, attempts and posts, and whatever the runtime publishes while a  *)
(* post is under way.                                                      *)
THEOREM AgentExportsWholeOnce == Spec => []ExportsWholeOnce
<1>1. ExportInv => ExportsWholeOnce
  <2> SUFFICES ASSUME ExportInv PROVE ExportsWholeOnce
    OBVIOUS
  <2> DEFINE log == exported["otlp"]
  <2>1. ASSUME NEW i \in DOMAIN log, NEW q \in Query, OfQuery(log[i], q) # {}
        PROVE  OfQuery(log[i], q) =
                 {[query |-> q, end |-> EndOf(OfQuery(log[i], q)), series |-> s] : s \in Series}
    <3>1. OneWindow(log[i], q, 0, lastEnd[q]) /\ lastEnd[q] \in Nat
      BY DEF ExportInv
    <3>2. PICK w \in 0 + 1 .. lastEnd[q] : OfQuery(log[i], q) = Full(q, w)
      BY <2>1, <3>1 DEF OneWindow
    <3>3. w \in Nat /\ EndOf(OfQuery(log[i], q)) = w
      BY <3>1, <3>2, FullFacts
    <3> QED
      BY <3>2, <3>3 DEF Full
  <2>2. \A i \in DOMAIN log : \A j \in 1 .. i - 1 : \A q \in Query :
          OfQuery(log[i], q) # {} /\ OfQuery(log[j], q) # {} =>
            EndOf(OfQuery(log[j], q)) < EndOf(OfQuery(log[i], q))
    BY DEF ExportInv
  <2> QED
    BY <2>1, <2>2, Zenon DEF ExportsWholeOnce, OfQuery
<1> QED
  BY <1>1, ExportInvariant, PTL

(***************************************************************************)
(* The end: the exporters read once more after the runtime has published   *)
(* for the last time, and run_until returns only when they have posted it. *)
(***************************************************************************)
Live  == {"spawning", "running", "exporting", "joining", "serving", "stopping"}
After == {"joining", "serving", "stopping", "stopHttp", "stopExporters", "done"}
Ended == {"stopHttp", "stopExporters", "done"}

(* Steps that leave the exporters and what they read alone. *)
FinalQuiet ==
  /\ UNCHANGED <<setup, thread, tried, lastEnd, estimates, snapshots, exportLost, windows,
                 processed, sourceDone>>
  /\ gate # "none" => gate' # "none"
  /\ services => services'
  /\ services' => at' \in Ended
  /\ at' \in Live => at \in Live
  /\ sourceDone => at' \in After
  /\ sourceDone /\ at' = "done" => \A e \in Exporter : thread[e].at \in {"off", "ended"}

(* They keep the invariant. *)
LEMMA FinalStays ==
  ASSUME FinalInv, FinalQuiet
  PROVE  FinalInv'
<1> USE DEF Live, After, Ended
<1>1. /\ setup'.exporters \subseteq Exporter
      /\ services' => at' \in {"stopHttp", "stopExporters", "done"}
      /\ \A e \in Exporter : thread'[e].stopping \/ thread'[e].at = "ended" => services'
  BY DEF FinalInv, FinalQuiet
<1>2. /\ LastRead("otlp")' =>
           \A q \in Query : estimates'[q] \subseteq tried'["otlp"] \/ windows' <= lastEnd'[q]
      /\ LastRead("gateway")' /\ snapshots' # 0 => tried'["gateway"] = {snapshots'}
  BY DEF FinalInv, FinalQuiet, LastRead
<1>3. sourceDone' \/ at' \in Live =>
       /\ \A e \in setup'.exporters : thread'[e].at # "off"
       /\ "gateway" \in setup'.exporters => gate' # "none"
  BY DEF FinalInv, FinalQuiet
<1>4. sourceDone' =>
       /\ at' \in {"joining", "serving", "stopping", "stopHttp", "stopExporters", "done"}
       /\ "gateway" \in setup'.exporters => exportLost' \/ snapshots' = processed'
       /\ at' = "done" => \A e \in Exporter : thread'[e].at \in {"off", "ended"}
  BY DEF FinalInv, FinalQuiet
<1> QED
  BY <1>1, <1>2, <1>3, <1>4 DEF FinalInv

(* The steps of run_until before and after the runtime. *)
LEMMA MainFinal ==
  ASSUME FinalInv,
         \/ LoadPlans \/ LoadPlansFails \/ BuildRuntime \/ BuildRuntimeFails
         \/ BindFails \/ SpawnCapture \/ SpawnCaptureFails
         \/ JoinCapture \/ Serve \/ StopServices \/ JoinHttp \/ JoinExporters
  PROVE  FinalQuiet
<1> USE DEF Live, After, Ended
<1>1. UNCHANGED <<setup, thread, tried, lastEnd, estimates, snapshots, exportLost, windows,
                  processed, sourceDone, gate>>
  BY DEF publishedVars, exporterVars, LoadPlans, LoadPlansFails, BuildRuntime,
         BuildRuntimeFails, BindFails, SpawnCapture, SpawnCaptureFails, JoinCapture,
         Serve, StopServices, JoinHttp, JoinExporters
<1>2. /\ services => at \in Ended
      /\ sourceDone => at \in After
  BY DEF FinalInv
<1>3. CASE LoadPlans \/ LoadPlansFails \/ BuildRuntime \/ BuildRuntimeFails \/ BindFails
  <2>1. /\ at \in {"loading", "building", "binding"} /\ at' \in {"building", "binding", "done"}
        /\ UNCHANGED services
    BY <1>3 DEF LoadPlans, LoadPlansFails, BuildRuntime, BuildRuntimeFails, BindFails
  <2> QED
    BY <1>1, <1>2, <2>1 DEF FinalQuiet
<1>4. CASE SpawnCapture \/ SpawnCaptureFails
  <2>1. /\ at = "spawning"
        /\ \/ at' = "running" /\ UNCHANGED services
           \/ at' = "stopHttp" /\ services' = TRUE
    BY <1>4 DEF SpawnCapture, SpawnCaptureFails
  <2> QED
    BY <1>1, <1>2, <2>1 DEF FinalQuiet
<1>5. CASE JoinCapture \/ Serve \/ StopServices
  <2>1. \/ at \in {"joining", "serving"} /\ at' \in {"serving", "stopping"} /\ UNCHANGED services
        \/ at = "stopping" /\ at' = "stopHttp" /\ services' = TRUE
    BY <1>5 DEF JoinCapture, Serve, StopServices
  <2> QED
    BY <1>1, <1>2, <2>1 DEF FinalQuiet
<1>6. CASE JoinHttp \/ JoinExporters
  <2>1. /\ \/ at = "stopHttp" /\ at' = "stopExporters"
           \/ /\ at = "stopExporters" /\ at' = "done"
              /\ \A e \in Exporter : thread[e].at \in {"off", "ended"}
        /\ UNCHANGED services
    BY <1>6 DEF JoinHttp, JoinExporters
  <2> QED
    BY <1>1, <1>2, <2>1 DEF FinalQuiet
<1> QED
  BY <1>3, <1>4, <1>5, <1>6

(* Those of capture, of HTTP, of the gate and of signals. *)
LEMMA OthersFinal ==
  ASSUME FinalInv,
         \/ UNCHANGED agentVars \/ Signal \/ Gate \/ AcceptLoop \/ Clients \/ QuickClient
         \/ CaptureThread \/ Kernel \/ Faults \/ \E l \in Lanes : LaneThread(l)
  PROVE  FinalQuiet
<1>1. /\ UNCHANGED <<setup, thread, tried, lastEnd, estimates, snapshots, exportLost, windows,
                     processed, sourceDone, at, services>>
      /\ gate # "none" => gate' # "none"
  BY DEF agentVars, publishedVars, exporterVars, mainVars, Signal, Gate, IntervalPasses,
         AcceptLoop, Clients, QuickClient, CaptureThread, Kernel, Faults, LaneThread
<1> QED
  BY <1>1 DEF FinalInv, FinalQuiet, Live, After, Ended

(* While the runtime runs no exporter has read for the last time. *)
LEMMA RunFinal ==
  ASSUME FinalInv,
         Run \/ RunFails \/ FinishRuntime \/ ExportSnapshotsNow \/ FinishQueueLocal
  PROVE  FinalInv'
<1>1. /\ UNCHANGED <<setup, thread, tried, lastEnd, services>> /\ at \in {"running", "exporting"}
      /\ at' \in {"running", "exporting", "joining"}
  BY DEF Run, RunFails, FinishRuntime, ExportSnapshotsNow, FinishQueueLocal, mainVars,
         exporterVars
<1>2. ~services /\ ~sourceDone /\ \A e \in Exporter : ~thread[e].stopping /\ thread[e].at # "ended"
  BY <1>1 DEF FinalInv
<1>3. ~LastRead("otlp")' /\ ~LastRead("gateway")'
  BY <1>1, <1>2 DEF LastRead, Exporter
<1>4. /\ setup.exporters \subseteq Exporter
      /\ \A e \in setup.exporters : thread[e].at # "off"
      /\ "gateway" \in setup.exporters => gate # "none"
  BY <1>1 DEF FinalInv
<1>5. gate # "none" => gate' # "none"
  <2>1. gate' = gate \/ gate' = "recent"
    BY DEF Run, RunFails, FinishRuntime, ExportSnapshotsNow, FinishQueueLocal, Publish,
           PublishQueueLocal, ExportSnapshots, ExportFails, publishedVars
  <2> QED
    BY <2>1
<1>6. CASE Run \/ RunFails \/ FinishRuntime
  <2>1. UNCHANGED sourceDone
    BY <1>6 DEF Run, RunFails, FinishRuntime, mainVars
  <2> QED
    BY <1>1, <1>2, <1>3, <1>4, <1>5, <2>1 DEF FinalInv
<1>7. CASE ExportSnapshotsNow \/ FinishQueueLocal
  <2>1. /\ at' = "joining" /\ UNCHANGED processed
        /\ ExportSnapshots(processed, TRUE) \/ ExportFails(TRUE)
    BY <1>7 DEF ExportSnapshotsNow, FinishQueueLocal, PublishQueueLocal
  <2>2. "gateway" \in setup.exporters => exportLost' \/ snapshots' = processed
    BY <1>4, <2>1 DEF ExportSnapshots, ExportFails, SnapshotExportDue
  <2> QED
    BY <1>1, <1>2, <1>3, <1>4, <1>5, <2>1, <2>2 DEF FinalInv
<1> QED
  BY <1>6, <1>7

(* The exporters are started, or not all of them. *)
LEMMA StartFinal ==
  ASSUME FinalInv, Bind \/ \E e \in Exporter : SpawnExporterFails(e)
  PROVE  FinalInv'
<1>1. at = "binding" /\ UNCHANGED <<setup, sourceDone>>
  BY DEF Bind, SpawnExporterFails
<1>2. ~services /\ ~sourceDone /\ setup.exporters \subseteq Exporter
  BY <1>1 DEF FinalInv
<1>3. ASSUME NEW on, StartExporters(on), NEW e \in Exporter
      PROVE  /\ thread'[e].stopping = FALSE /\ thread'[e].at \in {"off", "waiting"}
             /\ e \in on => thread'[e].at # "off"
  BY <1>3 DEF StartExporters, Off
<1>4. \A e \in Exporter : thread'[e].stopping = FALSE /\ thread'[e].at \in {"off", "waiting"}
  <2>1. PICK on : StartExporters(on)
    BY Zenon DEF Bind, SpawnExporterFails
  <2> QED
    BY <1>3, <2>1
<1>5. ~LastRead("otlp")' /\ ~LastRead("gateway")'
  BY <1>4 DEF LastRead, Exporter
<1>6. CASE Bind
  <2>1. at' = "spawning" /\ UNCHANGED services /\ StartExporters(setup.exporters)
        /\ gate' = IF "gateway" \in setup.exporters THEN "due" ELSE "none"
    BY <1>6 DEF Bind
  <2>2. \A e \in setup.exporters : thread'[e].at # "off"
    <3> DEFINE on == setup.exporters
    <3>1. StartExporters(on)
      BY <2>1
    <3>2. \A e \in on : e \in Exporter
      BY <1>2
    <3> HIDE DEF on
    <3>3. \A e \in on : thread'[e].at # "off"
      BY <1>3, <3>1, <3>2
    <3> QED
      BY <3>3 DEF on
  <2> QED
    BY <1>1, <1>2, <1>4, <1>5, <2>1, <2>2 DEF FinalInv
<1>7. CASE \E e \in Exporter : SpawnExporterFails(e)
  <2>1. at' = "stopHttp" /\ services' = TRUE
    BY <1>7 DEF SpawnExporterFails
  <2> QED
    BY <1>1, <1>2, <1>4, <1>5, <2>1 DEF FinalInv
<1> QED
  BY <1>6, <1>7

(* A step of exporter e that changes its thread to t keeps the invariant,  *)
(* if t is not off, stops only after the services were told to, and has    *)
(* read the final state when it has read for the last time.                *)
LEMMA ThreadFinal ==
  ASSUME FinalInv, ExportInv, NEW e \in Exporter, NEW t, thread' = [thread EXCEPT ![e] = t],
         UNCHANGED <<setup, estimates, snapshots, gate, exportLost, windows, processed,
                     sourceDone, at, services>>,
         thread[e].at \in {"waiting", "reading", "posting"},
         t.at # "off", t.stopping \/ t.at = "ended" => services,
         \A q \in Query : lastEnd[q] <= lastEnd'[q] /\ lastEnd'[q] \in Nat,
         \A f \in Exporter : f # e => tried'[f] = tried[f],
         t.at = "ended" \/ (t.at = "posting" /\ t.stopping) =>
           /\ e = "otlp" =>
                \A q \in Query : estimates[q] \subseteq tried'[e] \/ windows <= lastEnd'[q]
           /\ e = "gateway" /\ snapshots # 0 => tried'[e] = {snapshots}
  PROVE  FinalInv'
<1>1. /\ thread \in [Exporter -> ThreadType] /\ windows \in Nat
      /\ \A q \in Query : lastEnd[q] \in Nat
      /\ "otlp" \in Exporter /\ "gateway" \in Exporter
  BY DEF ExportInv, Exporter
<1>2. thread'[e] = t /\ \A f \in Exporter : f # e => thread'[f] = thread[f]
  BY <1>1
<1>3. \A f \in Exporter : thread'[f].stopping \/ thread'[f].at = "ended" => services'
  BY <1>2 DEF FinalInv
<1>4. ASSUME LastRead("otlp")', NEW q \in Query
      PROVE  estimates'[q] \subseteq tried'["otlp"] \/ windows' <= lastEnd'[q]
  <2>1. CASE e = "otlp"
    BY <1>2, <1>4, <2>1 DEF LastRead
  <2>2. CASE e # "otlp"
    <3>1. LastRead("otlp") /\ tried'["otlp"] = tried["otlp"]
      BY <1>1, <1>2, <1>4, <2>2 DEF LastRead
    <3>2. estimates[q] \subseteq tried["otlp"] \/ windows <= lastEnd[q]
      BY <3>1 DEF FinalInv
    <3>3. windows <= lastEnd[q] => windows <= lastEnd'[q]
      BY <1>1
    <3> QED
      BY <3>1, <3>2, <3>3
  <2> QED
    BY <2>1, <2>2
<1>5. ASSUME LastRead("gateway")', snapshots' # 0
      PROVE  tried'["gateway"] = {snapshots'}
  <2>1. CASE e = "gateway"
    BY <1>2, <1>5, <2>1 DEF LastRead
  <2>2. CASE e # "gateway"
    <3>1. LastRead("gateway") /\ tried'["gateway"] = tried["gateway"]
      BY <1>1, <1>2, <1>5, <2>2 DEF LastRead
    <3> QED
      BY <1>5, <3>1 DEF FinalInv
  <2> QED
    BY <2>1, <2>2
<1>6. \A f \in Exporter : thread[f].at # "off" => thread'[f].at # "off"
  BY <1>2
<1>7. ~(sourceDone /\ at = "done")
  BY DEF FinalInv
<1> QED
  BY <1>3, <1>4, <1>5, <1>6, <1>7 DEF FinalInv

(* The steps of an exporter. *)
LEMMA ExportsFinal ==
  ASSUME FinalInv, ExportInv, NEW e \in Exporter, Exports(e)
  PROVE  FinalInv'
<1>1. /\ thread[e] \in ThreadType /\ thread[e].stopping \in BOOLEAN /\ windows \in Nat
      /\ thread \in [Exporter -> ThreadType] /\ tried \in [Exporter -> SUBSET Item]
      /\ \A q \in Query : lastEnd[q] \in Nat /\ lastEnd[q] <= lastEnd[q]
      /\ services \in BOOLEAN /\ snapshots \in Nat
  BY DEF ExportInv, ThreadType
<1>2. UNCHANGED <<setup, estimates, snapshots, gate, exportLost, windows, processed, sourceDone,
                  at, services>>
  BY DEF Exports, mainVars, WaitForIntervalOrShutdown, Read, PostSucceeds, RetryPost, PostFails,
         publishedVars
<1>3. /\ thread[e].stopping \/ thread[e].at = "ended" => services
      /\ LastRead("otlp") =>
           \A q \in Query : estimates[q] \subseteq tried["otlp"] \/ windows <= lastEnd[q]
      /\ LastRead("gateway") /\ snapshots # 0 => tried["gateway"] = {snapshots}
  BY DEF FinalInv
<1>4. CASE WaitForIntervalOrShutdown(e, services)
  <2> DEFINE t == [thread[e] EXCEPT !.at = "reading", !.stopping = services]
  <2>1. t.at = "reading" /\ t.stopping = services
    BY <1>1 DEF ThreadType
  <2>2. /\ thread' = [thread EXCEPT ![e] = t] /\ thread[e].at = "waiting"
        /\ UNCHANGED <<lastEnd, tried>>
    BY <1>1, <1>4 DEF WaitForIntervalOrShutdown
  <2> HIDE DEF t
  <2> QED
    BY <1>1, <1>2, <2>1, <2>2, ThreadFinal
<1>5. CASE RetryPost(e)
  <2> DEFINE t == [thread[e] EXCEPT !.attempt = @ + 1]
  <2>1. t.at = thread[e].at /\ t.stopping = thread[e].stopping
    BY <1>1 DEF ThreadType
  <2>2. /\ thread' = [thread EXCEPT ![e] = t] /\ thread[e].at = "posting"
        /\ UNCHANGED <<lastEnd, tried>>
    BY <1>1, <1>5 DEF RetryPost
  <2> HIDE DEF t
  <2>3. t.at = "ended" \/ (t.at = "posting" /\ t.stopping) => LastRead(e)
    BY <2>1, <2>2 DEF LastRead
  <2> QED
    BY <1>1, <1>2, <1>3, <2>1, <2>2, <2>3, ThreadFinal
<1>6. CASE PostFails(e) \/ PostSucceeds(e)
  <2> DEFINE t == [Off EXCEPT !.at = AfterPost(e)]
  <2>1. /\ t.stopping = FALSE /\ t.at \in {"ended", "waiting"}
        /\ t.at = "ended" => thread[e].stopping
    BY <1>1 DEF Off, AfterPost
  <2>2. /\ thread' = [thread EXCEPT ![e] = t] /\ thread[e].at = "posting"
        /\ UNCHANGED tried
    BY <1>6 DEF PostFails, PostSucceeds, Done
  <2>3. t.at = "ended" => LastRead(e)
    BY <2>1, <2>2 DEF LastRead
  <2>4. ASSUME NEW q \in Query
        PROVE  lastEnd[q] <= lastEnd'[q] /\ lastEnd'[q] \in Nat
    <3>1. CASE lastEnd' = lastEnd
      BY <1>1, <3>1
    <3>2. CASE PostSucceeds(e) /\ e # "gateway"
      <4> DEFINE p == thread[e].picked  of == OfQuery(p, q)
      <4>1. lastEnd'[q] = IF of # {} /\ EndOf(of) > lastEnd[q] THEN EndOf(of) ELSE lastEnd[q]
        BY <3>2 DEF PostSucceeds, OfQuery
      <4>2. OneWindow(p, q, lastEnd[q], windows)
        BY <2>2, <3>2 DEF ExportInv, Exporter
      <4> HIDE DEF p
      <4>3. CASE of = {}
        BY <1>1, <4>1, <4>3
      <4>4. CASE of # {}
        <5>1. PICK w \in lastEnd[q] + 1 .. windows : of = Full(q, w)
          BY <4>2, <4>4 DEF OneWindow
        <5>2. w \in Nat /\ lastEnd[q] < w
          BY <1>1, <5>1
        <5>3. EndOf(of) = w
          BY <5>1, <5>2, FullFacts
        <5> HIDE DEF of
        <5> QED
          BY <1>1, <4>1, <4>4, <5>2, <5>3
      <4> QED
        BY <4>3, <4>4
    <3> QED
      BY <1>6, <3>1, <3>2 DEF PostFails, PostSucceeds
  <2> HIDE DEF t
  <2>5. ASSUME t.at = "ended" \/ (t.at = "posting" /\ t.stopping)
        PROVE  /\ e = "otlp" =>
                    \A q \in Query : estimates[q] \subseteq tried'[e] \/ windows <= lastEnd'[q]
               /\ e = "gateway" /\ snapshots # 0 => tried'[e] = {snapshots}
    <3>1. LastRead(e)
      BY <2>1, <2>3, <2>5
    <3>2. ASSUME e = "otlp", NEW q \in Query
          PROVE  estimates[q] \subseteq tried'[e] \/ windows <= lastEnd'[q]
      <4>1. estimates[q] \subseteq tried["otlp"] \/ windows <= lastEnd[q]
        BY <1>3, <3>1, <3>2
      <4>2. windows <= lastEnd[q] => windows <= lastEnd'[q]
        BY <1>1, <2>4
      <4> QED
        BY <2>2, <3>2, <4>1, <4>2
    <3> QED
      BY <1>3, <2>2, <3>1, <3>2
  <2> QED
    BY <1>1, <1>2, <1>3, <2>1, <2>2, <2>4, <2>5, ThreadFinal
<1>7. CASE Read(e)
  <2> DEFINE p == Picked(e)
             t == [thread[e] EXCEPT !.at = IF p = {} THEN AfterPost(e) ELSE "posting",
                                    !.picked = p, !.attempt = IF p = {} THEN 0 ELSE 1]
  <2>1. /\ t.at = (IF p = {} THEN AfterPost(e) ELSE "posting") /\ t.stopping = thread[e].stopping
    BY <1>1 DEF ThreadType
  <2>2. /\ thread' = [thread EXCEPT ![e] = t] /\ thread[e].at = "reading"
        /\ UNCHANGED lastEnd
        /\ tried' = [tried EXCEPT ![e] = IF p = {} THEN tried[e] ELSE p]
    BY <1>1, <1>7 DEF Read
  <2> HIDE DEF t
  <2>3. /\ e = "otlp" => \A q \in Query : windows > lastEnd[q] => estimates[q] \subseteq p
        /\ e = "gateway" => p = {x \in {snapshots} : x # 0}
    BY PickedIs DEF Picked
  <2> HIDE DEF p
  <2>4. t.at # "off" /\ (t.stopping \/ t.at = "ended" => services)
    BY <1>3, <2>1 DEF AfterPost
  <2>5. /\ e = "otlp" =>
             \A q \in Query : estimates[q] \subseteq tried'[e] \/ windows <= lastEnd'[q]
        /\ e = "gateway" /\ snapshots # 0 => tried'[e] = {snapshots}
    <3>1. tried'[e] = IF p = {} THEN tried[e] ELSE p
      BY <1>1, <2>2
    <3>2. ASSUME e = "otlp", NEW q \in Query
          PROVE  estimates[q] \subseteq tried'[e] \/ windows <= lastEnd'[q]
      <4>1. lastEnd[q] \in Nat
        BY <1>1
      <4>2. windows > lastEnd[q] \/ windows <= lastEnd'[q]
        BY <1>1, <2>2, <4>1
      <4> QED
        BY <2>3, <3>1, <3>2, <4>2
    <3>3. e = "gateway" /\ snapshots # 0 => p = {snapshots}
      BY <2>3
    <3> QED
      BY <3>1, <3>2, <3>3
  <2>6. \A f \in Exporter : f # e => tried'[f] = tried[f]
    BY <1>1, <2>2
  <2> QED
    BY <1>1, <1>2, <2>2, <2>4, <2>5, <2>6, ThreadFinal
<1> QED
  BY <1>4, <1>5, <1>6, <1>7 DEF Exports

(* The invariant. *)
LEMMA FinalInvariant == Spec => []FinalInv
<1>1. Init => FinalInv
  <2> SUFFICES ASSUME Init PROVE FinalInv
    OBVIOUS
  <2>1. /\ at = "loading" /\ services = FALSE /\ sourceDone = FALSE /\ setup \in Setup
        /\ thread = [e \in Exporter |-> Off]
    BY DEF Init, PublishedInit
  <2>2. setup.exporters \subseteq Exporter
    BY <2>1, AgentAssumption
  <2>3. \A e \in Exporter : thread[e].at = "off" /\ thread[e].stopping = FALSE
    BY <2>1 DEF Off
  <2>4. ~LastRead("otlp") /\ ~LastRead("gateway")
    BY <2>3 DEF LastRead, Exporter
  <2> QED
    BY <2>1, <2>2, <2>3, <2>4 DEF FinalInv
<1>2. ExportInv /\ FinalInv /\ [Next]_agentVars => FinalInv'
  <2> SUFFICES ASSUME ExportInv, FinalInv, [Next]_agentVars PROVE FinalInv'
    OBVIOUS
  <2>1. CASE \/ LoadPlans \/ LoadPlansFails \/ BuildRuntime \/ BuildRuntimeFails
             \/ BindFails \/ SpawnCapture \/ SpawnCaptureFails
             \/ JoinCapture \/ Serve \/ StopServices \/ JoinHttp \/ JoinExporters
    BY <2>1, MainFinal, FinalStays
  <2>2. CASE \/ UNCHANGED agentVars \/ Signal \/ Gate \/ AcceptLoop \/ Clients \/ QuickClient
             \/ CaptureThread \/ Kernel \/ Faults \/ \E l \in Lanes : LaneThread(l)
    BY <2>2, OthersFinal, FinalStays
  <2>3. CASE Run \/ RunFails \/ FinishRuntime \/ ExportSnapshotsNow \/ FinishQueueLocal
    BY <2>3, RunFinal
  <2>4. CASE Bind \/ \E e \in Exporter : SpawnExporterFails(e)
    BY <2>4, StartFinal
  <2>5. CASE \E e \in Exporter : Exports(e)
    BY <2>5, ExportsFinal
  <2> QED
    BY <2>1, <2>2, <2>3, <2>4, <2>5, Zenon DEF Next, MainThread
<1> QED
  BY <1>1, <1>2, ExportInvariant, PTL DEF Spec

(* When run_until returns after a runtime that ended well, every event put *)
(* into the channel has been processed, and the last attempt of every      *)
(* exporter was about the final state, or that was exported before; only   *)
(* snapshots that could not be made are missing from it.  The order of the *)
(* joins is what carries it, for any number of queries, series, lanes and  *)
(* events.                                                                 *)
THEOREM AgentFinalStateExported == Spec => []FinalStateExported
<1>1. CaptureInv /\ ExportInv /\ FinalInv => FinalStateExported
  <2> SUFFICES ASSUME CaptureInv, ExportInv, FinalInv, at = "done", sourceDone
               PROVE  /\ processed = accepted
                      /\ "otlp" \in setup.exporters =>
                           \A q \in Query : estimates[q] \subseteq tried["otlp"]
                                              \/ EndOf(estimates[q]) = lastEnd[q]
                      /\ "gateway" \in setup.exporters =>
                           /\ exportLost \/ snapshots = processed
                           /\ snapshots # 0 => tried["gateway"] = {snapshots}
    BY DEF FinalStateExported
  <2>1. processed = accepted /\ processed \in Nat
    BY DEF CaptureInv
  <2>2. \A e \in setup.exporters : LastRead(e)
    BY DEF FinalInv, LastRead
  <2>3. "gateway" \in setup.exporters =>
          /\ exportLost \/ snapshots = processed
          /\ snapshots # 0 => tried["gateway"] = {snapshots}
    BY <2>2 DEF FinalInv
  <2>4. ASSUME "otlp" \in setup.exporters, NEW q \in Query, ~(estimates[q] \subseteq tried["otlp"])
        PROVE  EndOf(estimates[q]) = lastEnd[q]
    <3>1. windows <= lastEnd[q]
      BY <2>2, <2>4 DEF FinalInv
    <3>2. /\ windows \in Nat /\ lastEnd[q] \in Nat /\ lastEnd[q] <= windows
          /\ estimates[q] = IF windows = 0 THEN {} ELSE Full(q, windows)
      BY DEF ExportInv, Newest
    <3>3. estimates[q] = Full(q, windows)
      BY <2>4, <3>2
    <3>4. EndOf(Full(q, windows)) = windows
      BY <3>2, FullFacts
    <3> QED
      BY <3>1, <3>2, <3>3, <3>4
  <2> QED
    BY <2>1, <2>3, <2>4
<1> QED
  BY <1>1, CaptureInvariant, ExportInvariant, FinalInvariant, PTL
===============================================================================
