------------------------------ MODULE MisraGries ------------------------------
(***************************************************************************)
(* The Misra-Gries summary of flowsketch-algos: at most CounterCapacity    *)
(* counters, a function from the counted keys.                             *)
(***************************************************************************)
EXTENDS ExactCounter, SequencesExt

CONSTANT CounterCapacity  \* capacity of the summary

ASSUME CounterAssumption == CounterCapacity \in Nat \ {0}

Counters == [counts : UNION {[T -> Nat] : T \in SUBSET Keys}, total : Nat]

EmptyCounters == [counts |-> [k \in {} |-> 0], total |-> 0]

(* retain: everything loses dec, counters that reach 0 go. *)
Decremented(counts, dec) ==
  [k \in {j \in DOMAIN counts : counts[j] > dec} |-> counts[k] - dec]

WithCount(counts, k, c) ==
  [j \in DOMAIN counts \cup {k} |-> IF j = k THEN c ELSE counts[j]]

Smallest(counts) ==
  CHOOSE c \in {counts[k] : k \in DOMAIN counts} :
    \A k \in DOMAIN counts : c <= counts[k]

(* Mutant: what is left of the weight is dropped. *)
MutantAddKeepsWeight(m, k, w) ==
  LET dec  == IF Smallest(m.counts) < w THEN Smallest(m.counts) ELSE w
      rest == Decremented(m.counts, dec)
  IN  [counts |-> IF k \in DOMAIN m.counts THEN [m.counts EXCEPT ![k] = @ + w]
                  ELSE IF Cardinality(DOMAIN m.counts) < CounterCapacity
                       THEN WithCount(m.counts, k, w)
                       ELSE rest,
       total  |-> m.total + w]

AddCount(m, k, w) ==
  LET dec  == IF Smallest(m.counts) < w THEN Smallest(m.counts) ELSE w
      rest == Decremented(m.counts, dec)
  IN  [counts |-> IF k \in DOMAIN m.counts THEN [m.counts EXCEPT ![k] = @ + w]
                  ELSE IF Cardinality(DOMAIN m.counts) < CounterCapacity
                       THEN WithCount(m.counts, k, w)
                       ELSE IF w > dec /\ Cardinality(DOMAIN rest) < CounterCapacity
                            THEN WithCount(rest, k, w - dec)
                            ELSE rest,
       total  |-> m.total + w]

CountOf(m, k) == IF k \in DOMAIN m.counts THEN m.counts[k] ELSE 0

(* Everything loses the excess-th smallest count, when there is an excess. *)
TrimToCapacity(counts) ==
  LET excess == Cardinality(DOMAIN counts) - CounterCapacity
      dec    == CHOOSE c \in {counts[k] : k \in DOMAIN counts} :
                  /\ Cardinality({k \in DOMAIN counts : counts[k] < c}) < excess
                  /\ Cardinality({k \in DOMAIN counts : counts[k] <= c}) >= excess
  IN  IF Cardinality(DOMAIN counts) > CounterCapacity THEN Decremented(counts, dec)
                                                      ELSE counts

MergeCounters(m, o) ==
  [counts |-> TrimToCapacity([k \in DOMAIN m.counts \cup DOMAIN o.counts |->
                                CountOf(m, k) + CountOf(o, k)]),
   total  |-> m.total + o.total]

(* A snapshot holds the counters in key order; the reader inserts them one *)
(* by one.                                                                 *)
WriteCounters(m) ==
  LET D   == DOMAIN m.counts
      key == [i \in 1 .. Cardinality(D) |->
                CHOOSE k \in D : Cardinality({j \in D : j < k}) = i - 1]
  IN  [total   |-> m.total,
       entries |-> [i \in 1 .. Cardinality(D) |-> <<key[i], m.counts[key[i]]>>]]

CountersAccepted(written) == Len(written.entries) <= CounterCapacity

ReadCounters(written) ==
  [counts |-> FoldLeft(LAMBDA counts, e : WithCount(counts, e[1], e[2]),
                       EmptyCounters.counts, written.entries),
   total  |-> written.total]

(* What the summary promises of the counts it was built from: it never     *)
(* overcounts, and undercounts by at most total / (capacity + 1).          *)
CountersSound(m, truth) ==
  /\ Cardinality(DOMAIN m.counts) <= CounterCapacity
  /\ \A k \in Keys :
       /\ CountOf(m, k) <= truth[k]
       /\ (truth[k] - CountOf(m, k)) * (CounterCapacity + 1) <= m.total
===============================================================================
