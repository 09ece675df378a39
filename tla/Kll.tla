---------------------------------- MODULE Kll ---------------------------------
(***************************************************************************)
(* KllSketch of flowsketch-algos: levels of values, each of weight 2^level.*)
(* A level over its capacity is sorted and every other value is promoted.  *)
(* Levels count from 1 and are kept sorted (the code sorts when it matters)*)
(* The parity comes from a SplitMix64 stream: any sequence of bits.        *)
(***************************************************************************)
EXTENDS ExactCounter, SequencesExt

CONSTANTS
  TopCapacity,      \* k
  MinLevelCapacity, \* MIN_LEVEL_CAPACITY
  MaxLevels         \* MAX_LEVELS

ASSUME KllAssumption ==
  /\ {TopCapacity, MinLevelCapacity, MaxLevels} \subseteq Nat \ {0}
  /\ MinLevelCapacity <= TopCapacity

(* `spent' bounds what compactions so far can have moved any rank; it is   *)
(* not part of the program.                                                *)
EmptyKll == [levels |-> <<<<>>>>, n |-> 0, spent |-> 0]

Sorted(values) == SortSeq(values, LAMBDA a, b : a < b)

(* k at the top, decaying by 2/3 per level below, not under the minimum. *)
LevelCapacity(count, level) ==
  LET decayed[d \in 0 .. count] == IF d = 0 THEN TopCapacity
                                   ELSE (decayed[d - 1] * 2) \div 3
      cap == decayed[count - level]
  IN  IF cap < MinLevelCapacity THEN MinLevelCapacity ELSE cap

(* Every other value of a sorted buffer, after skipping offset of them. *)
Promoted(buffer, offset) ==
  [i \in 1 .. (Len(buffer) - offset + 1) \div 2 |-> buffer[2 * i - 1 + offset]]

(* One round of the loop of compress, at level x.level. *)
CompressRound(x, bits) ==
  LET l      == x.level
      levels == x.s.levels
      taller == IF l = Len(levels) THEN Append(levels, <<>>) ELSE levels
      up     == Promoted(levels[l], bits[l])
  IN  IF l > Len(levels) THEN x
      ELSE IF Len(levels[l]) <= LevelCapacity(Len(levels), l)
           THEN [x EXCEPT !.level = l + 1]
           ELSE [level |-> l + 1,
                 s |-> [x.s EXCEPT
                   !.levels = [taller EXCEPT ![l] = <<>>, ![l + 1] = Sorted(@ \o up)],
                   !.spent = @ + 2 ^ (l - 1)]]

(* bits[l] is the parity drawn when level l is compacted. *)
Compress(s, bits) ==
  LET after[i \in 0 .. Len(bits)] ==
        IF i = 0 THEN [level |-> 1, s |-> s] ELSE CompressRound(after[i - 1], bits)
  IN  after[Len(bits)].s

InsertValue(s, v, bits) ==
  Compress([s EXCEPT !.levels[1] = Sorted(Append(@, v)), !.n = @ + 1], bits)

(* Mutant: levels above those of the receiver are lost. *)
MutantMergeTruncates(s, o, bits) ==
  LET Level(x, l) == IF l <= Len(x.levels) THEN x.levels[l] ELSE <<>>
  IN  Compress([levels |-> [l \in 1 .. Len(s.levels) |-> Sorted(Level(s, l) \o Level(o, l))],
                n      |-> s.n + o.n,
                spent  |-> s.spent + o.spent], bits)

MergeKll(s, o, bits) ==
  LET Level(x, l) == IF l <= Len(x.levels) THEN x.levels[l] ELSE <<>>
      tall        == IF Len(s.levels) > Len(o.levels) THEN Len(s.levels)
                                                      ELSE Len(o.levels)
  IN  Compress([levels |-> [l \in 1 .. tall |-> Sorted(Level(s, l) \o Level(o, l))],
                n      |-> s.n + o.n,
                spent  |-> s.spent + o.spent], bits)

(* A snapshot holds the number of levels and each level after its length.  *)
WriteLevels(s) ==
  FoldLeft(LAMBDA written, level : written \o <<Len(level)>> \o level,
           <<Len(s.levels)>>, s.levels)

KllAccepted(written) == written[1] <= MaxLevels

ReadLevels(written) ==
  LET after[i \in 0 .. written[1]] ==
        IF i = 0 THEN [pos |-> 2, levels |-> <<>>]
        ELSE LET r   == after[i - 1]
                 len == written[r.pos]
             IN  [pos    |-> r.pos + len + 1,
                  levels |-> Append(r.levels, SubSeq(written, r.pos + 1, r.pos + len))]
  IN  IF written[1] = 0 THEN <<<<>>>> ELSE after[written[1]].levels

(* Weight of the values up to v, as rank computes it. *)
WeightUpTo(s, v) ==
  LET upTo(level) == Len(SelectSeq(level, LAMBDA x : x <= v))
      sum[l \in 0 .. Len(s.levels)] ==
        IF l = 0 THEN 0 ELSE sum[l - 1] + 2 ^ (l - 1) * upTo(s.levels[l])
  IN  sum[Len(s.levels)]

(* A rank is off by at most what the compactions can have moved it: one    *)
(* item of its level's weight for each.                                    *)
RankSound(s, truth) ==
  \A v \in Keys :
    LET rank == MapThenSumSet(LAMBDA k : truth[k], {k \in Keys : k <= v})
    IN  /\ WeightUpTo(s, v) <= rank + s.spent
        /\ rank <= WeightUpTo(s, v) + s.spent
===============================================================================
