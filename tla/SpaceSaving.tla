----------------------------- MODULE SpaceSaving ------------------------------
(***************************************************************************)
(* The SpaceSaving summary of flowsketch-algos, as a function from the     *)
(* tracked keys to their entries.  SpaceSavingHeap has the slots, the index*)
(* and the heap the code keeps it in.                                      *)
(***************************************************************************)
EXTENDS ExactCounter, FiniteSets

CONSTANTS
  Capacity,  \* capacity of the summaries of candidates
  Digest     \* Digest[k] : key_digest(k), which may collide

ASSUME SummaryAssumption ==
  /\ Capacity \in Nat \ {0}
  /\ Digest \in [Keys -> Nat]

Entry == [count : Nat, error : Nat]

Summary == [entries : UNION {[T -> Entry] : T \in SUBSET Keys}, total : Nat]

EmptySummary == [entries |-> [k \in {} |-> [count |-> 0, error |-> 0]], total |-> 0]

Tracked(s) == DOMAIN s.entries

Full(s) == Cardinality(Tracked(s)) >= Capacity

(* The order of the heap: count, then digest, then key. *)
SlotIsLess(entries, a, b) ==
  \/ entries[a].count < entries[b].count
  \/ /\ entries[a].count = entries[b].count
     /\ \/ Digest[a] < Digest[b]
        \/ Digest[a] = Digest[b] /\ a < b

MinimumSlot(s) ==
  CHOOSE k \in Tracked(s) :
    \A j \in Tracked(s) \ {k} : SlotIsLess(s.entries, k, j)

MinimumCount(s) ==
  IF Tracked(s) = {} THEN 0 ELSE s.entries[MinimumSlot(s)].count

WithEntry(entries, k, e) ==
  [j \in DOMAIN entries \cup {k} |-> IF j = k THEN e ELSE entries[j]]

(* An untracked key takes a free slot, or the slot of the minimum, whose   *)
(* count it inherits as error.                                             *)
AddKey(s, k, w) ==
  LET min  == MinimumCount(s)
      rest == [j \in Tracked(s) \ {MinimumSlot(s)} |-> s.entries[j]]
  IN  [entries |-> IF k \in Tracked(s) THEN [s.entries EXCEPT ![k].count = @ + w]
                   ELSE IF ~Full(s)
                        THEN WithEntry(s.entries, k, [count |-> w, error |-> 0])
                        ELSE WithEntry(rest, k, [count |-> min + w, error |-> min]),
       total   |-> s.total + w]

(* What a key a full summary does not track may still have counted. *)
Unseen(s) == IF Full(s) THEN MinimumCount(s) ELSE 0

Charged(s, k) ==
  IF k \in Tracked(s) THEN s.entries[k]
                      ELSE [count |-> Unseen(s), error |-> Unseen(s)]

Outranks(entries, j, k) ==
  \/ entries[j].count > entries[k].count
  \/ entries[j].count = entries[k].count /\ j < k

Summed(s, o) ==
  [k \in Tracked(s) \cup Tracked(o) |->
     [count |-> Charged(s, k).count + Charged(o, k).count,
      error |-> Charged(s, k).error + Charged(o, k).error]]

(* Mutant: a key missing on one side is not charged its minimum. *)
MutantMergeUncharged(s, o) ==
  LET all  == [k \in Tracked(s) \cup Tracked(o) |->
                 [count |-> (IF k \in Tracked(s) THEN s.entries[k].count ELSE 0)
                            + (IF k \in Tracked(o) THEN o.entries[k].count ELSE 0),
                  error |-> (IF k \in Tracked(s) THEN s.entries[k].error ELSE 0)
                            + (IF k \in Tracked(o) THEN o.entries[k].error ELSE 0)]]
      kept == {k \in DOMAIN all :
                 Cardinality({j \in DOMAIN all : Outranks(all, j, k)}) < Capacity}
  IN  [entries |-> [k \in kept |-> all[k]], total |-> s.total + o.total]

(* The largest counts of the union, at most Capacity of them. *)
MergeSummaries(s, o) ==
  LET all  == Summed(s, o)
      kept == {k \in DOMAIN all :
                 Cardinality({j \in DOMAIN all : Outranks(all, j, k)}) < Capacity}
  IN  [entries |-> [k \in kept |-> all[k]], total |-> s.total + o.total]

(* The checks of from_snapshot on what to_snapshot wrote. *)
SummaryAccepted(s) ==
  /\ Cardinality(Tracked(s)) <= Capacity
  /\ \A k \in Tracked(s) : s.entries[k].error <= s.entries[k].count

(* What a summary promises of the counts it was built from: counts are     *)
(* upper bounds, off by at most the recorded error; a key that is not      *)
(* tracked is no heavier than the minimum; and errors, the minimum included,*)
(* stay within total / capacity.                                           *)
SummarySound(s, truth) ==
  /\ \A k \in Tracked(s) :
       /\ truth[k] <= s.entries[k].count
       /\ s.entries[k].count <= truth[k] + s.entries[k].error
       /\ s.entries[k].error * Capacity <= s.total
  /\ \A k \in Keys \ Tracked(s) : truth[k] <= Unseen(s)
  /\ Unseen(s) * Capacity <= s.total
===============================================================================
