--------------------------- MODULE SpaceSavingHeap ----------------------------
(***************************************************************************)
(* How the code keeps a SpaceSaving summary: slots that never move, an     *)
(* index from digest to slots, and a binary min-heap of slot numbers with  *)
(* each slot's place in it.  Slots and heap places count from 1, so the    *)
(* children of i are 2i and 2i+1.  An index bucket is the set of its slots.*)
(***************************************************************************)
EXTENDS SpaceSaving, Functions, SequencesExt

EmptyHeap == [slots |-> <<>>, heap |-> <<>>,
              index |-> [d \in Range(Digest) |-> {}]]

(* The state after n steps of a loop whose body does nothing once it has   *)
(* broken out.                                                             *)
Iterate(Step(_), x, n) ==
  LET after[i \in 0 .. n] == IF i = 0 THEN x ELSE Step(after[i - 1]) IN after[n]

(* The digest's bucket, then the key itself. *)
FindSlot(h, k) == {i \in h.index[Digest[k]] : h.slots[i].key = k}

AddToIndex(h, d, i) == [h EXCEPT !.index[d] = @ \cup {i}]

RemoveFromIndex(h, d, i) == [h EXCEPT !.index[d] = @ \ {i}]

HeapIsLess(h, a, b) ==
  LET x == h.slots[h.heap[a]]
      y == h.slots[h.heap[b]]
  IN  \/ x.count < y.count
      \/ /\ x.count = y.count
         /\ \/ Digest[x.key] < Digest[y.key]
            \/ Digest[x.key] = Digest[y.key] /\ x.key < y.key

SwapHeap(h, a, b) ==
  [h EXCEPT !.heap  = [@ EXCEPT ![a] = h.heap[b], ![b] = h.heap[a]],
            !.slots = [@ EXCEPT ![h.heap[b]].place = a, ![h.heap[a]].place = b]]

SiftUp(h, start) ==
  LET Step(x) == LET parent == x.at \div 2
                 IN  IF x.at > 1 /\ HeapIsLess(x.h, x.at, parent)
                     THEN [h |-> SwapHeap(x.h, x.at, parent), at |-> parent]
                     ELSE x
  IN  Iterate(Step, [h |-> h, at |-> start], Len(h.heap)).h

(* Mutant: only the left child is looked at. *)
MutantSiftDownLeft(h, start) ==
  LET size    == Len(h.heap)
      Step(x) == LET left == 2 * x.at
                 IN  IF left <= size /\ HeapIsLess(x.h, left, x.at)
                     THEN [h |-> SwapHeap(x.h, x.at, left), at |-> left]
                     ELSE x
  IN  Iterate(Step, [h |-> h, at |-> start], size).h

SiftDown(h, start) ==
  LET size    == Len(h.heap)
      Step(x) == LET left     == 2 * x.at
                     right    == left + 1
                     smallest == IF right <= size /\ HeapIsLess(x.h, right, left)
                                 THEN right ELSE left
                 IN  IF left <= size /\ HeapIsLess(x.h, smallest, x.at)
                     THEN [h |-> SwapHeap(x.h, x.at, smallest), at |-> smallest]
                     ELSE x
  IN  Iterate(Step, [h |-> h, at |-> start], size).h

InsertEntry(h, k, e) ==
  LET new == Len(h.slots) + 1
      put == [h EXCEPT !.slots = Append(@, [key |-> k, count |-> e.count,
                                            error |-> e.error, place |-> new]),
                       !.heap  = Append(@, new)]
  IN  SiftUp(AddToIndex(put, Digest[k], new), new)

ReplaceMin(h, k, e) ==
  LET i    == h.heap[1]
      out  == RemoveFromIndex(h, Digest[h.slots[i].key], i)
      into == [out EXCEPT !.slots[i].key = k, !.slots[i].count = e.count,
                          !.slots[i].error = e.error]
  IN  SiftDown(AddToIndex(into, Digest[k], i), 1)

(* add and add_key_buf, which differ in who owns the key's buffer. *)
HeapAdd(h, k, w) ==
  LET min == h.slots[h.heap[1]].count
  IN  IF FindSlot(h, k) # {}
      THEN LET i == CHOOSE i \in FindSlot(h, k) : TRUE
           IN  SiftDown([h EXCEPT !.slots[i].count = @ + w], h.slots[i].place)
      ELSE IF Len(h.slots) < Capacity
           THEN InsertEntry(h, k, [count |-> w, error |-> 0])
           ELSE ReplaceMin(h, k, [count |-> min + w, error |-> min])

(* The summary a heap holds. *)
HeapEntries(h) ==
  [k \in {h.slots[i].key : i \in DOMAIN h.slots} |->
     LET i == CHOOSE i \in DOMAIN h.slots : h.slots[i].key = k
     IN  [count |-> h.slots[i].count, error |-> h.slots[i].error]]

(* The elements of S in order: the i-th has i - 1 before it. *)
Ranked(S, Before(_, _)) ==
  [i \in 1 .. Cardinality(S) |->
     CHOOSE k \in S : Cardinality({j \in S : Before(j, k)}) = i - 1]

(* A merge and from_snapshot fill an empty summary entry by entry: a merge *)
(* largest count first, from_snapshot in key order.                        *)
FillHeap(entries, keys) ==
  FoldLeft(LAMBDA h, k : InsertEntry(h, k, entries[k]), EmptyHeap, keys)

(* What get finds by the index or else, when all slots are taken, the      *)
(* count at the root.                                                      *)
HeapCharged(h, k) ==
  LET i   == CHOOSE i \in FindSlot(h, k) : TRUE
      min == IF Len(h.slots) >= Capacity THEN h.slots[h.heap[1]].count ELSE 0
  IN  IF FindSlot(h, k) # {} THEN [count |-> h.slots[i].count, error |-> h.slots[i].error]
                             ELSE [count |-> min, error |-> min]

(* The slots of h, each with what g has for its key; then those of g whose *)
(* key h does not have.                                                    *)
HeapUnion(h, g) ==
  LET mine       == HeapEntries(h)
      theirs     == HeapEntries(g)
      Plus(e, f) == [count |-> e.count + f.count, error |-> e.error + f.error]
  IN  [k \in DOMAIN mine \cup {k \in DOMAIN theirs : FindSlot(h, k) = {}} |->
         IF k \in DOMAIN mine THEN Plus(mine[k], HeapCharged(g, k))
                              ELSE Plus(HeapCharged(h, k), theirs[k])]

HeapMerge(h, g) ==
  LET all    == HeapUnion(h, g)
      kept   == {k \in DOMAIN all :
                   Cardinality({j \in DOMAIN all : Outranks(all, j, k)}) < Capacity}
      merged == [k \in kept |-> all[k]]
  IN  FillHeap(merged, Ranked(kept, LAMBDA j, k : Outranks(merged, j, k)))

HeapRestore(h) ==
  LET entries == HeapEntries(h)
  IN  FillHeap(entries, Ranked(DOMAIN entries, LAMBDA j, k : j < k))

-------------------------------------------------------------------------------
(* Places and heap are inverse, the index has every slot under its digest, *)
(* and no child is less than its parent.                                   *)
HeapConsistent(h) ==
  /\ Len(h.heap) = Len(h.slots)
  /\ \A i \in DOMAIN h.slots : h.heap[h.slots[i].place] = i
  /\ \A d \in DOMAIN h.index :
       h.index[d] = {i \in DOMAIN h.slots : Digest[h.slots[i].key] = d}
  /\ \A a \in 2 .. Len(h.heap) : ~HeapIsLess(h, a, a \div 2)
===============================================================================
