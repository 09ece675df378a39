----------------------------- MODULE QueryEngine ------------------------------
(***************************************************************************)
(* QueryEngine of flowsketch-runtime: a vector of running queries fed from *)
(* one event stream.  Every operation first checks, for every query, that  *)
(* the windows it would close fit the query's completed-window buffer, and *)
(* only then changes anything.                                             *)
(***************************************************************************)
EXTENDS WindowRing

CONSTANTS
  QueryCount,  \* number of planned queries; query q is the q-th of the vector
  Slide,       \* Slide[q]    : slide of query q, in clock ticks
  Ring,        \* Ring[q]     : window_buckets, size / slide
  Capacity,    \* Capacity[q] : pending_window_capacity
  MaxTs,       \* largest event timestamp (bound of the model)
  MaxEvents    \* most events in one behaviour (bound of the model)

Query == 1 .. QueryCount

ASSUME ConstantsAssumption ==
  /\ QueryCount \in Nat
  /\ Slide \in [Query -> Nat \ {0}]
  /\ Ring \in [Query -> Nat \ {0}]
  /\ Capacity \in [Query -> Nat \ {0}]
  /\ MaxTs \in Nat
  /\ MaxEvents \in Nat

(* The planner gives every query as many pending windows as buckets: the   *)
(* most windows one call can close.                                        *)
ASSUME PlannedCapacity == \A q \in Query : Capacity[q] >= Ring[q]

Ts == 0 .. MaxTs

(* A flow event is its timestamp and the queries whose filter it passes.   *)
Event == [ts : Ts, match : SUBSET Query]

VARIABLES
  queries,   \* queries[q] : running query record (see WindowRing)
  log,       \* the events counted by events_processed, in order
  taken,     \* taken[q] : completed windows already drained by the consumer
  result,    \* what the last call returned
  finished   \* end of stream: the caller makes no further calls but drains

vars == <<queries, log, taken, result, finished>>

Init ==
  /\ queries = [q \in Query |-> NewQuery]
  /\ log = <<>>
  /\ taken = [q \in Query |-> <<>>]
  /\ result = "ok"
  /\ finished = FALSE

-------------------------------------------------------------------------------
(* Target bucket of query q for timestamp ts. *)
Target(q, ts) == BucketStartFor(Slide[q], ts)

EnsureCanAdvance(q, ts) ==
  CanAdvance(queries[q], Ring[q], Capacity[q], Target(q, ts))

EnsureCanProcess(q, e) == q \in e.match => EnsureCanAdvance(q, e.ts)

EnsureCanFinish(q) ==
  queries[q].buckets # <<>> => CanEmit(queries[q], Capacity[q], 1)

(* Mutant: the preflight of process looks at the first query only.         *)
MutantPreflightFirst(e) == \A q \in Query : q = 1 => EnsureCanProcess(q, e)

(* The preflight of process, advance_to and finish: the queries that       *)
(* refuse.                                                                 *)
ProcessPreflight(e)  == \A q \in Query : EnsureCanProcess(q, e)
AdvancePreflight(ts) == \A q \in Query : EnsureCanAdvance(q, ts)
FinishPreflight      == \A q \in Query : EnsureCanFinish(q)

(* The second loop of an operation runs the queries in order and stops at  *)
(* the first that fails: the queries before it have been changed.          *)
Reached(refuses) == {q \in Query : \A f \in refuses : q < f}

ApplyInOrder(refuses, step) ==
  [q \in Query |-> IF q \in Reached(refuses) THEN step[q] ELSE queries[q]]

Returned(refuses) == IF refuses = {} THEN "ok" ELSE "backpressure"

-------------------------------------------------------------------------------
Process(e) ==
  /\ ~finished
  /\ Len(log) < MaxEvents
  /\ ProcessPreflight(e)
  /\ LET id      == Len(log) + 1
         refuses == {q \in e.match : ~EnsureCanAdvance(q, e.ts)}
     IN  /\ queries' = ApplyInOrder(refuses,
              [q \in Query |->
                 IF q \in e.match
                   THEN ProcessMatching(queries[q], Ring[q], Target(q, e.ts), id)
                   ELSE queries[q]])
         /\ result' = Returned(refuses)
  /\ log' = Append(log, e)
  /\ UNCHANGED <<taken, finished>>

AdvanceTo(ts) ==
  /\ ~finished
  /\ AdvancePreflight(ts)
  /\ LET refuses == {q \in Query : ~EnsureCanAdvance(q, ts)}
     IN  /\ queries' = ApplyInOrder(refuses,
              [q \in Query |-> AdvanceToBucket(queries[q], Ring[q], Target(q, ts))])
         /\ result' = Returned(refuses)
  /\ UNCHANGED <<log, taken, finished>>

(* A failed preflight of process or advance_to. *)
Refuse ==
  /\ ~finished
  /\ \/ \E e \in Event : ~ProcessPreflight(e)
     \/ \E ts \in Ts : ~AdvancePreflight(ts)
  /\ result' = "backpressure"
  /\ UNCHANGED <<queries, log, taken, finished>>

Finish ==
  /\ ~finished
  /\ FinishPreflight
  /\ queries' = [q \in Query |-> FinishQuery(queries[q])]
  /\ result' = "ok"
  /\ finished' = TRUE
  /\ UNCHANGED <<log, taken>>

RefuseFinish ==
  /\ ~finished
  /\ ~FinishPreflight
  /\ result' = "backpressure"
  /\ UNCHANGED <<queries, log, taken, finished>>

(* Mutant: the windows are copied out but not drained. *)
MutantTakeCopies ==
  /\ \E q \in Query : queries[q].emitted # <<>>
  /\ \A q \in Query : Len(taken[q]) <= MaxTs
  /\ taken' = [q \in Query |-> taken[q] \o queries[q].emitted]
  /\ result' = "ok"
  /\ UNCHANGED <<queries, log, finished>>

(* take_window_states and take_estimates drain every query's completed     *)
(* windows in emission order.                                              *)
TakeWindowStates ==
  /\ \E q \in Query : queries[q].emitted # <<>>
  /\ taken' = [q \in Query |-> taken[q] \o queries[q].emitted]
  /\ queries' = [q \in Query |-> [queries[q] EXCEPT !.emitted = <<>>]]
  /\ result' = "ok"
  /\ UNCHANGED <<log, finished>>

Next ==
  \/ \E e \in Event : Process(e)
  \/ \E ts \in Ts : AdvanceTo(ts)
  \/ Refuse
  \/ Finish
  \/ RefuseFinish
  \/ TakeWindowStates

Spec == Init /\ [][Next]_vars

-------------------------------------------------------------------------------
(* Every window query q has completed so far, drained or not, in order.    *)
Completed(q) == taken[q] \o queries[q].emitted

Id == 1 .. Len(log)

(* Type correctness of the engine's state. *)
TypeOK ==
  /\ queries \in [Query -> RunningQuery(Id)]
  /\ log \in Seq(Event)
  /\ taken \in [Query -> Seq(WindowState(Id))]
  /\ result \in {"ok", "backpressure"}
  /\ finished \in BOOLEAN

(* The open buckets are consecutive slides, at most window_buckets of them:*)
(* fast-forwarding over a gap leaves the same ring as sliding through it.  *)
RingShape ==
  \A q \in Query : RingOK(queries[q].buckets, Ring[q])

(* The memory promise of the physical plan: completed windows never exceed *)
(* pending_window_capacity, not even when a gap closes a whole ring.       *)
PendingBounded ==
  \A q \in Query : Len(queries[q].emitted) <= Capacity[q]

(* process: "The caller may drain completed windows and retry this exact   *)
(* event safely": with nothing pending no call is refused.                 *)
DrainUnblocks ==
  (\A q \in Query : queries[q].emitted = <<>>) =>
    /\ \A e \in Event : ProcessPreflight(e)
    /\ \A ts \in Ts : AdvancePreflight(ts)
    /\ FinishPreflight

(* Completed windows of a query come out in time order: ends strictly      *)
(* increase and starts never go back, over any mix of slides, gaps, late   *)
(* events and drains.                                                      *)
WindowsInOrder == \A q \in Query : InOrder(Completed(q))

(* No accepted event is lost: at the end of the stream every event that    *)
(* passed the filter was counted late or is in a completed window.         *)
NoEventLost ==
  finished =>
    \A q \in Query : \A i \in Id :
      q \in log[i].match =>
        \/ i \in queries[q].late
        \/ \E w \in 1 .. Len(Completed(q)) : i \in Completed(q)[w].ids

(* Backpressure is all or nothing: a call that returns it has changed no   *)
(* query and has not counted the event, for every query of the vector.     *)
AllOrNothing ==
  [][result' = "backpressure" => UNCHANGED <<queries, log, taken>>]_vars
===============================================================================
