----------------------------- MODULE ReplayDriver -----------------------------
(***************************************************************************)
(* flowsketch replay: one thread reads events from a capture file and      *)
(* drives a QueryEngine.  When the engine reports backpressure it drains   *)
(* estimates and retries the same event; it gives up if the drain returned *)
(* no estimate.                                                            *)
(***************************************************************************)
EXTENDS QueryEngine, FiniteSets

CONSTANT
  AlertMin   \* fewest events of a window that give an estimate: 1 without
             \* alertIf, more when small estimates are filtered out

ASSUME AlertAssumption == AlertMin \in Nat \ {0}

VARIABLES
  pc,        \* where the driver is
  event      \* the event it is about to process

driver  == <<pc, event>>
allVars == <<vars, driver>>

ReplayInit ==
  /\ Init
  /\ pc = "read"
  /\ event = [ts |-> 0, match |-> {}]

(* emit_estimates yields nothing for an empty window or when every         *)
(* estimate is below the alert threshold.                                  *)
HasEstimates(w) == Cardinality(w.ids) >= AlertMin

Drainable ==
  \E q \in Query : \E i \in 1 .. Len(queries[q].emitted) :
    HasEstimates(queries[q].emitted[i])

PendingWindowsFull == \E q \in Query : Len(queries[q].emitted) = Capacity[q]

Read ==
  /\ pc = "read" /\ Len(log) < MaxEvents
  /\ event' \in Event
  /\ pc' = "process"
  /\ UNCHANGED vars

EndOfFile ==
  /\ pc = "read"
  /\ pc' = "finish"
  /\ UNCHANGED <<vars, event>>

(* A truncated or malformed record. *)
ReadFails ==
  /\ pc = "read"
  /\ pc' = "failed"
  /\ UNCHANGED <<vars, event>>

ProcessEvent ==
  /\ pc = "process"
  /\ Process(event)
  /\ pc' = "drain"
  /\ UNCHANGED event

(* After every event the driver drains once a query's buffer is full. *)
DrainIfFull ==
  /\ pc = "drain"
  /\ IF PendingWindowsFull THEN TakeWindowStates ELSE UNCHANGED vars
  /\ pc' = "read"
  /\ UNCHANGED event

(* Mutant: the same event is retried without draining first.               *)
MutantRetryOnly ==
  /\ pc \in {"process", "finish"}
  /\ IF pc = "process" THEN ~ProcessPreflight(event) ELSE ~FinishPreflight
  /\ UNCHANGED allVars

(* Refused: drain and retry, or give up when no estimate came out.  The    *)
(* completed windows are consumed either way.                              *)
DrainAndRetry ==
  /\ pc \in {"process", "finish"}
  /\ IF pc = "process" THEN ~ProcessPreflight(event) ELSE ~FinishPreflight
  /\ TakeWindowStates
  /\ pc' = IF Drainable THEN pc ELSE "bailed"
  /\ UNCHANGED event

FinishReplay ==
  /\ pc = "finish"
  /\ Finish
  /\ pc' = "output"
  /\ UNCHANGED event

(* The snapshots, written before the output, cannot be made or written. *)
SnapshotsFail ==
  /\ pc = "output"
  /\ pc' = "failed"
  /\ UNCHANGED <<vars, event>>

(* Mutant: the windows closed by finish are not collected.                 *)
MutantOutputEarly ==
  /\ pc = "output"
  /\ UNCHANGED vars
  /\ pc' = "done"
  /\ UNCHANGED event

Output ==
  /\ pc = "output"
  /\ IF \E q \in Query : queries[q].emitted # <<>>
       THEN TakeWindowStates ELSE UNCHANGED vars
  /\ pc' = "done"
  /\ UNCHANGED event

Step ==
  \/ Read \/ EndOfFile \/ ProcessEvent \/ DrainIfFull \/ DrainAndRetry
  \/ FinishReplay \/ Output

Faults == ReadFails \/ SnapshotsFail

Terminated == pc \in {"done", "bailed", "failed"} /\ UNCHANGED allVars

ReplayNext == Step \/ Faults \/ Terminated

(* One thread: it keeps running.  Faults are not forced. *)
ReplaySpec == ReplayInit /\ [][ReplayNext]_allVars /\ WF_allVars(Step)

-------------------------------------------------------------------------------
(* What replay prints covers the whole capture: when it is done, every     *)
(* event that passed a query's filter was late or is in a window that was  *)
(* drained, whatever mix of full-buffer drains and retries got there.      *)
OutputComplete ==
  pc = "done" =>
    \A q \in Query : \A i \in Id :
      q \in log[i].match =>
        \/ i \in queries[q].late
        \/ \E w \in 1 .. Len(taken[q]) : i \in taken[q][w].ids

(* Without alert thresholds (AlertMin = 1) a replay reaches its output, or *)
(* an I/O error that is none of its own: whenever the engine refuses an    *)
(* event, the windows drained to make room include one with estimates, so  *)
(* it never gives up and never retries for ever.                           *)
ReplayEnds == pc = "read" ~> pc \in {"done", "failed"}

(* The message replay gives up with, "query engine reported output         *)
(* backpressure without a drainable window", is true.                      *)
GivesUpWithoutWindow ==
  [][pc' = "bailed" => \A q \in Query : queries[q].emitted = <<>>]_allVars
===============================================================================
