---------------------------- MODULE DirectRuntime -----------------------------
(***************************************************************************)
(* The queue-local runtime of flowsketch-agent: one worker thread per      *)
(* capture lane, each owning an engine and a bounded event queue, and the  *)
(* engine thread that runs a two-phase barrier over them: pause every      *)
(* worker, take the largest timestamp any of them saw as the watermark,    *)
(* advance every engine to it and publish the merged windows.              *)
(*                                                                         *)
(* One query per engine; its time is counted in slides (see WindowRing).   *)
(***************************************************************************)
EXTENDS WindowMerge, Integers

CONSTANTS
  LaneCount,        \* capture lanes, each with its worker
  Ring,             \* window_buckets of the query
  Capacity,         \* pending_window_capacity of the query
  BatchSize,        \* runtime_batch_size
  ChannelCapacity,  \* slots of one lane's event channel
  StartTs,          \* initial_watermark_nanos
  Ts,               \* timestamps of captured events
  MaxEvents,        \* most captured events in one behaviour (bound)
  MaxRounds         \* most periodic checkpoints in one behaviour (bound)

Lane == 1 .. LaneCount

ASSUME LanesAssumption ==
  /\ {LaneCount, Ring, Capacity, BatchSize, ChannelCapacity} \subseteq Nat \ {0}
  /\ StartTs \in Nat
  /\ Ts \subseteq Nat
  /\ MaxEvents \in Nat
  /\ MaxRounds \in Nat

(* plan: pending_window_capacity = buckets.  With room for more, a lane    *)
(* could slide and then jump between two checkpoints and complete windows  *)
(* that a lane which only jumps skips.                                     *)
ASSUME LaneCapacity == Capacity = Ring

NoTs == -1   \* max_timestamp_nanos = None

VARIABLES
  worker,    \* worker[l] : where the worker of lane l is
  engine,    \* engine[l] : its running query
  maxTs,     \* maxTs[l]  : largest timestamp it processed
  dataOpen,  \* dataOpen[l] : it has not seen its channel closed
  inBatch,   \* inBatch[l]  : events of its current batch
  fault,     \* fault[l]  : why it failed
  channel,   \* channel[l]: events queued on lane l, as ids of log
  laneOpen,  \* laneOpen[l] : the capture side still holds the sender
  control,   \* control[l]: control messages queued for worker l
  drained,   \* lanes that reported the end of their data
  acks,      \* pause acknowledgements of this checkpoint
  reports,   \* checkpoint reports of this checkpoint
  at,        \* where the engine thread is
  next,      \* the lane it starts or sends to next
  order,     \* the checkpoint it is running
  outcome,   \* why it stopped
  rounds,    \* periodic checkpoints started
  log,       \* every event a channel accepted: [lane, ts]
  dropped,   \* dropped_events
  counted,   \* events_processed
  published  \* merged windows in publication order

workers  == <<worker, engine, maxTs, dataOpen, inBatch, fault>>
boundary == <<acks, reports, drained>>
coord    == <<at, next, order, outcome, rounds, published>>
capture  == <<laneOpen, log, dropped>>
vars     == <<workers, boundary, coord, capture, channel, control, counted>>

NoOrder == [watermark |-> NoTs, include |-> FALSE, finish |-> FALSE]

(* new_with_options has built and seeded every engine; no thread runs yet. *)
Init ==
  /\ worker = [l \in Lane |-> "off"]
  /\ engine = [l \in Lane |-> AdvanceToBucket(NewQuery, Ring, StartTs)]
  /\ maxTs = [l \in Lane |-> NoTs]
  /\ dataOpen = [l \in Lane |-> TRUE]
  /\ inBatch = [l \in Lane |-> 0]
  /\ fault = [l \in Lane |-> "none"]
  /\ channel = [l \in Lane |-> <<>>]
  /\ laneOpen = [l \in Lane |-> TRUE]
  /\ control = [l \in Lane |-> <<>>]
  /\ drained = {} /\ acks = {} /\ reports = {}
  /\ at = "start" /\ next = 1 /\ order = NoOrder /\ outcome = "none"
  /\ rounds = 0
  /\ log = <<>> /\ dropped = 0 /\ counted = 0
  /\ published = <<>>

-------------------------------------------------------------------------------
(* The capture side.  offer_event never blocks: a full channel drops the   *)
(* event and counts it.  The senders go away when capture_loop returns.    *)
Running == at \notin {"start", "stopped"}

Offer(l, ts) ==
  /\ Running /\ laneOpen[l] /\ worker[l] \notin {"failed", "ended"}
  /\ Len(log) + dropped < MaxEvents
  /\ IF Len(channel[l]) < ChannelCapacity
       THEN /\ log' = Append(log, [lane |-> l, ts |-> ts])
            /\ channel' = [channel EXCEPT ![l] = Append(@, Len(log) + 1)]
            /\ UNCHANGED dropped
       ELSE /\ dropped' = dropped + 1
            /\ UNCHANGED <<log, channel>>
  /\ UNCHANGED <<workers, boundary, coord, laneOpen, control, counted>>

CloseLane(l) ==
  /\ Running /\ laneOpen[l]
  /\ laneOpen' = [laneOpen EXCEPT ![l] = FALSE]
  /\ UNCHANGED <<workers, boundary, coord, log, dropped, channel, control, counted>>

-------------------------------------------------------------------------------
(* worker_loop.  "loop": about to look at its control channel; "recv":     *)
(* found it empty and waits for an event; "batch": between two events of a *)
(* batch; "paused": acknowledged a pause.                                  *)

Fail(l, why) ==
  /\ worker' = [worker EXCEPT ![l] = "failed"]
  /\ fault' = [fault EXCEPT ![l] = why]

(* Nothing to obey: wait for data.  Once the data is closed the worker     *)
(* blocks on its control channel instead.                                  *)
Poll(l) ==
  /\ worker[l] = "loop" /\ control[l] = <<>> /\ dataOpen[l]
  /\ worker' = [worker EXCEPT ![l] = "recv"]
  /\ UNCHANGED <<engine, maxTs, dataOpen, inBatch, fault, boundary, coord,
                 capture, channel, control, counted>>

(* recv_timeout expires, or the batch found no further event, with the     *)
(* channel still open.                                                     *)
FindEmpty(l) ==
  /\ worker[l] \in {"recv", "batch"} /\ channel[l] = <<>> /\ laneOpen[l]
  /\ worker' = [worker EXCEPT ![l] = "loop"]
  /\ counted' = counted + inBatch[l]
  /\ inBatch' = [inBatch EXCEPT ![l] = 0]
  /\ UNCHANGED <<engine, maxTs, dataOpen, fault, boundary, coord, capture,
                 channel, control>>

(* Mutant: a channel found closed inside a batch is not reported.          *)
MutantFindClosedQuiet(l) ==
  /\ worker[l] \in {"recv", "batch"} /\ channel[l] = <<>> /\ ~laneOpen[l]
  /\ worker' = [worker EXCEPT ![l] = "loop"]
  /\ dataOpen' = [dataOpen EXCEPT ![l] = FALSE]
  /\ drained' = IF worker[l] = "recv" THEN drained \cup {l} ELSE drained
  /\ counted' = counted + inBatch[l]
  /\ inBatch' = [inBatch EXCEPT ![l] = 0]
  /\ UNCHANGED <<engine, maxTs, fault, acks, reports, coord, capture, channel,
                 control>>

(* The channel is empty and its sender gone: report the final drain. *)
FindClosed(l) ==
  /\ worker[l] \in {"recv", "batch"} /\ channel[l] = <<>> /\ ~laneOpen[l]
  /\ worker' = [worker EXCEPT ![l] = "loop"]
  /\ dataOpen' = [dataOpen EXCEPT ![l] = FALSE]
  /\ drained' = drained \cup {l}
  /\ counted' = counted + inBatch[l]
  /\ inBatch' = [inBatch EXCEPT ![l] = 0]
  /\ UNCHANGED <<engine, maxTs, fault, acks, reports, coord, capture, channel,
                 control>>

(* The next event of a batch goes through the engine; a full batch ends.   *)
ProcessEvent(l) ==
  /\ worker[l] \in {"recv", "batch"} /\ channel[l] # <<>>
  /\ LET id   == Head(channel[l])
         ts   == log[id].ts
         full == inBatch[l] + 1 = BatchSize
     IN  /\ CanAdvance(engine[l], Ring, Capacity, ts)
         /\ engine' = [engine EXCEPT ![l] = ProcessMatching(@, Ring, ts, id)]
         /\ maxTs' = [maxTs EXCEPT ![l] = Larger(@, ts)]
         /\ worker' = [worker EXCEPT ![l] = IF full THEN "loop" ELSE "batch"]
         /\ inBatch' = [inBatch EXCEPT ![l] = IF full THEN 0 ELSE @ + 1]
         /\ counted' = IF full THEN counted + BatchSize ELSE counted
  /\ channel' = [channel EXCEPT ![l] = Tail(@)]
  /\ UNCHANGED <<dataOpen, fault, boundary, coord, capture, control>>

(* A refused event ends the worker. *)
RefuseEvent(l) ==
  /\ worker[l] \in {"recv", "batch"} /\ channel[l] # <<>>
  /\ ~CanAdvance(engine[l], Ring, Capacity, log[Head(channel[l])].ts)
  /\ Fail(l, "backpressure")
  /\ channel' = [channel EXCEPT ![l] = Tail(@)]
  /\ UNCHANGED <<engine, maxTs, dataOpen, inBatch, boundary, coord, capture,
                 control, counted>>

(* build_report: advance to the watermark, close the trailing window on a  *)
(* final checkpoint, hand over the completed windows.  Both engine calls   *)
(* may be refused; the report then carries the error.                      *)
Advanced(rq, watermark) ==
  IF watermark = NoTs THEN rq ELSE AdvanceToBucket(rq, Ring, watermark)

AdvanceRefused(rq, watermark) ==
  watermark # NoTs /\ ~CanAdvance(rq, Ring, Capacity, watermark)

(* Mutant: a worker advances to its own largest timestamp.                 *)
MutantOwnWatermark(l) ==
  LET moved == Advanced(engine[l], maxTs[l])
      final == IF order.finish THEN FinishQuery(moved) ELSE moved
  IN  [ok |-> TRUE, engine |-> [final EXCEPT !.emitted = <<>>],
       completed |-> final.emitted, current |-> CurrentWindow(final)]

(* Mutant: the completed windows are copied, not drained.                  *)
MutantReportCopies(l) ==
  LET moved == Advanced(engine[l], order.watermark)
      final == IF order.finish THEN FinishQuery(moved) ELSE moved
  IN  IF AdvanceRefused(engine[l], order.watermark)
         \/ (order.finish /\ ~CanEmit(moved, Capacity, 1))
        THEN [ok |-> FALSE, engine |-> engine[l]]
        ELSE [ok |-> TRUE, engine |-> final,
              completed |-> final.emitted, current |-> CurrentWindow(final)]

BuildReport(l) ==
  LET moved == Advanced(engine[l], order.watermark)
      final == IF order.finish THEN FinishQuery(moved) ELSE moved
  IN  IF AdvanceRefused(engine[l], order.watermark)
        THEN [ok |-> FALSE, engine |-> engine[l]]
      ELSE IF order.finish /\ ~CanEmit(moved, Capacity, 1)
        THEN [ok |-> FALSE, engine |-> moved]
        ELSE [ok |-> TRUE, engine |-> [final EXCEPT !.emitted = <<>>],
              completed |-> final.emitted, current |-> CurrentWindow(final)]

(* handle_control between batches. *)
ObeyPause(l) ==
  /\ worker[l] = "loop" /\ control[l] # <<>> /\ Head(control[l]) = "pause"
  /\ IF at \in {"pause", "acks"}
       THEN /\ acks' = acks \cup {[lane |-> l, ts |-> maxTs[l]]}
            /\ worker' = [worker EXCEPT ![l] = "paused"]
            /\ UNCHANGED fault
       ELSE Fail(l, "closed") /\ UNCHANGED acks
  /\ control' = [control EXCEPT ![l] = Tail(@)]
  /\ UNCHANGED <<engine, maxTs, dataOpen, inBatch, reports, drained, coord,
                 capture, channel, counted>>

(* The checkpoint a paused worker waits for. *)
ObeyCheckpoint(l) ==
  /\ worker[l] = "paused" /\ control[l] # <<>> /\ Head(control[l]) = "checkpoint"
  /\ LET built == BuildReport(l)
     IN  /\ engine' = [engine EXCEPT ![l] = built.engine]
         /\ IF at \in {"command", "reports"}
              THEN /\ reports' = reports \cup
                        {IF built.ok
                           THEN [lane |-> l, ok |-> TRUE, current |-> built.current,
                                 completed |-> built.completed]
                           ELSE [lane |-> l, ok |-> FALSE]}
                   /\ worker' = [worker EXCEPT ![l] =
                        IF order.finish THEN "ended" ELSE "loop"]
                   /\ UNCHANGED fault
              ELSE Fail(l, "closed") /\ UNCHANGED reports
  /\ control' = [control EXCEPT ![l] = Tail(@)]
  /\ UNCHANGED <<maxTs, dataOpen, inBatch, acks, drained, coord, capture,
                 channel, counted>>

ObeyShutdown(l) ==
  /\ worker[l] \in {"loop", "paused"}
  /\ control[l] # <<>> /\ Head(control[l]) = "shutdown"
  /\ worker' = [worker EXCEPT ![l] = "ended"]
  /\ control' = [control EXCEPT ![l] = Tail(@)]
  /\ UNCHANGED <<engine, maxTs, dataOpen, inBatch, fault, boundary, coord,
                 capture, channel, counted>>

(* What handle_control refuses: a checkpoint before a pause, or two pauses.*)
OutOfProtocol(l) ==
  /\ control[l] # <<>>
  /\ \/ worker[l] = "loop" /\ Head(control[l]) = "checkpoint"
     \/ worker[l] = "paused" /\ Head(control[l]) = "pause"

Worker(l) ==
  \/ Poll(l) \/ FindEmpty(l) \/ FindClosed(l) \/ ProcessEvent(l) \/ RefuseEvent(l)
  \/ ObeyPause(l) \/ ObeyCheckpoint(l) \/ ObeyShutdown(l)

-------------------------------------------------------------------------------
(* The engine thread: new_with_options, then queue_local_engine_loop, and  *)
(* the Drop of the runtime after an error.                                 *)
Failed == {l \in Lane : worker[l] = "failed"}
Gone   == {l \in Lane : worker[l] \in {"failed", "ended"}}

GoTo(where, lane) == at' = where /\ next' = lane

Abort(why) == GoTo("drop", 1) /\ outcome' = why

(* Start the workers one by one; each reports that it is pinned and ready. *)
StartWorker ==
  /\ at = "start"
  /\ worker' = [worker EXCEPT ![next] = "loop"]
  /\ IF next = LaneCount THEN GoTo("idle", 1) ELSE GoTo("start", next + 1)
  /\ UNCHANGED <<engine, maxTs, dataOpen, inBatch, fault, boundary, order,
                 outcome, rounds, published, capture, channel, control, counted>>

StartFails ==
  /\ at = "start"
  /\ worker' = [worker EXCEPT ![next] = "ended"]
  /\ Abort("start")
  /\ UNCHANGED <<engine, maxTs, dataOpen, inBatch, fault, boundary, order, rounds,
                 published, capture, channel, control, counted>>

(* checkpoint looks for a dead worker before it does anything. *)
BeginCheckpoint(finish) ==
  /\ IF Failed # {}
       THEN Abort("lane") /\ UNCHANGED <<order, acks, reports>>
       ELSE /\ GoTo(IF finish THEN "drain" ELSE "pause", 1)
            /\ order' = [NoOrder EXCEPT !.finish = finish]
            /\ acks' = {} /\ reports' = {}
            /\ UNCHANGED outcome
  /\ UNCHANGED <<workers, drained, published, capture, channel, control, counted>>

(* The flush interval expires. *)
BeginPeriodic ==
  /\ at = "idle"
  /\ rounds < MaxRounds \/ Failed # {}
  /\ rounds' = Smaller(rounds + 1, MaxRounds)
  /\ BeginCheckpoint(FALSE)

(* capture_loop has returned and every sender is gone. *)
BeginFinal ==
  /\ at = "idle"
  /\ \A l \in Lane : ~laneOpen[l]
  /\ BeginCheckpoint(TRUE)
  /\ UNCHANGED rounds

(* Mutant: the final checkpoint does not wait for the queues to drain.     *)
MutantNoDrain ==
  /\ at = "drain"
  /\ GoTo("pause", 1)
  /\ UNCHANGED <<workers, boundary, order, outcome, rounds, published, capture,
                 channel, control, counted>>

CollectDrained ==
  /\ at = "drain" /\ drained = Lane
  /\ GoTo("pause", 1)
  /\ UNCHANGED <<workers, boundary, order, outcome, rounds, published, capture,
                 channel, control, counted>>

(* Send one control message to the next lane; a dead worker has dropped    *)
(* its receiver.                                                           *)
SendTo(message, after) ==
  /\ IF next \in Gone
       THEN Abort("lane") /\ UNCHANGED control
       ELSE /\ control' = [control EXCEPT ![next] = Append(@, message)]
            /\ IF next = LaneCount THEN GoTo(after, 1) ELSE GoTo(at, next + 1)
            /\ UNCHANGED outcome
  /\ UNCHANGED <<workers, boundary, order, rounds, published, capture, channel,
                 counted>>

SendPause      == at = "pause" /\ SendTo("pause", "acks")
SendCheckpoint == at = "command" /\ SendTo("checkpoint", "reports")

(* Every worker is paused: the watermark is the largest timestamp any of   *)
(* them processed, and the snapshot gate says whether snapshots are due.   *)
Watermark == LET seen == {a.ts : a \in acks}
             IN  CHOOSE m \in seen : \A ts \in seen : ts <= m

(* Mutant: the first acknowledgement is enough.                            *)
MutantFirstAck ==
  /\ at = "acks" /\ acks # {}
  /\ \E due \in BOOLEAN :
       order' = [order EXCEPT !.watermark = Watermark, !.include = due]
  /\ GoTo("command", 1)
  /\ UNCHANGED <<workers, boundary, outcome, rounds, published, capture, channel,
                 control, counted>>

CollectAcks ==
  /\ at = "acks" /\ Cardinality(acks) = LaneCount
  /\ \E due \in BOOLEAN :
       order' = [order EXCEPT !.watermark = Watermark, !.include = due]
  /\ GoTo("command", 1)
  /\ UNCHANGED <<workers, boundary, outcome, rounds, published, capture, channel,
                 control, counted>>

(* Mutant: only the wait for the final drain looks for dead workers.       *)
MutantWaitForDead ==
  /\ at = "drain" /\ drained # Lane
  /\ Failed # {}
  /\ Abort("lane")
  /\ UNCHANGED <<workers, boundary, order, rounds, published, capture, channel,
                 control, counted>>

(* recv_worker times out while a worker is dead. *)
MissDeadWorker ==
  /\ \/ at = "drain" /\ drained # Lane
     \/ at = "acks" /\ Cardinality(acks) < LaneCount
     \/ at = "reports" /\ Cardinality(reports) < LaneCount
  /\ Failed # {}
  /\ Abort("lane")
  /\ UNCHANGED <<workers, boundary, order, rounds, published, capture, channel,
                 control, counted>>

(* A report that carries an error ends the checkpoint. *)
CollectError ==
  /\ at = "reports" /\ \E r \in reports : ~r.ok
  /\ Abort("report")
  /\ UNCHANGED <<workers, boundary, order, rounds, published, capture, channel,
                 control, counted>>

CurrentAligned ==
  \A r, s \in reports : Bounds(r.current) = Bounds(s.current)

(* publish_reports, then join on a final checkpoint. *)
Publish ==
  /\ at = "reports" /\ Cardinality(reports) = LaneCount
  /\ \A r \in reports : r.ok
  /\ IF order.include /\ ~CurrentAligned
       THEN Abort("unaligned") /\ UNCHANGED published
       ELSE /\ published' = published \o
                 InKeyOrder(Merged(UNION {Windows(r.completed) : r \in reports}))
            /\ IF order.finish THEN GoTo("join", 1) /\ UNCHANGED outcome
               ELSE IF Failed # {} THEN Abort("lane")
               ELSE GoTo("idle", 1) /\ UNCHANGED outcome
  /\ UNCHANGED <<workers, boundary, order, rounds, capture, channel, control, counted>>

Join ==
  /\ at = "join" /\ Gone = Lane
  /\ GoTo("done", 1) /\ outcome' = "ok"
  /\ UNCHANGED <<workers, boundary, order, rounds, published, capture, channel,
                 control, counted>>

(* Drop: tell every worker to stop, then join them. *)
Shutdown ==
  /\ at = "drop"
  /\ control' = [l \in Lane |-> IF l \in Gone THEN control[l]
                                ELSE Append(control[l], "shutdown")]
  /\ GoTo("dropping", 1)
  /\ UNCHANGED <<workers, boundary, order, outcome, rounds, published, capture,
                 channel, counted>>

ShutdownJoin ==
  /\ at = "dropping" /\ \A l \in Lane : l \in Gone \/ worker[l] = "off"
  /\ GoTo("stopped", 1)
  /\ UNCHANGED <<workers, boundary, order, outcome, rounds, published, capture,
                 channel, control, counted>>

Coordinator ==
  \/ StartWorker \/ StartFails \/ BeginPeriodic \/ BeginFinal \/ CollectDrained
  \/ SendPause \/ CollectAcks \/ SendCheckpoint \/ MissDeadWorker \/ CollectError
  \/ Publish \/ Join \/ Shutdown \/ ShutdownJoin

Terminated == at \in {"done", "stopped"} /\ UNCHANGED vars

Next ==
  \/ \E l \in Lane, ts \in Ts : Offer(l, ts)
  \/ \E l \in Lane : CloseLane(l)
  \/ \E l \in Lane : Worker(l)
  \/ Coordinator
  \/ Terminated

(* The operating system runs every thread: workers and the engine thread   *)
(* never stay runnable for ever without a step.  The capture side promises *)
(* nothing: it may stay idle and never close.                              *)
Spec ==
  /\ Init /\ [][Next]_vars
  /\ \A l \in Lane : WF_vars(Worker(l))
  /\ WF_vars(Coordinator)

-------------------------------------------------------------------------------
Id == 1 .. Len(log)

(* The barrier is followed to the letter: no worker ever meets a           *)
(* checkpoint before a pause or two pauses in a row (the errors of         *)
(* handle_control), and none finds its reply channel closed unless the     *)
(* engine thread has already given up.                                     *)
ProtocolRespected ==
  \A l \in Lane :
    /\ ~OutOfProtocol(l)
    /\ fault[l] = "closed" => at \in {"drop", "dropping", "stopped"}

(* When the reports are merged every lane has completed the same windows,  *)
(* with the same starts and ends, and has the same window open: no window  *)
(* is published in two pieces and "unaligned current windows" cannot be.   *)
(* It must survive lanes that idle, start late, slide and jump.            *)
LanesAligned ==
  (at = "reports" /\ \A r \in reports : r.ok) =>
    \A r, s \in reports :
      /\ SameBounds(r.completed, s.completed)
      /\ Bounds(r.current) = Bounds(s.current)

(* A window is published once, whole and in time order, over all           *)
(* checkpoints (publish_estimates keeps the latest end only, so a piece    *)
(* that came later would be lost), and, when a periodic checkpoint         *)
(* publishes it, no lane is still filling the slide it ends with.          *)
PublishedOnceClosed ==
  /\ InOrder(published)
  /\ ~order.finish =>
       \A l \in Lane : \A i \in 1 .. Len(published) :
         published[i].end <= BackStart(engine[l])

(* After a successful final checkpoint every event a channel accepted has  *)
(* been counted and is late or in a published window: no event is left in  *)
(* a queue or in an engine when capture stops.                             *)
NothingLost ==
  at = "done" =>
    /\ counted = Len(log)
    /\ \A id \in Id :
         \/ id \in engine[log[id].lane].late
         \/ \E i \in 1 .. Len(published) : id \in published[i].ids

(* run_until: "Capture stops first, runtime queues drain, trailing windows *)
(* and snapshots are published": the final checkpoint is never refused.    *)
FinalFlushSucceeds == ~(order.finish /\ outcome = "report")

(* When capture ends, the runtime ends too, whatever its workers are doing:*)
(* final checkpoint done, or every worker joined after an error.           *)
CaptureEndStops ==
  (\A l \in Lane : ~laneOpen[l]) ~> at \in {"done", "stopped"}

(* A dead worker is noticed and stops the runtime, even if capture goes on *)
(* or stays idle for ever: no checkpoint waits for an answer that cannot   *)
(* come.                                                                   *)
DeadWorkerStops == Failed # {} ~> at = "stopped"
===============================================================================
