--------------------------------- MODULE Agent --------------------------------
(***************************************************************************)
(* run_until of the agent: the main thread, which becomes the runtime      *)
(* thread, and around it the capture thread with its lanes, the HTTP server*)
(* and the exporters.  The runtime is what DirectRuntime and SharedRuntime *)
(* show it to be: it takes events from the channel, closes windows, may    *)
(* fail, and flushes what is left when the senders are gone.               *)
(***************************************************************************)
EXTENDS HttpServer, PublishedState, Capture, AgentConfig

CONSTANTS
  Config,   \* configurations to start with
  NoConfig, \* none of them
  Setup     \* what is read of them later, [source, exporters], and the bounds
            \* [requests, windows] on clients and on windows closed before the end

ASSUME AgentAssumption ==
  /\ \A s \in Setup : s.exporters \subseteq Exporter /\ {s.requests, s.windows} \subseteq Nat
  /\ Config \subseteq Configuration

VARIABLES
  at,        \* the main thread
  config,    \* its configuration, until the runtime is built
  plans,     \* the plans of its queries, likewise
  setup,     \* what it reads of the configuration afterwards
  result,    \* result of run_until: "ok", or "error"
  shutdown,  \* set by a signal
  services,  \* services_shutdown
  ready, sourceDone,
  processed, \* events the runtime has processed
  windows    \* windows it has closed

boot      == <<config, plans>>
mainVars  == <<at, setup, result, ready, sourceDone, services>>
agentVars == <<boot, httpVars, publishedVars, exporterVars, captureVars, mainVars,
               shutdown, processed, windows>>

SourceName(kind) == IF kind \in {"hash", "rxQueue"} THEN "fanout" ELSE kind

Init ==
  /\ config \in Config /\ plans = <<>>
  /\ setup \in {s \in Setup : /\ s.source = SourceName(config.source.kind)
                             /\ s.exporters = config.exporters}
  /\ HttpInit(setup.requests) /\ PublishedInit /\ CaptureInit(setup.source)
  /\ at = "loading" /\ result = "ok"
  /\ shutdown = FALSE /\ services = FALSE
  /\ ready = FALSE /\ sourceDone = FALSE
  /\ processed = 0 /\ windows = 0

-------------------------------------------------------------------------------
(* Start-up: the plans, the runtime with its threads, the listener, the    *)
(* exporters, the capture thread.                                          *)
LoadPlans ==
  /\ at = "loading" /\ Accepted(config)
  /\ plans' = Plans(config) /\ at' = "building"
  /\ UNCHANGED <<config, httpVars, publishedVars, exporterVars, captureVars, setup, result,
                 ready, sourceDone, services, shutdown, processed, windows>>

LoadPlansFails ==
  /\ at = "loading" /\ ~Accepted(config)
  /\ at' = "done" /\ result' = "error"
  /\ UNCHANGED <<boot, httpVars, publishedVars, exporterVars, captureVars, setup, ready,
                 sourceDone, services, shutdown, processed, windows>>

BuildRuntime ==
  /\ at = "building" /\ RuntimeBuilds(config, plans)
  /\ at' = "binding" /\ config' = NoConfig /\ plans' = <<>>
  /\ UNCHANGED <<httpVars, publishedVars, exporterVars, captureVars, setup, result, ready,
                 sourceDone, services, shutdown, processed, windows>>

(* Refused by the runtime, or no thread, or no such CPU. *)
BuildRuntimeFails ==
  /\ at = "building" /\ at' = "done" /\ result' = "error"
  /\ UNCHANGED <<boot, httpVars, publishedVars, exporterVars, captureVars, setup, ready,
                 sourceDone, services, shutdown, processed, windows>>

Bind ==
  /\ at = "binding" /\ at' = "spawning"
  /\ Listen
  /\ StartExporters(setup.exporters)
  /\ gate' = IF "gateway" \in setup.exporters THEN "due" ELSE "none"
  /\ UNCHANGED <<boot, active, conns, requests, estimates, snapshots, exportLost, lastEnd,
                 exported, tried, posts, captureVars, setup, result, ready, sourceDone,
                 services, shutdown, processed, windows>>

BindFails ==
  /\ at = "binding" /\ at' = "done" /\ result' = "error"
  /\ UNCHANGED <<boot, httpVars, publishedVars, exporterVars, captureVars, setup, ready,
                 sourceDone, services, shutdown, processed, windows>>

(* No thread for exporter e: the HTTP server and, as the gateway pusher is *)
(* the second, the OTLP exporter are stopped again.                        *)
SpawnExporterFails(e) ==
  /\ at = "binding" /\ e \in setup.exporters /\ at' = "stopHttp"
  /\ Listen
  /\ StartExporters(IF e = "gateway" THEN setup.exporters \ {e} ELSE {})
  /\ gate' = IF e = "gateway" THEN "due" ELSE "none"
  /\ result' = "error" /\ services' = TRUE
  /\ UNCHANGED <<boot, active, conns, requests, estimates, snapshots, exportLost, lastEnd,
                 exported, tried, posts, captureVars, setup, ready, sourceDone, shutdown,
                 processed, windows>>

SpawnCapture ==
  /\ at = "spawning" /\ at' = "running"
  /\ capAt' = "start" /\ ready' = TRUE
  /\ UNCHANGED <<boot, httpVars, publishedVars, exporterVars, source, lane, ring, stop, flags,
                 traffic, setup, result, sourceDone, services, shutdown, processed, windows>>

(* No thread for the capture source: the services are stopped again. *)
SpawnCaptureFails ==
  /\ at = "spawning" /\ at' = "stopHttp"
  /\ result' = "error" /\ services' = TRUE
  /\ UNCHANGED <<boot, httpVars, publishedVars, exporterVars, captureVars, setup, ready,
                 sourceDone, shutdown, processed, windows>>

-------------------------------------------------------------------------------
(* The runtime: engine_loop or queue_local_engine_loop. *)
Windows(n) ==
  LET per == QueryCount * SeriesCount
  IN  [i \in 1 .. n * per |->
         [query  |-> ((i - 1) % QueryCount) + 1,
          end    |-> windows + ((i - 1) \div per) + 1,
          series |-> (((i - 1) \div QueryCount) % SeriesCount) + 1]]

QueueLocal == source = "fanout"

(* A batch, or an idle flush of an empty channel; up to two windows close. *)
Run ==
  /\ at = "running" /\ ~(CaptureEnded /\ chan = 0)
  /\ \E n \in 0 .. chan, w \in 0 .. 2 :
       /\ windows + w <= setup.windows
       /\ n = 0 => chan = 0 /\ (w > 0 \/ SnapshotExportDue(FALSE))
       /\ chan' = chan - n /\ processed' = processed + n
       /\ windows' = windows + w
       /\ IF QueueLocal THEN PublishQueueLocal(Windows(w), processed + n, FALSE)
                        ELSE Publish(Windows(w), processed + n)
  /\ UNCHANGED <<boot, httpVars, exporterVars, source, capAt, lane, ring, stop, flags, receiver,
                 accepted, packets, stored, visited, mainVars, shutdown>>

(* An error of a batch, of publish after n events of it, of an idle publish*)
(* or checkpoint, of finish or of the final publish or checkpoint.  Nothing*)
(* is published; the runtime's end of the channel goes with it.            *)
RunFails ==
  /\ at = "running"
  /\ \E n \in 0 .. chan : chan' = chan - n /\ processed' = processed + n
  /\ at' = "joining" /\ result' = "error" /\ receiver' = FALSE
  /\ UNCHANGED <<boot, httpVars, publishedVars, exporterVars, source, capAt, lane, ring, stop,
                 flags, accepted, packets, stored, visited, setup, ready, sourceDone,
                 services, shutdown, windows>>

(* The senders are gone and the channel is empty: the trailing window is   *)
(* flushed and published.                                                  *)
FinishRuntime ==
  /\ at = "running" /\ CaptureEnded /\ chan = 0 /\ ~QueueLocal
  /\ Publish(Windows(1), processed)
  /\ windows' = windows + 1
  /\ at' = "exporting"
  /\ UNCHANGED <<boot, httpVars, exporterVars, captureVars, setup, result, ready, sourceDone,
                 services, shutdown, processed>>

(* The last snapshots, whatever the gate says. *)
ExportSnapshotsNow ==
  /\ at = "exporting"
  /\ ExportSnapshots(processed, TRUE) \/ ExportFails(TRUE)
  /\ at' = "joining" /\ sourceDone' = TRUE
  /\ UNCHANGED <<boot, httpVars, estimates, exporterVars, captureVars, setup, result, ready,
                 services, shutdown, processed, windows>>

(* The final checkpoint does both at once. *)
FinishQueueLocal ==
  /\ at = "running" /\ CaptureEnded /\ chan = 0 /\ QueueLocal
  /\ PublishQueueLocal(Windows(1), processed, TRUE)
  /\ windows' = windows + 1
  /\ at' = "joining" /\ sourceDone' = TRUE
  /\ UNCHANGED <<boot, httpVars, exporterVars, captureVars, setup, result, ready, services,
                 shutdown, processed>>

-------------------------------------------------------------------------------
(* The rest of run_until. *)

(* Mutant: what the capture thread returns replaces what the runtime did. *)
MutantAnd(a, b) == b

And(a, b) == IF a = "ok" /\ b = "ok" THEN "ok" ELSE "error"

JoinCapture ==
  /\ at = "joining" /\ CaptureEnded
  /\ result' = And(result, capAt)
  /\ at' = IF result' = "ok" /\ ~shutdown THEN "serving" ELSE "stopping"
  /\ UNCHANGED <<boot, httpVars, publishedVars, exporterVars, captureVars, setup, ready,
                 sourceDone, services, shutdown, processed, windows>>

(* A finite source has ended well: HTTP goes on until shutdown. *)
Serve ==
  /\ at = "serving" /\ shutdown /\ at' = "stopping"
  /\ UNCHANGED <<boot, httpVars, publishedVars, exporterVars, captureVars, setup, result, ready,
                 sourceDone, services, shutdown, processed, windows>>

StopServices ==
  /\ at = "stopping" /\ at' = "stopHttp"
  /\ ready' = FALSE /\ services' = TRUE
  /\ UNCHANGED <<boot, httpVars, publishedVars, exporterVars, captureVars, setup, result,
                 sourceDone, shutdown, processed, windows>>

JoinHttp ==
  /\ at = "stopHttp" /\ http \in {"ended", "timedout", "broken"}
  /\ result' = And(result, IF http = "ended" THEN "ok" ELSE "error")
  /\ at' = "stopExporters"
  /\ UNCHANGED <<boot, httpVars, publishedVars, exporterVars, captureVars, setup, ready,
                 sourceDone, services, shutdown, processed, windows>>

JoinExporters ==
  /\ at = "stopExporters"
  /\ \A e \in Exporter : thread[e].at \in {"off", "ended"}
  /\ at' = "done"
  /\ UNCHANGED <<boot, httpVars, publishedVars, exporterVars, captureVars, setup, result, ready,
                 sourceDone, services, shutdown, processed, windows>>

(* SIGINT or SIGTERM: the handler sets PROCESS_SIGNALLED, and fs-signal,   *)
(* which looks at it every 25 ms, sets the flag.                           *)
Signal ==
  /\ ~shutdown /\ shutdown' = TRUE
  /\ UNCHANGED <<boot, httpVars, publishedVars, exporterVars, captureVars, mainVars, processed,
                 windows>>

-------------------------------------------------------------------------------
(* The threads beside the main one. *)
Exports(e) ==
  /\ \/ WaitForIntervalOrShutdown(e, services)
     \/ Read(e) \/ PostSucceeds(e) \/ RetryPost(e) \/ PostFails(e)
  /\ UNCHANGED <<boot, httpVars, captureVars, mainVars, shutdown, processed, windows>>

Gate ==
  /\ IntervalPasses
  /\ UNCHANGED <<boot, httpVars, captureVars, mainVars, shutdown, processed, windows>>

AcceptLoop ==
  /\ \/ services /\ StopAccepting
     \/ Drained \/ DrainTimeout
  /\ UNCHANGED <<boot, publishedVars, exporterVars, captureVars, mainVars, shutdown, processed,
                 windows>>

(* The loop may have read the flag before it was set, and accept once more.*)
Clients ==
  /\ \/ TurnAway \/ AcceptFails \/ \E c \in Client : Accept(c)
     \/ EndConnection("slow")
  /\ UNCHANGED <<boot, publishedVars, exporterVars, captureVars, mainVars, shutdown, processed,
                 windows>>

QuickClient ==
  /\ EndConnection("quick")
  /\ UNCHANGED <<boot, publishedVars, exporterVars, captureVars, mainVars, shutdown, processed,
                 windows>>

CaptureThread ==
  /\ \/ OpenStream \/ JoinLane \/ SpawnLane \/ AllSpawned \/ Abort \/ FirstDone \/ JoinLanes
     \/ SendBlocking \/ StreamStops(shutdown) \/ ReadFile(shutdown)
  /\ UNCHANGED <<boot, httpVars, publishedVars, exporterVars, mainVars, shutdown, processed, windows>>

LaneThread(l) ==
  /\ VisitPacket(l, shutdown) \/ StopLane(l, shutdown)
  /\ UNCHANGED <<boot, httpVars, publishedVars, exporterVars, mainVars, shutdown, processed, windows>>

Kernel ==
  /\ \/ \E l \in Lanes, n \in 1 .. MaxBlock : RetireBlock(l, n)
     \/ EbpfRecord(shutdown)
  /\ UNCHANGED <<boot, httpVars, publishedVars, exporterVars, mainVars, shutdown, processed, windows>>

Faults ==
  /\ \/ PinFails \/ OpenFails \/ SpawnFails \/ StreamFails
     \/ \E l \in Lanes : LaneFails(l)
  /\ UNCHANGED <<boot, httpVars, publishedVars, exporterVars, mainVars, shutdown, processed, windows>>

MainThread ==
  \/ LoadPlans \/ LoadPlansFails \/ BuildRuntime
  \/ Bind \/ SpawnCapture \/ Run \/ FinishRuntime \/ ExportSnapshotsNow \/ FinishQueueLocal
  \/ JoinCapture \/ Serve \/ StopServices \/ JoinHttp \/ JoinExporters

Next ==
  \/ MainThread \/ BuildRuntimeFails \/ BindFails \/ SpawnCaptureFails
  \/ RunFails \/ Signal
  \/ \E e \in Exporter : Exports(e) \/ SpawnExporterFails(e)
  \/ Gate \/ AcceptLoop \/ Clients \/ QuickClient
  \/ CaptureThread \/ Kernel \/ Faults
  \/ \E l \in Lanes : LaneThread(l)

(* Threads run; signals, faults, traffic and clients are not forced, but a *)
(* quick client's connection ends, by its answer or by its timeouts.       *)
Spec ==
  /\ Init /\ [][Next]_agentVars
  /\ WF_agentVars(MainThread) /\ WF_agentVars(AcceptLoop) /\ WF_agentVars(QuickClient)
  /\ WF_agentVars(CaptureThread)
  /\ \A e \in Exporter : WF_agentVars(Exports(e))
  /\ \A l \in Lane : WF_agentVars(l \in Lanes /\ LaneThread(l))

-------------------------------------------------------------------------------
(* Properties. *)

(* load_plans "failing closed on any error": a configuration that passes   *)
(* validation is one the runtime and every capture lane can start with.    *)
(* Their own checks, made in other crates after that, never fail, and no   *)
(* lane is left without the CPU it was promised.                           *)
AdmittedStarts == at = "building" => RuntimeBuilds(config, plans) /\ LanesStart(config)

(* The planner sizes an HllMap with one formula and the IR charges it with *)
(* another: what the first lets through, the second does not reject.  And  *)
(* a grouped plan tracks the groups it may export, up to the retention     *)
(* ceilings.                                                               *)
PlansHonest ==
  at = "loading" =>
    \A i \in DOMAIN config.queries :
      LET d    == config.queries[i]
          keys == LET s == Stages(d)[1] IN IF s.kind = "hllMap" THEN s.keys ELSE s.capacity
      IN  Valid(d) /\ d.group # <<>> /\ Stages(d) # <<>> =>
            /\ d.measure = "distinct" => MemoryOf(d) <= Budget(d)
            /\ keys >= Min({ExportBound(d), 65536})

(* publish_estimates and the OTLP exporter, on either side of one lock: no *)
(* window of a query is exported twice, none after a later one, and each as*)
(* a whole, whatever the runtime publishes while a post is under way.      *)
ExportsWholeOnce ==
  LET posts_ == exported["otlp"]
      Of(i, q) == {x \in posts_[i] : x.query = q}
  IN  \A i \in DOMAIN posts_ : \A q \in Query :
        /\ Of(i, q) # {} =>
             Of(i, q) = {[query |-> q, end |-> EndOf(Of(i, q)), series |-> s] : s \in Series}
        /\ \A j \in 1 .. i - 1 :
             Of(i, q) # {} /\ Of(j, q) # {} => EndOf(Of(j, q)) < EndOf(Of(i, q))

(* run_until: "runtime queues drain, trailing windows and snapshots are    *)
(* published, exporters make one final attempt".  When the runtime has     *)
(* ended well, every event it was given is processed, and the last attempt *)
(* of each exporter was about the final state, or that was exported before.*)
(* Only if the last snapshots could not be made, which nobody is told, are *)
(* the latest ones older.                                                  *)
FinalStateExported ==
  at = "done" /\ sourceDone =>
    /\ processed = accepted
    /\ "otlp" \in setup.exporters =>
         \A q \in Query : estimates[q] \subseteq tried["otlp"]
                            \/ EndOf(estimates[q]) = lastEnd[q]
    /\ "gateway" \in setup.exporters =>
         /\ exportLost \/ snapshots = processed
         /\ snapshots # 0 => tried["gateway"] = {snapshots}

(* A lane of a TPACKET_V3 ring visits what the kernel hands over in order, *)
(* without gaps or repetitions, however handing over and visiting          *)
(* interleave.                                                             *)
RingInOrder ==
  \A l \in Lanes : lane[l] = "running" =>
    visited[l] \o Unvisited(l) = [i \in 1 .. stored[l] |-> i]

(* The drain at shutdown times out only over a client that is really slow: *)
(* no slot is lost to refused, failed or finished connections.             *)
DrainWaitsForClients ==
  [][http' = "timedout" /\ http # "timedout" => conns["slow"] > 0]_agentVars

(* A signal ends the agent: capture, runtime, HTTP and exporters wait for  *)
(* one another in an order that cannot get stuck.                          *)
ShutdownCompletes == shutdown ~> at = "done"

(* af_packet_fanout_loop: the error of one lane, whenever it comes, stops  *)
(* the others, is what the capture thread returns and is what /healthz     *)
(* reports; no lane waits for another for ever.                            *)
LaneErrorReported ==
  (\E l \in Lanes : lane[l] = "error")
    ~> (capAt = "error" /\ sourceError /\ \A l \in Lanes : lane[l] # "running")

(* A runtime that has failed ends the agent with an error, whatever capture*)
(* and shutdown do meanwhile: once capture has ended or has an event to    *)
(* offer, as it finds the channel closed only then.                        *)
RuntimeErrorStopsAgent ==
  (/\ ~receiver
   /\ \/ CaptureEnded \/ capAt = "sending"
      \/ \E l \in Lanes : \E i \in DOMAIN Unvisited(l) : Unvisited(l)[i] \in Usable)
    ~> (at = "done" /\ result = "error")

(* "A capture error stops the source and is reported via /healthz; the HTTP*)
(* server keeps serving the last good state."  It does not, although the   *)
(* runtime is well: run_until stops its services as soon as it has joined a*)
(* capture thread that failed.                                             *)
CaptureErrorKeepsServing ==
  sourceError /\ receiver /\ ~shutdown => http \notin {"draining", "timedout", "ended"}
===============================================================================
