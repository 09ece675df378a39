---------------------------- MODULE PublishedState ----------------------------
(***************************************************************************)
(* PublishedState of the agent and the exporter threads that read it: the  *)
(* estimates of the newest window of each query, the snapshots with their  *)
(* rate gate, the OTLP exporter and the gateway pusher.  An estimate is    *)
(* [query, end, series]; a set of snapshots is the number of events it     *)
(* covers.                                                                 *)
(***************************************************************************)
EXTENDS Naturals, SequencesExt

CONSTANTS
  QueryCount,  \* queries
  SeriesCount, \* series of a window
  Attempts,    \* ATTEMPTS of post_metrics and push_batch
  MaxPosts     \* posts of a thread before shutdown (bound)

ASSUME PublishedAssumption ==
  {QueryCount, SeriesCount, Attempts, MaxPosts} \subseteq Nat \ {0}

Query  == 1 .. QueryCount
Series == 1 .. SeriesCount

Exporter == {"otlp", "gateway"}

VARIABLES
  estimates,  \* estimates[q] : estimates of q's newest window
  snapshots,  \* latest snapshots, 0 when there are none
  gate,       \* snapshot_gate: "none", "due", "recent"
  exportLost, \* the latest export_snapshots failed, and its error was dropped
  thread,     \* thread[e] : [at, stopping, picked, attempt] of exporter e
  lastEnd,    \* last_end of the OTLP exporter
  exported,   \* exported[e] : what was posted with success, in order (history)
  tried,      \* tried[e] : what the latest attempt was about (history)
  posts       \* posts before shutdown so far (bound)

publishedVars == <<estimates, snapshots, gate, exportLost>>
exporterVars  == <<thread, lastEnd, exported, tried, posts>>

Off == [at |-> "off", stopping |-> FALSE, picked |-> {}, attempt |-> 0]

PublishedInit ==
  /\ estimates = [q \in Query |-> {}]
  /\ snapshots = 0
  /\ gate = "none"
  /\ exportLost = FALSE
  /\ thread = [e \in Exporter |-> Off]
  /\ lastEnd = [q \in Query |-> 0]
  /\ exported = [e \in Exporter |-> <<>>]
  /\ tried = [e \in Exporter |-> {}]
  /\ posts = 0

-------------------------------------------------------------------------------
(* The runtime's side. *)
EndOf(set) == (CHOOSE e \in set : TRUE).end

PublishOne(map, e) ==
  LET held == map[e.query]
  IN  [map EXCEPT ![e.query] =
         IF held = {} THEN {e}
         ELSE IF EndOf(held) < e.end THEN {e}
         ELSE IF EndOf(held) = e.end THEN held \cup {e}
         ELSE held]

(* The lock is held over all of them. *)
PublishEstimates(drained) == FoldLeft(PublishOne, estimates, drained)

SnapshotExportDue(force) == gate # "none" /\ (force \/ gate = "due")

(* Mutant: the rate gate holds for the last export too. *)
MutantExportGated(covered, force) ==
  IF SnapshotExportDue(FALSE)
    THEN snapshots' = covered /\ gate' = "recent" /\ exportLost' = FALSE
    ELSE UNCHANGED <<snapshots, gate, exportLost>>

(* maybe_export_snapshots and export_snapshots_now, after `covered' events.*)
ExportSnapshots(covered, force) ==
  IF SnapshotExportDue(force)
    THEN snapshots' = covered /\ gate' = "recent" /\ exportLost' = FALSE
    ELSE UNCHANGED <<snapshots, gate, exportLost>>

(* `if let Ok': an error leaves snapshots and gate as they were. *)
ExportFails(force) ==
  /\ SnapshotExportDue(force)
  /\ exportLost' = TRUE
  /\ UNCHANGED <<snapshots, gate>>

(* Snapshots and estimates have a lock each.  No thread reads both, so that*)
(* nobody can tell whether one step or two set them.                       *)
Publish(drained, covered) ==
  /\ ExportSnapshots(covered, FALSE) \/ ExportFails(FALSE)
  /\ estimates' = PublishEstimates(drained)

(* The queue-local runtime has made its snapshots before it publishes: an  *)
(* error there is one of the checkpoint.                                   *)
PublishQueueLocal(drained, covered, force) ==
  /\ ExportSnapshots(covered, force)
  /\ estimates' = PublishEstimates(drained)

IntervalPasses ==
  /\ gate = "recent" /\ gate' = "due"
  /\ UNCHANGED <<estimates, snapshots, exportLost, exporterVars>>

-------------------------------------------------------------------------------
(* The exporters' side: wait, read what is new, post it, and once more     *)
(* after the services are told to stop.                                    *)
StartExporters(on) ==
  thread' = [e \in Exporter |-> IF e \in on THEN [Off EXCEPT !.at = "waiting"] ELSE Off]

WaitForIntervalOrShutdown(e, shutdown) ==
  /\ thread[e].at = "waiting"
  /\ shutdown \/ posts < MaxPosts
  /\ thread' = [thread EXCEPT ![e].at = "reading", ![e].stopping = shutdown]
  /\ UNCHANGED <<publishedVars, lastEnd, exported, tried, posts>>

(* Mutant: what was exported before is not skipped. *)
MutantNewAll(q) == estimates[q]

(* Windows the collector has are skipped. *)
New(q) == {x \in estimates[q] : x.end > lastEnd[q]}

Picked(e) ==
  IF e = "otlp" THEN UNION {New(q) : q \in Query}
                ELSE {x \in {snapshots} : x # 0}

AfterPost(e) == IF thread[e].stopping THEN "ended" ELSE "waiting"

Read(e) ==
  /\ thread[e].at = "reading"
  /\ thread' = [thread EXCEPT
       ![e].at = IF Picked(e) = {} THEN AfterPost(e) ELSE "posting",
       ![e].picked = Picked(e), ![e].attempt = IF Picked(e) = {} THEN 0 ELSE 1]
  /\ tried' = [tried EXCEPT ![e] = IF Picked(e) = {} THEN @ ELSE Picked(e)]
  /\ posts' = IF Picked(e) # {} /\ ~thread[e].stopping THEN posts + 1 ELSE posts
  /\ UNCHANGED <<publishedVars, lastEnd, exported>>

(* Mutant: the exporter goes on after its last post. *)
MutantDone(e) == [thread EXCEPT ![e] = [Off EXCEPT !.at = "waiting"]]

Done(e) == [thread EXCEPT ![e] = [Off EXCEPT !.at = AfterPost(e)]]

PostSucceeds(e) ==
  /\ thread[e].at = "posting"
  /\ thread' = Done(e)
  /\ lastEnd' = IF e = "gateway" THEN lastEnd
                ELSE [q \in Query |->
                        LET of == {x \in thread[e].picked : x.query = q}
                        IN  IF of # {} /\ EndOf(of) > lastEnd[q] THEN EndOf(of)
                                                                 ELSE lastEnd[q]]
  /\ exported' = [exported EXCEPT ![e] = Append(@, thread[e].picked)]
  /\ UNCHANGED <<publishedVars, tried, posts>>

(* A timeout, a connection error or a retryable status, with attempts left.*)
RetryPost(e) ==
  /\ thread[e].at = "posting" /\ thread[e].attempt < Attempts
  /\ thread' = [thread EXCEPT ![e].attempt = @ + 1]
  /\ UNCHANGED <<publishedVars, lastEnd, exported, tried, posts>>

(* The last attempt, or a status that is final. *)
PostFails(e) ==
  /\ thread[e].at = "posting"
  /\ thread' = Done(e)
  /\ UNCHANGED <<publishedVars, lastEnd, exported, tried, posts>>
===============================================================================
