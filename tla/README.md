# flowsketch in TLA+

flowsketch turns a stream of network flow events into windowed sketch estimates:
a query says what to measure, a planner sizes a sketch for it, an engine slides
windows over event time, and an agent (or the offline `replay` command) feeds
the engine and publishes what it completes. This directory models the parts of
that program whose correctness depends on order, interleaving and limits; it
checks them with TLC, and proves with TLAPS, for all sizes, the safety of the
engine (with its refinement of an abstract sliding window) and of the replay that
drives it, of the gateway, of both runtimes for any number of lanes or shards, of
the agent, and the error bounds of most sketches.
Around the engine it models the agent from its configuration to its exit, the
gateway, and the sketches that the windows are made of.

## 1. The system

### Components, state, operations

| component | state | operations | what makes it correct |
|---|---|---|---|
| window ring (`RunningQuery`, runtime/src/lib.rs) | ring of open buckets, completed windows not drained, late count | `process`, `advance_to_bucket`, `flush_window`, `finish`, `windows_closed_by_advance` | a window counts exactly the events of its slides; a gap gives what sliding through it gives; the completed-window buffer stays bounded |
| query engine (`QueryEngine`) | one ring per query, events processed | `process`, `advance_to`, `finish`, `take_window_states`, `take_estimates`, `current_window_states` | backpressure changes nothing; draining always unblocks; no event is lost; windows come out in order |
| offline replay (cli/src/replay.rs) | the event being retried | read, process, drain and retry, finish, output | it ends, and its output covers the file |
| queue-local runtime (agent/src/direct_runtime.rs) | per lane: event channel, engine, largest timestamp, control and reply channels; the running checkpoint | worker loop, two-phase checkpoint, final drain, failure detection, drop | lanes line up at every checkpoint, windows are published once and whole, nothing is lost at the end, nobody waits for ever |
| shared runtime (agent/src/lib.rs `engine_loop`, `ShardedQueryEngine`) | event channel, shards, round-robin position | batch, deal out, shards in parallel, merge, publish, final flush | as above, with shards for lanes; in-order input is never late |
| published state (agent/src/state.rs) | newest window of each query, snapshots, counters, snapshot gate | `publish`, `latest_estimates`, `latest_snapshots`, gate | an exporter sees whole windows that never go back; the last publication is not held back by the gate |
| OTLP exporter, gateway pusher (agent/src/lib.rs, flowsketch-otel, gateway/src/client.rs) | last window end exported per query; the attempt under way | wait, read, post, retry, final export | a window is exported at most once and whole; the final state is attempted |
| capture (agent/src/source.rs, source/af_packet.rs) | lanes, TPACKET_V3 rings, fan-out stop flag | open, join the group, spawn lanes, visit packets, hand blocks back, offer or block, stop | packets are visited in order and once; one failing lane stops the others and is reported |
| agent lifecycle (agent/src/lib.rs `run_until`, cli/src/main.rs) | readiness, source error, threads, two shutdown flags | start, run, stop in order; signals | every accepted configuration starts; runtime errors and signals end the agent; nothing waits for ever |
| agent configuration (agent/src/config.rs) | none over time | `from_yaml`, `validate_source`, `validate_cpu_affinity`, `load_plans` | what it accepts, the other crates can start |
| HTTP servers (agent/src/http.rs, gateway/src/http.rs) | active connections | accept, refuse, serve, drain | no connection slot is lost |
| planner and IR (flowsketch-planner, flowsketch-ir) | none over time | `into_logical`, `plan`, memory estimates | a plan is within its budget and can be built |
| gateway (gateway/src/state.rs, client.rs, batch.rs) | newest window per (query, node), sharded merge cache, byte budget | push, evict, select the window, merge, render | the cache equals a recomputation; a partial cluster is never exported; memory is bounded |
| sketches (flowsketch-algos) | counters, tables, registers, levels | update, merge, snapshot, restore, reset, estimate | one-sided or bounded error through any sequence of operations |
| packet parsing, Prometheus text, byte codecs | none over time | pure functions | not modelled |

### How they interact

Capture threads offer events to bounded channels. On the *shared* path one
channel feeds `engine_loop`, which runs a `ShardedQueryEngine` batch by batch
and publishes after each batch. On the *queue-local* path every fan-out lane has
its own channel, worker thread and engine; the engine thread runs a barrier over
the workers once per flush interval (pause, acknowledgements, watermark,
checkpoint, reports) and publishes the merged windows. Exporters, the HTTP
endpoints and the gateway pusher read the published state. When capture stops,
its senders go away; the channels drain and a final flush closes the trailing
windows.

### What is hard about it

* The ring has two ways to move (slide by slide, and a fast-forward over a gap)
  that must agree, with late and out-of-order events against either.
* Backpressure: the engine refuses an operation before it changes anything, and
  callers differ in what they do with the refusal: `replay` drains and retries,
  the runtimes treat it as fatal.
* Lanes and shards see different parts of the stream at different speeds, yet
  their windows are merged by exact bounds.
* The barrier, the end of capture and worker failures race one another.
* Exporters read the published state between two publications, and their last
  attempt races the end of the runtime.
* At shutdown five kinds of thread are stopped and joined one after the other.
* Sketches are updated, merged, trimmed, carried over by snapshots and reset in
  any order, and several of them keep redundant structures (a heap beside slots,
  a cache of estimates beside registers) that must stay in step.

`PROJECT.json` lists each hazard at its source line with the properties that
would catch it.

## 2. The modules

```
WindowRing ---- QueryEngine ---- ReplayDriver -----.
  |     |             '------------ EngineRefinement -+-- MCQueryEngine
  |     |                              '--(implements)--> SlidingWindows
  |     '---- WindowRingLoop (used by MCQueryEngine)
  '---- WindowMerge ---- DirectRuntime ---- MCDirectRuntime
                   '---- SharedRuntime ---- MCSharedRuntime
Gateway ---- MCGateway
   '-------- GatewayPush ---- MCGatewayPush
Planner ---- AgentConfig --.
HttpServer ----------------|
PublishedState ------------+-- Agent ---- MCAgent
Capture -------------------'
ExactCounter -+-- SpaceSaving ---- SpaceSavingHeap --.
              |-- MisraGries, CountTables, Kll ------+-- Sketches ---- MCSketches
              '-- HyperLogLog ---- HllMap -----------'

WindowRingProofs --- QueryEngineProofs (QueryEngine, EngineRefinement, ReplayDriver)
        '--- WindowMergeProofs ---- DirectRuntimeProofs
                           '------- SharedRuntimeProofs
GatewayProofs (Gateway and GatewayPush)
AgentProofs   (Agent, with AgentConfig, Planner, HttpServer, PublishedState, Capture)
SketchProofs  (Sketches, except Kll)
```

**WindowRing** is `RunningQuery`. Time is counted in slides: a bucket's `start`
is `start_nanos / slide`. A sketch is the *set of events it has absorbed*, so
`merge_from` is union and a window says exactly which events it counts; sketch
error is a different question from which events reach which sketch, and this
abstraction keeps only the second. `AdvanceToBucket` is written in closed form
(the k-th flushed window is computed from the ring, not by iterating) so that it
can be proved about. **WindowRingLoop** is the same code written as the loops of
the source, with the early return, the fast path and the pop loop, and is used
to check the closed form.

**QueryEngine** is `QueryEngine`: a vector of rings, with one action per
operation. Each operation has its preflight over all queries, then the mutation
loop in query order (`ApplyInOrder` stops at the first query that fails, as `?`
does in the loop), so that a preflight that checks too little leaves a partial
change behind. `Refuse` and `RefuseFinish` are the early returns.
`current_window_states` changes nothing here; it is `CurrentWindow`, used by the
runtimes. An event is a timestamp and the set of queries whose filter it passes.
After `finish` callers only drain (`finished`).

**SlidingWindows** is the promise without buckets: windows computed from the
event log, `newest` (how far event time has got) and `horizon` (the oldest slide
still accepted). **EngineRefinement** is the mapping from the engine to it:
`newest` and `horizon` are the back and the front of the ring, late events and
pending windows are themselves.

**ReplayDriver** adds the driver's program counter to QueryEngine. `HasEstimates`
models what `emit_estimates` gives for a window: nothing when the window holds
fewer than `AlertMin` events (1 without `alertIf`). `DrainAndRetry` is both
retry loops (for an event and for `finish`). `ReadFails` and `SnapshotsFail` are the
errors of the file and of `--snapshot-out`.

**WindowMerge** is the merge of windows with equal bounds, read in key order.

**DirectRuntime** has three kinds of actor: the capture side (`Offer`,
`CloseLane`), one worker per lane (`worker[l]` is its place in `worker_loop`), and
the engine thread (`at` is its place in `checkpoint`, `queue_local_engine_loop`
or `Drop`). Control messages are queues, replies are sets (a worker sends one
reply per checkpoint, so order does not matter). A reply channel is closed
when the engine thread has left the phase that waits on it. The events of a batch
are separate steps, so a batch interleaves with everything else; `events_processed`
moves once per batch, as in the code.

**SharedRuntime** has the source, the engine loop (`at`) and one pool thread per
shard (`stage[s]`: seed to the batch's earliest timestamp, process, mark with the
latest). `config` chooses the shard strategy and whether the source blocks (file)
or drops (live).

**Gateway** is `GatewayState`. Every operation holds the one mutex from
eviction to cache refresh, so each is one action: a push (`ApplyBatch`: evict,
refresh the evicted shards, admit the node, apply the queries of the batch in key
order against one byte budget, refresh the changed shards), a scrape (`Scrape`,
`merged`) and a listing (`NodesJson`). The content of a pushed window is its
`copy`, a merged state the set of (node, copy) it was made from. Validation happens
before the lock and depends on the configuration only: a batch carries valid
states and entries that are rejected. Time is the age of a stored window.

**GatewayPush** adds the agents' pusher threads, the gateway's accept loop and its
connection threads. A push has up to `Attempts` attempts with the same body. A
request is admitted if there is a connection slot and room in the body budget, or
answered 503; an admitted one is applied and gives both back, breaks off, or times
out on the client's side. A request whose client has timed out is still in the
hands of its connection thread (`delayed`), which keeps its share of both limits
and applies it at any later time.

**Agent** is `run_until`. The main thread (`at`) loads the plans, builds the
runtime, binds the HTTP socket, starts the exporters and the capture thread, then
*is* the runtime thread until it has finished or failed, and joins and stops the
rest in the order of the code. The runtime is abstracted to what the two runtime
modules show of it: it takes events from the channel, closes windows, publishes,
may fail, and flushes when the senders are gone. `RunFails` is every `?` of the two
loops: a batch, a publication after it, an idle publication or checkpoint, `finish`
and what follows it. The final flush is two steps on the shared path
(`FinishRuntime`, which publishes the windows, then `ExportSnapshotsNow`) and one
on the queue-local path (`FinishQueueLocal`), as in the code. Each failing step of
start-up is an action. `Signal` is the handler of the binary together with the
`fs-signal` thread that passes its flag on. Around it:

* **PublishedState**: the newest window of each query, the snapshots and their
  gate, and the exporter threads, which read under the lock and post outside it.
  `exported` and `tried` are histories. A window is a set of series, so that a
  half-read or mixed window would show. Snapshots that cannot be made leave the old
  ones in place and nobody is told (`if let Ok`): `exportLost` remembers it.
  Snapshots and estimates have a lock each but are set in one step: no thread
  reads both, so nobody could tell the difference.
* **Capture**: the capture thread for a file, one AF_PACKET socket, a fan-out group
  (all sockets join before any lane reads; the first lane that ends stops the
  rest) and eBPF with its fallback. A lane owns a ring of blocks; the kernel hands
  blocks over, the lane visits their packets one step at a time and hands the
  block back.
* **HttpServer**: accept loop, slots and drain. A `slow` client outlives the drain.
* **AgentConfig**, **Planner**: what the configuration accepts, what the planner
  chooses and sizes, and what the runtime and the lanes then demand. A query
  document is a record of what the rules look at. Sizes are exact; what the code
  computes in floating point from the error bounds is a table (`Accuracy`).

**Sketches** composes the sketch modules: replicas (buckets of a ring, shards, nodes)
with their own streams, updated, merged, restored from their snapshots and reset
in any order, beside **ExactCounter**. **SpaceSaving** is the summary;
**SpaceSavingHeap** is the slots, digest index and binary heap the code keeps it
in, sift by sift; its merge walks the slots of both sides and looks keys up in
their indexes, then refills. **MisraGries**, **CountTables** (Count-Min plain and conservative,
CountSketch), **HyperLogLog** (sparse hashes, dense registers, the change between
them), **HllMap** (lazily refreshed eviction heap) and **Kll** (levels, compaction
with either coin) follow their files. Hashes are constants chosen to collide.

Definitions named `Mutant...` are plausible bugs of the definition below them;
each property has one that breaks it, to show that the property says something
about the code.

## 3. What TLC checks

| run | what it asks | bounds |
|---|---|---|
| `query_engine` | buffers and output of two queries on one stream are right under every order of events, advances, drains and refusals, and implement SlidingWindows; from every reachable ring the closed forms compute what the loops compute, and `windows_closed_by_advance` predicts exactly what is emitted; `replay` drains, retries and finishes every file, and its output covers it | a sliding query (2 buckets of 1 tick) and a tumbling one (1 bucket of 2 ticks), timestamps 0..4; called by any program (2 events, any number of advances and drains) or by `replay` (files of up to 3 events, no alert threshold) |
| `direct_runtime` | protocol, alignment, publication and loss for two lanes under every interleaving; a dead worker is noticed, the end of capture ends the runtime | 2 lanes, ring 2, batches of 2, channel of 1, 3 events around start slide 1, 1 periodic checkpoint and the final one |
| `shared_runtime` | alignment, lateness, loss and termination for two shards | 2 shards, ring 2, batches of 2, channel of 2, 3 events, both strategies, both kinds of source |
| `gateway` | the incremental cache equals a merge from scratch, bytes are accounted, the budget and the node limit hold, a partial cluster is not exported, windows do not go back | 3 nodes but room for 2, two of them in one of 2 shards, 2 queries, 4 states over 3 windows (equal ends with different starts, a later end, two copies), 1 or 2 bytes each and room for 4, staleness after 1 tick |
| `gateway_push` | the gateway ends up with an agent's newest state in spite of timeouts, broken connections, refusals, retries and delayed requests | 1 agent, 4 successive snapshots (3 of one window, 1 too large to send), 3 attempts, 3 faults, 2 connections, room for 3 bytes of bodies of 1 or 2, any number of pushes |
| `sketches` | each sketch keeps its promise against the exact counts, and its redundant structures agree | 2 replicas, 4 keys (2 of equal digest), 4 items (3 in one register), capacities 2 and 3, 6 operations on counts and quantiles, 4 on distinct items |
| `agent` | accepted configurations start and plans are honest; windows are exported once and whole; the final state is attempted; rings are read in order; slots are not lost; a signal at any moment and an error of the runtime end the agent; the error of one lane stops the other lanes and is reported | about 5,800 configurations; every source, exporters one at a time, 2 clients on 1 slot, 3 packets in blocks of up to 2, 2 lanes with rings of 2 blocks, 2 windows before the last one, 2 attempts |
| `replay_alert`, `direct_runtime_final_flush`, `shared_runtime_replay`, `gateway_push_rollback`, `agent_capture_error` | five statements of the repository that the code does not keep (section 5) | as their siblings; `agent_capture_error` has one file source and one client |

Why these bounds reach the interesting cases. A ring of 2 with timestamps two
rings long contains a stay, a slide, a jump exactly at the ring, a jump beyond it
(the fast-forward), an event inside the ring, an event behind it, and an
event before the first bucket. Capacity equal to the ring (what the planner
gives) makes refusals happen after one jump. A channel of one slot makes a lane
drop. Two events per lane and batches of two give full, partial and empty
batches; three events leave one lane idle while the other moves, which is what
alignment is about. One periodic checkpoint followed by the final one gives a
periodic publication with events on either side of it; worker failures come
from the engine refusing events, which these timestamps cause. At the gateway,
a third node makes the limit refuse, two queries share the budget within one
batch, and two shards are the fewest where a push rebuilds one and a moving target
all. Three faults are enough for a whole push to be given up, or for two abandoned requests to
overtake later ones.

In `sketches`, capacity 3 for four keys makes evictions, a merge of two
full summaries trims, equal digests make index buckets of two slots, and two
inserted hashes fill the sparse form so that the third changes it. Four values
overfill the top KLL level, so compaction happens in insertions and in merges.
In `agent`, three packets over rings of two blocks wrap around, a channel of one makes live sources drop and a file wait, and two windows
closed in one publication or in two let an exporter read before, between and
after. Both exporters at once have the same threads side by side and share only
what they read; they are not part of the run, which would take several times as
long.

Deadlock is checked except in `query_engine` and `sketches`, where the callers may
simply stop calling (and operations are bounded), and in the runs of the agent,
which stops when run_until returns; a replay has `ReplayEnds`, and `ShutdownCompletes`, `LaneErrorReported` and
`RuntimeErrorStopsAgent` say of the agent that nobody waits for ever.

**Fairness.** Every worker, the engine thread and the pool threads get weak
fairness: they are operating-system threads and their waits are timed
(`recv_timeout`) or on channels whose other end is fair too. The capture side
of the runtimes gets none: it may stay idle for ever, never close, or close at any
time, so no liveness property of theirs depends on traffic. In `Agent` the main
thread, the capture thread, its lanes, the accept loop and the exporters are fair,
because they poll their flags with timeouts; a quick client's connection ends,
because reads and writes have timeouts shorter than the drain. Signals, faults,
packets and clients are not forced. `replay` is one thread; the errors of its files
are not forced. The agents' pusher
threads, the gateway's accept loop and each connection thread are fair; new snapshots, faults,
scrapes and the clock are not forced. Faults are bounded in number: a network that
fails for ever delivers nothing.

## 4. What TLAPS proves

All theorems hold for every value of the constants that the named assumptions
allow, and for behaviours of any length. The constants that bound a run
(`MaxEvents`, `MaxRounds`, ...) are arbitrary naturals in the proofs.

| module | theorem | statement |
|---|---|---|
| QueryEngineProofs | `EngineInvariant`, `TypeCorrect` | the inductive invariant of the engine, and its types |
| | `RingStaysConsecutive` | open buckets are consecutive slides, at most `window_buckets` |
| | `PendingStaysBounded` | completed windows never exceed the capacity |
| | `WindowsComeOutInOrder` | every query's windows come out in strictly increasing time order over all drains |
| | `DrainAlwaysUnblocks` | with nothing pending no call is refused |
| | `BackpressureChangesNothing` | a call that returns backpressure changed no query and counted no event |
| | `ContentsStayExact` | every bucket and every completed window counts exactly the accepted events of its slides |
| | `NoAcceptedEventIsLost` | after `finish` every matching event is late or in a completed window |
| | `EngineImplementsSlidingWindows` | the engine implements SlidingWindows under the mapping of EngineRefinement |
| | `ReplayInvariant` | the inductive invariant of the replay driver |
| | `ReplayDrivesEngine` | a replay is a behaviour of the engine, so the theorems above hold of it |
| | `ReplayOutputComplete` | what a replay prints is every window with enough events for an estimate, in order |
| | `ReplayNeverGivesUp` | when every window with an event yields an estimate (no `alertIf`), the driver never gives up |
| GatewayProofs | `GatewayInvariant` | the inductive invariant of the gateway |
| | `CacheStaysCurrent` | the merge cache equals a merge from scratch |
| | `LimitsAlwaysHold` | `retained` is the bytes stored; the byte budget and the node limit hold |
| | `ScrapesFailClosed` | an estimate is exported only when every tracked node contributes |
| | `WindowsNeverRollBack` | no step replaces a live window by one that ends earlier |
| | `PushesImplementGateway` | with pushers, connections, retries and delayed requests in front, only steps of Gateway happen, so the theorems above hold there too |
| DirectRuntimeProofs | `BarrierIsFollowed` | no worker meets a control message out of protocol, no reply channel is closed too early |
| | `BoundaryInvariant` | the inductive invariant of the queue-local runtime |
| | `LanesStayAligned` | the reports of a checkpoint have the same completed windows and the same open window |
| | `WindowsPublishedOnce` | windows are published once, in order, and not while a lane may still fill them |
| | `NeverUnaligned` | `publish_reports` never finds the lanes unaligned |
| | `LanesLoseNothing` | after a successful final checkpoint every accepted event was counted and is late or in a published window |
| SharedRuntimeProofs | `SharedInvariant` | the inductive invariant of the shared runtime |
| | `ShardsStayAligned` | before a publication all shards have the same completed windows and the same open window |
| | `OrderedSourceNeverLate` | a source in time order never has a late event |
| | `SharedLosesNothing` | windows are published once and in order, and when the loop ends well every accepted event was counted and is late or published |
| AgentProofs | `AgentAdmissionSuffices` | what validation and planning accept, the runtime and the capture lanes can be built from |
| | `AgentPlansHonest` | a distinct-count plan is within the budget it is charged to; a grouped plan tracks the groups it may export |
| | `AgentDrainWaitsForClients` | the drain of the HTTP server times out only while a slow client is connected |
| | `AgentRingInOrder` | a lane visits the packets of its ring in order, without gap or repetition |
| | `AgentExportsWholeOnce` | the OTLP exporter posts whole windows, each at most once and in order |
| | `AgentFinalStateExported` | when `run_until` returns after a runtime that ended well, all accepted events are processed and every exporter's last attempt was about the final state, unless that was exported before; only the snapshots may be older, when the last ones could not be made |
| SketchProofs | `CountTablesSound` | Count-Min never underestimates, plain or conservative; the CountSketch median is exact for a key alone in most of its rows |
| | `MisraGriesBounds` | Misra-Gries never overcounts, and undercounts by at most total / (capacity + 1) |
| | `SpaceSavingBounds` | a SpaceSaving count is at least the truth and exceeds it by at most its error; errors and the minimum are at most total / capacity; a key that is not kept is no heavier than the minimum |
| | `HeapHoldsTheSummary` | the slots, digest index and binary heap of the code hold that summary, in heap order, with the minimum that is evicted at the root |
| | `DistinctCountsExact` | HyperLogLog depends only on the set of items, whatever the order of inserts, promotion, merges, snapshots and resets; HllMap counts no item for a key that did not get it, and all of them before the first eviction |
| | `MapEvictionFindsSmallest` | HllMap keeps within `max_keys`, has one eviction candidate per slot, and evicts a key of smallest estimate unless an estimate has fallen |

### Assumptions

* Sizes are positive naturals, timestamps and the start slide are naturals
  (`ConstantsAssumption`, `LanesAssumption`, `ShardsAssumption`), and the
  gateway's set of nodes is finite (`GatewayAssumption`).
* `PlannedCapacity`: `pending_window_capacity` is at least `window_buckets`. Only
  `DrainAlwaysUnblocks` needs it.
* `LaneCapacity`, `ShardCapacity`: in the runtimes the two are *equal*, as the
  planner sets them (planner/src/lib.rs:93). This is needed, not convenience:
  with a capacity of 3 and a ring of 2 TLC finds lanes out of line. A lane that
  first slides and then jumps over its ring between two checkpoints has completed
  a window that a lane which only jumps never opens; with equal sizes the first
  lane is refused instead.
* `NoneAssumption`: the value for "absent" is not a window or a cache.
* `ReplayNeverGivesUp` has the hypothesis `AlertMin = 1`, a query without
  `alertIf`. `replay_alert` shows that it is needed.
* `AgentAssumption`: a configuration is a document and options of the types the
  parser gives (`Config \subseteq Configuration`), any of them. `PlannerAssumption`:
  the table that stands for the floating-point sizing has naturals, and a positive
  width, because the code rounds E / epsilon up with epsilon at most 1.
* Sizes of rings, channels, blocks, queries, series and attempts are positive
  (`CaptureAssumption`, `PublishedAssumption`, `ConnectionsAssumption`), as are the
  capacities of the sketches. Keys are naturals, ordered as their bytes are; the set
  of keys may be infinite. Hashes, digests, columns and signs are arbitrary
  functions. The registers of HyperLogLog are finitely many (`HashAssumption`: a
  vector of 2^precision).

### Why the invariants are as they are

None of the safety properties is inductive alone.

*Engine.* `EngineInv` is `TypeOK` and, for each query, `QueryInv`: its record is
typed over the events seen so far, its ring is consecutive and short enough, its
buffer is within capacity, the windows drained and pending are in order, and every
completed window is *behind the ring*: it ends no later than the back bucket and
starts no later than the front bucket. Order needs `BehindRing`, because the next
window takes its bounds from the ring; `BehindRing` needs the ring consecutive,
because a trim moves the front by what the pushes moved the back; and the buffer
bound needs the prediction of the preflight to equal what is flushed. `finish`
closes a window that ends one past the back bucket, so the bound on ends is
claimed only while the stream is not finished, which is enough because nothing but
draining follows.

*Contents and refinement.* `ExactInv` adds three facts per query: a bucket holds
exactly the accepted events of its slide (`BucketsExact`), no event is newer than
the back of the ring (`NoneNewer`: otherwise a bucket pushed later would not start
out empty and right), and an accepted event older than the front is in a completed
window (`Accounted`). With the buckets exact, the windows flushed by a
slide or a fast-forward are the windows SlidingWindows computes from the
event log, action by action; refusals map to stutters.

*Gateway.* `GatewayInv` is types, limits and `CachesOK`. The counter `retained` is
changed by differences, so the budget is meaningful only with the equation
`retained = TotalBytes(nodes)`, which needs sums over queries and nodes under
eviction, replacement and partly refused batches. The cache is refreshed only in
the shards a push or an eviction touched, so `CachesOK` says of every shard and of
the final state that they are the merge of the nodes at the target.

*Queue-local runtime.* `ProtocolInv` says for each phase of the checkpoint which
few combinations of worker state, control queue and replies a lane can be in
(`InPhase`). `AlignInv` says that there is a common boundary (f, b), the ends
of every ring at the last publication, such that each lane's ring and
completed windows are what moving from there gives (`OnTrack`), as far as the lane's
largest timestamp. A watermark at least as large as every acknowledged timestamp then
takes all lanes to the same place, whatever each did before: this is the
argument for merging by exact bounds. The boundary is quantified, not a variable
of the code. Loss needs three more parts. `HeldInv`: an event of a lane that has
not failed is published or late, in the answer to the running checkpoint, or, while
its worker runs, in the channel or in the engine. `QueueInv`: a channel holds
events of its lane in order, and from the drain of the final checkpoint on every
channel is closed and empty, so no event arrives behind the final report.
`CountInv`: the counted events and those of the running batches are disjoint
sets of the sizes the counters say, which together with the channels cover every event of a
lane that has not failed; the sets are quantified, which avoids a sum over lanes.

*Shared runtime.* The same boundary (`Boundary`, or `Untouched` before the first
event), and what a batch in progress is (`BatchInv`): which shards have been
seeded to the earliest timestamp and marked with the latest, and what each still
has to do. Lateness needs `OrderInv`: no shard is ahead of an event that was
taken before everything it still has to do (`NotAhead`). Loss needs `HeldInv`:
every taken event is published, late, or still held by a shard as work, in its ring or
in a completed window.

*Replay.* `ReplayInv` adds to the engine's invariant where the driver is in the
stream and two facts that make the output whole: the newest bucket of a ring and the
first window that waits hold an event (`Filled`). A ring moves only for an event
that it then takes, and the first window a move completes contains what was
the newest bucket. So a full buffer has a window with an estimate in it, the retry
after a drain finds room, and nothing that was drained without output had enough
events.

*Agent.* Each property has an invariant of its own. `BootInv`: the plans of an agent
that has got as far as building its runtime are those of an accepted configuration;
the two configuration theorems then follow from lemmas about the validation and the
sizing operators. `HttpInv`: the slots in use are exactly the open connections,
whichever of the two ends first. `RingInv`: the packets handed over and not yet
visited continue what was visited, over the wrap of the ring and a block that is
half visited; sockets not yet joined never had a packet. `CaptureInv`: every
accepted event is processed or in the channel, and a runtime that ended well emptied the
channel after its last sender was gone. `ExportInv`: what an exporter holds between
its reading and its post is, of each query, nothing or one whole window newer than what
it last exported and not newer than what is published. `FinalInv`: exporters are
told to stop after the last publication and, on the shared path, after the snapshots
that follow it, so the last reading of each sees both.

*Sketches.* All of them are stated of one replica and its exact counts, and must
survive a merge with any other replica.

* `TablesInv` is about cells, not estimates: every cell of a Count-Min table covers
  the weight of the keys that hash to it. The estimate of a key follows; the
  converse does not, and a merge adds cells. For CountSketch: a cell with one key in it
  is exactly the signed weight of the key.
* `MisraInv`: deficit * (capacity + 1) + (sum of the counters) is at most the total. The
  bound alone is lost in a merge; with the sum in it each trim pays for the
  deficit it causes from capacity + 1 counters at once.
* `SpaceInv`: the counts add up to at most the total, so the minimum of a full
  summary is at most total / capacity; this bounds the error an eviction hands on.
* `HeapInv`: there is a number of slots such that every slot has one place in the heap
  and is in the index under its digest, keys differ, no child is less than its
  parent, and the entries are those of the summary. Within a sift the order is
  broken in one place only (`UpOrdered`, `DownOrdered`), and what is below that place
  is not less than what is above it; each round moves the place one level, so as many
  rounds as there are slots are enough. Keys differ, so the order is strict and the root is
  the one minimum the summary evicts.
* `DistinctInv`: a sketch *is* the sketch of some set of hashes (`IsHll`: sparse, the set
  itself; dense, the largest rank per register). For HllMap (`MapGood`) each key has a
  set of items it was given, all of them while nothing was evicted; every slot has
  one candidate in the heap, which has the current estimate unless the slot is marked
  stale. The eviction loop refreshes a stale slot at most once, so twice the size
  of the heap bounds its rounds.

Sums over sets of any size are written as cardinalities of the area under a graph
(`Weight`), because a finite set's cardinality is what the library's theorems are
about. Folds and recursive functions are reasoned about without the library's
induction operators: the finite table of all intermediate values is shown to exist
by induction over a set of lengths or sizes (`TableExists`, `RecursionExists`,
`RoundsExist`, ...), and what each entry satisfies by a second such induction.

`WindowRingProofs` has the lemmas about the ring (pushing and trimming keep it
consecutive, flushed windows follow the earlier ones, an operation emits what was
predicted) and about what the buckets and windows contain,
`WindowMergeProofs` those about windows with equal bounds: moving along a track,
draining, finishing, and that the merge of aligned lists is aligned, in order and
complete. The other modules have one lemma per action and combine them.

### Only model-checked

* All liveness (`CaptureEndStops`, `DeadWorkerStops`, `SourceEndStops`,
  `ReplayEnds`, `CatchesUp`, `ShutdownCompletes`, `LaneErrorReported`,
  `RuntimeErrorStopsAgent`): fairness and ENABLED are outside the prover. `DrainUnblocks` is the safety half of the
  replay driver's progress.
* `LoopsAgree`, that the closed form of the ring equals the loops of the source: the
  loops are RECURSIVE operators, which the prover cannot work with. That is why the
  closed form exists; what is proved is proved of it.
* `KllRankBounded`. Its first half, the rank bound, is about sorted levels: Kll
  sorts with `SortSeq`, which has no definition the prover could expand. Its second
  half, that every snapshot of a sketch is accepted when it is read back, cannot
  hold for every value of the constants: it needs at most `MaxLevels` levels, and
  how many there are grows with the number of values inserted. In the code the
  limit is 64 levels, more than a u64 count can fill; the run shows it within the
  bound on the values.

## 5. Where the code and its documentation disagree

1. **Replay gives up although a retry would succeed** (`replay_alert`). On
   backpressure the driver drains estimates and gives up when none came out.
   With `alertIf`, windows can be drained that have no estimate above the
   threshold: there was room again, but the command ends with "without a
   drainable window".
2. **The final checkpoint of the queue-local runtime can be refused**
   (`direct_runtime_final_flush`). A report advances to the watermark and then
   finishes without draining in between. If a lane fills its completed-window
   buffer by that advance (an event of another lane jumps over the ring just
   before shutdown) `finish` is refused, the checkpoint fails and those windows
   are lost, although shutdown promises to publish them.
3. **A replayed file can end the shared runtime** (`shared_runtime_replay`).
   Windows are drained between batches only; a batch of a sparse trace that spans
   more slides than the buffer holds is refused, and the refusal is fatal, although
   the file source blocks "so results cover the whole trace".
4. **A delayed push rolls a window back** (`gateway_push_rollback`). The gateway
   compares window ends only. A request abandoned by a client timeout and applied
   after the next push replaces a newer copy of the same window. The comment of
   `apply_batch` states the rule, "A node's older or same-window push replaces its
   previous entry", and its purpose, "out-of-order delivery must not roll estimates
   backwards"; the two contradict each other. Ignoring pushes for the stored window
   would be no cure: `gateway_push` shows that the gateway would then never catch
   up (its mutant). The next push repairs the estimate.
5. **A capture error ends the agent** (`agent_capture_error`). The documentation of
   the agent crate (agent/src/lib.rs:18) and the operator guide
   (docs/operator-guide.md:80) say that `/healthz` turns 503 while the HTTP server
   keeps serving the last good state. `run_until` serves on only when both runtime
   and capture ended well; after a capture error it stops its services and returns.
   That the error of a lane gets that far is `LaneErrorReported`.

The following came up while modelling and have no run of their own:

6. **After a runtime error the agent stays ready** until capture offers the next
   event, because the capture thread is joined first and finds the closed channel
   only then. `RuntimeErrorStopsAgent` therefore promises an end only once capture
   has ended or there is an event to offer.
7. **HLLMap need not evict the smallest key.** The comment of `evict_smallest`
   (hll_map.rs:161) says "Evict the true minimum" and "Cached estimates are monotone
   lower bounds". At the change from sparse to dense an estimate can fall: exact
   before, approximate after, and lower when hashes share a register. A key whose
   cached estimate is too large is then passed over. `MapEvictsSmallest` and its
   theorem say that this is the only way it goes wrong: they exclude exactly the
   maps with a key whose estimate has fallen (`Fallen`). Without that exclusion TLC
   violates the property after six insertions into a map of two keys.
8. **An error of `accept`** other than `WouldBlock` and `Interrupted` ends the agent's
   HTTP server; nobody looks at its thread before shutdown, which then reports it.
9. **A lane that cannot be pinned** ends capture without the error being recorded
   for `/healthz` (`PinFails`).

## 6. What is not modelled

* Packet parsing and pcap files, the byte codecs of snapshots and batches, request
  parsing, Prometheus and OTLP text: functions of bytes without state over time.
  Where a codec decides something (which snapshots a sketch accepts, what it
  writes), that decision is modelled.
* The command line tools other than `replay`: sequential programs over the modelled
  components.
* Probabilistic guarantees (Count-Min's and CountSketch's error with probability
  1 - delta, HyperLogLog's standard error, KLL's expected error) and floating-point
  estimates. Checked instead is what holds for every outcome: one-sided bounds,
  worst-case rank error, equality with the registers of the item set.
* Numeric widths: timestamps near the end of u64, CountSketch's `value as i64` for
  weights from 2^63 on, products of configured sizes in
  the planner and in the parsers of durations and memory sizes. Live sources
  keep timestamps within five minutes of the clock, file timestamps are 32-bit
  seconds.
* The mapping and the header arithmetic of the packet ring, and the eBPF program.
* More than one query per engine inside the two runtimes (QueryEngine has several);
  the insides of the runtimes within `Agent`; panics and thread-spawn failure
  beyond the actions named for them; wall-clock durations (a timeout is a step that
  may happen while its wait is not over).
* A gateway node whose clock is ahead of the others'.

## 7. What is left

1. *Proofs*: the rank bound of `KllRankBounded`, after giving `Kll` a sort by rank
   (as `Ranked` of the heap has) in place of `SortSeq`.
2. *Gateway*: an abstract specification (what a scrape answers is a function of
   the live nodes' windows) and the refinement to it; nodes whose clocks differ.
3. *Runtimes*: several queries per engine in DirectRuntime and SharedRuntime.
