---------------------------- MODULE SharedRuntime -----------------------------
(***************************************************************************)
(* The shared-receiver path of flowsketch-agent: capture threads feed one  *)
(* bounded channel, engine_loop takes batches from it and runs them on a   *)
(* ShardedQueryEngine, whose shards work in parallel, and publishes the    *)
(* merged windows after every batch.                                       *)
(*                                                                         *)
(* One query per shard; its time is counted in slides (see WindowRing).    *)
(***************************************************************************)
EXTENDS WindowMerge

CONSTANTS
  ShardCount,       \* runtime_shards
  Ring,             \* window_buckets of the query
  Capacity,         \* pending_window_capacity of the query
  BatchSize,        \* runtime_batch_size
  ChannelCapacity,  \* EVENT_CHANNEL_CAPACITY
  Ts,               \* timestamps of captured events
  MaxEvents         \* most captured events in one behaviour (bound)

Shard == 1 .. ShardCount

ASSUME ShardsAssumption ==
  /\ {ShardCount, Ring, Capacity, BatchSize, ChannelCapacity} \subseteq Nat \ {0}
  /\ Ts \subseteq Nat
  /\ MaxEvents \in Nat

(* plan: pending_window_capacity = buckets (see DirectRuntime). *)
ASSUME ShardCapacity == Capacity = Ring

VARIABLES
  config,     \* [strategy, blocking] : shard strategy; file source blocks
  channel,    \* queued events, as ids of log
  srcOpen,    \* the capture side still holds a sender
  log,        \* every event the channel accepted: [flow, ts]
  dropped,    \* dropped_events
  at,         \* where engine_loop is
  shards,     \* shards[s] : running query of shard s
  todo,       \* todo[s]   : events of the batch it has still to process
  stage,      \* stage[s]  : where its thread is
  span,       \* [low, high, size] : the batch's earliest and latest
              \* timestamp and its number of events
  nextShard,  \* next_balanced_shard
  counted,    \* events_processed
  published   \* merged windows in publication order

source == <<channel, srcOpen, log, dropped>>
engine == <<shards, todo, stage, span, nextShard>>
vars   == <<config, source, engine, at, counted, published>>

Init ==
  /\ config \in [strategy : {"flow", "round_robin"}, blocking : BOOLEAN]
  /\ channel = <<>> /\ srcOpen = TRUE /\ log = <<>> /\ dropped = 0
  /\ at = "recv"
  /\ shards = [s \in Shard |-> NewQuery]
  /\ todo = [s \in Shard |-> <<>>]
  /\ stage = [s \in Shard |-> "idle"]
  /\ span = [low |-> 0, high |-> 0, size |-> 0]
  /\ nextShard = 1
  /\ counted = 0
  /\ published = <<>>

-------------------------------------------------------------------------------
(* The source.  A file replay blocks on a full channel, a live capture     *)
(* drops and counts.  shard_for hashes the 5-tuple: a flow is represented  *)
(* by the shard it falls on.                                               *)
Running == at \notin {"done", "failed"}

Send(flow, ts) ==
  /\ Running /\ srcOpen
  /\ Len(log) + dropped < MaxEvents
  /\ Len(channel) < ChannelCapacity
  /\ log' = Append(log, [flow |-> flow, ts |-> ts])
  /\ channel' = Append(channel, Len(log) + 1)
  /\ UNCHANGED <<config, srcOpen, dropped, engine, at, counted, published>>

DropEvent ==
  /\ Running /\ srcOpen /\ ~config.blocking
  /\ Len(log) + dropped < MaxEvents
  /\ Len(channel) = ChannelCapacity
  /\ dropped' = dropped + 1
  /\ UNCHANGED <<config, channel, srcOpen, log, engine, at, counted, published>>

CloseSource ==
  /\ Running /\ srcOpen
  /\ srcOpen' = FALSE
  /\ UNCHANGED <<config, channel, log, dropped, engine, at, counted, published>>

-------------------------------------------------------------------------------
(* engine_loop takes what is queued, at most a batch, and deals it out.    *)
Least(S)    == CHOOSE m \in S : \A x \in S : m <= x
Greatest(S) == CHOOSE m \in S : \A x \in S : x <= m

(* The shard i places after the next one. *)
RoundRobin(i) == ((nextShard - 1 + i) % ShardCount) + 1

(* The shard of the i-th event of a batch. *)
ShardOf(batch, i) ==
  IF config.strategy = "flow"
    THEN log[batch[i]].flow
    ELSE RoundRobin(i - 1)

(* The events of a batch dealt to shard s, in the batch's order. *)
Dealt(batch, s) ==
  LET mine == {i \in 1 .. Len(batch) : ShardOf(batch, i) = s}
      nth(k) == CHOOSE i \in mine : Cardinality({j \in mine : j <= i}) = k
  IN  [k \in 1 .. Cardinality(mine) |-> batch[nth(k)]]

TakeBatch ==
  /\ at = "recv" /\ channel # <<>>
  /\ LET n     == Smaller(BatchSize, Len(channel))
         batch == SubSeq(channel, 1, n)
         times == {log[batch[i]].ts : i \in 1 .. n}
     IN  /\ channel' = SubSeq(channel, n + 1, Len(channel))
         /\ todo' = [s \in Shard |-> Dealt(batch, s)]
         /\ span' = [low |-> Least(times), high |-> Greatest(times), size |-> n]
         /\ nextShard' = IF config.strategy = "flow" THEN nextShard
                         ELSE RoundRobin(n)
  /\ stage' = [s \in Shard |-> "seed"]
  /\ at' = "batch"
  /\ UNCHANGED <<config, srcOpen, log, dropped, shards, counted, published>>

(* process_shard_refs, one thread per shard: advance to the earliest       *)
(* timestamp of the whole batch, process the shard's own events, advance   *)
(* to the latest.  A refused call ends the shard's work.                   *)
Advance(s, ts, after) ==
  IF CanAdvance(shards[s], Ring, Capacity, ts)
    THEN /\ shards' = [shards EXCEPT ![s] = AdvanceToBucket(@, Ring, ts)]
         /\ stage' = [stage EXCEPT ![s] = after]
    ELSE /\ stage' = [stage EXCEPT ![s] = "refused"]
         /\ UNCHANGED shards

(* Mutant: shards that have events start at their own first event.         *)
MutantNoSeed(s) ==
  /\ at = "batch" /\ stage[s] = "seed"
  /\ IF todo[s] = <<>> THEN Advance(s, span.low, "work")
     ELSE stage' = [stage EXCEPT ![s] = "work"] /\ UNCHANGED shards
  /\ UNCHANGED <<config, source, todo, span, nextShard, at, counted, published>>

(* Mutant: shards start at the batch's watermark.                          *)
MutantSeedHigh(s) ==
  /\ at = "batch" /\ stage[s] = "seed"
  /\ Advance(s, span.high, "work")
  /\ UNCHANGED <<config, source, todo, span, nextShard, at, counted, published>>

SeedShard(s) ==
  /\ at = "batch" /\ stage[s] = "seed"
  /\ Advance(s, span.low, "work")
  /\ UNCHANGED <<config, source, todo, span, nextShard, at, counted, published>>

ProcessNext(s) ==
  /\ at = "batch" /\ stage[s] = "work" /\ todo[s] # <<>>
  /\ LET id == Head(todo[s])
         ts == log[id].ts
     IN  IF CanAdvance(shards[s], Ring, Capacity, ts)
           THEN /\ shards' = [shards EXCEPT ![s] = ProcessMatching(@, Ring, ts, id)]
                /\ UNCHANGED stage
           ELSE /\ stage' = [stage EXCEPT ![s] = "refused"]
                /\ UNCHANGED shards
  /\ todo' = [todo EXCEPT ![s] = Tail(@)]
  /\ UNCHANGED <<config, source, span, nextShard, at, counted, published>>

MarkShard(s) ==
  /\ at = "batch" /\ stage[s] = "work" /\ todo[s] = <<>>
  /\ Advance(s, span.high, "idle")
  /\ UNCHANGED <<config, source, todo, span, nextShard, at, counted, published>>

(* try_for_each: one refused shard fails the batch, and the batch's error  *)
(* ends engine_loop.                                                       *)
FailBatch ==
  /\ at = "batch" /\ \E s \in Shard : stage[s] = "refused"
  /\ at' = "failed"
  /\ UNCHANGED <<config, source, engine, counted, published>>

EndBatch ==
  /\ at = "batch" /\ \A s \in Shard : stage[s] = "idle"
  /\ at' = "publish"
  /\ counted' = counted + span.size
  /\ UNCHANGED <<config, source, engine, published>>

(* publish: take_estimates drains every shard and merges equal windows.    *)
(* When the source is idle engine_loop publishes too, but every batch has  *)
(* already been published: that call changes nothing here.                 *)
TakeEstimates ==
  /\ published' = published \o
       InKeyOrder(Merged(UNION {Windows(shards[s].emitted) : s \in Shard}))
  /\ shards' = [s \in Shard |-> [shards[s] EXCEPT !.emitted = <<>>]]

Publish ==
  /\ at = "publish"
  /\ TakeEstimates
  /\ at' = "recv"
  /\ UNCHANGED <<config, source, todo, stage, span, nextShard, counted>>

(* The channel is empty and every sender gone: close the trailing windows. *)
CanFinish == \A s \in Shard :
  shards[s].buckets # <<>> => CanEmit(shards[s], Capacity, 1)

(* Mutant: the loop ends as soon as the senders are gone.                  *)
MutantFinishEarly ==
  /\ at = "recv" /\ ~srcOpen
  /\ IF CanFinish
       THEN /\ shards' = [s \in Shard |-> FinishQuery(shards[s])]
            /\ at' = "final"
       ELSE at' = "failed" /\ UNCHANGED shards
  /\ UNCHANGED <<config, source, todo, stage, span, nextShard, counted, published>>

(* Mutant: a disconnected channel is taken for an idle one.                *)
MutantFinishNever ==
  /\ at = "recv" /\ channel = <<>> /\ ~srcOpen
  /\ UNCHANGED vars

Finish ==
  /\ at = "recv" /\ channel = <<>> /\ ~srcOpen
  /\ IF CanFinish
       THEN /\ shards' = [s \in Shard |-> FinishQuery(shards[s])]
            /\ at' = "final"
       ELSE at' = "failed" /\ UNCHANGED shards
  /\ UNCHANGED <<config, source, todo, stage, span, nextShard, counted, published>>

PublishFinal ==
  /\ at = "final"
  /\ TakeEstimates
  /\ at' = "done"
  /\ UNCHANGED <<config, source, todo, stage, span, nextShard, counted>>

EngineLoop ==
  \/ TakeBatch \/ EndBatch \/ FailBatch \/ Publish \/ Finish \/ PublishFinal

ShardThread(s) == SeedShard(s) \/ ProcessNext(s) \/ MarkShard(s)

Terminated == ~Running /\ UNCHANGED vars

Next ==
  \/ \E flow \in Shard, ts \in Ts : Send(flow, ts)
  \/ DropEvent
  \/ CloseSource
  \/ EngineLoop
  \/ \E s \in Shard : ShardThread(s)
  \/ Terminated

(* The engine thread and the pool's threads run; the source may stay idle. *)
Spec ==
  /\ Init /\ [][Next]_vars
  /\ WF_vars(EngineLoop)
  /\ \A s \in Shard : WF_vars(ShardThread(s))

-------------------------------------------------------------------------------
Id == 1 .. Len(log)

(* Before every publication all shards have completed the same windows and *)
(* have the same window open, however unevenly the batch was dealt: their  *)
(* states merge into one estimate per window.                              *)
ShardsAligned ==
  at \in {"publish", "final"} =>
    \A s, t \in Shard :
      /\ SameBounds(shards[s].emitted, shards[t].emitted)
      /\ shards[s].buckets # <<>> =>
           /\ shards[t].buckets # <<>>
           /\ Bounds(CurrentWindow(shards[s])) = Bounds(CurrentWindow(shards[t]))

(* A source that delivers events in time order has no late event, although *)
(* shards process the batch in parallel and idle shards are moved by the   *)
(* batch's watermark.                                                      *)
InOrderNeverLate ==
  (\A i, j \in Id : i < j => log[i].ts <= log[j].ts) =>
    \A s \in Shard : shards[s].late = {}

(* Every window is published once and in time order; and when engine_loop  *)
(* ends well, every event the channel accepted has been counted and is     *)
(* late or in a published window.                                          *)
NothingLost ==
  /\ InOrder(published)
  /\ at = "done" =>
       /\ counted = Len(log)
       /\ \A id \in Id :
            \/ \E s \in Shard : id \in shards[s].late
            \/ \E i \in 1 .. Len(published) : id \in published[i].ids

(* When the source ends, engine_loop ends. *)
SourceEndStops == ~srcOpen ~> ~Running

(* pcap_loop: "File replay has no liveness constraint: block               *)
(* (backpressure) rather than drop, so results cover the whole trace":     *)
(* a file replay never loses events to a failed runtime.                   *)
ReplayCoversTrace == config.blocking => at # "failed"
===============================================================================
