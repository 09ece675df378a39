------------------------------ MODULE AgentConfig -----------------------------
(***************************************************************************)
(* The configuration of the agent: what AgentConfig::from_yaml and         *)
(* load_plans refuse, and what the runtime and the capture threads demand  *)
(* of what they accept.                                                    *)
(***************************************************************************)
EXTENDS Planner

(* What a file can say: http is whether the endpoints of the exporters are *)
(* http://, cpus the CPUs to pin threads to, block, count and retire the   *)
(* ring of an AF_PACKET source, buffer the ring buffer of an eBPF source.  *)
Configuration ==
  [queries : Seq(Document), shards : Nat, batch : Nat, strategy : STRING, memory : Nat,
   node : STRING, exporters : SUBSET STRING, http : BOOLEAN,
   cpus : [given : BOOLEAN, capture : Seq(Nat), runtime : Seq(Nat)],
   source : [kind : STRING, named : BOOLEAN, block : Nat, count : Nat, retire : Nat,
             buffer : Nat]]

KiB == 1024
MiB == 1024 * KiB

MaxLinuxCpuId == 1023 \* MAX_LINUX_CPU_ID of the configuration
CpuSetSize    == 1024 \* CPU_SETSIZE of libc

PowersOfTwo == {2 ^ i : i \in 0 .. 30}

(* "single", "hash" and "rxQueue" are the modes of an AF_PACKET source. *)
Fanout(source) == source.kind \in {"hash", "rxQueue"}

CaptureLanes(c) == IF Fanout(c.source) THEN c.shards ELSE 1

(* Mutant: the capture CPUs are not counted. *)
MutantCpuAffinityOk(c) ==
  c.cpus.given =>
    /\ Len(c.cpus.runtime) = c.shards
    /\ \A list \in {c.cpus.capture, c.cpus.runtime} :
         IsInjective(list) /\ Range(list) \subseteq 0 .. MaxLinuxCpuId

CpuAffinityOk(c) ==
  c.cpus.given =>
    /\ Len(c.cpus.capture) = CaptureLanes(c)
    /\ Len(c.cpus.runtime) = c.shards
    /\ \A list \in {c.cpus.capture, c.cpus.runtime} :
         IsInjective(list) /\ Range(list) \subseteq 0 .. MaxLinuxCpuId

(* Blocks of 64 KiB to 16 MiB, rings of 1 GiB over all lanes; block counts *)
(* are bounded first, to stay within TLC's integers.                       *)
RingOk(c) ==
  LET r == c.source
  IN  /\ r.block \in PowersOfTwo /\ r.block >= 64 * KiB /\ r.block <= 16 * MiB
      /\ r.count > 0
      /\ r.count * CaptureLanes(c) <= (1024 * MiB) \div r.block
      /\ r.retire \in 1 .. 1000

SourceOk(c) ==
  CASE c.source.kind = "pcap" -> TRUE
    [] c.source.kind \in {"single", "hash", "rxQueue"} ->
         /\ c.source.named /\ RingOk(c)
         /\ Fanout(c.source) => c.shards >= 2 /\ c.strategy = "flow"
    [] c.source.kind \in {"ebpf", "fallback"} ->
         /\ c.source.named
         /\ c.source.buffer \in PowersOfTwo
         /\ c.source.buffer >= 64 * KiB /\ c.source.buffer <= 1024 * MiB

(* AgentConfig::from_yaml.  The largest memory it allows, 1 TiB, is beyond *)
(* TLC's integers.                                                         *)
ConfigOk(c) ==
  /\ c.queries # <<>>
  /\ c.node # "blank"
  /\ c.shards > 0 /\ c.shards <= 256 /\ c.batch > 0 /\ c.batch <= 65536
  /\ c.memory >= MiB
  /\ SourceOk(c) /\ CpuAffinityOk(c)
  /\ c.exporters # {} => c.http
  /\ "gateway" \in c.exporters => c.node # "none"

(* load_plans: all queries or none. *)
Plans(c) == [i \in DOMAIN c.queries |-> Plan(c.queries[i])]

PlannedBytes(c) ==
  c.shards * FoldLeft(LAMBDA sum, p : sum + p.memory, 0, Plans(c))

Loads(c) ==
  /\ \A i \in DOMAIN c.queries : Valid(c.queries[i]) /\ Plannable(c.queries[i])
  /\ IsInjective([i \in DOMAIN c.queries |-> c.queries[i].name])
  /\ PlannedBytes(c) <= c.memory

Accepted(c) == ConfigOk(c) /\ Loads(c)

-------------------------------------------------------------------------------
(* What is demanded afterwards, in other crates, when threads and sockets  *)
(* are already being made: the engine of each shard, the pool or the lanes *)
(* with their CPUs, one sender for each capture lane.                      *)
EnginesBuild(c, plans) ==
  /\ IsInjective([i \in DOMAIN plans |-> plans[i].name])
  /\ \A i \in DOMAIN plans : Buildable(plans[i].stages)
  /\ c.shards > 0 /\ c.batch > 0

RuntimeBuilds(c, plans) ==
  /\ EnginesBuild(c, plans)
  /\ c.cpus.given =>
       /\ Len(c.cpus.runtime) = c.shards
       /\ Fanout(c.source) \/ IsInjective(c.cpus.runtime)
       /\ Range(c.cpus.runtime) \subseteq 0 .. CpuSetSize - 1

(* Senders come from the runtime, lanes from the source. *)
Senders(c) == IF Fanout(c.source) THEN c.shards ELSE 1

LanesStart(c) ==
  /\ Senders(c) = CaptureLanes(c)
  /\ c.cpus.given =>
       \A l \in 1 .. CaptureLanes(c) :
         l \in DOMAIN c.cpus.capture /\ c.cpus.capture[l] < CpuSetSize
===============================================================================
