-------------------------------- MODULE Capture -------------------------------
(***************************************************************************)
(* The capture thread of the agent: pcap replay, AF_PACKET with one lane or*)
(* a fan-out of lanes, and tc eBPF with its fallback to AF_PACKET.  A lane *)
(* reads a TPACKET_V3 ring: the kernel fills blocks and hands them over one*)
(* after the other, the lane visits their packets and hands them back.     *)
(* Packets are numbered in the order the kernel stores them.               *)
(***************************************************************************)
EXTENDS Naturals, Sequences, FiniteSetsExt

CONSTANTS
  LaneCount,       \* lanes of a fan-out
  BlockCount,      \* block_count of a ring
  ChannelCapacity, \* EVENT_CHANNEL_CAPACITY
  Usable,          \* packets that parse and whose timestamp is within bounds
  MaxPackets,      \* packets of one behaviour (bound)
  MaxBlock         \* packets in one block (bound)

ASSUME CaptureAssumption ==
  /\ {LaneCount, BlockCount, ChannelCapacity, MaxBlock} \subseteq Nat \ {0}
  /\ MaxPackets \in Nat /\ Usable \subseteq Nat

Lane  == 1 .. LaneCount
Block == 0 .. BlockCount - 1

VARIABLES
  source,       \* "pcap", "single", "fanout", "ebpf", "fallback" (ebpf with one),
                \* "fallen" (back to a single lane)
  capAt,        \* the capture thread
  lane,         \* lane[l] : "none", "joined", "running", "ok", "error"
  ring,         \* ring[l] : [user, data, fill, current, at]
  stop,         \* the flag of the fan-out
  captureReady, sourceError,
  chan,         \* events in the channel
  receiver,     \* the runtime still holds its end
  accepted,     \* events put into the channel
  packets,      \* packets so far, over all lanes (bound)
  stored,       \* stored[l]  : packets the kernel has put into l's ring
  visited       \* visited[l] : packets l has visited, in order (history)

captureVars == <<source, capAt, lane, ring, stop, captureReady, sourceError, chan,
                 receiver, accepted, packets, stored, visited>>
flags       == <<captureReady, sourceError>>
traffic     == <<chan, receiver, accepted, packets, stored, visited>>

EmptyRing == [user    |-> [b \in Block |-> FALSE],
              data    |-> [b \in Block |-> <<>>],
              fill    |-> 0,
              current |-> 0,
              at      |-> 0]  \* packets visited of the claimed block

CaptureInit(s) ==
  /\ source = s
  /\ capAt = "off"
  /\ lane = [l \in Lane |-> "none"]
  /\ ring = [l \in Lane |-> EmptyRing]
  /\ stop = FALSE /\ captureReady = FALSE /\ sourceError = FALSE
  /\ chan = 0 /\ receiver = TRUE /\ accepted = 0 /\ packets = 0
  /\ stored = [l \in Lane |-> 0]
  /\ visited = [l \in Lane |-> <<>>]

AfPacket == {"single", "fanout", "fallen"}

Lanes == IF source = "fanout" THEN Lane ELSE {1}

CaptureEnded == capAt \in {"ok", "error"}

-------------------------------------------------------------------------------
(* The end of capture_loop. *)
CaptureFails ==
  /\ capAt' = "error" /\ captureReady' = FALSE /\ sourceError' = TRUE

(* pin_capture_lane: the one error that is not recorded. *)
PinFails ==
  /\ capAt = "start" /\ source \notin {"fanout", "fallen"}
  /\ capAt' = "error"
  /\ UNCHANGED <<source, lane, ring, stop, flags, traffic>>

(* An eBPF error is where the fallback begins. *)
EbpfFails ==
  IF source = "fallback"
    THEN source' = "fallen" /\ capAt' = "start" /\ captureReady' = FALSE /\ UNCHANGED sourceError
    ELSE CaptureFails /\ UNCHANGED source

OpenFails ==
  /\ capAt = "start"
  /\ IF source \in {"ebpf", "fallback"} THEN EbpfFails ELSE CaptureFails /\ UNCHANGED source
  /\ lane' = [l \in Lane |-> "none"]
  /\ UNCHANGED <<ring, stop, traffic>>

(* pcap and eBPF: the file is opened, the program attached. *)
OpenStream ==
  /\ capAt = "start" /\ source \notin AfPacket
  /\ capAt' = "reading" /\ captureReady' = TRUE
  /\ UNCHANGED <<source, lane, ring, stop, sourceError, traffic>>

NextLane(state) == Min({l \in Lanes : lane[l] = state})

(* Every socket joins the group before any lane reads.  A single lane is   *)
(* read by the capture thread itself, and ready at once.                   *)
JoinLane ==
  /\ capAt = "start" /\ source \in AfPacket
  /\ \E l \in Lanes :
       /\ lane[l] = "none" /\ l = NextLane("none")
       /\ lane' = [lane EXCEPT ![l] = IF source = "fanout" THEN "joined" ELSE "running"]
       /\ capAt' = IF l < Max(Lanes) THEN "start"
                   ELSE IF source = "fanout" THEN "spawning" ELSE "waiting"
  /\ captureReady' = (captureReady \/ source # "fanout")
  /\ UNCHANGED <<source, ring, stop, sourceError, traffic>>

(* The lane is ready for packets from its bind on, but read only now. *)
SpawnLane ==
  /\ capAt = "spawning"
  /\ \E l \in Lanes :
       /\ lane[l] = "joined" /\ l = NextLane("joined")
       /\ lane' = [lane EXCEPT ![l] = "running"]
       /\ capAt' = IF l < Max(Lanes) THEN "spawning" ELSE "spawned"
  /\ UNCHANGED <<source, ring, stop, flags, traffic>>

AllSpawned ==
  /\ capAt = "spawned"
  /\ capAt' = "waiting" /\ captureReady' = TRUE
  /\ UNCHANGED <<source, lane, ring, stop, sourceError, traffic>>

SpawnFails ==
  /\ capAt = "spawning"
  /\ stop' = TRUE /\ capAt' = "aborting"
  /\ lane' = [l \in Lane |-> IF lane[l] = "joined" THEN "none" ELSE lane[l]]
  /\ UNCHANGED <<source, ring, flags, traffic>>

Joined == \A l \in Lanes : lane[l] \in {"none", "ok", "error"}

Abort ==
  /\ capAt = "aborting" /\ Joined
  /\ CaptureFails
  /\ UNCHANGED <<source, lane, ring, stop, traffic>>

(* The first lane that ends stops the others. *)
FirstDone ==
  /\ capAt = "waiting" /\ \E l \in Lanes : lane[l] \in {"ok", "error"}
  /\ capAt' = "joining" /\ stop' = (source = "fanout")
  /\ UNCHANGED <<source, lane, ring, flags, traffic>>

(* Mutant: only the panics that join reports are looked at. *)
MutantJoinLanes ==
  /\ capAt = "joining" /\ Joined
  /\ capAt' = "ok"
  /\ UNCHANGED <<source, lane, ring, stop, flags, traffic>>

JoinLanes ==
  /\ capAt = "joining" /\ Joined
  /\ IF \E l \in Lanes : lane[l] = "error"
       THEN CaptureFails
       ELSE capAt' = "ok" /\ UNCHANGED flags
  /\ UNCHANGED <<source, lane, ring, stop, traffic>>

-------------------------------------------------------------------------------
(* offer_event: a full channel drops, a closed one tells the source to end.*)
OfferEvent ==
  IF receiver /\ chan < ChannelCapacity
    THEN chan' = chan + 1 /\ accepted' = accepted + 1
    ELSE UNCHANGED <<chan, accepted>>

(* The flag is seen, or the file is at its end. *)
StreamStops(shutdown) ==
  /\ capAt = "reading" /\ (shutdown \/ source = "pcap")
  /\ capAt' = "ok"
  /\ UNCHANGED <<source, lane, ring, stop, flags, traffic>>

StreamFails ==
  /\ capAt = "reading"
  /\ IF source = "pcap" THEN CaptureFails /\ UNCHANGED source ELSE EbpfFails
  /\ UNCHANGED <<lane, ring, stop, traffic>>

(* The next packet of the file. *)
ReadFile(shutdown) ==
  /\ capAt = "reading" /\ source = "pcap" /\ ~shutdown /\ packets < MaxPackets
  /\ capAt' = "sending" /\ packets' = packets + 1
  /\ UNCHANGED <<source, lane, ring, stop, flags, chan, receiver, accepted, stored, visited>>

(* It waits for room in the channel, however long, unless the runtime has  *)
(* gone.                                                                   *)
SendBlocking ==
  /\ capAt = "sending" /\ (chan < ChannelCapacity \/ ~receiver)
  /\ capAt' = IF receiver THEN "reading" ELSE "ok"
  /\ OfferEvent
  /\ UNCHANGED <<source, lane, ring, stop, flags, receiver, packets, stored, visited>>

(* A record of the eBPF ring buffer: the callback asks poll to end when it *)
(* finds the runtime gone.                                                 *)
EbpfRecord(shutdown) ==
  /\ capAt = "reading" /\ source # "pcap" /\ ~shutdown /\ packets < MaxPackets
  /\ packets' = packets + 1
  /\ IF packets' \in Usable
       THEN OfferEvent /\ capAt' = IF receiver THEN capAt ELSE "ok"
       ELSE UNCHANGED <<capAt, chan, accepted>>
  /\ UNCHANGED <<source, lane, ring, stop, flags, receiver, stored, visited>>

-------------------------------------------------------------------------------
(* The kernel retires a block: n packets, if the block is its own.  It     *)
(* stores packets from the bind of the socket on.                          *)
RetireBlock(l, n) ==
  LET r == ring[l]
  IN  /\ lane[l] \in {"joined", "running"} /\ packets + n <= MaxPackets
      /\ ~r.user[r.fill]
      /\ ring' = [ring EXCEPT ![l].user[r.fill] = TRUE,
                              ![l].data[r.fill] = [i \in 1 .. n |-> stored[l] + i],
                              ![l].fill = (@ + 1) % BlockCount]
      /\ stored' = [stored EXCEPT ![l] = @ + n]
      /\ packets' = packets + n
      /\ UNCHANGED <<source, capAt, lane, stop, flags, chan, receiver, accepted, visited>>

(* Mutant: the cursor stays. *)
MutantReleased(r) ==
  [r EXCEPT !.user[r.current] = FALSE, !.data[r.current] = <<>>, !.at = 0]

(* BlockRelease; the cursor moves on. *)
Released(r) ==
  [r EXCEPT !.user[r.current] = FALSE, !.data[r.current] = <<>>,
            !.current = (@ + 1) % BlockCount, !.at = 0]

(* A lane ends, and its socket and ring with it. *)
EndLane(l, how) ==
  /\ lane' = [lane EXCEPT ![l] = how]
  /\ ring' = [ring EXCEPT ![l] = EmptyRing]
  /\ stop' = (stop \/ source = "fanout")

Stopping(shutdown) == shutdown \/ stop

(* The next packet of the current block, which the lane claims when it     *)
(* finds it handed over.  The visitor looks at the flags before each one.  *)
VisitPacket(l, shutdown) ==
  LET r      == ring[l]
      block  == r.data[r.current]
      packet == block[r.at + 1]
      usable == packet \in Usable
  IN  /\ lane[l] = "running" /\ r.user[r.current]
      /\ IF Stopping(shutdown)
           THEN EndLane(l, "ok") /\ UNCHANGED <<chan, accepted, visited>>
           ELSE /\ visited' = [visited EXCEPT ![l] = Append(@, packet)]
                /\ IF usable THEN OfferEvent ELSE UNCHANGED <<chan, accepted>>
                /\ IF usable /\ ~receiver
                     THEN EndLane(l, "ok")
                     ELSE /\ ring' = [ring EXCEPT ![l] =
                               IF r.at + 1 < Len(block) THEN [r EXCEPT !.at = @ + 1]
                                                        ELSE Released(r)]
                          /\ UNCHANGED <<lane, stop>>
      /\ UNCHANGED <<source, capAt, flags, receiver, packets, stored>>

StopLane(l, shutdown) ==
  /\ lane[l] = "running" /\ Stopping(shutdown) /\ ring[l].at = 0
  /\ EndLane(l, "ok")
  /\ UNCHANGED <<source, capAt, flags, traffic>>

(* poll, a malformed block or PACKET_STATISTICS fails, or the lane panics. *)
LaneFails(l) ==
  /\ lane[l] = "running"
  /\ EndLane(l, "error")
  /\ UNCHANGED <<source, capAt, flags, traffic>>

-------------------------------------------------------------------------------
(* What the kernel has handed over and the lane has yet to visit, in the   *)
(* order of the ring.                                                      *)
Unvisited(l) ==
  LET r == ring[l]
      from[i \in 0 .. BlockCount] ==
        IF i = 0 THEN <<>> ELSE from[i - 1] \o r.data[(r.current + i - 1) % BlockCount]
  IN  SubSeq(from[BlockCount], r.at + 1, Len(from[BlockCount]))
===============================================================================
