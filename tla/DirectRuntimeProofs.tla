------------------------- MODULE DirectRuntimeProofs --------------------------
(***************************************************************************)
(* The safety of the two-phase barrier for every number of lanes, every    *)
(* ring, batch size and channel capacity.                                  *)
(***************************************************************************)
EXTENDS DirectRuntime, WindowMergeProofs

(***************************************************************************)
(* The protocol.  In each phase of the engine thread a lane is in one of   *)
(* few states, told apart by its control channel, by where its worker is   *)
(* and by what it has answered.                                            *)
(***************************************************************************)
Busy    == {"loop", "recv", "batch", "failed"}
Closing == {"drop", "dropping", "stopped"}
Phase   == {"start", "idle", "drain", "pause", "acks", "command", "reports",
            "join", "done"} \cup Closing

HasAck(l)    == \E a \in acks : a.lane = l
HasReport(l) == \E r \in reports : r.lane = l

Quiet(l)   == control[l] = <<>> /\ worker[l] \in Busy
Asked(l)   == control[l] = <<"pause">> /\ worker[l] \in Busy
Paused(l)  == control[l] = <<>> /\ worker[l] = "paused"
Told(l)    == control[l] = <<"checkpoint">> /\ worker[l] = "paused"
Resumed(l) == control[l] = <<>> /\ worker[l] \in (IF order.finish THEN {"ended"} ELSE Busy)

(* What a lane may be left in when the engine thread gives up, and once it *)
(* has been told to stop.                                                  *)
Left(l)   == control[l] = <<>> \/ Asked(l) \/ Told(l)
Ending(l) == \/ control[l] = <<"shutdown">>
             \/ control[l] = <<"pause", "shutdown">> /\ worker[l] \in Busy
             \/ control[l] = <<"checkpoint", "shutdown">> /\ worker[l] = "paused"

InPhase(l) ==
  /\ at = "start" =>
       control[l] = <<>> /\ worker[l] \in (IF l < next THEN Busy ELSE {"off"})
  /\ at \in {"idle", "drain"} => Quiet(l)
  /\ at = "drain" => ~HasAck(l)
  /\ at = "pause" /\ l >= next => Quiet(l) /\ ~HasAck(l)
  /\ (at = "pause" /\ l < next) \/ at = "acks" =>
       (Asked(l) /\ ~HasAck(l)) \/ (Paused(l) /\ HasAck(l))
  /\ at \in {"drain", "pause", "acks"} => ~HasReport(l)
  /\ at = "command" /\ l >= next => Paused(l) /\ ~HasReport(l)
  /\ (at = "command" /\ l < next) \/ at = "reports" =>
       (Told(l) /\ ~HasReport(l)) \/ (Resumed(l) /\ HasReport(l))
  /\ at \in {"join", "done"} => control[l] = <<>> /\ worker[l] = "ended"
  /\ at = "drop" => Left(l)
  /\ at \in {"dropping", "stopped"} => Left(l) \/ Ending(l)
  /\ fault[l] = "closed" => at \in Closing

OnePerLane(S) ==
  /\ \A x \in S : x.lane \in Lane
  /\ \A x, y \in S : x.lane = y.lane => x = y

ProtocolInv ==
  /\ worker \in [Lane -> Busy \cup {"off", "paused", "ended"}]
  /\ fault \in [Lane -> {"none", "backpressure", "closed"}]
  /\ DOMAIN control = Lane
  /\ at \in Phase /\ next \in Lane
  /\ OnePerLane(acks) /\ OnePerLane(reports)
  /\ \A l \in Lane : InPhase(l)

(* The control channel's contents. *)
LEMMA Messages ==
  /\ \A m : /\ Append(<<>>, m) = <<m>>
            /\ Head(<<m>>) = m /\ Tail(<<m>>) = <<>> /\ <<m>> # <<>>
  /\ \A m, n : /\ Append(<<m>>, n) = <<m, n>> /\ <<m, n>> # <<>>
               /\ Head(<<m, n>>) = m /\ Tail(<<m, n>>) = <<n>>
  /\ \A m, n : <<m>> = <<n>> <=> m = n
  /\ \A m, n, k : <<m, n>> # <<k>>
<1>1. \A m : Append(<<>>, m) = <<m>>
  OBVIOUS
<1>2. \A m : Head(<<m>>) = m
  OBVIOUS
<1>3. \A m : Tail(<<m>>) = <<>>
  OBVIOUS
<1>4. \A m : <<m>> # <<>>
  OBVIOUS
<1>5. ASSUME NEW m, NEW n PROVE Append(<<m>>, n) = <<m, n>>
  <2> DEFINE S == {m, n}
             s == <<m>>
             t == <<m, n>>
  <2>1. s \in Seq(S) /\ n \in S /\ t \in Seq(S) /\ Len(s) = 1 /\ s[1] = m
    OBVIOUS
  <2>2. Len(t) = 2 /\ t[1] = m /\ t[2] = n
    OBVIOUS
  <2> HIDE DEF S, s, t
  <2>3. /\ Append(s, n) \in Seq(S) /\ Len(Append(s, n)) = 2
        /\ Append(s, n)[1] = m /\ Append(s, n)[2] = n
    <3>1. Append(s, n) \in Seq(S)
      BY <2>1, AppendProperties
    <3>2. Len(Append(s, n)) = Len(s)+1
      BY <2>1, AppendProperties
    <3>3. \A i \in 1 .. Len(s) : Append(s, n)[i] = s[i]
      BY <2>1, AppendProperties
    <3>4. Append(s, n)[Len(s)+1] = n
      BY <2>1, AppendProperties
    <3> QED
      BY <2>1, <3>1, <3>2, <3>3, <3>4
  <2>4. \A i \in 1 .. Len(t) : Append(s, n)[i] = t[i]
    BY <2>2, <2>3
  <2>5. Append(s, n) = t
    BY <2>1, <2>2, <2>3, <2>4, SeqEqual
  <2> QED
    BY <2>5 DEF s, t
<1>6. \A m, n : <<m, n>> # <<>>
  OBVIOUS
<1>7. \A m, n : Head(<<m, n>>) = m
  OBVIOUS
<1>8. \A m, n : Tail(<<m, n>>) = <<n>>
  OBVIOUS
<1>9. \A m, n : <<m>> = <<n>> => m = n
  OBVIOUS
<1>10. \A m, n, k : <<m, n>> # <<k>>
  OBVIOUS
<1> QED
  BY <1>1, <1>2, <1>3, <1>4, <1>5, <1>6, <1>7, <1>8, <1>9, <1>10, Zenon

(* The lanes. *)
LEMMA LaneFacts ==
  /\ LaneCount \in Nat \ {0} /\ Lane = 1 .. LaneCount
  /\ IsFiniteSet(Lane) /\ Cardinality(Lane) = LaneCount
BY LanesAssumption, FS_Interval DEF Lane

(* As many answers as lanes are answers of all lanes. *)
LEMMA AllAnswered ==
  ASSUME NEW S, OnePerLane(S), Cardinality(S) = LaneCount
  PROVE  \A l \in Lane : \E x \in S : x.lane = l
<1> DEFINE g == [x \in S |-> x.lane]
<1>1. g \in Injection(S, Lane)
  BY DEF OnePerLane, Injection, IsInjective
<1>2. g \in Surjection(S, Lane)
  BY <1>1, LaneFacts, FS_Injection
<1>3. \A l \in Lane : \E x \in S : g[x] = l
  BY <1>2 DEF Surjection
<1> QED
  BY <1>3

(* Before any thread runs. *)
LEMMA ProtocolInit ==
  ASSUME Init
  PROVE  ProtocolInv
BY LaneFacts DEF Init, ProtocolInv, InPhase, OnePerLane, Phase, Closing, Busy
(* A lane that a step leaves alone, in a phase that goes on. *)
LEMMA LaneUntouched ==
  ASSUME NEW k \in Lane, InPhase(k),
         control'[k] = control[k], worker'[k] = worker[k],
         fault'[k] = fault[k], at' = at, next' = next, order' = order,
         HasAck(k)' <=> HasAck(k), HasReport(k)' <=> HasReport(k)
  PROVE  InPhase(k)'
BY DEF InPhase, Quiet, Asked, Paused, Told, Resumed, Left, Ending

(* A worker that handles events or waits for them obeys nothing and        *)
(* answers nothing.                                                        *)
LEMMA BusyStep ==
  ASSUME ProtocolInv, NEW l \in Lane, worker[l] \in Busy \ {"failed"},
         NEW w \in Busy, worker' = [worker EXCEPT ![l] = w],
         NEW why \in {"none", "backpressure"},
         fault' = fault \/ fault' = [fault EXCEPT ![l] = why],
         UNCHANGED <<control, at, next, order, acks, reports>>
  PROVE  ProtocolInv'
<1>1. /\ worker' \in [Lane -> Busy \cup {"off", "paused", "ended"}]
      /\ fault' \in [Lane -> {"none", "backpressure", "closed"}]
  BY DEF ProtocolInv
<1>2. ASSUME NEW k \in Lane PROVE InPhase(k)'
  <2>0. InPhase(k) /\ (HasAck(k)' <=> HasAck(k)) /\ (HasReport(k)' <=> HasReport(k))
    BY DEF ProtocolInv, HasAck, HasReport
  <2>1. CASE k # l
    <3>1. worker'[k] = worker[k] /\ fault'[k] = fault[k]
      BY <2>1 DEF ProtocolInv
    <3> QED
      BY <2>0, <3>1, LaneUntouched
  <2>2. CASE k = l
    <3>1. /\ worker'[k] \in Busy /\ worker[k] \in Busy
          /\ fault'[k] = fault[k] \/ fault'[k] \in {"none", "backpressure"}
      BY <2>2 DEF ProtocolInv
    <3>2. worker[k] \notin {"off", "paused", "ended"}
      BY <3>1 DEF Busy
    <3>3. /\ Asked(k) => Asked(k)'
          /\ Quiet(k) => Quiet(k)'
          /\ ~Paused(k) /\ ~Told(k)
      BY <3>1, <3>2 DEF Asked, Quiet, Paused, Told
    <3>4. Resumed(k) => Resumed(k)'
      BY <3>1, <3>2 DEF Resumed
    <3>6. Left(k) => Left(k)'
      BY <3>3 DEF Left
    <3>7. Ending(k) => Ending(k)'
      BY <3>1, <3>2 DEF Ending
    <3>5. at = "start" => worker'[k] \in (IF k < next THEN Busy ELSE {"off"})
      BY <2>0, <3>1, <3>2 DEF InPhase
    <3> QED
      BY <2>0, <3>1, <3>2, <3>3, <3>4, <3>5, <3>6, <3>7 DEF InPhase
  <2> QED
    BY <2>1, <2>2
<1> QED
  BY <1>1, <1>2 DEF ProtocolInv, OnePerLane
(* A control message that waits for a worker is the one its state expects. *)
LEMMA PendingMessage ==
  ASSUME ProtocolInv, NEW l \in Lane, control[l] # <<>>
  PROVE  \/ /\ Asked(l) /\ Head(control[l]) = "pause" /\ Tail(control[l]) = <<>>
            /\ at \in {"pause", "acks"} \cup Closing
            /\ at \in {"pause", "acks"} => ~HasAck(l) /\ ~HasReport(l)
            /\ at = "pause" => l < next
         \/ /\ Told(l) /\ Head(control[l]) = "checkpoint" /\ Tail(control[l]) = <<>>
            /\ at \in {"command", "reports"} \cup Closing
            /\ at \in {"command", "reports"} => ~HasReport(l)
            /\ at = "command" => l < next
         \/ /\ Ending(l) /\ at \in {"dropping", "stopped"}
            /\ Tail(control[l]) \in {<<>>, <<"shutdown">>}
            /\ worker[l] = "loop" => Head(control[l]) \in {"pause", "shutdown"}
            /\ worker[l] = "paused" => Head(control[l]) \in {"checkpoint", "shutdown"}
<1>1. InPhase(l) /\ at \in Phase
  BY DEF ProtocolInv
<1>2. Asked(l) => Head(control[l]) = "pause" /\ Tail(control[l]) = <<>>
  BY Messages DEF Asked
<1>3. Told(l) => Head(control[l]) = "checkpoint" /\ Tail(control[l]) = <<>>
  BY Messages DEF Told
<1>4. Ending(l) =>
        /\ Tail(control[l]) \in {<<>>, <<"shutdown">>}
        /\ worker[l] = "loop" => Head(control[l]) \in {"pause", "shutdown"}
        /\ worker[l] = "paused" => Head(control[l]) \in {"checkpoint", "shutdown"}
  <2>1. CASE control[l] = <<"shutdown">>
    BY <2>1, Messages
  <2>2. CASE control[l] = <<"pause", "shutdown">> /\ worker[l] \in Busy
    <3>1. Head(control[l]) = "pause" /\ Tail(control[l]) = <<"shutdown">>
      BY <2>2, Messages
    <3> QED
      BY <2>2, <3>1 DEF Busy
  <2>3. CASE control[l] = <<"checkpoint", "shutdown">> /\ worker[l] = "paused"
    <3>1. Head(control[l]) = "checkpoint" /\ Tail(control[l]) = <<"shutdown">>
      BY <2>3, Messages
    <3> QED
      BY <2>3, <3>1
  <2> QED
    BY <2>1, <2>2, <2>3 DEF Ending
<1>5. ~Quiet(l) /\ ~Paused(l) /\ ~Resumed(l)
  BY DEF Quiet, Paused, Resumed
<1>6. at \notin {"start", "idle", "drain", "join", "done"}
  BY <1>1, <1>5 DEF InPhase
<1>7. CASE at = "pause"
  <2>1. l < next
    BY <1>1, <1>5, <1>7, LaneFacts DEF InPhase, ProtocolInv
  <2> QED
    BY <1>1, <1>2, <1>5, <1>7, <2>1 DEF InPhase
<1>8. CASE at = "acks"
  BY <1>1, <1>2, <1>5, <1>8 DEF InPhase
<1>9. CASE at = "command"
  <2>1. l < next
    BY <1>1, <1>5, <1>9, LaneFacts DEF InPhase, ProtocolInv
  <2> QED
    BY <1>1, <1>3, <1>5, <1>9, <2>1 DEF InPhase
<1>10. CASE at = "reports"
  BY <1>1, <1>3, <1>5, <1>10 DEF InPhase
<1>11. CASE at = "drop"
  BY <1>1, <1>2, <1>3, <1>11 DEF InPhase, Left, Closing
<1>12. CASE at \in {"dropping", "stopped"}
  BY <1>1, <1>2, <1>3, <1>4, <1>12 DEF InPhase, Left, Closing
<1> QED
  BY <1>1, <1>6, <1>7, <1>8, <1>9, <1>10, <1>11, <1>12 DEF Phase, Closing

(* Once the engine thread has given up, a message ends the worker that     *)
(* obeys it.                                                               *)
LEMMA ClosingStep ==
  ASSUME ProtocolInv, NEW l \in Lane, at \in Closing, control[l] # <<>>,
         worker[l] \in {"loop", "paused"}, NEW w \in {"failed", "ended"},
         control' = [control EXCEPT ![l] = Tail(@)],
         worker' = [worker EXCEPT ![l] = w],
         fault' = fault \/ fault' = [fault EXCEPT ![l] = "closed"],
         UNCHANGED <<acks, reports, at, next, order>>
  PROVE  ProtocolInv'
<1>1. \/ Tail(control[l]) = <<>>
      \/ Tail(control[l]) = <<"shutdown">> /\ at \in {"dropping", "stopped"}
  BY PendingMessage
<1>2. ASSUME NEW k \in Lane PROVE InPhase(k)'
  <2>0. InPhase(k) /\ (HasAck(k)' <=> HasAck(k)) /\ (HasReport(k)' <=> HasReport(k))
    BY DEF ProtocolInv, HasAck, HasReport
  <2>1. CASE k # l
    <3>1. worker'[k] = worker[k] /\ control'[k] = control[k] /\ fault'[k] = fault[k]
      BY <2>1 DEF ProtocolInv
    <3> QED
      BY <2>0, <3>1, LaneUntouched
  <2>2. CASE k = l
    <3>1. control'[k] = <<>>
          \/ (control'[k] = <<"shutdown">> /\ at \in {"dropping", "stopped"})
      BY <1>1, <2>2 DEF ProtocolInv
    <3>2. Left(k)' \/ (Ending(k)' /\ at \in {"dropping", "stopped"})
      BY <3>1 DEF Left, Ending
    <3> QED
      BY <3>2 DEF InPhase, Closing
  <2> QED
    BY <2>1, <2>2
<1>3. /\ worker' \in [Lane -> Busy \cup {"off", "paused", "ended"}]
      /\ fault' \in [Lane -> {"none", "backpressure", "closed"}]
      /\ DOMAIN control' = Lane
  BY DEF ProtocolInv, Busy
<1> QED
  BY <1>2, <1>3 DEF ProtocolInv, OnePerLane

(* A pause is acknowledged while the engine thread collects, and found     *)
(* unwanted once it has given up.                                          *)
LEMMA PauseKeepsProtocol ==
  ASSUME ProtocolInv, NEW l \in Lane, ObeyPause(l)
  PROVE  ProtocolInv'
<1>0. /\ worker[l] = "loop" /\ control[l] # <<>> /\ Head(control[l]) = "pause"
      /\ control' = [control EXCEPT ![l] = Tail(@)]
      /\ UNCHANGED <<reports, at, next, order>>
  BY DEF ObeyPause, coord
<1>1. ~Told(l)
  BY <1>0 DEF Told
<1>3. at \in {"pause", "acks"} \cup Closing
  BY <1>0, <1>1, PendingMessage DEF Closing
<1>4. CASE at \in {"pause", "acks"}
  <2> DEFINE a == [lane |-> l, ts |-> maxTs[l]]
  <2>1. /\ Asked(l) /\ ~HasAck(l) /\ ~HasReport(l) /\ Tail(control[l]) = <<>>
        /\ at = "pause" => l < next
    BY <1>0, <1>1, <1>4, PendingMessage
  <2>2. /\ acks' = acks \cup {a}
        /\ worker' = [worker EXCEPT ![l] = "paused"] /\ fault' = fault
    BY <1>4 DEF ObeyPause
  <2>3. a.lane = l
    OBVIOUS
  <2> HIDE DEF a
  <2>4. OnePerLane(acks')
    BY <2>1, <2>2, <2>3 DEF ProtocolInv, OnePerLane, HasAck
  <2>5. \A k \in Lane : (HasAck(k)' <=> HasAck(k) \/ k = l)
                        /\ (HasReport(k)' <=> HasReport(k))
    BY <1>0, <2>2, <2>3 DEF HasAck, HasReport
  <2>6. ASSUME NEW k \in Lane PROVE InPhase(k)'
    <3>0. InPhase(k)
      BY DEF ProtocolInv
    <3>1. CASE k # l
      <4>1. worker'[k] = worker[k] /\ control'[k] = control[k] /\ fault'[k] = fault[k]
        BY <1>0, <2>2, <3>1 DEF ProtocolInv
      <4> QED
        BY <1>0, <2>5, <3>0, <3>1, <4>1, LaneUntouched
    <3>2. CASE k = l
      <4>1. worker'[k] = "paused" /\ control'[k] = <<>> /\ fault'[k] = fault[k]
        BY <1>0, <2>1, <2>2, <3>2 DEF ProtocolInv
      <4>2. Paused(k)' /\ HasAck(k)' /\ ~HasReport(k)'
        BY <2>1, <2>5, <3>2, <4>1 DEF Paused
      <4>3. at = "pause" => k < next /\ ~(k >= next)
        BY <2>1, <3>2, LaneFacts DEF ProtocolInv
      <4> QED
        BY <1>0, <1>4, <3>0, <4>1, <4>2, <4>3 DEF InPhase, Closing
    <3> QED
      BY <3>1, <3>2
  <2>7. /\ worker' \in [Lane -> Busy \cup {"off", "paused", "ended"}]
        /\ fault' \in [Lane -> {"none", "backpressure", "closed"}]
        /\ DOMAIN control' = Lane
    BY <1>0, <2>2 DEF ProtocolInv
  <2> QED
    BY <1>0, <2>4, <2>6, <2>7 DEF ProtocolInv, OnePerLane
<1>5. CASE at \in Closing
  <2>1. /\ acks' = acks /\ worker' = [worker EXCEPT ![l] = "failed"]
        /\ fault' = [fault EXCEPT ![l] = "closed"]
    BY <1>5 DEF ObeyPause, Fail, Closing
  <2> QED
    BY <1>0, <1>5, <2>1, ClosingStep
<1> QED
  BY <1>3, <1>4, <1>5

(* A checkpoint is answered while the engine thread commands and collects, *)
(* with a report, whether or not the engine refused.                       *)
LEMMA CheckpointKeepsProtocol ==
  ASSUME ProtocolInv, NEW l \in Lane, ObeyCheckpoint(l)
  PROVE  ProtocolInv'
<1>0. /\ worker[l] = "paused" /\ control[l] # <<>> /\ Head(control[l]) = "checkpoint"
      /\ control' = [control EXCEPT ![l] = Tail(@)]
      /\ UNCHANGED <<acks, at, next, order>>
  BY DEF ObeyCheckpoint, coord
<1>1. ~Asked(l)
  BY <1>0 DEF Asked, Busy
<1>3. at \in {"command", "reports"} \cup Closing
  BY <1>0, <1>1, PendingMessage DEF Closing
<1>4. CASE at \in {"command", "reports"}
  <2> DEFINE built == BuildReport(l)
             a == IF built.ok
                    THEN [lane |-> l, ok |-> TRUE, current |-> built.current,
                          completed |-> built.completed]
                    ELSE [lane |-> l, ok |-> FALSE]
             w == IF order.finish THEN "ended" ELSE "loop"
  <2>1. /\ Told(l) /\ ~HasReport(l) /\ Tail(control[l]) = <<>>
        /\ at = "command" => l < next
    <3>1. at \notin Closing
      BY <1>4 DEF Closing
    <3> QED
      BY <1>0, <1>1, <1>4, <3>1, PendingMessage DEF Closing
  <2>2. /\ reports' = reports \cup {a}
        /\ worker' = [worker EXCEPT ![l] = w] /\ fault' = fault
    BY <1>4 DEF ObeyCheckpoint
  <2>3. a.lane = l
    <3> HIDE DEF built
    <3> QED OBVIOUS
  <2>w. w \in (IF order.finish THEN {"ended"} ELSE Busy) /\ w \in Busy \cup {"ended"}
    BY DEF Busy
  <2> HIDE DEF a, w
  <2>4. OnePerLane(reports')
    BY <2>1, <2>2, <2>3 DEF ProtocolInv, OnePerLane, HasReport
  <2>5. \A k \in Lane : (HasReport(k)' <=> HasReport(k) \/ k = l)
                        /\ (HasAck(k)' <=> HasAck(k))
    BY <1>0, <2>2, <2>3 DEF HasAck, HasReport
  <2>6. ASSUME NEW k \in Lane PROVE InPhase(k)'
    <3>0. InPhase(k)
      BY DEF ProtocolInv
    <3>1. CASE k # l
      <4>1. worker'[k] = worker[k] /\ control'[k] = control[k] /\ fault'[k] = fault[k]
        BY <1>0, <2>2, <3>1 DEF ProtocolInv
      <4> QED
        BY <1>0, <2>5, <3>0, <3>1, <4>1, LaneUntouched
    <3>2. CASE k = l
      <4>1. worker'[k] = w /\ control'[k] = <<>> /\ fault'[k] = fault[k]
        BY <1>0, <2>1, <2>2, <3>2 DEF ProtocolInv
      <4>2. Resumed(k)' /\ HasReport(k)'
        BY <1>0, <2>w, <2>1, <2>5, <3>2, <4>1 DEF Resumed
      <4>3. at = "command" => k < next /\ ~(k >= next)
        BY <2>1, <3>2, LaneFacts DEF ProtocolInv
      <4> QED
        BY <1>0, <1>4, <3>0, <4>1, <4>2, <4>3 DEF InPhase, Closing
    <3> QED
      BY <3>1, <3>2
  <2>7. /\ worker' \in [Lane -> Busy \cup {"off", "paused", "ended"}]
        /\ fault' \in [Lane -> {"none", "backpressure", "closed"}]
        /\ DOMAIN control' = Lane
    BY <1>0, <2>w, <2>2 DEF ProtocolInv
  <2> QED
    BY <1>0, <2>4, <2>6, <2>7 DEF ProtocolInv, OnePerLane
<1>5. CASE at \in Closing
  <2>1. /\ reports' = reports /\ worker' = [worker EXCEPT ![l] = "failed"]
        /\ fault' = [fault EXCEPT ![l] = "closed"]
    BY <1>5 DEF ObeyCheckpoint, Fail, Closing
  <2> QED
    BY <1>0, <1>5, <2>1, ClosingStep
<1> QED
  BY <1>3, <1>4, <1>5

(* Only Drop sends a shutdown. *)
LEMMA ShutdownKeepsProtocol ==
  ASSUME ProtocolInv, NEW l \in Lane, ObeyShutdown(l)
  PROVE  ProtocolInv'
<1>1. at \in Closing
  <2>1. Head(control[l]) = "shutdown" /\ control[l] # <<>>
    BY DEF ObeyShutdown
  <2> QED
    BY <2>1, PendingMessage DEF Closing
<1> QED
  BY <1>1, ClosingStep DEF ObeyShutdown, boundary, coord

(* No step of a worker breaks the protocol. *)
LEMMA WorkerKeepsProtocol ==
  ASSUME ProtocolInv, NEW l \in Lane, Worker(l)
  PROVE  ProtocolInv'
<1>1. ASSUME Poll(l) PROVE ProtocolInv'
  <2>1. worker[l] \in Busy \ {"failed"} /\ "recv" \in Busy
    BY <1>1 DEF Poll, Busy
  <2> QED
    BY <1>1, <2>1, BusyStep DEF Poll, boundary, coord
<1>2. ASSUME FindEmpty(l) PROVE ProtocolInv'
  <2>1. worker[l] \in Busy \ {"failed"} /\ "loop" \in Busy
    BY <1>2 DEF FindEmpty, Busy
  <2> QED
    BY <1>2, <2>1, BusyStep DEF FindEmpty, boundary, coord
<1>3. ASSUME FindClosed(l) PROVE ProtocolInv'
  <2>1. worker[l] \in Busy \ {"failed"} /\ "loop" \in Busy
    BY <1>3 DEF FindClosed, Busy
  <2> QED
    BY <1>3, <2>1, BusyStep DEF FindClosed, boundary, coord
<1>4. ASSUME ProcessEvent(l) PROVE ProtocolInv'
  <2> DEFINE w == IF inBatch[l] + 1 = BatchSize THEN "loop" ELSE "batch"
  <2>1. worker[l] \in Busy \ {"failed"} /\ w \in Busy
    BY <1>4 DEF ProcessEvent, Busy
  <2>2. /\ worker' = [worker EXCEPT ![l] = w] /\ fault' = fault
        /\ UNCHANGED <<control, at, next, order, acks, reports>>
    BY <1>4 DEF ProcessEvent, boundary, coord
  <2> HIDE DEF w
  <2> QED
    BY <2>1, <2>2, BusyStep
<1>5. ASSUME RefuseEvent(l) PROVE ProtocolInv'
  <2>1. worker[l] \in Busy \ {"failed"} /\ "failed" \in Busy
    BY <1>5 DEF RefuseEvent, Busy
  <2>2. /\ worker' = [worker EXCEPT ![l] = "failed"]
        /\ fault' = [fault EXCEPT ![l] = "backpressure"]
        /\ UNCHANGED <<control, at, next, order, acks, reports>>
    BY <1>5 DEF RefuseEvent, Fail, boundary, coord
  <2> QED
    BY <2>1, <2>2, BusyStep
<1> QED
  BY <1>1, <1>2, <1>3, <1>4, <1>5, PauseKeepsProtocol, CheckpointKeepsProtocol,
     ShutdownKeepsProtocol DEF Worker

(* The engine thread may give up at any point before it closes. *)
LEMMA AbortKeepsProtocol ==
  ASSUME ProtocolInv, at \notin Closing, NEW why, Abort(why),
         UNCHANGED <<control, fault, acks, reports>>,
         worker' \in [Lane -> Busy \cup {"off", "paused", "ended"}],
         \A l \in Lane : worker'[l] = worker[l] \/ control[l] = <<>>
  PROVE  ProtocolInv'
<1>1. at' = "drop" /\ next' = 1 /\ next' \in Lane
  BY LaneFacts DEF Abort, GoTo
<1>2. ASSUME NEW l \in Lane PROVE InPhase(l)'
  <2>1. InPhase(l) /\ at \in Phase
    BY DEF ProtocolInv
  <2>2. control[l] = <<>> \/ Asked(l) \/ Told(l)
    BY PendingMessage DEF Ending, Closing
  <2>3. Left(l)'
    BY <2>2 DEF Left, Asked, Told
  <2> QED
    BY <1>1, <2>3 DEF InPhase, Closing
<1> QED
  BY <1>1, <1>2 DEF ProtocolInv, OnePerLane, Phase, Closing

(* Starting the workers. *)
LEMMA StartKeepsProtocol ==
  ASSUME ProtocolInv, StartWorker \/ StartFails
  PROVE  ProtocolInv'
<1>0. /\ at = "start" /\ next \in Lane
      /\ \A l \in Lane : control[l] = <<>>
      /\ \A l \in Lane : worker[l] \in (IF l < next THEN Busy ELSE {"off"})
      /\ \A l \in Lane : fault[l] # "closed"
  BY DEF StartWorker, StartFails, ProtocolInv, InPhase, Closing
<1>1. CASE StartFails
  <2>1. /\ worker' = [worker EXCEPT ![next] = "ended"]
        /\ Abort("start") /\ UNCHANGED <<control, fault, acks, reports>>
    BY <1>1 DEF StartFails, boundary
  <2>2. worker' \in [Lane -> Busy \cup {"off", "paused", "ended"}]
    BY <2>1 DEF ProtocolInv
  <2>3. at \notin Closing
    BY <1>0 DEF Closing
  <2> QED
    BY <1>0, <2>1, <2>2, <2>3, AbortKeepsProtocol
<1>2. CASE StartWorker
  <2>1. /\ worker' = [worker EXCEPT ![next] = "loop"]
        /\ UNCHANGED <<control, fault, acks, reports, order>>
        /\ IF next = LaneCount THEN at' = "idle" /\ next' = 1
           ELSE at' = "start" /\ next' = next + 1
    BY <1>2 DEF StartWorker, boundary, GoTo
  <2>2. worker' \in [Lane -> Busy \cup {"off", "paused", "ended"}] /\ "loop" \in Busy
    BY <2>1 DEF ProtocolInv, Busy
  <2>3. next' \in Lane
    BY <1>0, <2>1, LaneFacts
  <2>4. ASSUME NEW l \in Lane PROVE InPhase(l)'
    <3>1. worker'[l] = IF l = next THEN "loop" ELSE worker[l]
      BY <2>1 DEF ProtocolInv
    <3>2. CASE next = LaneCount
      <4>1. l <= next /\ (l # next => l < next)
        BY <1>0, <3>2, LaneFacts
      <4>2. worker'[l] \in Busy
        BY <1>0, <2>2, <3>1, <4>1
      <4>3. Quiet(l)'
        BY <1>0, <2>1, <4>2 DEF Quiet
      <4>4. at' = "idle"
        BY <2>1, <3>2
      <4> QED
        BY <1>0, <2>1, <4>3, <4>4 DEF InPhase, Closing
    <3>3. CASE next # LaneCount
      <4>1. l < next + 1 <=> (l < next \/ l = next)
        BY <1>0, LaneFacts
      <4>2. worker'[l] \in (IF l < next + 1 THEN Busy ELSE {"off"})
        BY <1>0, <2>2, <3>1, <4>1
      <4>3. at' = "start" /\ next' = next + 1
        BY <2>1, <3>3
      <4> QED
        BY <1>0, <2>1, <4>2, <4>3 DEF InPhase, Closing
    <3> QED
      BY <3>2, <3>3
  <2> QED
    BY <2>1, <2>2, <2>3, <2>4 DEF ProtocolInv, OnePerLane, Phase
<1> QED
  BY <1>1, <1>2

(* A checkpoint begins with no answer outstanding. *)
LEMMA BeginKeepsProtocol ==
  ASSUME ProtocolInv, BeginPeriodic \/ BeginFinal
  PROVE  ProtocolInv'
<1>0. PICK finish \in BOOLEAN : at = "idle" /\ BeginCheckpoint(finish)
  BY DEF BeginPeriodic, BeginFinal
<1>1. UNCHANGED <<worker, fault, control>>
  BY <1>0 DEF BeginCheckpoint, workers
<1>2. CASE Failed # {}
  <2>1. Abort("lane") /\ UNCHANGED <<acks, reports>>
    BY <1>0, <1>2 DEF BeginCheckpoint
  <2>2. at \notin Closing
    BY <1>0 DEF Closing
  <2> QED
    BY <1>1, <2>1, <2>2, AbortKeepsProtocol DEF ProtocolInv
<1>3. CASE Failed = {}
  <2>1. /\ at' \in {"drain", "pause"} /\ next' = 1 /\ next' \in Lane
        /\ acks' = {} /\ reports' = {}
    BY <1>0, <1>3, LaneFacts DEF BeginCheckpoint, GoTo
  <2>2. ASSUME NEW l \in Lane PROVE InPhase(l)'
    <3>1. InPhase(l) /\ Quiet(l) /\ fault[l] # "closed"
      BY <1>0 DEF ProtocolInv, InPhase, Closing
    <3>2. Quiet(l)' /\ ~HasAck(l)' /\ ~HasReport(l)'
      BY <1>1, <2>1, <3>1 DEF Quiet, HasAck, HasReport
    <3>3. ~(l < next') /\ l >= next'
      BY <2>1, LaneFacts
    <3>4. fault'[l] # "closed"
      BY <1>1, <3>1
    <3> QED
      BY <2>1, <3>2, <3>3, <3>4 DEF InPhase
  <2> QED
    BY <1>1, <2>1, <2>2 DEF ProtocolInv, OnePerLane, Phase
<1> QED
  BY <1>2, <1>3

(* Messages go out lane by lane, while the lanes already told may answer.  *)
LEMMA SendKeepsProtocol ==
  ASSUME ProtocolInv, SendPause \/ SendCheckpoint
  PROVE  ProtocolInv'
<1> DEFINE message == IF at = "pause" THEN "pause" ELSE "checkpoint"
           after   == IF at = "pause" THEN "acks" ELSE "reports"
<1>0. /\ at \in {"pause", "command"} /\ SendTo(message, after)
      /\ next \in Lane
  BY DEF SendPause, SendCheckpoint, ProtocolInv
<1>1. UNCHANGED <<worker, fault, acks, reports, order>>
  BY <1>0 DEF SendTo, workers, boundary
<1>2. CASE next \in Gone
  <2>1. Abort("lane") /\ UNCHANGED control /\ at \notin Closing
    BY <1>0, <1>2 DEF SendTo, Closing
  <2> QED
    BY <1>1, <2>1, AbortKeepsProtocol DEF ProtocolInv
<1>3. CASE next \notin Gone
  <2>1. /\ control' = [control EXCEPT ![next] = Append(@, message)]
        /\ IF next = LaneCount THEN at' = after /\ next' = 1
           ELSE at' = at /\ next' = next + 1
    BY <1>0, <1>3 DEF SendTo, GoTo
  <2>2. next' \in Lane /\ at' \in Phase /\ DOMAIN control' = Lane
    BY <1>0, <2>1, LaneFacts DEF Phase, ProtocolInv
  <2>3. ASSUME NEW l \in Lane PROVE InPhase(l)'
    <3>0. /\ InPhase(l) /\ fault[l] # "closed"
          /\ (HasAck(l)' <=> HasAck(l)) /\ (HasReport(l)' <=> HasReport(l))
          /\ (Resumed(l)' <=> control'[l] = <<>> /\ worker[l] \in
                                 (IF order.finish THEN {"ended"} ELSE Busy))
      BY <1>0, <1>1 DEF ProtocolInv, InPhase, HasAck, HasReport, Closing, Resumed
    <3>1. \/ next = LaneCount /\ at' = after /\ l <= next
          \/ at' = at /\ next' = next + 1 /\ (l < next' <=> l <= next)
             /\ (l >= next' <=> l > next)
      BY <1>0, <2>1, LaneFacts
    <3>2. l <= next <=> l < next \/ l = next
      BY <1>0, LaneFacts
    <3>3. CASE l > next
      <4>1. control'[l] = control[l] /\ ~(l < next') /\ l >= next' /\ at' = at /\ l >= next
        BY <1>0, <2>1, <3>1, <3>3, LaneFacts DEF ProtocolInv
      <4>2. CASE at = "pause"
        <5>1. Quiet(l)' /\ ~HasAck(l)' /\ ~HasReport(l)'
          BY <1>1, <3>0, <4>1, <4>2 DEF InPhase, Quiet
        <5> QED
          BY <1>1, <3>0, <4>1, <4>2, <5>1 DEF InPhase
      <4>3. CASE at = "command"
        <5>1. Paused(l)' /\ ~HasReport(l)'
          BY <1>1, <3>0, <4>1, <4>3 DEF InPhase, Paused
        <5> QED
          BY <1>1, <3>0, <4>1, <4>3, <5>1 DEF InPhase
      <4> QED
        BY <1>0, <4>2, <4>3
    <3>4. CASE l <= next
      <4>1. at = "pause" =>
              /\ (Asked(l)' /\ ~HasAck(l)') \/ (Paused(l)' /\ HasAck(l)')
              /\ ~HasReport(l)'
        <5> HAVE at = "pause"
        <5>1. CASE l = next
          <6>1. l >= next
            BY <5>1, LaneFacts
          <6>2. control[l] = <<>> /\ worker[l] \in Busy /\ ~HasAck(l)
            BY <3>0, <6>1 DEF InPhase, Quiet
          <6>3. control'[l] = <<"pause">>
            BY <2>1, <5>1, <6>2, Messages DEF ProtocolInv
          <6> QED
            BY <1>1, <3>0, <6>2, <6>3 DEF Asked, InPhase
        <5>2. CASE l # next
          <6>1. l < next /\ control'[l] = control[l]
            BY <2>1, <3>2, <3>4, <5>2 DEF ProtocolInv
          <6> QED
            BY <1>1, <3>0, <6>1 DEF InPhase, Asked, Paused
        <5> QED
          BY <5>1, <5>2
      <4>2. at = "command" =>
              (Told(l)' /\ ~HasReport(l)') \/ (Resumed(l)' /\ HasReport(l)')
        <5> HAVE at = "command"
        <5>1. CASE l = next
          <6>1. l >= next
            BY <5>1, LaneFacts
          <6>2. control[l] = <<>> /\ worker[l] = "paused" /\ ~HasReport(l)
            BY <3>0, <6>1 DEF InPhase, Paused
          <6>3. control'[l] = <<"checkpoint">>
            BY <2>1, <5>1, <6>2, Messages DEF ProtocolInv
          <6> QED
            BY <1>1, <3>0, <6>2, <6>3 DEF Told, InPhase
        <5>2. CASE l # next
          <6>1. l < next /\ control'[l] = control[l]
            BY <2>1, <3>2, <3>4, <5>2 DEF ProtocolInv
          <6> QED
            BY <1>1, <3>0, <6>1 DEF InPhase, Told, Resumed
        <5> QED
          BY <5>1, <5>2
      <4>3. at' = at => ~(l >= next') \/ at' = after
        BY <1>0, <3>1, <3>4, LaneFacts
      <4>4. fault'[l] # "closed" /\ (at' = at \/ at' = after)
        BY <1>1, <2>1, <3>0
      <4> QED
        BY <1>0, <4>1, <4>2, <4>3, <4>4 DEF InPhase
    <3> QED
      BY <1>0, <3>3, <3>4, LaneFacts
  <2> QED
    BY <1>1, <2>2, <2>3 DEF ProtocolInv, OnePerLane
<1> QED
  BY <1>2, <1>3

(* The steps of the engine thread between two rounds of messages. *)
LEMMA CollectKeepsProtocol ==
  ASSUME ProtocolInv, CollectDrained \/ CollectAcks
  PROVE  ProtocolInv'
<1>0. /\ UNCHANGED <<worker, fault, control, acks, reports>>
      /\ next' = 1 /\ next' \in Lane
  <2>1. CASE CollectDrained
    BY <2>1, LaneFacts DEF CollectDrained, workers, boundary, GoTo
  <2>2. CASE CollectAcks
    <3>1. GoTo("command", 1) /\ UNCHANGED <<workers, boundary, control>>
      BY <2>2, Zenon DEF CollectAcks
    <3> QED
      BY <3>1, LaneFacts DEF workers, boundary, GoTo
  <2> QED
    BY <2>1, <2>2
<1>a. at \notin Closing
  BY DEF CollectDrained, CollectAcks, Closing
<1>1. \A l \in Lane : /\ InPhase(l) /\ fault[l] # "closed" /\ fault'[l] # "closed"
                      /\ (HasAck(l)' <=> HasAck(l)) /\ (HasReport(l)' <=> HasReport(l))
                      /\ (Quiet(l)' <=> Quiet(l)) /\ (Paused(l)' <=> Paused(l))
                      /\ ~(l < next') /\ l >= next'
  <2> TAKE l \in Lane
  <2>1. InPhase(l) /\ fault[l] # "closed"
    BY <1>a DEF ProtocolInv, InPhase
  <2>2. ~(l < next') /\ l >= next'
    BY <1>0, LaneFacts
  <2> QED
    BY <1>0, <2>1, <2>2 DEF HasAck, HasReport, Quiet, Paused
<1>2. CASE CollectDrained
  <2>1. at = "drain" /\ at' = "pause"
    BY <1>2 DEF CollectDrained, GoTo
  <2>2. ASSUME NEW l \in Lane PROVE InPhase(l)'
    <3>1. Quiet(l) /\ ~HasAck(l) /\ ~HasReport(l)
      BY <1>1, <2>1 DEF InPhase
    <3> QED
      BY <1>1, <2>1, <3>1 DEF InPhase
  <2> QED
    BY <1>0, <2>1, <2>2 DEF ProtocolInv, OnePerLane, Phase
<1>3. CASE CollectAcks
  <2>1. at = "acks" /\ at' = "command" /\ Cardinality(acks) = LaneCount
    BY <1>3 DEF CollectAcks, GoTo
  <2>2. \A l \in Lane : HasAck(l)
    BY <2>1, AllAnswered DEF ProtocolInv, HasAck
  <2>3. ASSUME NEW l \in Lane PROVE InPhase(l)'
    <3>1. Paused(l) /\ ~HasReport(l)
      BY <1>1, <2>1, <2>2 DEF InPhase
    <3> QED
      BY <1>1, <2>1, <3>1 DEF InPhase
  <2> QED
    BY <1>0, <2>1, <2>3 DEF ProtocolInv, OnePerLane, Phase
<1> QED
  BY <1>2, <1>3

(* What ends a checkpoint early. *)
LEMMA GiveUpKeepsProtocol ==
  ASSUME ProtocolInv, MissDeadWorker \/ CollectError
  PROVE  ProtocolInv'
<1>1. /\ Abort("lane") \/ Abort("report")
      /\ at \in {"drain", "acks", "reports"}
      /\ UNCHANGED <<worker, control, fault, acks, reports>>
  BY DEF MissDeadWorker, CollectError, workers, boundary
<1>2. at \notin Closing
  BY <1>1 DEF Closing
<1> QED
  BY <1>1, <1>2, AbortKeepsProtocol DEF ProtocolInv

(* Every lane has reported: all are back at work, or have ended. *)
LEMMA PublishKeepsProtocol ==
  ASSUME ProtocolInv, Publish
  PROVE  ProtocolInv'
<1>1. /\ at = "reports" /\ Cardinality(reports) = LaneCount
      /\ UNCHANGED <<worker, control, fault, acks, reports, order>>
  BY DEF Publish, workers, boundary
<1>2. \A l \in Lane : HasReport(l)
  BY <1>1, AllAnswered DEF ProtocolInv, HasReport
<1>3. \/ Abort("unaligned") \/ Abort("lane")
      \/ at' = "join" /\ next' = 1 /\ order.finish
      \/ at' = "idle" /\ next' = 1 /\ ~order.finish
  BY DEF Publish, GoTo
<1>4. CASE Abort("unaligned") \/ Abort("lane")
  <2>1. at \notin Closing
    BY <1>1 DEF Closing
  <2> QED
    BY <1>1, <1>4, <2>1, AbortKeepsProtocol DEF ProtocolInv
<1>5. ASSUME at' \in {"join", "idle"}, at' = "join" <=> order.finish, next' = 1
      PROVE  ProtocolInv'
  <2>1. ASSUME NEW l \in Lane PROVE InPhase(l)'
    <3>1. InPhase(l) /\ fault[l] # "closed" /\ Resumed(l)
      BY <1>1, <1>2 DEF ProtocolInv, InPhase, Closing, Told
    <3>2. /\ order.finish => control'[l] = <<>> /\ worker'[l] = "ended"
          /\ ~order.finish => Quiet(l)'
      BY <1>1, <3>1 DEF Resumed, Quiet
    <3>3. fault'[l] # "closed"
      BY <1>1, <3>1
    <3> QED
      BY <1>5, <3>2, <3>3 DEF InPhase
  <2> QED
    BY <1>1, <1>5, <2>1, LaneFacts DEF ProtocolInv, OnePerLane, Phase
<1> QED
  BY <1>3, <1>4, <1>5

(* Drop adds its message behind what a lane has not read yet. *)
LEMMA DropKeepsProtocol ==
  ASSUME ProtocolInv, Shutdown \/ ShutdownJoin \/ Join
  PROVE  ProtocolInv'
<1>0. /\ UNCHANGED <<worker, fault, acks, reports, order>>
      /\ next' = 1 /\ next' \in Lane
  BY LaneFacts DEF Shutdown, ShutdownJoin, Join, workers, boundary, GoTo
<1>1. CASE Shutdown
  <2>1. /\ at = "drop" /\ at' = "dropping"
        /\ control' = [l \in Lane |-> IF l \in Gone THEN control[l]
                                      ELSE Append(control[l], "shutdown")]
    BY <1>1 DEF Shutdown, GoTo
  <2>2. ASSUME NEW l \in Lane PROVE InPhase(l)'
    <3>1. Left(l)
      BY <2>1 DEF ProtocolInv, InPhase
    <3>2. CASE l \in Gone
      <4>1. control'[l] = control[l]
        BY <2>1, <3>2
      <4>2. Left(l)'
        BY <1>0, <3>1, <4>1 DEF Left, Asked, Told
      <4> QED
        BY <2>1, <4>2 DEF InPhase, Closing
    <3>3. CASE l \notin Gone
      <4>1. control'[l] = Append(control[l], "shutdown")
        BY <2>1, <3>3
      <4>2. ASSUME control[l] = <<>> PROVE Ending(l)'
        <5>1. control'[l] = <<"shutdown">>
          BY <4>1, <4>2, Messages
        <5> QED
          BY <5>1 DEF Ending
      <4>3. ASSUME Asked(l) PROVE Ending(l)'
        <5>1. control'[l] = <<"pause", "shutdown">>
          BY <4>1, <4>3, Messages DEF Asked
        <5> QED
          BY <1>0, <4>3, <5>1 DEF Ending, Asked
      <4>4. ASSUME Told(l) PROVE Ending(l)'
        <5>1. control'[l] = <<"checkpoint", "shutdown">>
          BY <4>1, <4>4, Messages DEF Told
        <5> QED
          BY <1>0, <4>4, <5>1 DEF Ending, Told
      <4>5. Ending(l)'
        BY <3>1, <4>2, <4>3, <4>4 DEF Left
      <4> QED
        BY <2>1, <4>5 DEF InPhase, Closing
    <3> QED
      BY <3>2, <3>3
  <2> QED
    BY <1>0, <2>1, <2>2 DEF ProtocolInv, OnePerLane, Phase, Closing
<1>2. CASE ShutdownJoin \/ Join
  <2>1. /\ \/ at = "dropping" /\ at' = "stopped"
           \/ at = "join" /\ at' = "done"
        /\ control' = control
    BY <1>2 DEF ShutdownJoin, Join, GoTo
  <2>2. ASSUME NEW l \in Lane PROVE InPhase(l)'
    <3>1. InPhase(l)
      BY DEF ProtocolInv
    <3>2. (Left(l)' <=> Left(l)) /\ (Ending(l)' <=> Ending(l))
      BY <1>0, <2>1 DEF Left, Ending, Asked, Told
    <3>3. at = "join" => fault'[l] # "closed"
      BY <1>0, <3>1 DEF InPhase, Closing
    <3> QED
      BY <1>0, <2>1, <3>1, <3>2, <3>3 DEF InPhase, Closing
  <2> QED
    BY <1>0, <2>1, <2>2 DEF ProtocolInv, OnePerLane, Phase, Closing
<1> QED
  BY <1>1, <1>2

(* What the protocol does not depend on. *)
LEMMA ElsewhereKeepsProtocol ==
  ASSUME ProtocolInv,
         UNCHANGED <<worker, fault, control, acks, reports, at, next, order>>
  PROVE  ProtocolInv'
<1>1. ASSUME NEW l \in Lane PROVE InPhase(l)'
  BY LaneUntouched DEF ProtocolInv, HasAck, HasReport
<1> QED
  BY <1>1 DEF ProtocolInv, OnePerLane

(* The protocol is inductive. *)
LEMMA NextKeepsProtocol ==
  ASSUME ProtocolInv, [Next]_vars
  PROVE  ProtocolInv'
<1>1. ASSUME NEW l \in Lane, NEW ts \in Ts, Offer(l, ts) PROVE ProtocolInv'
  BY <1>1, ElsewhereKeepsProtocol DEF Offer, workers, boundary, coord
<1>2. ASSUME NEW l \in Lane, CloseLane(l) PROVE ProtocolInv'
  BY <1>2, ElsewhereKeepsProtocol DEF CloseLane, workers, boundary, coord
<1>3. CASE Coordinator
  BY <1>3, StartKeepsProtocol, BeginKeepsProtocol, SendKeepsProtocol,
     CollectKeepsProtocol, GiveUpKeepsProtocol, PublishKeepsProtocol,
     DropKeepsProtocol DEF Coordinator
<1>4. CASE UNCHANGED vars
  BY <1>4, ElsewhereKeepsProtocol DEF vars, workers, boundary, coord
<1> QED
  BY <1>1, <1>2, <1>3, <1>4, WorkerKeepsProtocol DEF Next, Terminated

(* The two-phase barrier is followed by every worker, whatever the number  *)
(* of lanes and however their threads interleave: handle_control never     *)
(* meets a checkpoint before a pause or two pauses in a row, and no reply  *)
(* channel is found closed before the engine thread has given up.          *)
THEOREM BarrierIsFollowed == Spec => []ProtocolRespected
<1>1. Init => ProtocolInv
  BY ProtocolInit
<1>2. ProtocolInv /\ [Next]_vars => ProtocolInv'
  BY NextKeepsProtocol
<1>3. ProtocolInv => ProtocolRespected
  <2> SUFFICES ASSUME ProtocolInv, NEW l \in Lane
               PROVE  /\ ~OutOfProtocol(l)
                      /\ fault[l] = "closed" => at \in Closing
    BY DEF ProtocolRespected, Closing
  <2>1. control[l] # <<>> =>
          \/ Asked(l) /\ Head(control[l]) = "pause"
          \/ Told(l) /\ Head(control[l]) = "checkpoint"
          \/ /\ worker[l] = "loop" => Head(control[l]) \in {"pause", "shutdown"}
             /\ worker[l] = "paused" => Head(control[l]) \in {"checkpoint", "shutdown"}
    BY PendingMessage
  <2>2. ~OutOfProtocol(l)
    BY <2>1 DEF OutOfProtocol, Asked, Told, Busy
  <2> QED
    BY <2>2 DEF ProtocolInv, InPhase
<1> QED
  BY <1>1, <1>2, <1>3, PTL DEF Spec

(***************************************************************************)
(* The alignment of the lanes.  At the last boundary every ring went from  *)
(* slide f to slide b.  Since then a lane has moved as far as its largest  *)
(* timestamp, and a lane that has answered the running checkpoint has been *)
(* taken to the watermark, from which it may have moved on.                *)
(***************************************************************************)
Reached(b)   == Larger(b, order.watermark)
Oldest(f, b) == Larger(f, (Reached(b) + 1) - Ring)

OnBase(l, f, b) ==
  /\ OnTrack(engine[l], Id, Ring, f, b)
  /\ BackStart(engine[l]) = Larger(b, maxTs[l])

ReportOn(r, f, b) ==
  /\ r.completed \in Seq(WindowState(Id))
  /\ Spans(r.completed, Ring, f, b)
  /\ Len(r.completed) = IF order.finish THEN (Reached(b) - b) + 1
                                        ELSE Smaller(Reached(b) - b, Ring)
  /\ Bounds(r.current) = <<Oldest(f, b), Reached(b) + 1>>

Answering == {"command", "reports"}
Live      == {"start", "idle", "drain", "pause", "acks"} \cup Answering

LaneAligned(l, f, b) ==
  /\ ~(at \in Answering /\ HasReport(l)) => OnBase(l, f, b)
  /\ at \in Answering =>
       \A r \in reports : r.lane = l /\ r.ok =>
         /\ ReportOn(r, f, b)
         /\ ~order.finish => OnBase(l, Oldest(f, b), Reached(b))

(* What was published lies before the boundary. *)
PublishedUpTo(f, b) ==
  \A i \in 1 .. Len(published) : published[i].end <= b /\ published[i].start <= f

Boundary(f, b) ==
  /\ f <= b
  /\ PublishedUpTo(f, b)
  /\ \A l \in Lane : LaneAligned(l, f, b)

(* Windows that a lane may still fill are not published before the end. *)
NoneStillFilling(l) ==
  \A i \in 1 .. Len(published) : published[i].end <= BackStart(engine[l])

EngineOK(rq) ==
  rq \in RunningQuery(Id) /\ RingOK(rq.buckets, Ring) /\ rq.buckets # <<>>

TypeInv ==
  /\ log \in Seq([lane : Lane, ts : Nat])
  /\ channel \in [Lane -> Seq(Id)]
  /\ maxTs \in [Lane -> Nat \cup {NoTs}]
  /\ DOMAIN engine = Lane /\ \A l \in Lane : EngineOK(engine[l])
  /\ order \in [watermark : Nat \cup {NoTs}, include : BOOLEAN, finish : BOOLEAN]
  /\ published \in Seq(WindowState(Id))

AlignInv ==
  /\ TypeInv
  /\ at \in {"start", "idle"} => ~order.finish
  /\ at \in {"pause", "acks"} => \A a \in acks : a.ts = maxTs[a.lane]
  /\ at \in Answering =>
       \A l \in Lane : ~HasReport(l) => maxTs[l] <= order.watermark
  /\ at \in Live => \E f, b \in Nat : Boundary(f, b)
  /\ InOrder(published)
  /\ ~order.finish => \A l \in Lane : NoneStillFilling(l)

(* What the constants are. *)
LEMMA RingFacts ==
  Ring \in Nat \ {0} /\ Capacity = Ring /\ StartTs \in Nat /\ Ts \subseteq Nat
BY LanesAssumption, LaneCapacity

(* The ends of a lane's ring. *)
LEMMA EngineEnds ==
  ASSUME NEW rq, EngineOK(rq)
  PROVE  /\ FrontStart(rq) \in Nat /\ BackStart(rq) \in Nat
         /\ FrontStart(rq) <= BackStart(rq)
         /\ (BackStart(rq) + 1) - Ring <= FrontStart(rq)
BY RingFacts, RingEnds DEF EngineOK

(* advance_to_bucket leaves a usable engine, and never goes back. *)
LEMMA AdvanceOK ==
  ASSUME NEW rq, EngineOK(rq), NEW target \in Nat
  PROVE  /\ EngineOK(AdvanceToBucket(rq, Ring, target))
         /\ BackStart(AdvanceToBucket(rq, Ring, target)) = Larger(BackStart(rq), target)
<1> DEFINE moved == AdvanceToBucket(rq, Ring, target)
           k == WindowsClosedByAdvance(rq, Ring, target)
<1>1. rq \in RunningQuery(Id) /\ RingOK(rq.buckets, Ring) /\ rq.buckets # <<>>
  BY DEF EngineOK
<1>2. /\ moved \in RunningQuery(Id)
      /\ moved.buckets # <<>> /\ RingOK(moved.buckets, Ring)
      /\ moved.late = rq.late
      /\ rq.buckets = <<>> =>
           moved.emitted = rq.emitted /\ BackStart(moved) = target
      /\ rq.buckets # <<>> =>
           /\ moved.emitted = rq.emitted \o FlushedWindows(rq.buckets, Ring, k)
           /\ BackStart(moved) = Larger(BackStart(rq), target)
           /\ FrontStart(moved) = Larger(FrontStart(rq), target + 1 - Ring)
  BY <1>1, RingFacts, AdvanceLemma, ZenonT(60)
<1> QED
  BY <1>1, <1>2, Zenon DEF EngineOK

(* Handing the completed windows over does not touch the ring. *)
LEMMA HandOverOK ==
  ASSUME NEW rq, EngineOK(rq), NEW e
  PROVE  LET d == [[rq EXCEPT !.emitted = e] EXCEPT !.emitted = <<>>]
         IN  /\ EngineOK(d) /\ d.buckets = rq.buckets
             /\ BackStart(d) = BackStart(rq)
<1> DEFINE d == [[rq EXCEPT !.emitted = e] EXCEPT !.emitted = <<>>]
<1>1. rq \in RunningQuery(Id) /\ RingOK(rq.buckets, Ring) /\ rq.buckets # <<>>
  BY DEF EngineOK
<1>2. d.buckets = rq.buckets /\ d \in RunningQuery(Id)
  <2>1. <<>> \in Seq(WindowState(Id))
    BY EmptySeq
  <2> QED
    BY <1>1, <2>1 DEF RunningQuery
<1> HIDE DEF d
<1>3. EngineOK(d) /\ BackStart(d) = BackStart(rq)
  BY <1>1, <1>2 DEF EngineOK, BackStart
<1> QED
  BY <1>2, <1>3 DEF d

(* The engine a report leaves behind: where it is, or moved and emptied.   *)
LEMMA BuildIs ==
  ASSUME TypeInv, NEW l \in Lane
  PROVE  LET moved == Advanced(engine[l], order.watermark)
             built == BuildReport(l)
         IN  /\ EngineOK(moved) /\ BackStart(moved) = Larger(BackStart(engine[l]), order.watermark)
             /\ ~built.ok => built.engine \in {engine[l], moved}
             /\ built.ok =>
                  /\ ~AdvanceRefused(engine[l], order.watermark)
                  /\ order.finish => CanEmit(moved, Capacity, 1)
                  /\ \E e : built.engine = [[moved EXCEPT !.emitted = e] EXCEPT !.emitted = <<>>]
                  /\ built.completed = IF order.finish THEN FinishQuery(moved).emitted
                                                       ELSE moved.emitted
                  /\ Bounds(built.current) = <<FrontStart(moved), BackStart(moved) + 1>>
<1> DEFINE rq    == engine[l]
           w     == order.watermark
           moved == Advanced(rq, w)
           final == IF order.finish THEN FinishQuery(moved) ELSE moved
           built == BuildReport(l)
<1>1. EngineOK(rq) /\ w \in Nat \cup {NoTs} /\ order.finish \in BOOLEAN
  BY DEF TypeInv
<1>2. BackStart(rq) \in Nat
  BY <1>1, EngineEnds
<1>3. EngineOK(moved) /\ BackStart(moved) = Larger(BackStart(rq), w)
  <2>1. CASE w = NoTs
    BY <1>1, <1>2, <2>1 DEF Advanced, Larger, NoTs
  <2>2. CASE w \in Nat
    <3>1. moved = AdvanceToBucket(rq, Ring, w)
      BY <2>2 DEF Advanced, NoTs
    <3> HIDE DEF moved, rq
    <3> QED
      BY <1>1, <2>2, <3>1, AdvanceOK
  <2> QED
    BY <1>1, <2>1, <2>2
<1>4. /\ moved \in RunningQuery(Id) /\ moved.buckets # <<>>
  BY <1>3 DEF EngineOK
<1> HIDE DEF moved
<1>5. \E e : final = [moved EXCEPT !.emitted = e]
  <2>1. CASE order.finish
    BY <1>4, <2>1 DEF FinishQuery
  <2>2. CASE ~order.finish
    <3>1. moved = [moved EXCEPT !.emitted = moved.emitted]
      BY <1>4 DEF RunningQuery
    <3> QED
      BY <2>2, <3>1
  <2> QED
    BY <2>1, <2>2
<1>6. final.buckets = moved.buckets
  BY <1>4, <1>5 DEF RunningQuery
<1>7. Bounds(CurrentWindow(final)) = <<FrontStart(moved), BackStart(moved) + 1>>
  <2> HIDE DEF final
  <2>1. /\ CurrentWindow(final).start = final.buckets[1].start
        /\ CurrentWindow(final).end = BackStart(final) + 1
    BY DEF CurrentWindow, MergedWindow
  <2>2. BackStart(final) = BackStart(moved) /\ final.buckets[1].start = FrontStart(moved)
    BY <1>6 DEF BackStart, FrontStart
  <2> QED
    BY <2>1, <2>2 DEF Bounds
<1> DEFINE no  == [ok |-> FALSE, engine |-> rq]
           no2 == [ok |-> FALSE, engine |-> moved]
           yes == [ok |-> TRUE, engine |-> [final EXCEPT !.emitted = <<>>],
                   completed |-> final.emitted, current |-> CurrentWindow(final)]
<1>8. built = IF AdvanceRefused(rq, w) THEN no
              ELSE IF order.finish /\ ~CanEmit(moved, Capacity, 1) THEN no2 ELSE yes
  BY Zenon DEF BuildReport, moved
<1>9. /\ no.ok = FALSE /\ no.engine = rq /\ no2.ok = FALSE /\ no2.engine = moved
      /\ yes.ok = TRUE /\ yes.engine = [final EXCEPT !.emitted = <<>>]
      /\ yes.completed = final.emitted /\ yes.current = CurrentWindow(final)
  <2> HIDE DEF final, rq
  <2> QED OBVIOUS
<1> HIDE DEF no, no2, yes, built
<1>10. ~built.ok => built.engine \in {rq, moved}
  BY <1>8, <1>9
<1>11. ASSUME built.ok
       PROVE  /\ ~AdvanceRefused(rq, w)
              /\ order.finish => CanEmit(moved, Capacity, 1)
              /\ built = yes
  BY <1>8, <1>9, <1>11
<1>12. final.emitted = IF order.finish THEN FinishQuery(moved).emitted
                                       ELSE moved.emitted
  OBVIOUS
<1>13. \E e : [final EXCEPT !.emitted = <<>>]
                = [[moved EXCEPT !.emitted = e] EXCEPT !.emitted = <<>>]
  <2>1. PICK e : final = [moved EXCEPT !.emitted = e]
    BY <1>5
  <2> QED
    BY <2>1, Zenon
<1> HIDE DEF final
<1>14. built.ok =>
         /\ ~AdvanceRefused(rq, w)
         /\ order.finish => CanEmit(moved, Capacity, 1)
         /\ \E e : built.engine = [[moved EXCEPT !.emitted = e] EXCEPT !.emitted = <<>>]
         /\ built.completed = IF order.finish THEN FinishQuery(moved).emitted
                                              ELSE moved.emitted
         /\ Bounds(built.current) = <<FrontStart(moved), BackStart(moved) + 1>>
  BY <1>7, <1>9, <1>11, <1>12, <1>13, Zenon
<1> QED
  BY <1>3, <1>10, <1>14, Zenon DEF built, moved

(* A lane that has not answered yet is taken to the common slide: it       *)
(* completes the same windows as every other lane and has the same window  *)
(* open.                                                                   *)
LEMMA BuildAligned ==
  ASSUME TypeInv, NEW l \in Lane, NEW f \in Nat, NEW b \in Nat, f <= b,
         OnBase(l, f, b), maxTs[l] <= order.watermark, BuildReport(l).ok
  PROVE  LET built == BuildReport(l)
         IN  /\ built.completed \in Seq(WindowState(Id))
             /\ Spans(built.completed, Ring, f, b)
             /\ Len(built.completed) = IF order.finish THEN (Reached(b) - b) + 1
                                       ELSE Smaller(Reached(b) - b, Ring)
             /\ Bounds(built.current) = <<Oldest(f, b), Reached(b) + 1>>
             /\ OnTrack(built.engine, Id, Ring, Oldest(f, b), Reached(b))
             /\ BackStart(built.engine) = Larger(Reached(b), maxTs[l])
<1> DEFINE rq    == engine[l]
           w     == order.watermark
           moved == Advanced(rq, w)
           built == BuildReport(l)
           c     == Reached(b)
<1>1. /\ EngineOK(rq) /\ w \in Nat \cup {NoTs} /\ maxTs[l] \in Nat \cup {NoTs}
      /\ OnTrack(rq, Id, Ring, f, b) /\ BackStart(rq) = Larger(b, maxTs[l])
      /\ maxTs[l] <= w
  BY DEF TypeInv, OnBase
<1>2. /\ EngineOK(moved) /\ BackStart(moved) = Larger(BackStart(rq), w)
      /\ ~AdvanceRefused(rq, w)
      /\ order.finish => CanEmit(moved, Capacity, 1)
      /\ \E e : built.engine = [[moved EXCEPT !.emitted = e] EXCEPT !.emitted = <<>>]
      /\ built.completed = IF order.finish THEN FinishQuery(moved).emitted
                                           ELSE moved.emitted
      /\ Bounds(built.current) = <<FrontStart(moved), BackStart(moved) + 1>>
  <2>1. /\ EngineOK(moved) /\ BackStart(moved) = Larger(BackStart(rq), w)
        /\ ~built.ok => built.engine \in {rq, moved}
        /\ built.ok =>
             /\ ~AdvanceRefused(rq, w)
             /\ order.finish => CanEmit(moved, Capacity, 1)
             /\ \E e : built.engine = [[moved EXCEPT !.emitted = e] EXCEPT !.emitted = <<>>]
             /\ built.completed = IF order.finish THEN FinishQuery(moved).emitted
                                                  ELSE moved.emitted
             /\ Bounds(built.current) = <<FrontStart(moved), BackStart(moved) + 1>>
    BY BuildIs, Zenon
  <2> QED
    BY <2>1, Zenon
<1>3. OnTrack(moved, Id, Ring, f, b)
  <2>1. CASE w = NoTs
    BY <1>1, <2>1 DEF Advanced
  <2>2. CASE w \in Nat
    <3>1. moved = AdvanceToBucket(rq, Ring, w) /\ CanAdvance(rq, Ring, Ring, w)
      <4>1. w # NoTs
        BY <2>2 DEF NoTs
      <4> QED
        BY <1>2, <4>1, RingFacts, Zenon DEF Advanced, AdvanceRefused
    <3> HIDE DEF moved, rq
    <3> QED
      BY <1>1, <2>2, <3>1, RingFacts, AdvanceOnTrack
  <2> QED
    BY <1>1, <2>1, <2>2
<1> HIDE DEF rq, moved, built
<1>4. c = BackStart(moved) /\ c \in Nat /\ b <= c
  BY <1>1, <1>2 DEF Reached, Larger, c, NoTs
<1>5. /\ FrontStart(moved) = Oldest(f, b)
      /\ Len(moved.emitted) = Smaller(c - b, Ring)
      /\ Spans(moved.emitted, Ring, f, b)
      /\ moved.emitted \in Seq(WindowState(Id))
  <2>1. /\ FrontStart(moved) = Larger(f, (BackStart(moved) + 1) - Ring)
        /\ Len(moved.emitted) = Smaller(BackStart(moved) - b, Ring)
        /\ Spans(moved.emitted, Ring, f, b)
    BY <1>3 DEF OnTrack, Tracks
  <2>2. moved \in RunningQuery(Id)
    BY <1>3 DEF OnTrack
  <2>3. moved.emitted \in Seq(WindowState(Id))
    BY <2>2 DEF RunningQuery
  <2> QED
    BY <1>4, <2>1, <2>3 DEF Oldest, c
<1>6. /\ built.completed \in Seq(WindowState(Id))
      /\ Spans(built.completed, Ring, f, b)
      /\ Len(built.completed) = IF order.finish THEN (c - b) + 1
                                ELSE Smaller(c - b, Ring)
  <2>1. CASE order.finish
    <3>1. CanEmit(moved, Ring, 1)
      BY <1>2, <2>1, RingFacts
    <3>2. /\ FinishQuery(moved).emitted \in Seq(WindowState(Id))
          /\ Spans(FinishQuery(moved).emitted, Ring, f, b)
          /\ Len(FinishQuery(moved).emitted) = (BackStart(moved) - b) + 1
          /\ \E v : FinishQuery(moved) = [moved EXCEPT !.emitted = v]
      BY <1>3, <3>1, RingFacts, FinishSpans, Zenon
    <3> QED
      BY <1>2, <1>4, <2>1, <3>2, Zenon
  <2>2. CASE ~order.finish
    BY <1>2, <1>5, <2>2, Zenon
  <2> QED
    BY <2>1, <2>2
<1>7. /\ OnTrack(built.engine, Id, Ring, Oldest(f, b), c)
      /\ BackStart(built.engine) = c
  <2>1. PICK e : built.engine = [[moved EXCEPT !.emitted = e] EXCEPT !.emitted = <<>>]
    BY <1>2
  <2> DEFINE d == [[moved EXCEPT !.emitted = e] EXCEPT !.emitted = <<>>]
  <2>2. /\ OnTrack(d, Id, Ring, FrontStart(moved), BackStart(moved))
        /\ FrontStart(d) = FrontStart(moved) /\ BackStart(d) = BackStart(moved)
        /\ d.late = moved.late /\ d.buckets = moved.buckets
    BY <1>3, RingFacts, DrainOnTrack, Zenon
  <2> QED
    BY <1>4, <1>5, <2>1, <2>2, Zenon
<1>8. c = Larger(c, maxTs[l])
  BY <1>1, <1>4 DEF c, Reached, Larger, NoTs
<1>9. Bounds(built.current) = <<Oldest(f, b), c + 1>>
  BY <1>2, <1>4, <1>5, Zenon
<1> QED
  BY <1>6, <1>7, <1>8, <1>9, Zenon DEF built, c

(* The boundary itself moves forward with a checkpoint. *)
LEMMA BoundaryMoves ==
  ASSUME NEW f \in Nat, NEW b \in Nat, f <= b, order.watermark \in Nat \cup {NoTs}
  PROVE  /\ Reached(b) \in Nat /\ Oldest(f, b) \in Nat
         /\ b <= Reached(b) /\ f <= Oldest(f, b) /\ Oldest(f, b) <= Reached(b)
BY RingFacts DEF Reached, Oldest, Larger, NoTs

(* Before any thread runs every lane is at the first slide. *)
LEMMA AlignInit ==
  ASSUME Init
  PROVE  AlignInv
<1> DEFINE e == AdvanceToBucket(NewQuery, Ring, StartTs)
<1>1. Id = {} /\ log = <<>>
  BY DEF Init, Id
<1>2. /\ NewQuery \in RunningQuery(Id) /\ NewQuery.buckets = <<>>
      /\ NewQuery.emitted = <<>>
  BY EmptySeq DEF NewQuery, RunningQuery
<1>3. Tracks(e, Ring, StartTs, StartTs) /\ BackStart(e) = StartTs
  BY <1>2, RingFacts, SeedTracks, Zenon
<1>4. EngineOK(e)
  <2> DEFINE k == WindowsClosedByAdvance(NewQuery, Ring, StartTs)
  <2>0. RingOK(NewQuery.buckets, Ring)
    BY <1>2, RingFacts DEF RingOK, Consecutive
  <2>1. /\ e \in RunningQuery(Id)
        /\ e.buckets # <<>> /\ RingOK(e.buckets, Ring)
        /\ e.late = NewQuery.late
        /\ NewQuery.buckets = <<>> =>
             e.emitted = NewQuery.emitted /\ BackStart(e) = StartTs
        /\ NewQuery.buckets # <<>> =>
             /\ e.emitted = NewQuery.emitted \o FlushedWindows(NewQuery.buckets, Ring, k)
             /\ BackStart(e) = Larger(BackStart(NewQuery), StartTs)
             /\ FrontStart(e) = Larger(FrontStart(NewQuery), StartTs + 1 - Ring)
    BY <1>2, <2>0, RingFacts, AdvanceLemma, ZenonT(60)
  <2> QED
    BY <2>1, Zenon DEF EngineOK
<1> HIDE DEF e
<1>5. OnTrack(e, Id, Ring, StartTs, StartTs)
  BY <1>3, <1>4, RingFacts DEF OnTrack, EngineOK
<1>6. \A l \in Lane : engine[l] = e /\ maxTs[l] = NoTs
  BY DEF Init, e
<1>7. \A l \in Lane : OnBase(l, StartTs, StartTs)
  BY <1>3, <1>5, <1>6, RingFacts DEF OnBase, Larger, NoTs
<1>8. at = "start" /\ published = <<>> /\ order = NoOrder
  BY DEF Init
<1>9. Len(published) = 0
  BY <1>8
<1>10. Boundary(StartTs, StartTs)
  BY <1>7, <1>8, <1>9, RingFacts DEF Boundary, PublishedUpTo, LaneAligned, Answering
<1>11. TypeInv
  <2>1. log \in Seq([lane : Lane, ts : Nat]) /\ published \in Seq(WindowState(Id))
    BY <1>1, <1>8, EmptySeq
  <2>2. channel \in [Lane -> Seq(Id)]
    BY EmptySeq DEF Init
  <2>3. maxTs \in [Lane -> Nat \cup {NoTs}] /\ DOMAIN engine = Lane
    BY DEF Init
  <2>4. order \in [watermark : Nat \cup {NoTs}, include : BOOLEAN, finish : BOOLEAN]
    BY <1>8 DEF NoOrder
  <2> QED
    BY <1>4, <1>6, <2>1, <2>2, <2>3, <2>4 DEF TypeInv
<1>12. ~order.finish /\ InOrder(published) /\ \A l \in Lane : NoneStillFilling(l)
  BY <1>8, <1>9 DEF NoOrder, InOrder, NoneStillFilling
<1> QED
  BY <1>8, <1>10, <1>11, <1>12, RingFacts DEF AlignInv, Answering, Live

(* Steps that move neither an engine nor the boundary. *)
LEMMA AlignStays ==
  ASSUME AlignInv,
         UNCHANGED <<engine, maxTs, log, published, reports, order>>,
         channel' \in [Lane -> Seq(Id)],
         at' \in {"start", "idle"} => at \in {"start", "idle"},
         at' \in {"pause", "acks"} => \A a \in acks' : a.ts = maxTs[a.lane],
         at' \in Live => at \in Live /\ (at' \in Answering <=> at \in Answering)
  PROVE  AlignInv'
<1>0. Id' = Id /\ \A l \in Lane : HasReport(l)' <=> HasReport(l)
  BY DEF Id, HasReport
<1>1. TypeInv'
  BY <1>0 DEF AlignInv, TypeInv, EngineOK
<1>2. at' \in Live => \E f, b \in Nat : Boundary(f, b)'
  <2> HAVE at' \in Live
  <2>1. PICK f \in Nat, b \in Nat : Boundary(f, b)
    BY DEF AlignInv
  <2>2. ASSUME NEW l \in Lane PROVE LaneAligned(l, f, b)'
    <3>1. LaneAligned(l, f, b)
      BY <2>1 DEF Boundary
    <3>2. \A g, c : OnBase(l, g, c)' <=> OnBase(l, g, c)
      BY <1>0 DEF OnBase
    <3>3. \A r, g, c : ReportOn(r, g, c)' <=> ReportOn(r, g, c)
      BY <1>0 DEF ReportOn, Oldest, Reached
    <3>4. \A g, c : Oldest(g, c)' = Oldest(g, c) /\ Reached(c)' = Reached(c)
      BY DEF Oldest, Reached
    <3> QED
      BY <1>0, <3>1, <3>2, <3>3, <3>4 DEF LaneAligned
  <2>3. Boundary(f, b)'
    BY <2>1, <2>2 DEF Boundary, PublishedUpTo
  <2> QED
    BY <2>3
<1>3. ~order'.finish => \A l \in Lane : NoneStillFilling(l)'
  BY DEF AlignInv, NoneStillFilling
<1>4. at' \in Answering =>
        \A l \in Lane : ~HasReport(l)' => maxTs'[l] <= order'.watermark
  BY <1>0 DEF AlignInv, Live
<1>5. at' \in {"pause", "acks"} => \A a \in acks' : a.ts = maxTs'[a.lane]
  BY DEF AlignInv
<1> QED
  BY <1>1, <1>2, <1>3, <1>4, <1>5 DEF AlignInv

(* Steps around the boundary that change what is asked of the lanes, not   *)
(* where they are.                                                         *)
LEMMA AlignRestarts ==
  ASSUME AlignInv, at \in Live \ Answering, at' \in Live \ {"start", "idle"},
         UNCHANGED <<engine, maxTs, log, published, channel>>,
         \A l \in Lane : ~HasReport(l)',
         order' \in [watermark : Nat \cup {NoTs}, include : BOOLEAN, finish : BOOLEAN],
         ~order'.finish => ~order.finish,
         at' \in {"pause", "acks"} => \A a \in acks' : a.ts = maxTs'[a.lane],
         at' \in Answering => \A l \in Lane : maxTs[l] <= order'.watermark
  PROVE  AlignInv'
<1>0. Id' = Id
  BY DEF Id
<1>1. TypeInv'
  BY <1>0 DEF AlignInv, TypeInv, EngineOK
<1>2. \E f, b \in Nat : Boundary(f, b)'
  <2>1. PICK f \in Nat, b \in Nat : Boundary(f, b)
    BY DEF AlignInv
  <2>2. ASSUME NEW l \in Lane PROVE LaneAligned(l, f, b)'
    <3>1. OnBase(l, f, b)
      BY <2>1 DEF Boundary, LaneAligned
    <3>2. OnBase(l, f, b)'
      BY <1>0, <3>1 DEF OnBase
    <3>3. \A r \in reports' : r.lane # l
      BY DEF HasReport
    <3> QED
      BY <3>2, <3>3 DEF LaneAligned
  <2>3. Boundary(f, b)'
    BY <2>1, <2>2 DEF Boundary, PublishedUpTo
  <2> QED
    BY <2>3
<1>3. ~order'.finish => \A l \in Lane : NoneStillFilling(l)'
  BY DEF AlignInv, NoneStillFilling
<1> QED
  BY <1>1, <1>2, <1>3 DEF AlignInv

(* A checkpoint begins: nobody has been asked anything. *)
LEMMA BeginKeepsAligned ==
  ASSUME ProtocolInv, AlignInv, BeginPeriodic \/ BeginFinal
  PROVE  AlignInv'
<1>0. PICK finish \in BOOLEAN : at = "idle" /\ BeginCheckpoint(finish)
  BY DEF BeginPeriodic, BeginFinal
<1>1. UNCHANGED <<engine, maxTs, log, published, channel>> /\ channel \in [Lane -> Seq(Id)]
  BY <1>0 DEF BeginCheckpoint, workers, capture, AlignInv, TypeInv
<1>2. CASE Failed # {}
  <2>1. at' = "drop" /\ UNCHANGED <<acks, reports, order>>
    BY <1>0, <1>2 DEF BeginCheckpoint, Abort, GoTo
  <2> QED
    BY <1>1, <2>1, AlignStays DEF Live, Answering
<1>3. CASE Failed = {}
  <2>1. /\ at' \in {"drain", "pause"} /\ acks' = {} /\ reports' = {}
        /\ order' = [NoOrder EXCEPT !.finish = finish]
    BY <1>0, <1>3 DEF BeginCheckpoint, GoTo
  <2>2. order' \in [watermark : Nat \cup {NoTs}, include : BOOLEAN, finish : BOOLEAN]
    BY <2>1 DEF NoOrder
  <2>3. ~order.finish
    BY <1>0 DEF AlignInv
  <2>4. \A l \in Lane : ~HasReport(l)'
    BY <2>1 DEF HasReport
  <2>5. at \in Live \ Answering /\ at' \in Live \ {"start", "idle"} /\ at' \notin Answering
    BY <1>0, <2>1 DEF Live, Answering
  <2> QED
    BY <1>1, <2>1, <2>2, <2>3, <2>4, <2>5, AlignRestarts
<1> QED
  BY <1>2, <1>3

(* The watermark is the largest timestamp of any lane. *)
LEMMA WatermarkIs ==
  ASSUME ProtocolInv, AlignInv, at = "acks", Cardinality(acks) = LaneCount
  PROVE  /\ Watermark \in Nat \cup {NoTs}
         /\ \A l \in Lane : maxTs[l] <= Watermark
<1> DEFINE g    == [a \in acks |-> a.lane]
           seen == {a.ts : a \in acks}
<1>1. OnePerLane(acks) /\ \A l \in Lane : \E a \in acks : a.lane = l
  BY AllAnswered DEF ProtocolInv
<1>2. IsFiniteSet(acks)
  <2>1. g \in Injection(acks, Lane)
    BY <1>1 DEF OnePerLane, Injection, IsInjective
  <2> QED
    BY <2>1, LaneFacts, FS_Injection
<1>3. IsFiniteSet(seen)
  <2> DEFINE h == [a \in acks |-> a.ts]
  <2>1. h \in Surjection(acks, seen)
    BY DEF Surjection
  <2> HIDE DEF h, seen
  <2> QED
    BY <1>2, <2>1, FS_Surjection
<1>4. \A a \in acks : a.lane \in Lane /\ a.ts = maxTs[a.lane]
  BY <1>1 DEF AlignInv, OnePerLane
<1>5. \A l \in Lane : maxTs[l] \in Nat \cup {NoTs}
  BY DEF AlignInv, TypeInv
<1>6. /\ seen \subseteq Nat \cup {NoTs}
      /\ \A l \in Lane : maxTs[l] \in seen
  BY <1>1, <1>4, <1>5
<1>7. seen \subseteq Int /\ seen # {}
  <2>1. 1 \in Lane
    BY LaneFacts
  <2> QED
    BY <1>6, <2>1 DEF NoTs
<1>8. \E x \in seen : \A y \in seen : y <= x
  <2> HIDE DEF seen
  <2> QED
    BY <1>3, <1>7, GreatestInt
<1>9. Watermark \in seen /\ \A y \in seen : y <= Watermark
  <2>1. Watermark = CHOOSE m \in seen : \A ts \in seen : ts <= m
    BY DEF Watermark
  <2> HIDE DEF seen
  <2> QED
    BY <1>8, <2>1
<1> QED
  BY <1>6, <1>9

(* The watermark is fixed while every worker is paused. *)
LEMMA CollectKeepsAligned ==
  ASSUME ProtocolInv, AlignInv, CollectAcks
  PROVE  AlignInv'
<1>1. /\ at = "acks" /\ Cardinality(acks) = LaneCount /\ at' = "command"
      /\ UNCHANGED <<workers, boundary, published, capture, channel>>
  BY Zenon DEF CollectAcks, GoTo
<1>2. PICK due \in BOOLEAN :
        order' = [order EXCEPT !.watermark = Watermark, !.include = due]
  BY Zenon DEF CollectAcks
<1>3. UNCHANGED <<engine, maxTs, log, published, channel, reports, acks>>
  BY <1>1 DEF workers, boundary, capture
<1>4. Watermark \in Nat \cup {NoTs} /\ \A l \in Lane : maxTs[l] <= Watermark
  BY <1>1, WatermarkIs
<1>5. order \in [watermark : Nat \cup {NoTs}, include : BOOLEAN, finish : BOOLEAN]
  BY DEF AlignInv, TypeInv
<1> DEFINE w == Watermark
<1>6. order' = [order EXCEPT !.watermark = w, !.include = due] /\ w \in Nat \cup {NoTs}
  BY <1>2, <1>4
<1> HIDE DEF w
<1>7. /\ order' \in [watermark : Nat \cup {NoTs}, include : BOOLEAN, finish : BOOLEAN]
      /\ order'.finish = order.finish /\ order'.watermark = w
  BY <1>5, <1>6
<1>8. \A l \in Lane : ~HasReport(l)'
  BY <1>1, <1>3 DEF ProtocolInv, InPhase, HasReport
<1>9. \A l \in Lane : maxTs[l] <= order'.watermark
  BY <1>4, <1>7 DEF w
<1>10. at \in Live \ Answering /\ at' \in Live \ {"start", "idle"}
  BY <1>1 DEF Live, Answering
<1> QED
  BY <1>1, <1>3, <1>7, <1>8, <1>9, <1>10, AlignRestarts

(* An acknowledgement carries the timestamp the lane will stay at. *)
LEMMA PauseKeepsAligned ==
  ASSUME ProtocolInv, AlignInv, NEW l \in Lane, ObeyPause(l)
  PROVE  AlignInv'
<1>1. /\ UNCHANGED <<engine, maxTs, log, published, reports, order, at, channel>>
      /\ channel \in [Lane -> Seq(Id)]
  BY DEF ObeyPause, coord, capture, AlignInv, TypeInv
<1>2. at \in {"pause", "acks"} => \A a \in acks' : a.ts = maxTs[a.lane]
  <2> HAVE at \in {"pause", "acks"}
  <2> DEFINE n == [lane |-> l, ts |-> maxTs[l]]
  <2>1. acks' = acks \cup {n}
    BY DEF ObeyPause
  <2>2. n.lane = l /\ n.ts = maxTs[l]
    OBVIOUS
  <2> HIDE DEF n
  <2> QED
    BY <2>1, <2>2 DEF AlignInv
<1> QED
  BY <1>1, <1>2, AlignStays

(* The steps of the engine thread that only move it on, or make it give up.*)
LEMMA MovesKeepAligned ==
  ASSUME ProtocolInv, AlignInv,
         \/ StartWorker \/ StartFails \/ CollectDrained \/ SendPause \/ SendCheckpoint
         \/ MissDeadWorker \/ CollectError \/ Join \/ Shutdown \/ ShutdownJoin
  PROVE  AlignInv'
<1>1. UNCHANGED <<engine, maxTs, log, published, reports, acks, order, channel>>
  BY DEF StartWorker, StartFails, CollectDrained, SendPause, SendCheckpoint, SendTo,
         MissDeadWorker, CollectError, Join, Shutdown, ShutdownJoin,
         workers, boundary, capture
<1>2. \/ at = "start" /\ at' \in {"start", "idle"}
      \/ at = "drain" /\ at' = "pause"
      \/ at = "pause" /\ at' \in {"pause", "acks"}
      \/ at = "command" /\ at' \in {"command", "reports"}
      \/ at' \in {"drop", "done", "dropping", "stopped"}
  BY DEF StartWorker, StartFails, CollectDrained, SendPause, SendCheckpoint, SendTo,
         MissDeadWorker, CollectError, Join, Shutdown, ShutdownJoin, Abort, GoTo
<1>3. at = "drain" => acks = {}
  <2>1. \A l \in Lane : at = "drain" => ~HasAck(l)
    BY DEF ProtocolInv, InPhase
  <2>2. \A a \in acks : a.lane \in Lane
    BY DEF ProtocolInv, OnePerLane
  <2> QED
    BY <2>1, <2>2 DEF HasAck
<1>4. at' \in {"pause", "acks"} => \A a \in acks' : a.ts = maxTs[a.lane]
  BY <1>1, <1>2, <1>3 DEF AlignInv
<1>5. channel \in [Lane -> Seq(Id)]
  BY DEF AlignInv, TypeInv
<1>6. at' \in Live => at \in Live /\ (at' \in Answering <=> at \in Answering)
  BY <1>2 DEF Live, Answering
<1>7. at' \in {"start", "idle"} => at \in {"start", "idle"}
  BY <1>2
<1> QED
  BY <1>1, <1>4, <1>5, <1>6, <1>7, AlignStays

(* A worker that waits, drains, dies or ends moves no engine. *)
LEMMA WaitsKeepAligned ==
  ASSUME ProtocolInv, AlignInv, NEW l \in Lane,
         \/ Poll(l) \/ FindEmpty(l) \/ FindClosed(l) \/ RefuseEvent(l) \/ ObeyShutdown(l)
         \/ CloseLane(l)
  PROVE  AlignInv'
<1>1. UNCHANGED <<engine, maxTs, log, published, reports, acks, order, at>>
  BY DEF Poll, FindEmpty, FindClosed, RefuseEvent, ObeyShutdown, CloseLane,
         workers, boundary, coord, capture
<1>2. channel' \in [Lane -> Seq(Id)]
  <2>1. channel \in [Lane -> Seq(Id)]
    BY DEF AlignInv, TypeInv
  <2>2. CASE channel' = channel
    BY <2>1, <2>2
  <2>3. CASE RefuseEvent(l)
    <3>1. channel[l] # <<>> /\ channel' = [channel EXCEPT ![l] = Tail(channel[l])]
      BY <2>3 DEF RefuseEvent
    <3>2. Tail(channel[l]) \in Seq(Id)
      BY <2>1, <3>1, HeadTailProperties
    <3> QED
      BY <2>1, <3>1, <3>2
  <2> QED
    BY <2>2, <2>3 DEF Poll, FindEmpty, FindClosed, ObeyShutdown, CloseLane
<1>3. at' \in {"pause", "acks"} => \A a \in acks' : a.ts = maxTs[a.lane]
  BY <1>1 DEF AlignInv
<1> QED
  BY <1>1, <1>2, <1>3, AlignStays

(* An offered event is new to everyone. *)
LEMMA OfferKeepsAligned ==
  ASSUME ProtocolInv, AlignInv, NEW l \in Lane, NEW ts \in Ts, Offer(l, ts)
  PROVE  AlignInv'
<1>1. UNCHANGED <<engine, maxTs, published, reports, acks, order, at>>
  BY DEF Offer, workers, boundary, coord
<1>2. log \in Seq([lane : Lane, ts : Nat]) /\ channel \in [Lane -> Seq(Id)]
  BY DEF AlignInv, TypeInv
<1>3. CASE log' = log /\ channel' = channel
  <2>1. at' \in {"pause", "acks"} => \A a \in acks' : a.ts = maxTs[a.lane]
    BY <1>1 DEF AlignInv
  <2> QED
    BY <1>1, <1>2, <1>3, <2>1, AlignStays
<1>4. CASE /\ log' = Append(log, [lane |-> l, ts |-> ts])
           /\ channel' = [channel EXCEPT ![l] = Append(@, Len(log) + 1)]
  <2> DEFINE ev == [lane |-> l, ts |-> ts]
             n  == Len(log)
  <2>1. ev \in [lane : Lane, ts : Nat]
    BY RingFacts
  <2> HIDE DEF ev
  <2>2. log' = Append(log, ev)
    BY <1>4 DEF ev
  <2>3. /\ log' \in Seq([lane : Lane, ts : Nat]) /\ Len(log') = n + 1 /\ n \in Nat
    BY <1>2, <2>1, <2>2, AppendProperties, LenProperties
  <2>4. Id \subseteq Id' /\ n + 1 \in Id'
    BY <2>3 DEF Id
  <2> DEFINE J == Id'
             I == Id
  <2> HIDE DEF J, I
  <2>5. I \subseteq J /\ n + 1 \in J /\ channel \in [Lane -> Seq(I)]
    BY <1>2, <2>4 DEF I, J
  <2>6. channel' \in [Lane -> Seq(J)]
    <3>1. \A k \in Lane : channel[k] \in Seq(J)
      BY <2>5, SeqMonotonic
    <3>2. Append(channel[l], n + 1) \in Seq(J)
      BY <2>5, <3>1, AppendProperties
    <3>3. channel' = [channel EXCEPT ![l] = Append(channel[l], n + 1)]
      BY <1>4
    <3> HIDE DEF n
    <3>4. ASSUME NEW k \in Lane PROVE channel'[k] \in Seq(J)
      BY <2>5, <3>1, <3>2, <3>3
    <3>5. channel' \in [Lane -> Seq(J)]
      <4>1. channel' = [k \in Lane |-> channel'[k]]
        BY <2>5, <3>3
      <4> QED
        BY <3>4, <4>1
    <3> QED
      BY <3>5
  <2>7. \A k \in Lane : EngineOK(engine[k]) => EngineOK(engine[k])'
    BY <1>1, <2>5, TypesGrow DEF EngineOK, I, J
  <2>8. published' \in Seq(WindowState(J))
    <3>1. published \in Seq(WindowState(I))
      BY DEF AlignInv, TypeInv, I
    <3> QED
      BY <1>1, <2>5, <3>1, TypesGrow
  <2>9. TypeInv'
    <3>1. /\ DOMAIN engine' = Lane /\ \A k \in Lane : EngineOK(engine[k])
          /\ maxTs' \in [Lane -> Nat \cup {NoTs}]
          /\ order' \in [watermark : Nat \cup {NoTs}, include : BOOLEAN, finish : BOOLEAN]
      BY <1>1 DEF AlignInv, TypeInv
    <3> QED
      BY <2>3, <2>6, <2>7, <2>8, <3>1 DEF TypeInv, J
  <2>10. \A k \in Lane : HasReport(k)' <=> HasReport(k)
    BY <1>1 DEF HasReport
  <2>11. at' \in Live => \E f, b \in Nat : Boundary(f, b)'
    <3> HAVE at' \in Live
    <3>1. PICK f \in Nat, b \in Nat : Boundary(f, b)
      BY <1>1 DEF AlignInv
    <3>2. ASSUME NEW k \in Lane PROVE LaneAligned(k, f, b)'
      <4>1. LaneAligned(k, f, b)
        BY <3>1 DEF Boundary
      <4>2. \A g, c : OnBase(k, g, c) => OnBase(k, g, c)'
        <5> SUFFICES ASSUME NEW g, NEW c, OnBase(k, g, c) PROVE OnBase(k, g, c)'
          OBVIOUS
        <5>1. OnTrack(engine[k], I, Ring, g, c)
          BY DEF OnBase, I
        <5>2. OnTrack(engine[k], J, Ring, g, c)
          BY <2>5, <5>1, OnTrackGrows
        <5> QED
          BY <1>1, <5>2 DEF OnBase, J
      <4>3. \A g, c : Oldest(g, c)' = Oldest(g, c) /\ Reached(c)' = Reached(c)
        BY <1>1 DEF Oldest, Reached
      <4>4. \A r, g, c : ReportOn(r, g, c) => ReportOn(r, g, c)'
        <5> SUFFICES ASSUME NEW r, NEW g, NEW c, ReportOn(r, g, c)
                     PROVE  ReportOn(r, g, c)'
          OBVIOUS
        <5>1. r.completed \in Seq(WindowState(I))
          BY DEF ReportOn, I
        <5>2. r.completed \in Seq(WindowState(J))
          BY <2>5, <5>1, TypesGrow
        <5> QED
          BY <1>1, <4>3, <5>2 DEF ReportOn, J
      <4> QED
        BY <1>1, <2>10, <4>1, <4>2, <4>3, <4>4 DEF LaneAligned
    <3>3. Boundary(f, b)'
      BY <1>1, <3>1, <3>2 DEF Boundary, PublishedUpTo
    <3> QED
      BY <3>3
  <2>12. ~order'.finish => \A k \in Lane : NoneStillFilling(k)'
    BY <1>1 DEF AlignInv, NoneStillFilling
  <2>13. at' \in Answering =>
           \A k \in Lane : ~HasReport(k)' => maxTs'[k] <= order'.watermark
    BY <1>1, <2>10 DEF AlignInv
  <2> QED
    BY <1>1, <2>9, <2>11, <2>12, <2>13 DEF AlignInv
<1> QED
  BY <1>3, <1>4 DEF Offer

(* One engine moves forward: what was published stays closed. *)
LEMMA EngineStep ==
  ASSUME AlignInv, NEW l \in Lane, NEW e, EngineOK(e),
         BackStart(engine[l]) <= BackStart(e),
         engine' = [engine EXCEPT ![l] = e],
         maxTs' \in [Lane -> Nat \cup {NoTs}], channel' \in [Lane -> Seq(Id)],
         UNCHANGED <<log, published, order>>
  PROVE  /\ TypeInv' /\ InOrder(published')
         /\ ~order'.finish => \A k \in Lane : NoneStillFilling(k)'
<1>0. Id' = Id
  BY DEF Id
<1>1. DOMAIN engine = Lane /\ \A k \in Lane : EngineOK(engine[k])
  BY DEF AlignInv, TypeInv
<1>2. /\ DOMAIN engine' = Lane /\ engine'[l] = e
      /\ \A k \in Lane : k # l => engine'[k] = engine[k]
  BY <1>1
<1>3. \A k \in Lane : EngineOK(engine[k])'
  BY <1>0, <1>1, <1>2 DEF EngineOK
<1>4. TypeInv'
  BY <1>0, <1>2, <1>3 DEF AlignInv, TypeInv
<1>5. ASSUME ~order'.finish, NEW k \in Lane PROVE NoneStillFilling(k)'
  <2>1. NoneStillFilling(k) /\ published \in Seq(WindowState(Id))
    BY <1>5 DEF AlignInv, TypeInv
  <2>2. BackStart(engine[k]) \in Nat /\ BackStart(engine'[k]) \in Nat
        /\ BackStart(engine[k]) <= BackStart(engine'[k])
    <3>1. BackStart(engine[k]) \in Nat /\ BackStart(e) \in Nat
      BY <1>1, EngineEnds
    <3> QED
      BY <1>2, <3>1
  <2>3. \A i \in 1 .. Len(published) : published[i].end \in Nat
    <3>1. \A i \in 1 .. Len(published) : published[i] \in WindowState(Id)
      BY <2>1, SeqElements
    <3> QED
      BY <3>1 DEF WindowState
  <2> QED
    BY <2>1, <2>2, <2>3 DEF NoneStillFilling
<1> QED
  BY <1>4, <1>5 DEF AlignInv

(* process leaves a usable engine, and never goes back. *)
LEMMA ProcessOK ==
  ASSUME NEW rq, EngineOK(rq), NEW ts \in Nat, NEW id \in Id
  PROVE  /\ EngineOK(ProcessMatching(rq, Ring, ts, id))
         /\ BackStart(ProcessMatching(rq, Ring, ts, id)) = Larger(BackStart(rq), ts)
<1> DEFINE moved == AdvanceToBucket(rq, Ring, ts)
           after == ProcessMatching(rq, Ring, ts, id)
<1>1. rq \in RunningQuery(Id) /\ RingOK(rq.buckets, Ring)
  BY DEF EngineOK
<1>2. /\ after \in RunningQuery(Id)
      /\ after.emitted = moved.emitted
      /\ after.buckets # <<>> /\ RingOK(after.buckets, Ring)
      /\ BackStart(after) = BackStart(moved)
      /\ FrontStart(after) = FrontStart(moved)
  BY <1>1, RingFacts, ProcessLemma
<1>3. BackStart(moved) = Larger(BackStart(rq), ts)
  BY AdvanceOK
<1> QED
  BY <1>2, <1>3, Zenon DEF EngineOK

(* An event moves its lane only: the lane has not acknowledged a pause, or *)
(* has already answered the checkpoint.                                    *)
LEMMA ProcessKeepsAligned ==
  ASSUME ProtocolInv, AlignInv, NEW l \in Lane, ProcessEvent(l)
  PROVE  AlignInv'
<1> DEFINE id == Head(channel[l])
           ts == log[id].ts
           e  == ProcessMatching(engine[l], Ring, ts, id)
<1>1. /\ worker[l] \in {"recv", "batch"} /\ channel[l] # <<>>
      /\ CanAdvance(engine[l], Ring, Capacity, ts)
      /\ engine' = [engine EXCEPT ![l] = e]
      /\ maxTs' = [maxTs EXCEPT ![l] = Larger(maxTs[l], ts)]
      /\ channel' = [channel EXCEPT ![l] = Tail(channel[l])]
      /\ UNCHANGED <<log, published, order, at, acks, reports>>
  BY DEF ProcessEvent, boundary, coord, capture
<1>2. /\ log \in Seq([lane : Lane, ts : Nat]) /\ channel \in [Lane -> Seq(Id)]
      /\ maxTs \in [Lane -> Nat \cup {NoTs}] /\ DOMAIN engine = Lane
      /\ EngineOK(engine[l])
  BY DEF AlignInv, TypeInv
<1>3. id \in Id /\ Tail(channel[l]) \in Seq(Id)
  BY <1>1, <1>2, HeadTailProperties
<1>4. ts \in Nat
  <2>1. log[id] \in [lane : Lane, ts : Nat]
    BY <1>2, <1>3, SeqElements DEF Id
  <2> QED
    BY <2>1
<1>5. channel' \in [Lane -> Seq(Id)]
  BY <1>1, <1>2, <1>3
<1> HIDE DEF id, ts
<1>6. EngineOK(e) /\ BackStart(e) = Larger(BackStart(engine[l]), ts)
  BY <1>2, <1>3, <1>4, ProcessOK
<1>7. CanAdvance(engine[l], Ring, Ring, ts)
  BY <1>1, RingFacts
<1>8. \A g, c : OnTrack(engine[l], Id, Ring, g, c) => OnTrack(e, Id, Ring, g, c)
  BY <1>3, <1>4, <1>7, RingFacts, ProcessOnTrack
<1> HIDE DEF e
<1>9. BackStart(engine[l]) \in Nat
  BY <1>2, EngineEnds
<1>10. /\ maxTs' \in [Lane -> Nat \cup {NoTs}] /\ maxTs'[l] = Larger(maxTs[l], ts)
       /\ \A k \in Lane : k # l => maxTs'[k] = maxTs[k] /\ engine'[k] = engine[k]
       /\ engine'[l] = e
  BY <1>1, <1>2, <1>4 DEF Larger
<1>11. /\ TypeInv' /\ InOrder(published')
       /\ ~order'.finish => \A k \in Lane : NoneStillFilling(k)'
  <2>1. BackStart(engine[l]) <= BackStart(e)
    BY <1>4, <1>6, <1>9 DEF Larger
  <2> QED
    BY <1>1, <1>5, <1>6, <1>10, <2>1, EngineStep
<1>12. /\ Id' = Id
       /\ \A k \in Lane : (HasReport(k)' <=> HasReport(k)) /\ (HasAck(k)' <=> HasAck(k))
  BY <1>1 DEF Id, HasReport, HasAck
<1>13. ASSUME NEW k \in Lane, NEW g \in Nat, NEW c \in Nat, OnBase(k, g, c)
       PROVE  OnBase(k, g, c)'
  <2>1. CASE k # l
    BY <1>10, <1>12, <1>13, <2>1 DEF OnBase
  <2>2. CASE k = l
    <3>1. OnTrack(e, Id, Ring, g, c)
      BY <1>8, <1>13, <2>2 DEF OnBase
    <3>2. BackStart(e) = Larger(Larger(c, maxTs[l]), ts)
      BY <1>6, <1>13, <2>2 DEF OnBase
    <3>3. BackStart(e) = Larger(c, Larger(maxTs[l], ts))
      <4>1. maxTs[l] \in Nat \cup {NoTs}
        BY <1>2
      <4> QED
        BY <1>4, <3>2, <4>1 DEF Larger, NoTs
    <3> QED
      BY <1>10, <1>12, <2>2, <3>1, <3>3 DEF OnBase
  <2> QED
    BY <2>1, <2>2
<1>14. InPhase(l) /\ worker[l] # "paused" /\ worker[l] # "ended"
  BY <1>1 DEF ProtocolInv
<1>15. at \in {"pause", "acks"} => ~HasAck(l)
  <2>1. ~Paused(l)
    BY <1>14 DEF Paused
  <2>2. l < next \/ l >= next
    BY LaneFacts DEF ProtocolInv
  <2> QED
    BY <1>14, <2>1, <2>2 DEF InPhase
<1>16. at \in Answering => HasReport(l)
  <2>1. ~Paused(l) /\ ~Told(l)
    BY <1>14 DEF Paused, Told
  <2>2. l < next \/ l >= next
    BY LaneFacts DEF ProtocolInv
  <2> QED
    BY <1>14, <2>1, <2>2 DEF InPhase, Answering
<1>17. at' \in {"pause", "acks"} => \A a \in acks' : a.ts = maxTs'[a.lane]
  <2>1. ASSUME at \in {"pause", "acks"}, NEW a \in acks
        PROVE  a.ts = maxTs'[a.lane]
    <3>1. a.lane \in Lane /\ a.ts = maxTs[a.lane]
      BY <2>1 DEF ProtocolInv, OnePerLane, AlignInv
    <3>2. a.lane # l
      BY <1>15, <2>1 DEF HasAck
    <3> QED
      BY <1>10, <3>1, <3>2
  <2> QED
    BY <1>1, <2>1
<1>18. at' \in Answering =>
         \A k \in Lane : ~HasReport(k)' => maxTs'[k] <= order'.watermark
  BY <1>1, <1>10, <1>12, <1>16 DEF AlignInv
<1>19. at' \in Live => \E f, b \in Nat : Boundary(f, b)'
  <2> HAVE at' \in Live
  <2>1. PICK f \in Nat, b \in Nat : Boundary(f, b)
    BY <1>1 DEF AlignInv
  <2>0. /\ Oldest(f, b) \in Nat /\ Reached(b) \in Nat
        /\ Oldest(f, b)' = Oldest(f, b) /\ Reached(b)' = Reached(b)
    <3>1. order.watermark \in Nat \cup {NoTs}
      BY DEF AlignInv, TypeInv
    <3> QED
      BY <1>1, <2>1, <3>1, BoundaryMoves DEF Boundary, Oldest, Reached
  <2>2. ASSUME NEW k \in Lane PROVE LaneAligned(k, f, b)'
    <3>1. LaneAligned(k, f, b)
      BY <2>1 DEF Boundary
    <3>2. \A r : ReportOn(r, f, b)' <=> ReportOn(r, f, b)
      BY <1>1, <1>12, <2>0 DEF ReportOn
    <3>3. OnBase(k, f, b) => OnBase(k, f, b)'
      BY <1>13
    <3>4. OnBase(k, Oldest(f, b), Reached(b)) => OnBase(k, Oldest(f, b), Reached(b))'
      <4> DEFINE g == Oldest(f, b)
                 c == Reached(b)
      <4>1. g \in Nat /\ c \in Nat /\ g' = g /\ c' = c
        BY <2>0
      <4> HIDE DEF g, c
      <4>2. OnBase(k, g, c) => (OnTrack(engine[k], Id, Ring, g, c)
                                /\ BackStart(engine[k]) = Larger(c, maxTs[k]))
        BY DEF OnBase
      <4>3. ASSUME OnBase(k, g, c)
            PROVE  /\ OnTrack(engine'[k], Id', Ring, g, c)
                   /\ BackStart(engine'[k]) = Larger(c, maxTs'[k])
        <5>1. ASSUME NEW x \in Nat, NEW y \in Nat, OnBase(k, x, y)
              PROVE  /\ OnTrack(engine'[k], Id', Ring, x, y)
                     /\ BackStart(engine'[k]) = Larger(y, maxTs'[k])
          BY <5>1, <1>13 DEF OnBase
        <5> QED
          BY <4>1, <4>3, <5>1
      <4> QED
        BY <4>1, <4>3 DEF OnBase, g, c
    <3> QED
      BY <1>1, <1>12, <2>0, <3>1, <3>2, <3>3, <3>4 DEF LaneAligned
  <2>3. Boundary(f, b)'
    BY <1>1, <2>1, <2>2 DEF Boundary, PublishedUpTo
  <2> QED
    BY <2>3
<1> QED
  BY <1>1, <1>11, <1>17, <1>18, <1>19 DEF AlignInv

(* A lane answers the checkpoint. *)
LEMMA CheckpointKeepsAligned ==
  ASSUME ProtocolInv, AlignInv, NEW l \in Lane, ObeyCheckpoint(l)
  PROVE  AlignInv'
<1> DEFINE built == BuildReport(l)
           e     == built.engine
           rep   == IF built.ok
                      THEN [lane |-> l, ok |-> TRUE, current |-> built.current,
                            completed |-> built.completed]
                      ELSE [lane |-> l, ok |-> FALSE]
<1>1. /\ worker[l] = "paused" /\ control[l] # <<>> /\ Head(control[l]) = "checkpoint"
      /\ engine' = [engine EXCEPT ![l] = e]
      /\ at \in Answering => reports' = reports \cup {rep}
      /\ UNCHANGED <<log, published, order, at, acks, maxTs, channel>>
  BY DEF ObeyCheckpoint, coord, capture, Answering
<1>2. /\ rep.lane = l /\ rep.ok = built.ok
      /\ built.ok => rep.current = built.current /\ rep.completed = built.completed
  <2>0. built.ok \in BOOLEAN
    <3> DEFINE moved == Advanced(engine[l], order.watermark)
    <3> HIDE DEF moved
    <3> QED
      BY DEF BuildReport
  <2> HIDE DEF built
  <2> QED
    BY <2>0
<1>3. TypeInv /\ maxTs \in [Lane -> Nat \cup {NoTs}] /\ channel \in [Lane -> Seq(Id)]
      /\ DOMAIN engine = Lane /\ EngineOK(engine[l])
      /\ order.watermark \in Nat \cup {NoTs}
  BY DEF AlignInv, TypeInv
<1>4. EngineOK(e) /\ BackStart(engine[l]) <= BackStart(e)
  <2> DEFINE moved == Advanced(engine[l], order.watermark)
  <2>1. /\ EngineOK(moved) /\ BackStart(moved) = Larger(BackStart(engine[l]), order.watermark)
        /\ ~built.ok => built.engine \in {engine[l], moved}
        /\ built.ok =>
             /\ ~AdvanceRefused(engine[l], order.watermark)
             /\ order.finish => CanEmit(moved, Capacity, 1)
             /\ \E x : built.engine = [[moved EXCEPT !.emitted = x] EXCEPT !.emitted = <<>>]
             /\ built.completed = IF order.finish THEN FinishQuery(moved).emitted
                                                  ELSE moved.emitted
             /\ Bounds(built.current) = <<FrontStart(moved), BackStart(moved) + 1>>
    BY <1>3, BuildIs, Zenon
  <2> HIDE DEF moved, built
  <2>2. BackStart(engine[l]) \in Nat /\ BackStart(engine[l]) <= BackStart(moved)
    <3>1. BackStart(engine[l]) \in Nat
      BY <1>3, EngineEnds
    <3>2. /\ BackStart(moved) = Larger(BackStart(engine[l]), order.watermark)
          /\ order.watermark \in Nat \cup {NoTs}
      BY <1>3, <2>1
    <3> QED
      BY <3>1, <3>2 DEF Larger, NoTs
  <2>3. CASE ~built.ok
    <3>1. e = engine[l] \/ e = moved
      BY <2>1, <2>3
    <3> HIDE DEF e
    <3>2. CASE e = engine[l]
      BY <1>3, <2>2, <3>2
    <3>3. CASE e = moved
      BY <2>1, <2>2, <3>3
    <3> QED
      BY <3>1, <3>2, <3>3
  <2>4. CASE built.ok
    <3>1. PICK x : built.engine = [[moved EXCEPT !.emitted = x] EXCEPT !.emitted = <<>>]
      BY <2>1, <2>4
    <3> DEFINE d == [[moved EXCEPT !.emitted = x] EXCEPT !.emitted = <<>>]
    <3>2. EngineOK(d) /\ d.buckets = moved.buckets /\ BackStart(d) = BackStart(moved)
      BY <2>1, HandOverOK, Zenon
    <3> HIDE DEF d
    <3>3. e = d
      BY <3>1 DEF d
    <3> QED
      BY <2>2, <3>2, <3>3
  <2> QED
    BY <2>3, <2>4
<1>5. /\ TypeInv' /\ InOrder(published')
      /\ ~order'.finish => \A k \in Lane : NoneStillFilling(k)'
  <2> HIDE DEF e
  <2> QED
    BY <1>1, <1>3, <1>4, EngineStep
<1>6. ~Asked(l)
  BY <1>1 DEF Asked, Busy
<1>7. at \in Answering \cup Closing
  BY <1>1, <1>6, PendingMessage DEF Closing, Answering
<1>8. CASE at \in Closing
  <2>1. at \notin Live /\ at \notin {"start", "idle", "pause", "acks"} /\ at \notin Answering
    BY <1>8 DEF Closing, Live, Answering
  <2> QED
    BY <1>1, <1>5, <2>1 DEF AlignInv
<1>9. CASE at \in Answering
  <2>1. ~HasReport(l)
    <3>1. at \notin Closing
      BY <1>9 DEF Closing, Answering
    <3> QED
      BY <1>1, <1>6, <1>9, <3>1, PendingMessage DEF Closing, Answering
  <2>2. /\ reports' = reports \cup {rep}
        /\ at \in Live /\ at \notin {"start", "idle", "pause", "acks"}
    BY <1>1, <1>9 DEF Live, Answering
  <2> HIDE DEF rep
  <2>3. \A k \in Lane : HasReport(k)' <=> (HasReport(k) \/ k = l)
    BY <1>2, <2>2 DEF HasReport
  <2>4. \A k \in Lane : ~HasReport(k)' => maxTs'[k] <= order'.watermark
    BY <1>1, <1>9, <2>3 DEF AlignInv
  <2>5. PICK f \in Nat, b \in Nat : Boundary(f, b)
    BY <2>2 DEF AlignInv
  <2>6. /\ OnBase(l, f, b) /\ f <= b /\ maxTs[l] <= order.watermark
    BY <1>9, <2>1, <2>5 DEF Boundary, LaneAligned, AlignInv
  <2>7. /\ Id' = Id /\ Oldest(f, b)' = Oldest(f, b) /\ Reached(b)' = Reached(b)
        /\ \A r : ReportOn(r, f, b)' <=> ReportOn(r, f, b)
    BY <1>1 DEF Id, ReportOn, Oldest, Reached
  <2>8. ASSUME built.ok
        PROVE  /\ ReportOn(rep, f, b)
               /\ OnBase(l, Oldest(f, b), Reached(b))'
    <3>1. /\ built.completed \in Seq(WindowState(Id))
          /\ Spans(built.completed, Ring, f, b)
          /\ Len(built.completed) = IF order.finish THEN (Reached(b) - b) + 1
                                    ELSE Smaller(Reached(b) - b, Ring)
          /\ Bounds(built.current) = <<Oldest(f, b), Reached(b) + 1>>
          /\ OnTrack(built.engine, Id, Ring, Oldest(f, b), Reached(b))
          /\ BackStart(built.engine) = Larger(Reached(b), maxTs[l])
      BY <1>3, <2>6, <2>8, BuildAligned, Zenon
    <3> HIDE DEF built
    <3>2. ReportOn(rep, f, b)
      BY <1>2, <2>8, <3>1 DEF ReportOn
    <3>3. engine'[l] = built.engine
      BY <1>1, <1>3
    <3>4. OnBase(l, Oldest(f, b), Reached(b))'
      BY <1>1, <2>7, <3>1, <3>3 DEF OnBase
    <3> QED
      BY <3>2, <3>4
  <2> HIDE DEF built
  <2>9. ASSUME NEW k \in Lane PROVE LaneAligned(k, f, b)'
    <3>1. LaneAligned(k, f, b)
      BY <2>5 DEF Boundary
    <3>2. CASE k # l
      <4>1. engine'[k] = engine[k]
        BY <1>1, <1>3, <3>2
      <4>2. OnBase(k, f, b) => OnBase(k, f, b)'
        BY <1>1, <2>7, <4>1 DEF OnBase
      <4>3. OnBase(k, Oldest(f, b), Reached(b)) => OnBase(k, Oldest(f, b), Reached(b))'
        BY <1>1, <2>7, <4>1 DEF OnBase
      <4>4. \A r \in reports' : r.lane = k => r \in reports
        BY <1>2, <2>2, <3>2
      <4> QED
        BY <1>1, <1>9, <2>3, <2>7, <3>1, <3>2, <4>2, <4>3, <4>4 DEF LaneAligned
    <3>3. CASE k = l
      <4>1. \A r \in reports' : r.lane = l => r = rep
        BY <2>1, <2>2 DEF HasReport
      <4>2. HasReport(k)'
        BY <2>3, <3>3
      <4>3. rep.ok => ReportOn(rep, f, b) /\ OnBase(l, Oldest(f, b), Reached(b))'
        BY <1>2, <2>8
      <4> QED
        BY <1>1, <1>9, <2>7, <3>3, <4>1, <4>2, <4>3 DEF LaneAligned
    <3> QED
      BY <3>2, <3>3
  <2>10. Boundary(f, b)'
    BY <1>1, <2>5, <2>9 DEF Boundary, PublishedUpTo
  <2> QED
    BY <1>1, <1>5, <2>2, <2>4, <2>10 DEF AlignInv
<1> QED
  BY <1>7, <1>8, <1>9

(* What the reports of all lanes amount to. *)
LEMMA ReportsMerge ==
  ASSUME ProtocolInv, AlignInv, at = "reports", Cardinality(reports) = LaneCount,
         \A r \in reports : r.ok, NEW f \in Nat, NEW b \in Nat, Boundary(f, b)
  PROVE  LET out == InKeyOrder(Merged(UNION {Windows(r.completed) : r \in reports}))
         IN  /\ out \in Seq(WindowState(Id)) /\ InOrder(out)
             /\ \A i \in 1 .. Len(out) :
                  /\ b < out[i].end
                  /\ ~order.finish => out[i].end <= Reached(b)
                  /\ out[i].start = Larger(f, out[i].end - Ring)
             /\ \A r \in reports : \A id : InSome(r.completed, id) => InSome(out, id)
<1> DEFINE V   == UNION {Windows(r.completed) : r \in reports}
           c   == Reached(b)
           m   == IF order.finish THEN (c - b) + 1 ELSE Smaller(c - b, Ring)
           out == InKeyOrder(Merged(V))
<1>1. order.watermark \in Nat \cup {NoTs} /\ f <= b
  BY DEF AlignInv, TypeInv, Boundary
<1>2. c \in Nat /\ b <= c
  BY <1>1, BoundaryMoves
<1> HIDE DEF c
<1>3. m \in Nat /\ (~order.finish => b + m <= c)
  BY <1>2, RingFacts DEF Smaller
<1>4. \A r \in reports : /\ r.completed \in Seq(WindowState(Id))
                         /\ Spans(r.completed, Ring, f, b) /\ Len(r.completed) = m
  <2> SUFFICES ASSUME NEW r \in reports PROVE ReportOn(r, f, b)
    BY DEF ReportOn, c
  <2>1. r.lane \in Lane /\ r.ok
    BY DEF ProtocolInv, OnePerLane
  <2>2. LaneAligned(r.lane, f, b)
    BY <2>1 DEF Boundary
  <2> QED
    BY <2>1, <2>2 DEF LaneAligned, Answering
<1>5. PICK r0 \in reports : TRUE
  <2>1. 1 \in Lane
    BY LaneFacts
  <2>2. \E x \in reports : x.lane = 1
    BY <2>1, AllAnswered DEF ProtocolInv
  <2> QED
    BY <2>2
<1> HIDE DEF m
<1>6. V \in SUBSET WindowState(Id)
  <2>1. \A r \in reports : Windows(r.completed) \subseteq WindowState(Id)
    BY <1>4, SeqElements DEF Windows
  <2> QED
    BY <2>1
<1>7. \A v \in V : \E i \in 1 .. m : v.end = b + i /\ v.start = Larger(f, (b + i) - Ring)
  <2> SUFFICES ASSUME NEW r \in reports, NEW v \in Windows(r.completed)
               PROVE  \E i \in 1 .. m : v.end = b + i /\ v.start = Larger(f, (b + i) - Ring)
    OBVIOUS
  <2>1. PICK i \in 1 .. m : v = r.completed[i]
    BY <1>4 DEF Windows
  <2> QED
    BY <1>4, <2>1 DEF Spans
<1>8. \A i \in 1 .. m : \E v \in V : v.end = b + i
  <2> SUFFICES ASSUME NEW i \in 1 .. m PROVE \E v \in V : v.end = b + i
    OBVIOUS
  <2>1. r0.completed[i] \in Windows(r0.completed) /\ r0.completed[i].end = b + i
    BY <1>4, <1>5 DEF Windows, Spans
  <2> QED
    BY <1>5, <2>1
<1>9. /\ out \in Seq(WindowState(Id)) /\ Len(out) = m /\ InOrder(out)
      /\ \A i \in 1 .. m : /\ b < out[i].end /\ out[i].end <= b + m
                           /\ out[i].start = Larger(f, out[i].end - Ring)
      /\ \A v \in V : \E i \in 1 .. m : v.ids \subseteq out[i].ids
  <2> HIDE DEF V
  <2>1. Cover(V, Ring, f, b, m)
    BY <1>7, <1>8 DEF Cover
  <2>2. ReadOut(out, V, Id, Ring, f, b, m)
    BY <1>3, <1>6, <2>1, RingFacts, MergeLemma
  <2> QED
    BY <2>2 DEF ReadOut
<1>10. \A i \in 1 .. m : out[i] \in WindowState(Id)
  BY <1>9, SeqElements
<1> HIDE DEF out
<1>11. \A i \in 1 .. m : ~order.finish => out[i].end <= c
  <2> SUFFICES ASSUME NEW i \in 1 .. m, ~order.finish PROVE out[i].end <= c
    OBVIOUS
  <2>1. out[i].end \in Nat
    BY <1>10 DEF WindowState
  <2>2. out[i].end <= b + m /\ b + m <= c
    BY <1>3, <1>9
  <2> QED
    BY <1>2, <1>3, <2>1, <2>2
<1>12. /\ out \in Seq(WindowState(Id)) /\ InOrder(out)
       /\ \A i \in 1 .. Len(out) :
            /\ b < out[i].end
            /\ ~order.finish => out[i].end <= c
            /\ out[i].start = Larger(f, out[i].end - Ring)
  BY <1>9, <1>11
<1>13. ASSUME NEW r \in reports, NEW id, InSome(r.completed, id) PROVE InSome(out, id)
  <2>1. PICK i \in 1 .. Len(r.completed) : id \in r.completed[i].ids
    BY <1>13 DEF InSome
  <2>2. r.completed[i] \in V
    BY <2>1 DEF Windows
  <2> HIDE DEF V
  <2>3. PICK j \in 1 .. m : r.completed[i].ids \subseteq out[j].ids
    BY <1>9, <2>2
  <2> QED
    BY <1>9, <2>1, <2>3 DEF InSome
<1> QED
  BY <1>12, <1>13 DEF out, V, c

(* The merged windows go behind what was published, and the slide every    *)
(* lane was taken to becomes the new boundary.                             *)
LEMMA PublishKeepsAligned ==
  ASSUME ProtocolInv, AlignInv, Publish
  PROVE  AlignInv'
<1> DEFINE out == InKeyOrder(Merged(UNION {Windows(r.completed) : r \in reports}))
<1>1. /\ at = "reports" /\ Cardinality(reports) = LaneCount /\ \A r \in reports : r.ok
      /\ UNCHANGED <<engine, maxTs, log, reports, acks, order, channel>>
  BY DEF Publish, workers, boundary, capture
<1>2. \/ at' = "drop" /\ published' = published
      \/ published' = published \o out /\ at' \in {"drop", "join"}
      \/ published' = published \o out /\ at' = "idle" /\ ~order.finish
  BY DEF Publish, Abort, GoTo
<1>3. /\ channel \in [Lane -> Seq(Id)] /\ published \in Seq(WindowState(Id))
      /\ InOrder(published) /\ order.watermark \in Nat \cup {NoTs}
      /\ ~order.finish => \A l \in Lane : NoneStillFilling(l)
      /\ \A l \in Lane : EngineOK(engine[l])
  BY DEF AlignInv, TypeInv
<1>4. CASE at' = "drop" /\ published' = published
  <2>1. at' \notin Live /\ at' \notin {"start", "idle", "pause", "acks"}
    BY <1>4 DEF Live, Answering
  <2> QED
    BY <1>1, <1>3, <1>4, <2>1, AlignStays
<1>5. ASSUME published' = published \o out,
             at' \in {"drop", "join"} \/ (at' = "idle" /\ ~order.finish)
      PROVE  AlignInv'
  <2>1. PICK f \in Nat, b \in Nat : Boundary(f, b)
    BY <1>1 DEF AlignInv, Live, Answering
  <2>2. /\ out \in Seq(WindowState(Id)) /\ InOrder(out)
        /\ \A i \in 1 .. Len(out) :
             /\ b < out[i].end
             /\ ~order.finish => out[i].end <= Reached(b)
             /\ out[i].start = Larger(f, out[i].end - Ring)
        /\ \A r \in reports : \A id : InSome(r.completed, id) => InSome(out, id)
    BY <1>1, <2>1, ReportsMerge, Zenon
  <2> HIDE DEF out
  <2> DEFINE c == Reached(b)
             g == Oldest(f, b)
  <2>3. /\ c \in Nat /\ g \in Nat /\ b <= c /\ f <= g /\ g <= c /\ f <= b
        /\ g = Larger(f, (c + 1) - Ring)
    BY <1>3, <2>1, BoundaryMoves DEF Boundary, Oldest
  <2>4. Id' = Id
    BY <1>1 DEF Id
  <2>5. published' \in Seq(WindowState(Id))
    BY <1>3, <1>5, <2>2, ConcatProperties
  <2>6. /\ \A i \in 1 .. Len(published) : published[i] \in WindowState(Id)
        /\ \A i \in 1 .. Len(out) : out[i] \in WindowState(Id)
        /\ Len(published) \in Nat /\ Len(out) \in Nat
    BY <1>3, <2>2, SeqElements
  <2>7. InOrder(published')
    <3>1. \A i \in 1 .. Len(published), j \in 1 .. Len(out) :
            published[i].end < out[j].end /\ published[i].start <= out[j].start
      <4> SUFFICES ASSUME NEW i \in 1 .. Len(published), NEW j \in 1 .. Len(out)
                   PROVE  published[i].end < out[j].end /\ published[i].start <= out[j].start
        OBVIOUS
      <4>1. published[i].end <= b /\ published[i].start <= f
        BY <2>1 DEF Boundary, PublishedUpTo
      <4>2. /\ published[i].end \in Nat /\ published[i].start \in Nat
            /\ out[j].end \in Nat /\ out[j].start \in Nat
        BY <2>6 DEF WindowState
      <4>3. b < out[j].end /\ f <= out[j].start
        BY <2>2, <4>2, RingFacts DEF Larger
      <4> QED
        BY <4>1, <4>2, <4>3
    <3>2. InOrder(published \o out)
      BY <1>3, <2>2, <3>1, ConcatInOrder
    <3> QED
      BY <1>5, <3>2
  <2>8. ASSUME ~order.finish, NEW i \in 1 .. Len(published')
        PROVE  published'[i].end <= c /\ published'[i].start <= g
    <3> DEFINE p == Len(published)
               n == Len(out)
    <3>1. /\ Len(published') = p + n
          /\ published'[i] = IF i <= p THEN published[i] ELSE out[i - p]
      <4>1. /\ Len(published \o out) = Len(published) + Len(out)
            /\ \A k \in 1 .. Len(published) + Len(out) :
                 (published \o out)[k] = IF k <= Len(published) THEN published[k]
                                         ELSE out[k - Len(published)]
        BY <1>3, <2>2, ConcatProperties
      <4> QED
        BY <1>5, <2>8, <4>1
    <3>2. p \in Nat /\ n \in Nat
      BY <2>6
    <3>3. CASE i <= p
      <4>1. i \in 1 .. p /\ published'[i] = published[i]
        BY <2>8, <3>1, <3>2, <3>3
      <4>2. published[i].end <= b /\ published[i].start <= f
        BY <2>1, <4>1 DEF Boundary, PublishedUpTo
      <4>3. published[i].end \in Nat /\ published[i].start \in Nat
        BY <2>6, <4>1 DEF WindowState
      <4> HIDE DEF c, g
      <4> QED
        BY <2>3, <4>1, <4>2, <4>3
    <3>4. CASE ~(i <= p)
      <4> DEFINE j == i - p
      <4>1. j \in 1 .. n /\ published'[i] = out[j]
        BY <2>8, <3>1, <3>2, <3>4
      <4>2. out[j].end <= c /\ out[j].start = Larger(f, out[j].end - Ring)
        BY <2>2, <2>8, <4>1
      <4>3. out[j].end \in Nat
        BY <2>6, <4>1 DEF WindowState
      <4> HIDE DEF c, g, j
      <4>4. out[j].start <= g
        BY <2>3, <4>2, <4>3, RingFacts DEF Larger
      <4> QED
        BY <4>1, <4>2, <4>4
    <3> QED
      BY <3>3, <3>4
  <2>9. \A l \in Lane : ~order.finish => OnBase(l, g, c)
    <3> SUFFICES ASSUME NEW l \in Lane, ~order.finish PROVE OnBase(l, g, c)
      OBVIOUS
    <3>1. PICK r \in reports : r.lane = l
      BY <1>1, AllAnswered DEF ProtocolInv
    <3>2. LaneAligned(l, f, b) /\ r.ok
      BY <1>1, <2>1, <3>1 DEF Boundary
    <3> QED
      BY <1>1, <3>1, <3>2 DEF LaneAligned, Answering
  <2>10. ~order'.finish => \A l \in Lane : NoneStillFilling(l)'
    <3> SUFFICES ASSUME ~order'.finish, NEW l \in Lane, NEW i \in 1 .. Len(published')
                 PROVE  published'[i].end <= BackStart(engine'[l])
      BY DEF NoneStillFilling
    <3>1. published'[i].end <= c /\ OnBase(l, g, c)
      BY <1>1, <2>8, <2>9
    <3>2. BackStart(engine[l]) = Larger(c, maxTs[l]) /\ maxTs[l] \in Nat \cup {NoTs}
      BY <3>1 DEF OnBase, AlignInv, TypeInv
    <3>3. published'[i].end \in Nat
      <4>1. published'[i] \in WindowState(Id)
        BY <2>5, SeqElements
      <4> QED
        BY <4>1 DEF WindowState
    <3>4. engine'[l] = engine[l]
      BY <1>1
    <3> HIDE DEF c, g
    <3>5. c <= Larger(c, maxTs[l]) /\ Larger(c, maxTs[l]) \in Nat
      BY <2>3, <3>2 DEF Larger, NoTs
    <3> QED
      BY <2>3, <3>1, <3>2, <3>3, <3>4, <3>5
  <2>11. TypeInv'
    BY <1>1, <2>4, <2>5 DEF AlignInv, TypeInv, EngineOK
  <2>12. CASE at' = "idle" /\ ~order.finish
    <3>1. ASSUME NEW l \in Lane PROVE LaneAligned(l, g, c)'
      <4>1. OnBase(l, g, c) /\ c' = c /\ g' = g
        BY <1>1, <2>9, <2>12 DEF Reached, Oldest
      <4>2. OnTrack(engine[l], Id, Ring, g, c) /\ BackStart(engine[l]) = Larger(c, maxTs[l])
        BY <4>1 DEF OnBase
      <4> HIDE DEF c, g
      <4>3. OnBase(l, g, c)'
        BY <1>1, <2>4, <4>1, <4>2 DEF OnBase
      <4> QED
        BY <2>12, <4>3 DEF LaneAligned, Answering
    <3>2. PublishedUpTo(g, c)'
      <4>1. c' = c /\ g' = g
        BY <1>1 DEF Reached, Oldest
      <4> HIDE DEF c, g
      <4> QED
        BY <2>8, <2>12, <4>1 DEF PublishedUpTo
    <3>3. Boundary(g, c)'
      <4>1. c' = c /\ g' = g
        BY <1>1 DEF Reached, Oldest
      <4> HIDE DEF c, g
      <4> QED
        BY <2>3, <3>1, <3>2, <4>1 DEF Boundary
    <3>4. \E x, y \in Nat : Boundary(x, y)'
      <4>1. c' = c /\ g' = g
        BY <1>1 DEF Reached, Oldest
      <4> HIDE DEF c, g
      <4> QED
        BY <2>3, <3>3, <4>1 DEF Boundary, PublishedUpTo, LaneAligned
    <3> QED
      BY <1>1, <2>7, <2>10, <2>11, <2>12, <3>4 DEF AlignInv, Answering
  <2>13. CASE at' \in {"drop", "join"}
    BY <2>7, <2>10, <2>11, <2>13 DEF AlignInv, Answering, Live
  <2> QED
    BY <1>5, <2>12, <2>13
<1> QED
  BY <1>2, <1>4, <1>5

(* The alignment is inductive, given the protocol. *)
LEMMA NextKeepsAligned ==
  ASSUME ProtocolInv, AlignInv, [Next]_vars
  PROVE  AlignInv'
<1>1. ASSUME NEW l \in Lane, Worker(l) PROVE AlignInv'
  BY <1>1, WaitsKeepAligned, ProcessKeepsAligned, PauseKeepsAligned,
     CheckpointKeepsAligned DEF Worker
<1>2. CASE Coordinator
  BY <1>2, MovesKeepAligned, BeginKeepsAligned, CollectKeepsAligned,
     PublishKeepsAligned DEF Coordinator
<1>3. CASE UNCHANGED vars
  <2>1. UNCHANGED <<engine, maxTs, log, published, reports, acks, order, channel, at>>
    BY <1>3 DEF vars, workers, boundary, coord, capture
  <2>2. channel \in [Lane -> Seq(Id)]
    BY DEF AlignInv, TypeInv
  <2>3. at' \in {"pause", "acks"} => \A a \in acks' : a.ts = maxTs[a.lane]
    BY <2>1 DEF AlignInv
  <2> QED
    BY <2>1, <2>2, <2>3, AlignStays
<1> QED
  BY <1>1, <1>2, <1>3, OfferKeepsAligned, WaitsKeepAligned DEF Next, Terminated

(* The inductive invariant of the queue-local runtime: the barrier's       *)
(* protocol, and the common boundary from which every lane's engine has    *)
(* moved.                                                                  *)
THEOREM BoundaryInvariant == Spec => [](ProtocolInv /\ AlignInv)
<1>1. Init => ProtocolInv /\ AlignInv
  BY ProtocolInit, AlignInit
<1>2. ProtocolInv /\ AlignInv /\ [Next]_vars => (ProtocolInv /\ AlignInv)'
  BY NextKeepsProtocol, NextKeepsAligned
<1> QED
  BY <1>1, <1>2, PTL DEF Spec

(* When publish_reports merges the reports, every lane has completed the   *)
(* same windows and has the same window open, for any number of lanes and  *)
(* however unevenly they were fed.                                         *)
THEOREM LanesStayAligned == Spec => []LanesAligned
<1>1. ProtocolInv /\ AlignInv => LanesAligned
  <2> SUFFICES ASSUME ProtocolInv, AlignInv, at = "reports", \A r \in reports : r.ok,
                      NEW r \in reports, NEW s \in reports
               PROVE  /\ SameBounds(r.completed, s.completed)
                      /\ Bounds(r.current) = Bounds(s.current)
    BY DEF LanesAligned
  <2>1. PICK f \in Nat, b \in Nat : Boundary(f, b)
    BY DEF AlignInv, Live, Answering
  <2>2. ASSUME NEW x \in reports PROVE ReportOn(x, f, b)
    <3>1. x.lane \in Lane /\ x.ok
      BY DEF ProtocolInv, OnePerLane
    <3> QED
      BY <2>1, <3>1 DEF Boundary, LaneAligned, Answering
  <2>3. ReportOn(r, f, b) /\ ReportOn(s, f, b)
    BY <2>2
  <2>4. SameBounds(r.completed, s.completed)
    BY <2>3, SpansSame DEF ReportOn
  <2> QED
    BY <2>3, <2>4 DEF ReportOn
<1> QED
  BY <1>1, BoundaryInvariant, PTL

(* Over all checkpoints a window is published once and in time order, and  *)
(* a periodic checkpoint never publishes one whose last slide a lane still *)
(* fills.                                                                  *)
THEOREM WindowsPublishedOnce == Spec => []PublishedOnceClosed
<1>1. AlignInv => PublishedOnceClosed
  BY DEF AlignInv, PublishedOnceClosed, NoneStillFilling
<1> QED
  BY <1>1, BoundaryInvariant, PTL

NotUnaligned == outcome # "unaligned"

(* The error publish_reports keeps for misaligned open windows is never    *)
(* returned.                                                               *)
THEOREM NeverUnaligned == Spec => []NotUnaligned
<1>1. Init => NotUnaligned
  BY DEF Init, NotUnaligned
<1>2. LanesAligned /\ NotUnaligned /\ [Next]_vars => NotUnaligned'
  <2> SUFFICES ASSUME LanesAligned, outcome # "unaligned", [Next]_vars
               PROVE  outcome' # "unaligned"
    BY DEF NotUnaligned
  <2>1. CASE Publish
    <3>1. CurrentAligned
      BY <2>1 DEF Publish, LanesAligned, CurrentAligned
    <3> QED
      BY <2>1, <3>1 DEF Publish, Abort
  <2>2. CASE CollectAcks
    BY <2>2, Zenon DEF CollectAcks
  <2>3. CASE Coordinator /\ ~Publish /\ ~CollectAcks
    BY <2>3 DEF Coordinator, StartWorker, StartFails, BeginPeriodic, BeginFinal,
       BeginCheckpoint, CollectDrained, SendPause, SendCheckpoint, SendTo,
       MissDeadWorker, CollectError, Join, Shutdown, ShutdownJoin, Abort
  <2>4. ASSUME NEW l \in Lane, Worker(l) PROVE outcome' = outcome
    BY <2>4 DEF Worker, Poll, FindEmpty, FindClosed, ProcessEvent, RefuseEvent,
       ObeyPause, ObeyCheckpoint, ObeyShutdown, coord
  <2>5. ASSUME NEW l \in Lane, NEW ts \in Ts, Offer(l, ts) PROVE outcome' = outcome
    BY <2>5 DEF Offer, coord
  <2>6. ASSUME NEW l \in Lane, CloseLane(l) PROVE outcome' = outcome
    BY <2>6 DEF CloseLane, coord
  <2>7. CASE UNCHANGED vars
    BY <2>7 DEF vars, coord
  <2> QED
    BY <2>1, <2>2, <2>3, <2>4, <2>5, <2>6, <2>7 DEF Next, Terminated
<1> QED
  BY <1>1, <1>2, LanesStayAligned, PTL DEF Spec

(***************************************************************************)
(* Where the events are.  An event of a lane that has not failed is        *)
(* published or late, in the answer to the running checkpoint, or, while   *)
(* its worker runs, still in the channel or in the engine.                 *)
(***************************************************************************)
Waits(s, id) == \E k \in 1 .. Len(s) : s[k] = id

InReport(l, id) == \E r \in reports : r.lane = l /\ (~r.ok \/ InSome(r.completed, id))

Held(l, id) ==
  \/ InSome(published, id) \/ id \in engine[l].late
  \/ at \in Answering /\ InReport(l, id)
  \/ worker[l] # "ended" /\ (Waits(channel[l], id) \/ Holds(engine[l], id))

HeldInv ==
  at \notin Closing =>
    \A l \in Lane : worker[l] # "failed" =>
      \A id \in Id : log[id].lane = l => Held(l, id)

(* The channels hold events of their lanes in order of arrival, and are    *)
(* empty from the drain of the final checkpoint on.                        *)
Increasing(s) == \A j, k \in 1 .. Len(s) : j < k => s[j] < s[k]

Drained(l) == ~laneOpen[l] /\ channel[l] = <<>>

AfterDrain ==
  at \in {"join", "done"} \/ (order.finish /\ at \notin Closing \cup {"drain"})

QueueInv ==
  /\ inBatch \in [Lane -> Nat] /\ counted \in Nat
  /\ \A l \in Lane : /\ Increasing(channel[l])
                     /\ \A id \in Id : Waits(channel[l], id) => log[id].lane = l
                     /\ inBatch[l] # 0 => worker[l] \in {"batch", "failed"}
                     /\ l \in drained => Drained(l)
  /\ AfterDrain => Lane \subseteq drained

(* The events counted are a set C, those of the running batches sets B[l], *)
(* and every event of a lane that has not failed is counted, in its lane's *)
(* batch, or still in the channel.                                         *)
Sorted(C, B) ==
  /\ C \in SUBSET Id /\ Cardinality(C) = counted
  /\ B \in [Lane -> SUBSET Id]
  /\ \A l \in Lane :
       /\ Cardinality(B[l]) = inBatch[l]
       /\ \A id \in B[l] : id \notin C /\ log[id].lane = l
       /\ \A id \in Id : Waits(channel[l], id) => id \notin C /\ id \notin B[l]
  /\ \A id \in Id : \A l \in Lane :
       log[id].lane = l /\ worker[l] # "failed" =>
         id \in C \/ id \in B[l] \/ Waits(channel[l], id)

CountInv == \E C \in SUBSET Id, B \in [Lane -> SUBSET Id] : Sorted(C, B)

(* The ids. *)
LEMMA IdFacts ==
  ASSUME TypeInv
  PROVE  /\ Len(log) \in Nat /\ Id = 1 .. Len(log) /\ IsFiniteSet(Id)
         /\ Cardinality(Id) = Len(log) /\ Id \subseteq Nat
         /\ \A id \in Id : log[id] \in [lane : Lane, ts : Nat]
<1>1. log \in Seq([lane : Lane, ts : Nat])
  BY DEF TypeInv
<1>2. Len(log) \in Nat /\ \A id \in 1 .. Len(log) : log[id] \in [lane : Lane, ts : Nat]
  BY <1>1, SeqElements
<1>3. IsFiniteSet(1 .. Len(log)) /\ Cardinality(1 .. Len(log)) = Len(log)
  <2>1. Len(log) - 1 + 1 = Len(log) /\ (1 <= Len(log) \/ Len(log) = 0)
    BY <1>2
  <2>2. /\ IsFiniteSet(1 .. Len(log))
        /\ Cardinality(1 .. Len(log)) = IF 1 > Len(log) THEN 0 ELSE Len(log) - 1 + 1
    BY <1>2, FS_Interval
  <2> QED
    BY <1>2, <2>1, <2>2
<1> QED
  BY <1>2, <1>3 DEF Id

(* Taking the head of a queue. *)
LEMMA TailOfQueue ==
  ASSUME NEW I \in SUBSET Nat, NEW s \in Seq(I), s # <<>>, Increasing(s)
  PROVE  /\ Head(s) \in I /\ Tail(s) \in Seq(I) /\ Increasing(Tail(s))
         /\ Waits(s, Head(s)) /\ ~Waits(Tail(s), Head(s))
         /\ \A id : Waits(Tail(s), id) => Waits(s, id)
         /\ \A id : Waits(s, id) => id = Head(s) \/ Waits(Tail(s), id)
<1> DEFINE tl == Tail(s)
           n  == Len(s)
           h  == Head(s)
<1>1. n \in Nat /\ n >= 1 /\ \A k \in 1 .. n : s[k] \in I /\ s[k] \in Nat
  BY SeqElements
<1>2. /\ h \in I /\ h = s[1] /\ tl \in Seq(I) /\ Len(tl) = n - 1
      /\ \A i \in 1 .. n - 1 : tl[i] = s[i + 1]
  <2>1. /\ Head(s) \in I /\ Tail(s) \in Seq(I) /\ Len(Tail(s)) = Len(s) - 1
        /\ \A i \in 1 .. Len(Tail(s)) : Tail(s)[i] = s[i + 1]
    BY HeadTailProperties
  <2>2. Head(s) = s[1]
    OBVIOUS
  <2> QED
    BY <2>1, <2>2
<1>3. /\ \A i \in 1 .. n - 1 : i + 1 \in 1 .. n /\ 1 < i + 1
      /\ 1 \in 1 .. n
  BY <1>1
<1> HIDE DEF tl, n, h
<1>4. \A j, k \in 1 .. n : j < k => s[j] < s[k]
  BY DEF Increasing, n
<1>5. Increasing(tl)
  <2>1. ASSUME NEW j \in 1 .. n - 1, NEW k \in 1 .. n - 1, j < k PROVE tl[j] < tl[k]
    <3>1. j + 1 < k + 1
      BY <2>1
    <3> QED
      BY <1>2, <1>3, <1>4, <3>1
  <2> QED
    BY <1>2, <2>1 DEF Increasing
<1>6. ~Waits(tl, h)
  <2> SUFFICES ASSUME NEW k \in 1 .. n - 1, tl[k] = h PROVE FALSE
    BY <1>2 DEF Waits
  <2>1. s[1] < s[k + 1] /\ s[1] \in Nat /\ s[k + 1] \in Nat
    BY <1>1, <1>3, <1>4
  <2> QED
    BY <1>2, <2>1
<1>7. Waits(s, h)
  BY <1>2, <1>3 DEF Waits, n
<1>8. ASSUME NEW id, Waits(tl, id) PROVE Waits(s, id)
  <2>1. PICK k \in 1 .. n - 1 : tl[k] = id
    BY <1>2, <1>8 DEF Waits
  <2> QED
    BY <1>2, <1>3, <2>1 DEF Waits, n
<1>9. ASSUME NEW id, Waits(s, id) PROVE id = h \/ Waits(tl, id)
  <2>1. PICK k \in 1 .. n : s[k] = id
    BY <1>9 DEF Waits, n
  <2>2. CASE k = 1
    BY <1>2, <2>1, <2>2
  <2>3. CASE k # 1
    <3> DEFINE j == k - 1
    <3>1. j \in 1 .. n - 1 /\ j + 1 = k
      BY <1>1, <2>3
    <3> HIDE DEF j
    <3>2. tl[j] = id
      BY <1>2, <2>1, <3>1
    <3> QED
      BY <1>2, <3>1, <3>2 DEF Waits
  <2> QED
    BY <2>2, <2>3
<1> QED
  BY <1>2, <1>5, <1>6, <1>7, <1>8, <1>9 DEF tl, h

(* A new event at the end of a queue. *)
LEMMA AppendToQueue ==
  ASSUME NEW I \in SUBSET Nat, NEW s \in Seq(I), Increasing(s), NEW e \in Nat,
         \A i \in I : i < e
  PROVE  /\ Increasing(Append(s, e))
         /\ \A id : Waits(Append(s, e), id) <=> Waits(s, id) \/ id = e
<1> DEFINE n == Len(s)
           a == Append(s, e)
<1>1. n \in Nat /\ \A k \in 1 .. n : s[k] \in I
  BY SeqElements
<1>2. s \in Seq(Nat)
  BY SeqMonotonic
<1>3. Len(a) = n + 1 /\ a[n + 1] = e
  BY <1>2, AppendProperties
<1>4. \A k \in 1 .. n : a[k] = s[k]
  BY <1>2, AppendProperties
<1> HIDE DEF a, n
<1>5. Increasing(a)
  <2>1. ASSUME NEW j \in 1 .. n + 1, NEW k \in 1 .. n + 1, j < k PROVE a[j] < a[k]
    <3>1. j \in 1 .. n /\ (k \in 1 .. n \/ k = n + 1)
      BY <1>1, <2>1
    <3>2. CASE k \in 1 .. n
      BY <1>4, <2>1, <3>1, <3>2 DEF Increasing, n
    <3>3. CASE k = n + 1
      BY <1>1, <1>3, <1>4, <3>1, <3>3
    <3> QED
      BY <3>1, <3>2, <3>3
  <2> QED
    BY <1>3, <2>1 DEF Increasing
<1>6. ASSUME NEW id PROVE Waits(a, id) <=> Waits(s, id) \/ id = e
  <2>1. ASSUME Waits(a, id) PROVE Waits(s, id) \/ id = e
    <3>1. PICK k \in 1 .. n + 1 : a[k] = id
      BY <1>3, <2>1 DEF Waits
    <3>2. k \in 1 .. n \/ k = n + 1
      BY <1>1, <3>1
    <3> QED
      BY <1>3, <1>4, <3>1, <3>2 DEF Waits, n
  <2>2. ASSUME Waits(s, id) PROVE Waits(a, id)
    <3>1. PICK k \in 1 .. n : s[k] = id
      BY <2>2 DEF Waits, n
    <3>2. k \in 1 .. n + 1
      BY <1>1
    <3> QED
      BY <1>3, <1>4, <3>1, <3>2 DEF Waits
  <2>3. ASSUME id = e PROVE Waits(a, id)
    <3>1. n + 1 \in 1 .. n + 1
      BY <1>1
    <3> QED
      BY <1>3, <2>3, <3>1 DEF Waits
  <2> QED
    BY <2>1, <2>2, <2>3
<1> QED
  BY <1>5, <1>6 DEF a

(* Nothing waits in an empty queue. *)
LEMMA EmptyQueue == Increasing(<<>>) /\ \A id : ~Waits(<<>>, id)
<1>1. Len(<<>>) = 0
  BY EmptySeq
<1> QED
  BY <1>1 DEF Increasing, Waits

(* What most steps leave alone. *)
HeldFrame ==
  /\ UNCHANGED <<log, engine, channel>>
  /\ at' \notin Closing =>
       /\ at \notin Closing /\ UNCHANGED published
       /\ at \in Answering => at' \in Answering /\ UNCHANGED reports
       /\ \A l \in Lane : /\ worker[l] = "failed" => worker'[l] = "failed"
                          /\ worker'[l] = "ended" => worker[l] = "ended"

QueueFrame ==
  /\ UNCHANGED <<log, channel, inBatch, counted, drained>>
  /\ \A l \in Lane : /\ laneOpen'[l] => laneOpen[l]
                     /\ worker[l] = "failed" => worker'[l] = "failed"
                     /\ worker[l] = "batch" => worker'[l] \in {"batch", "failed"}
  /\ AfterDrain' => AfterDrain \/ drained = Lane

(* Events stay where they are. *)
LEMMA HeldStays ==
  ASSUME HeldInv, HeldFrame
  PROVE  HeldInv'
<1> SUFFICES ASSUME at' \notin Closing, NEW l \in Lane, worker'[l] # "failed",
                    NEW id \in Id, log[id].lane = l
             PROVE  Held(l, id)'
  BY DEF HeldInv, HeldFrame, Id
<1>1. Held(l, id)
  BY DEF HeldInv, HeldFrame
<1>2. at \in Answering /\ InReport(l, id) => at' \in Answering /\ InReport(l, id)'
  BY DEF HeldFrame, InReport
<1> QED
  BY <1>1, <1>2 DEF Held, HeldFrame

(* The queues and the counts stay what they are. *)
LEMMA QueueStays ==
  ASSUME QueueInv, CountInv, QueueFrame
  PROVE  QueueInv' /\ CountInv'
<1>1. QueueInv'
  BY DEF QueueInv, QueueFrame, Drained, Id
<1>2. CountInv'
  <2>1. PICK C \in SUBSET Id, B \in [Lane -> SUBSET Id] : Sorted(C, B)
    BY DEF CountInv
  <2>2. Id' = Id
    BY DEF QueueFrame, Id
  <2>3. Sorted(C, B)'
    BY <2>1, <2>2 DEF Sorted, QueueFrame
  <2> QED
    BY <2>2, <2>3 DEF CountInv
<1> QED
  BY <1>1, <1>2

(* The places of the workers. *)
LEMMA WorkerTyped ==
  ASSUME ProtocolInv
  PROVE  /\ DOMAIN worker = Lane /\ next \in Lane
         /\ \A l \in Lane : \A w : [worker EXCEPT ![l] = w][l] = w
         /\ \A l, k \in Lane : \A w : k # l => [worker EXCEPT ![l] = w][k] = worker[k]
BY DEF ProtocolInv

(* The steps of a worker that take no event and give no report. *)
LEMMA WorkerWaits ==
  ASSUME ProtocolInv, AlignInv, NEW l \in Lane,
         Poll(l) \/ ObeyPause(l) \/ ObeyShutdown(l)
  PROVE  HeldFrame /\ QueueFrame
<1>1. /\ UNCHANGED <<log, engine, channel, at, published, reports, order, inBatch, counted,
                     drained, laneOpen>>
  BY DEF Poll, ObeyPause, ObeyShutdown, coord, capture, boundary
<1>2. /\ worker[l] \in {"loop", "paused"} /\ worker' = [worker EXCEPT ![l] = worker'[l]]
      /\ worker'[l] = "ended" => at \in Closing
  <2>1. CASE Poll(l)
    BY <2>1, WorkerTyped DEF Poll
  <2>2. CASE ObeyPause(l)
    BY <2>2, WorkerTyped DEF ObeyPause, Fail
  <2>3. CASE ObeyShutdown(l)
    <3>1. control[l] # <<>> /\ Head(control[l]) = "shutdown"
      BY <2>3 DEF ObeyShutdown
    <3>2. at \in Closing
      BY <3>1, PendingMessage DEF Closing
    <3> QED
      BY <2>3, <3>2, WorkerTyped DEF ObeyShutdown
  <2> QED
    BY <2>1, <2>2, <2>3
<1>3. \A k \in Lane : k # l => worker'[k] = worker[k]
  BY <1>2, WorkerTyped
<1>4. AfterDrain' <=> AfterDrain
  BY <1>1 DEF AfterDrain
<1>5. HeldFrame
  BY <1>1, <1>2, <1>3 DEF HeldFrame
<1>6. QueueFrame
  BY <1>1, <1>2, <1>3, <1>4 DEF QueueFrame
<1> QED
  BY <1>5, <1>6

(* Capture ends on a lane. *)
LEMMA CloseLaneWaits ==
  ASSUME AlignInv, NEW l \in Lane, CloseLane(l)
  PROVE  HeldFrame /\ QueueFrame
<1>1. /\ UNCHANGED <<log, engine, channel, at, published, reports, order, inBatch, counted,
                     drained, worker>>
      /\ laneOpen' = [laneOpen EXCEPT ![l] = FALSE]
  BY DEF CloseLane, coord, workers, boundary
<1>2. \A k \in Lane : laneOpen'[k] => laneOpen[k]
  BY <1>1
<1>3. AfterDrain' <=> AfterDrain
  BY <1>1 DEF AfterDrain
<1> QED
  BY <1>1, <1>2, <1>3 DEF HeldFrame, QueueFrame

(* The steps of the engine thread that publish nothing. *)
LEMMA CoordinatorWaits ==
  ASSUME ProtocolInv, AlignInv, Coordinator, ~Publish
  PROVE  HeldFrame /\ QueueFrame
<1>1. /\ UNCHANGED <<log, engine, channel, published, inBatch, counted, drained, laneOpen>>
  BY DEF Coordinator, StartWorker, StartFails, BeginPeriodic, BeginFinal, BeginCheckpoint,
         CollectDrained, SendPause, SendCheckpoint, SendTo, CollectAcks, MissDeadWorker,
         CollectError, Join, Shutdown, ShutdownJoin, workers, boundary, capture
<1>2. CASE at' = "drop"
  <2>1. AfterDrain' = FALSE
    BY <1>2 DEF AfterDrain, Closing
  <2>2. \A l \in Lane : /\ worker[l] = "failed" => worker'[l] = "failed"
                        /\ worker[l] = "batch" => worker'[l] \in {"batch", "failed"}
    <3>1. CASE worker' = worker
      BY <3>1
    <3>2. CASE StartWorker \/ StartFails
      <4>1. /\ at = "start"
            /\ \/ worker' = [worker EXCEPT ![next] = "loop"]
               \/ worker' = [worker EXCEPT ![next] = "ended"]
        BY <3>2 DEF StartWorker, StartFails
      <4>2. worker[next] = "off"
        BY <4>1, WorkerTyped DEF ProtocolInv, InPhase, Lane
      <4>3. \A k \in Lane : k # next => worker'[k] = worker[k]
        BY <4>1, WorkerTyped
      <4> QED
        BY <4>2, <4>3
    <3> QED
      BY <3>1, <3>2 DEF Coordinator, BeginPeriodic, BeginFinal, BeginCheckpoint,
         CollectDrained, SendPause, SendCheckpoint, SendTo, CollectAcks, MissDeadWorker,
         CollectError, Join, Shutdown, ShutdownJoin, workers
  <2> QED
    BY <1>1, <1>2, <2>1, <2>2 DEF HeldFrame, QueueFrame, Closing
<1>3. CASE at' # "drop" /\ StartWorker
  <2>1. /\ worker' = [worker EXCEPT ![next] = "loop"] /\ at = "start" /\ order' = order
        /\ at' \in {"start", "idle"}
    BY <1>3 DEF StartWorker, GoTo
  <2>2. worker[next] = "off"
    BY <2>1, WorkerTyped DEF ProtocolInv, InPhase, Lane
  <2>3. AfterDrain' = FALSE
    BY <2>1 DEF AlignInv, AfterDrain
  <2>4. \A k \in Lane : worker'[k] = IF k = next THEN "loop" ELSE worker[k]
    BY <2>1, WorkerTyped
  <2> QED
    BY <1>1, <2>1, <2>2, <2>3, <2>4 DEF HeldFrame, QueueFrame, Closing, Answering
<1>4. CASE at' # "drop" /\ (BeginPeriodic \/ BeginFinal)
  <2>1. /\ at = "idle" /\ worker' = worker
        /\ at' = "drain" \/ (at' = "pause" /\ order' = [NoOrder EXCEPT !.finish = FALSE])
    BY <1>4 DEF BeginPeriodic, BeginFinal, BeginCheckpoint, Abort, GoTo, workers
  <2>2. AfterDrain' = FALSE
    BY <2>1 DEF AfterDrain, NoOrder
  <2> QED
    BY <1>1, <2>1, <2>2 DEF HeldFrame, QueueFrame, Closing, Answering
<1>5. CASE at' # "drop" /\ (CollectDrained \/ SendPause \/ SendCheckpoint \/ Join
                            \/ Shutdown \/ ShutdownJoin \/ CollectAcks)
  <2>1. worker' = worker /\ reports' = reports
    BY <1>5 DEF CollectDrained, SendPause, SendCheckpoint, SendTo, Join, Shutdown,
       ShutdownJoin, CollectAcks, workers, boundary
  <2>2. /\ at' \notin Closing => at \notin Closing
        /\ at \in Answering => at' \in Answering
    BY <1>5 DEF CollectDrained, SendPause, SendCheckpoint, SendTo, Join, Shutdown,
       ShutdownJoin, CollectAcks, GoTo, Abort, Closing, Answering
  <2>3. AfterDrain' => AfterDrain \/ drained = Lane
    <3>1. order'.finish = order.finish
      <4>1. CASE CollectAcks
        <5>1. PICK due \in BOOLEAN :
                order' = [order EXCEPT !.watermark = Watermark, !.include = due]
          BY <4>1 DEF CollectAcks
        <5>2. order \in [watermark : Nat \cup {NoTs}, include : BOOLEAN, finish : BOOLEAN]
          BY DEF AlignInv, TypeInv
        <5> QED
          BY <5>1, <5>2
      <4>2. CASE order' = order
        BY <4>2
      <4> QED
        BY <1>5, <4>1, <4>2 DEF CollectDrained, SendPause, SendCheckpoint, SendTo, Join,
           Shutdown, ShutdownJoin
    <3> QED
      BY <1>5, <3>1 DEF CollectDrained, SendPause, SendCheckpoint, SendTo, Join, Shutdown,
         ShutdownJoin, CollectAcks, GoTo, Abort, Closing, AfterDrain
  <2> QED
    BY <1>1, <2>1, <2>2, <2>3 DEF HeldFrame, QueueFrame
<1> QED
  BY <1>2, <1>3, <1>4, <1>5 DEF Coordinator, StartFails, MissDeadWorker, CollectError,
     Abort, GoTo

(* A new event waits in its channel. *)
LEMMA OfferKeepsHeld ==
  ASSUME AlignInv, HeldInv, QueueInv, CountInv, NEW l \in Lane, NEW ts \in Ts, Offer(l, ts)
  PROVE  HeldInv' /\ QueueInv' /\ CountInv'
<1>1. /\ UNCHANGED <<worker, engine, published, reports, at, order, inBatch, counted,
                     drained, laneOpen>>
      /\ laneOpen[l] /\ worker[l] # "ended"
  BY DEF Offer, workers, boundary, coord
<1>2. /\ TypeInv /\ log \in Seq([lane : Lane, ts : Nat]) /\ channel \in [Lane -> Seq(Id)]
  BY DEF AlignInv, TypeInv
<1>3. AfterDrain' <=> AfterDrain
  BY <1>1 DEF AfterDrain
<1>4. CASE log' = log /\ channel' = channel
  <2>1. HeldFrame /\ QueueFrame
    BY <1>1, <1>3, <1>4 DEF HeldFrame, QueueFrame
  <2> QED
    BY <2>1, HeldStays, QueueStays
<1>5. CASE /\ log' = Append(log, [lane |-> l, ts |-> ts])
           /\ channel' = [channel EXCEPT ![l] = Append(@, Len(log) + 1)]
  <2> DEFINE ev == [lane |-> l, ts |-> ts]
             n  == Len(log)
             e  == n + 1
  <2>1. ev \in [lane : Lane, ts : Nat] /\ ev.lane = l
    BY RingFacts
  <2> HIDE DEF ev
  <2>2. log' = Append(log, ev)
    BY <1>5 DEF ev
  <2>3. n \in Nat /\ Id = 1 .. n /\ Id \subseteq Nat
    BY <1>2, IdFacts
  <2>4. Len(log') = n + 1 /\ log'[n + 1] = ev
    BY <1>2, <2>1, <2>2, AppendProperties
  <2>5. \A i \in 1 .. n : log'[i] = log[i]
    BY <1>2, <2>1, <2>2, AppendProperties
  <2> HIDE DEF n
  <2>6. /\ Id' = Id \cup {e} /\ e \notin Id /\ e \in Nat /\ \A i \in Id : i < e
        /\ log'[e].lane = l /\ \A i \in Id : log'[i] = log[i]
    BY <2>1, <2>3, <2>4, <2>5 DEF Id
  <2>7. channel' = [channel EXCEPT ![l] = Append(channel[l], e)]
    BY <1>5 DEF n
  <2> HIDE DEF e
  <2>8. \A k \in Lane : channel[k] \in Seq(Id) /\ \A id : Waits(channel[k], id) => id \in Id
    <3> SUFFICES ASSUME NEW k \in Lane
                 PROVE  channel[k] \in Seq(Id) /\ \A id : Waits(channel[k], id) => id \in Id
      OBVIOUS
    <3>1. channel[k] \in Seq(Id)
      BY <1>2
    <3>2. \A j \in 1 .. Len(channel[k]) : channel[k][j] \in Id
      BY <3>1, SeqElements
    <3> QED
      BY <3>1, <3>2 DEF Waits
  <2>9. ASSUME NEW k \in Lane
        PROVE  /\ Increasing(channel'[k])
               /\ \A id : Waits(channel'[k], id) <=> Waits(channel[k], id) \/ (k = l /\ id = e)
    <3>1. Increasing(channel[k])
      BY DEF QueueInv
    <3>2. CASE k = l
      <4>1. channel'[k] = Append(channel[k], e)
        BY <1>2, <2>7, <3>2
      <4>2. Id \in SUBSET Nat /\ channel[k] \in Seq(Id) /\ e \in Nat /\ \A i \in Id : i < e
        BY <2>3, <2>6, <2>8
      <4>3. /\ Increasing(Append(channel[k], e))
            /\ \A id : Waits(Append(channel[k], e), id) <=> Waits(channel[k], id) \/ id = e
        BY <3>1, <4>2, AppendToQueue, Zenon
      <4> QED
        BY <3>2, <4>1, <4>3, Zenon
    <3>3. CASE k # l
      <4>1. channel'[k] = channel[k]
        BY <1>2, <2>7, <3>3
      <4> QED
        BY <3>1, <3>3, <4>1
    <3> QED
      BY <3>2, <3>3
  <2>10. HeldInv'
    <3> SUFFICES ASSUME at \notin Closing, NEW k \in Lane, worker[k] # "failed",
                        NEW id \in Id', log'[id].lane = k
                 PROVE  Held(k, id)'
      BY <1>1 DEF HeldInv
    <3>1. CASE id \in Id
      <4>1. Held(k, id)
        BY <2>6, <3>1 DEF HeldInv
      <4>2. InReport(k, id)' <=> InReport(k, id)
        BY <1>1 DEF InReport
      <4>3. Waits(channel[k], id) => Waits(channel'[k], id)
        BY <2>9
      <4> QED
        BY <1>1, <4>1, <4>2, <4>3 DEF Held
    <3>2. CASE id = e
      <4>1. k = l /\ Waits(channel'[k], id)
        BY <2>6, <2>9, <3>2
      <4> QED
        BY <1>1, <4>1 DEF Held
    <3> QED
      BY <2>6, <3>1, <3>2
  <2>11. QueueInv'
    <3>1. ASSUME NEW k \in Lane, NEW id \in Id', Waits(channel'[k], id)
          PROVE  log'[id].lane = k
      <4>1. CASE Waits(channel[k], id)
        <5>1. id \in Id
          BY <2>8, <4>1
        <5> QED
          BY <2>6, <4>1, <5>1 DEF QueueInv
      <4>2. CASE k = l /\ id = e
        BY <2>6, <4>2
      <4> QED
        BY <2>9, <3>1, <4>1, <4>2
    <3>2. ASSUME NEW k \in Lane, k \in drained PROVE Drained(k)'
      <4>1. Drained(k)
        BY <3>2 DEF QueueInv
      <4>2. k # l
        BY <1>1, <4>1 DEF Drained
      <4>3. channel'[k] = channel[k]
        BY <1>2, <2>7, <4>2
      <4> QED
        BY <1>1, <4>1, <4>3 DEF Drained
    <3> QED
      BY <1>1, <1>3, <2>9, <3>1, <3>2 DEF QueueInv
  <2>12. CountInv'
    <3>1. PICK C \in SUBSET Id, B \in [Lane -> SUBSET Id] : Sorted(C, B)
      BY DEF CountInv
    <3>2. C \in SUBSET Id' /\ B \in [Lane -> SUBSET Id']
      BY <2>6
    <3>3. ASSUME NEW k \in Lane
          PROVE  /\ Cardinality(B[k]) = inBatch'[k]
                 /\ \A id \in B[k] : id \notin C /\ log'[id].lane = k
                 /\ \A id \in Id' : Waits(channel'[k], id) => id \notin C /\ id \notin B[k]
      <4>1. Cardinality(B[k]) = inBatch'[k]
        BY <1>1, <3>1 DEF Sorted
      <4>2. \A id \in B[k] : id \notin C /\ log'[id].lane = k
        BY <2>6, <3>1 DEF Sorted
      <4>3. ASSUME NEW id \in Id', Waits(channel'[k], id) PROVE id \notin C /\ id \notin B[k]
        <5>1. CASE id = e
          BY <2>6, <5>1
        <5>2. CASE id # e
          BY <2>6, <2>9, <3>1, <4>3, <5>2 DEF Sorted
        <5> QED
          BY <5>1, <5>2
      <4> QED
        BY <4>1, <4>2, <4>3
    <3>4. ASSUME NEW id \in Id', NEW k \in Lane, log'[id].lane = k, worker'[k] # "failed"
          PROVE  id \in C \/ id \in B[k] \/ Waits(channel'[k], id)
      <4>1. CASE id = e
        BY <2>6, <2>9, <3>4, <4>1
      <4>2. CASE id \in Id
        BY <1>1, <2>6, <2>9, <3>1, <3>4, <4>2 DEF Sorted
      <4> QED
        BY <2>6, <4>1, <4>2
    <3>5. Cardinality(C) = counted'
      BY <1>1, <3>1 DEF Sorted
    <3>6. Sorted(C, B)'
      BY <3>2, <3>3, <3>4, <3>5 DEF Sorted
    <3> QED
      BY <3>2, <3>6 DEF CountInv
  <2> QED
    BY <2>10, <2>11, <2>12
<1> QED
  BY <1>4, <1>5 DEF Offer

(* A lane takes events into its batch, or counts the batch and starts a    *)
(* new one.                                                                *)
LEMMA BatchMoves ==
  ASSUME TypeInv, QueueInv, NEW C \in SUBSET Id, NEW B \in [Lane -> SUBSET Id], Sorted(C, B),
         NEW l \in Lane, worker[l] # "failed", NEW D \in SUBSET Id, B[l] \subseteq D,
         \A id \in D : id \notin C /\ log[id].lane = l,
         \A id \in Id : Waits(channel'[l], id) => Waits(channel[l], id) /\ id \notin D,
         \A id \in Id : Waits(channel[l], id) => id \in D \/ Waits(channel'[l], id),
         \A k \in Lane : k # l => /\ channel'[k] = channel[k] /\ inBatch'[k] = inBatch[k]
                                  /\ worker'[k] = worker[k],
         \/ counted' = counted + Cardinality(D) /\ inBatch'[l] = 0
         \/ counted' = counted /\ inBatch'[l] = Cardinality(D),
         log' = log
  PROVE  CountInv'
<1>1. Id' = Id /\ IsFiniteSet(Id) /\ \A id \in Id : log[id].lane \in Lane
  BY IdFacts DEF Id
<1>2. /\ Cardinality(C) = counted
      /\ \A k \in Lane :
           /\ Cardinality(B[k]) = inBatch[k]
           /\ \A id \in B[k] : id \notin C /\ log[id].lane = k
           /\ \A id \in Id : Waits(channel[k], id) => id \notin C /\ id \notin B[k]
      /\ \A id \in Id : \A k \in Lane :
           log[id].lane = k /\ worker[k] # "failed" =>
             id \in C \/ id \in B[k] \/ Waits(channel[k], id)
  BY DEF Sorted
<1>3. CASE counted' = counted + Cardinality(D) /\ inBatch'[l] = 0
  <2> DEFINE C1 == C \cup D
             B1 == [B EXCEPT ![l] = {}]
  <2>1. Cardinality(C1) = counted'
    <3>1. IsFiniteSet(C) /\ IsFiniteSet(D) /\ C \cap D = {}
      BY <1>1, FS_Subset
    <3>2. Cardinality(C) \in Nat /\ Cardinality(D) \in Nat /\ Cardinality({}) = 0
      BY <3>1, FS_CardinalityType, FS_EmptySet
    <3>3. Cardinality(C \cup D) = Cardinality(C) + Cardinality(D) - Cardinality(C \cap D)
      BY <3>1, FS_Union
    <3>4. Cardinality(C \cap D) = 0
      BY <3>1, <3>2
    <3>5. Cardinality(C \cup D) = Cardinality(C) + Cardinality(D)
      BY <3>2, <3>3, <3>4
    <3> QED
      BY <1>2, <1>3, <3>5, Zenon
  <2>2. C1 \in SUBSET Id' /\ B1 \in [Lane -> SUBSET Id']
    BY <1>1
  <2>3. B1[l] = {} /\ \A k \in Lane : k # l => B1[k] = B[k]
    OBVIOUS
  <2> HIDE DEF B1
  <2>4. ASSUME NEW k \in Lane
        PROVE  /\ Cardinality(B1[k]) = inBatch'[k]
               /\ \A id \in B1[k] : id \notin C1 /\ log[id].lane = k
               /\ \A id \in Id : Waits(channel'[k], id) => id \notin C1 /\ id \notin B1[k]
    <3>1. CASE k = l
      BY <1>2, <1>3, <2>3, <3>1, FS_EmptySet
    <3>2. CASE k # l
      <4>1. B1[k] = B[k] /\ channel'[k] = channel[k] /\ inBatch'[k] = inBatch[k]
        BY <2>3, <3>2
      <4>2. \A id \in B[k] : id \notin D
        BY <1>2, <3>2
      <4>3. ASSUME NEW id \in Id, Waits(channel[k], id) PROVE id \notin D
        <5> SUFFICES ASSUME id \in D PROVE FALSE
          OBVIOUS
        <5> QED
          BY <3>2, <4>3 DEF QueueInv
      <4> QED
        BY <1>2, <4>1, <4>2, <4>3
    <3> QED
      BY <3>1, <3>2
  <2>5. ASSUME NEW id \in Id, NEW k \in Lane, log[id].lane = k, worker'[k] # "failed"
        PROVE  id \in C1 \/ id \in B1[k] \/ Waits(channel'[k], id)
    <3>1. CASE k = l
      BY <1>2, <2>5, <3>1
    <3>2. CASE k # l
      BY <1>2, <2>3, <2>5, <3>2
    <3> QED
      BY <3>1, <3>2
  <2> HIDE DEF C1
  <2>6. Sorted(C1, B1)'
    BY <1>1, <2>1, <2>2, <2>4, <2>5 DEF Sorted, C1, B1
  <2> QED
    BY <2>2, <2>6 DEF CountInv
<1>4. CASE counted' = counted /\ inBatch'[l] = Cardinality(D)
  <2> DEFINE B1 == [B EXCEPT ![l] = D]
  <2>1. B1 \in [Lane -> SUBSET Id'] /\ C \in SUBSET Id'
    BY <1>1
  <2>2. B1[l] = D /\ \A k \in Lane : k # l => B1[k] = B[k]
    OBVIOUS
  <2> HIDE DEF B1
  <2>3. ASSUME NEW k \in Lane
        PROVE  /\ Cardinality(B1[k]) = inBatch'[k]
               /\ \A id \in B1[k] : id \notin C /\ log[id].lane = k
               /\ \A id \in Id : Waits(channel'[k], id) => id \notin C /\ id \notin B1[k]
    <3>1. CASE k = l
      BY <1>2, <1>4, <2>2, <3>1
    <3>2. CASE k # l
      BY <1>2, <2>2, <3>2
    <3> QED
      BY <3>1, <3>2
  <2>4. ASSUME NEW id \in Id, NEW k \in Lane, log[id].lane = k, worker'[k] # "failed"
        PROVE  id \in C \/ id \in B1[k] \/ Waits(channel'[k], id)
    <3>1. CASE k = l
      BY <1>2, <2>2, <2>4, <3>1
    <3>2. CASE k # l
      BY <1>2, <2>2, <2>4, <3>2
    <3> QED
      BY <3>1, <3>2
  <2>5. Sorted(C, B1)'
    BY <1>1, <1>2, <1>4, <2>1, <2>3, <2>4 DEF Sorted
  <2> QED
    BY <2>1, <2>5 DEF CountInv
<1> QED
  BY <1>3, <1>4

(* A worker that finds its channel empty counts its batch. *)
LEMMA FindKeepsHeld ==
  ASSUME ProtocolInv, AlignInv, HeldInv, QueueInv, CountInv, NEW l \in Lane,
         FindEmpty(l) \/ FindClosed(l)
  PROVE  HeldInv' /\ QueueInv' /\ CountInv'
<1>1. /\ UNCHANGED <<log, engine, channel, published, reports, at, order, laneOpen>>
      /\ worker[l] \in {"recv", "batch"} /\ channel[l] = <<>>
      /\ worker' = [worker EXCEPT ![l] = "loop"]
      /\ counted' = counted + inBatch[l]
      /\ inBatch' = [inBatch EXCEPT ![l] = 0]
      /\ drained' \in {drained, drained \cup {l}}
      /\ drained' = drained \cup {l} => drained' = drained \/ ~laneOpen[l]
  BY DEF FindEmpty, FindClosed, boundary, coord, capture
<1>2. TypeInv /\ inBatch \in [Lane -> Nat] /\ counted \in Nat
  BY DEF AlignInv, QueueInv
<1>3. /\ worker'[l] = "loop" /\ inBatch'[l] = 0
      /\ \A k \in Lane : k # l => worker'[k] = worker[k] /\ inBatch'[k] = inBatch[k]
  BY <1>1, <1>2, WorkerTyped
<1>4. HeldInv'
  <2>1. HeldFrame
    BY <1>1, <1>3 DEF HeldFrame
  <2> QED
    BY <2>1, HeldStays
<1>5. QueueInv'
  <2>1. AfterDrain' <=> AfterDrain
    BY <1>1 DEF AfterDrain
  <2>2. \A k \in Lane : k \in drained' => Drained(k)'
    BY <1>1 DEF QueueInv, Drained
  <2>3. inBatch' \in [Lane -> Nat] /\ counted' \in Nat
    BY <1>1, <1>2
  <2>4. Id' = Id
    BY <1>1 DEF Id
  <2>5. \A k \in Lane : inBatch'[k] # 0 => worker'[k] \in {"batch", "failed"}
    BY <1>3 DEF QueueInv
  <2> QED
    BY <1>1, <2>1, <2>2, <2>3, <2>4, <2>5 DEF QueueInv
<1>6. CountInv'
  <2>1. PICK C \in SUBSET Id, B \in [Lane -> SUBSET Id] : Sorted(C, B)
    BY DEF CountInv
  <2>2. /\ Cardinality(B[l]) = inBatch[l] /\ B[l] \in SUBSET Id
        /\ \A id \in B[l] : id \notin C /\ log[id].lane = l
    BY <2>1 DEF Sorted
  <2>3. \A id : ~Waits(channel[l], id) /\ ~Waits(channel'[l], id)
    BY <1>1, EmptyQueue
  <2>4. \A k \in Lane : k # l => /\ channel'[k] = channel[k] /\ inBatch'[k] = inBatch[k]
                                 /\ worker'[k] = worker[k]
    BY <1>1, <1>3
  <2>5. worker[l] # "failed" /\ counted' = counted + Cardinality(B[l]) /\ inBatch'[l] = 0
        /\ log' = log
    BY <1>1, <1>3, <2>2
  <2> QED
    BY <1>2, <2>1, <2>2, <2>3, <2>4, <2>5, BatchMoves
<1> QED
  BY <1>4, <1>5, <1>6

(* What a step that takes the head of a channel does to the queues. *)
LEMMA TakeHead ==
  ASSUME ProtocolInv, AlignInv, QueueInv, NEW l \in Lane, channel[l] # <<>>,
         channel' = [channel EXCEPT ![l] = Tail(@)]
  PROVE  /\ Head(channel[l]) \in Id /\ log[Head(channel[l])].lane = l
         /\ log[Head(channel[l])].ts \in Nat
         /\ Waits(channel[l], Head(channel[l])) /\ ~Waits(channel'[l], Head(channel[l]))
         /\ \A id : Waits(channel'[l], id) => Waits(channel[l], id)
         /\ \A id : Waits(channel[l], id) => id = Head(channel[l]) \/ Waits(channel'[l], id)
         /\ \A k \in Lane : Increasing(channel'[k])
         /\ \A k \in Lane : k # l => channel'[k] = channel[k]
         /\ \A k \in Lane : \A id : Waits(channel'[k], id) => Waits(channel[k], id)
         /\ l \notin drained
<1>1. TypeInv /\ channel \in [Lane -> Seq(Id)]
  BY DEF AlignInv, TypeInv
<1>2. channel'[l] = Tail(channel[l]) /\ \A k \in Lane : k # l => channel'[k] = channel[k]
  BY <1>1
<1>3. Id \in SUBSET Nat /\ channel[l] \in Seq(Id) /\ Increasing(channel[l])
  BY <1>1, IdFacts DEF QueueInv
<1> DEFINE s == channel[l]
<1>4. /\ Head(s) \in Id /\ Tail(s) \in Seq(Id) /\ Increasing(Tail(s))
      /\ Waits(s, Head(s)) /\ ~Waits(Tail(s), Head(s))
      /\ \A id : Waits(Tail(s), id) => Waits(s, id)
      /\ \A id : Waits(s, id) => id = Head(s) \/ Waits(Tail(s), id)
  BY <1>3, TailOfQueue, Zenon
<1>5. log[Head(s)] \in [lane : Lane, ts : Nat]
  BY <1>1, <1>4, IdFacts
<1>6. log[Head(s)].lane = l
  BY <1>4 DEF QueueInv
<1>7. \A k \in Lane : Increasing(channel'[k])
  BY <1>2, <1>4 DEF QueueInv
<1>8. l \notin drained
  BY DEF QueueInv, Drained
<1> QED
  BY <1>2, <1>4, <1>5, <1>6, <1>7, <1>8

(* A refused event fails its lane. *)
LEMMA RefuseKeepsHeld ==
  ASSUME ProtocolInv, AlignInv, HeldInv, QueueInv, CountInv, NEW l \in Lane, RefuseEvent(l)
  PROVE  HeldInv' /\ QueueInv' /\ CountInv'
<1>1. /\ UNCHANGED <<log, engine, published, reports, at, order, laneOpen, inBatch, counted,
                     drained>>
      /\ channel[l] # <<>> /\ channel' = [channel EXCEPT ![l] = Tail(@)]
      /\ worker' = [worker EXCEPT ![l] = "failed"]
  BY DEF RefuseEvent, Fail, boundary, coord, capture
<1>2. worker'[l] = "failed" /\ \A k \in Lane : k # l => worker'[k] = worker[k]
  BY <1>1, WorkerTyped
<1>3. /\ \A k \in Lane : Increasing(channel'[k])
      /\ \A k \in Lane : k # l => channel'[k] = channel[k]
      /\ \A k \in Lane : \A id : Waits(channel'[k], id) => Waits(channel[k], id)
      /\ l \notin drained
  BY <1>1, TakeHead, Zenon
<1>4. Id' = Id
  BY <1>1 DEF Id
<1>5. HeldInv'
  <2> SUFFICES ASSUME at \notin Closing, NEW k \in Lane, worker'[k] # "failed",
                      NEW id \in Id, log[id].lane = k
               PROVE  Held(k, id)'
    BY <1>1, <1>4 DEF HeldInv
  <2>1. k # l /\ worker'[k] = worker[k] /\ channel'[k] = channel[k]
    BY <1>2, <1>3
  <2>2. Held(k, id)
    BY <2>1 DEF HeldInv
  <2>3. InReport(k, id)' <=> InReport(k, id)
    BY <1>1 DEF InReport
  <2> QED
    BY <1>1, <2>1, <2>2, <2>3 DEF Held
<1>6. QueueInv'
  <2>1. AfterDrain' <=> AfterDrain
    BY <1>1 DEF AfterDrain
  <2>2. \A k \in Lane : k \in drained' => Drained(k)'
    BY <1>1, <1>3 DEF QueueInv, Drained
  <2>3. \A k \in Lane : inBatch'[k] # 0 => worker'[k] \in {"batch", "failed"}
    BY <1>1, <1>2 DEF QueueInv
  <2>4. \A k \in Lane : \A id \in Id : Waits(channel'[k], id) => log[id].lane = k
    BY <1>3 DEF QueueInv
  <2> QED
    BY <1>1, <1>3, <1>4, <2>1, <2>2, <2>3, <2>4 DEF QueueInv
<1>7. CountInv'
  <2>1. PICK C \in SUBSET Id, B \in [Lane -> SUBSET Id] : Sorted(C, B)
    BY DEF CountInv
  <2>2. ASSUME NEW k \in Lane
        PROVE  /\ Cardinality(B[k]) = inBatch'[k]
               /\ \A id \in B[k] : id \notin C /\ log'[id].lane = k
               /\ \A id \in Id : Waits(channel'[k], id) => id \notin C /\ id \notin B[k]
    BY <1>1, <1>3, <2>1 DEF Sorted
  <2>3. ASSUME NEW id \in Id, NEW k \in Lane, log'[id].lane = k, worker'[k] # "failed"
        PROVE  id \in C \/ id \in B[k] \/ Waits(channel'[k], id)
    <3>1. k # l /\ worker'[k] = worker[k] /\ channel'[k] = channel[k]
      BY <1>2, <1>3, <2>3
    <3> QED
      BY <1>1, <2>1, <2>3, <3>1 DEF Sorted
  <2>4. Cardinality(C) = counted'
    BY <1>1, <2>1 DEF Sorted
  <2>5. Sorted(C, B)'
    BY <1>4, <2>2, <2>3, <2>4 DEF Sorted
  <2> QED
    BY <1>4, <2>5 DEF CountInv
<1> QED
  BY <1>5, <1>6, <1>7

(* A lane's engine takes an event and forgets none. *)
LEMMA EngineTakes ==
  ASSUME NEW I, NEW rq \in RunningQuery(I), RingOK(rq.buckets, Ring), NEW ts \in Nat,
         NEW new \in I
  PROVE  /\ Holds(ProcessMatching(rq, Ring, ts, new), new)
         /\ \A id : Holds(rq, id) => Holds(ProcessMatching(rq, Ring, ts, new), id)
<1>1. Ring \in Nat \ {0}
  BY RingFacts
<1> DEFINE after == ProcessMatching(rq, Ring, ts, new)
<1>2. /\ Holds(after, new)
      /\ \A x : Holds(rq, x) => Holds(after, x)
      /\ rq.buckets = <<>> \/ BackStart(rq) <= ts => after.late = rq.late
  BY <1>1, ProcessHolds
<1> QED
  BY <1>2

(* A processed event goes from the channel into the engine and the batch.  *)
LEMMA ProcessKeepsHeld ==
  ASSUME ProtocolInv, AlignInv, HeldInv, QueueInv, CountInv, NEW l \in Lane, ProcessEvent(l)
  PROVE  HeldInv' /\ QueueInv' /\ CountInv'
<1> DEFINE h  == Head(channel[l])
           ts == log[h].ts
           e  == ProcessMatching(engine[l], Ring, ts, h)
<1>1. /\ UNCHANGED <<log, published, reports, at, order, laneOpen, drained>>
      /\ worker[l] \in {"recv", "batch"} /\ channel[l] # <<>>
      /\ channel' = [channel EXCEPT ![l] = Tail(@)]
      /\ engine' = [engine EXCEPT ![l] = e]
      /\ worker' = [worker EXCEPT ![l] = IF inBatch[l] + 1 = BatchSize THEN "loop" ELSE "batch"]
      /\ inBatch' = [inBatch EXCEPT ![l] = IF inBatch[l] + 1 = BatchSize THEN 0 ELSE @ + 1]
      /\ counted' = IF inBatch[l] + 1 = BatchSize THEN counted + BatchSize ELSE counted
  BY DEF ProcessEvent, boundary, coord, capture
<1>2. /\ TypeInv /\ inBatch \in [Lane -> Nat] /\ counted \in Nat /\ DOMAIN engine = Lane
      /\ EngineOK(engine[l])
  BY DEF AlignInv, TypeInv, QueueInv
<1>3. /\ h \in Id /\ log[h].lane = l /\ ts \in Nat
      /\ Waits(channel[l], h) /\ ~Waits(channel'[l], h)
      /\ \A id : Waits(channel'[l], id) => Waits(channel[l], id)
      /\ \A id : Waits(channel[l], id) => id = h \/ Waits(channel'[l], id)
      /\ \A k \in Lane : Increasing(channel'[k])
      /\ \A k \in Lane : k # l => channel'[k] = channel[k]
      /\ \A k \in Lane : \A id : Waits(channel'[k], id) => Waits(channel[k], id)
      /\ l \notin drained
  BY <1>1, TakeHead, Zenon
<1> HIDE DEF ts, h
<1>4. Holds(e, h) /\ \A id : Holds(engine[l], id) => Holds(e, id)
  <2>1. engine[l] \in RunningQuery(Id) /\ RingOK(engine[l].buckets, Ring)
    BY <1>2 DEF EngineOK
  <2> QED
    BY <1>3, <2>1, EngineTakes
<1> HIDE DEF e
<1>5. /\ engine'[l] = e /\ \A k \in Lane : k # l => engine'[k] = engine[k]
      /\ worker'[l] \in {"loop", "batch"} /\ \A k \in Lane : k # l => worker'[k] = worker[k]
      /\ inBatch'[l] = IF inBatch[l] + 1 = BatchSize THEN 0 ELSE inBatch[l] + 1
      /\ worker'[l] = IF inBatch[l] + 1 = BatchSize THEN "loop" ELSE "batch"
      /\ \A k \in Lane : k # l => inBatch'[k] = inBatch[k]
  BY <1>1, <1>2, WorkerTyped
<1>6. Id' = Id
  BY <1>1 DEF Id
<1>7. HeldInv'
  <2> SUFFICES ASSUME at \notin Closing, NEW k \in Lane, worker'[k] # "failed",
                      NEW id \in Id, log[id].lane = k
               PROVE  Held(k, id)'
    BY <1>1, <1>6 DEF HeldInv
  <2>1. Held(k, id)
    BY <1>1, <1>5 DEF HeldInv
  <2>2. InReport(k, id)' <=> InReport(k, id)
    BY <1>1 DEF InReport
  <2>3. CASE k # l
    BY <1>1, <1>3, <1>5, <2>1, <2>2, <2>3 DEF Held
  <2>4. CASE k = l
    <3>1. id \in engine[l].late => Holds(engine[l], id)
      BY DEF Holds
    <3>2. worker'[k] # "ended"
      BY <1>5, <2>4
    <3>3. Waits(channel[l], id) => Holds(engine'[l], id) \/ Waits(channel'[l], id)
      BY <1>3, <1>4, <1>5
    <3>4. Holds(engine[l], id) => Holds(engine'[l], id)
      BY <1>4, <1>5
    <3> QED
      BY <1>1, <2>1, <2>2, <2>4, <3>1, <3>2, <3>3, <3>4 DEF Held
  <2> QED
    BY <2>3, <2>4
<1>8. QueueInv'
  <2>1. AfterDrain' <=> AfterDrain
    BY <1>1 DEF AfterDrain
  <2>2. \A k \in Lane : k \in drained' => Drained(k)'
    BY <1>1, <1>3 DEF QueueInv, Drained
  <2>3. \A k \in Lane : inBatch'[k] # 0 => worker'[k] \in {"batch", "failed"}
    BY <1>5 DEF QueueInv
  <2>4. \A k \in Lane : \A id \in Id : Waits(channel'[k], id) => log[id].lane = k
    BY <1>3 DEF QueueInv
  <2>5. inBatch' \in [Lane -> Nat] /\ counted' \in Nat
    BY <1>1, <1>2, LanesAssumption
  <2> QED
    BY <1>1, <1>3, <1>6, <2>1, <2>2, <2>3, <2>4, <2>5 DEF QueueInv
<1>9. CountInv'
  <2>1. PICK C \in SUBSET Id, B \in [Lane -> SUBSET Id] : Sorted(C, B)
    BY DEF CountInv
  <2> DEFINE D == B[l] \cup {h}
  <2>2. /\ Cardinality(B[l]) = inBatch[l] /\ B[l] \in SUBSET Id
        /\ \A id \in B[l] : id \notin C /\ log[id].lane = l
        /\ \A id \in Id : Waits(channel[l], id) => id \notin C /\ id \notin B[l]
    BY <2>1 DEF Sorted
  <2>3. Cardinality(D) = inBatch[l] + 1
    <3>1. IsFiniteSet(B[l]) /\ h \notin B[l]
      BY <1>2, <1>3, <2>2, IdFacts, FS_Subset
    <3> QED
      BY <2>2, <3>1, FS_AddElement
  <2>4. /\ D \in SUBSET Id /\ B[l] \subseteq D
        /\ \A id \in D : id \notin C /\ log[id].lane = l
    BY <1>3, <2>2
  <2>5. \A id \in Id : Waits(channel'[l], id) => Waits(channel[l], id) /\ id \notin D
    BY <1>3, <2>2
  <2>6. \A id \in Id : Waits(channel[l], id) => id \in D \/ Waits(channel'[l], id)
    BY <1>3
  <2> HIDE DEF D
  <2>7. \/ counted' = counted + Cardinality(D) /\ inBatch'[l] = 0
        \/ counted' = counted /\ inBatch'[l] = Cardinality(D)
    BY <1>1, <1>5, <2>3
  <2>8. \A k \in Lane : k # l => /\ channel'[k] = channel[k] /\ inBatch'[k] = inBatch[k]
                                 /\ worker'[k] = worker[k]
    BY <1>3, <1>5
  <2>9. worker[l] # "failed" /\ log' = log
    BY <1>1
  <2> QED
    BY <1>2, <2>1, <2>4, <2>5, <2>6, <2>7, <2>8, <2>9, BatchMoves
<1> QED
  BY <1>7, <1>8, <1>9

(* The advance to the watermark forgets nothing. *)
LEMMA AdvancedHolds ==
  ASSUME NEW rq, EngineOK(rq), NEW w \in Nat \cup {NoTs}, NEW id, Holds(rq, id)
  PROVE  Holds(Advanced(rq, w), id)
<1>1. CASE w = NoTs
  BY <1>1 DEF Advanced
<1>2. CASE w # NoTs
  <2>1. w \in Nat /\ Advanced(rq, w) = AdvanceToBucket(rq, Ring, w)
    BY <1>2 DEF Advanced
  <2>2. rq \in RunningQuery(Id) /\ RingOK(rq.buckets, Ring) /\ Ring \in Nat \ {0}
    BY RingFacts DEF EngineOK
  <2>3. Holds(AdvanceToBucket(rq, Ring, w), id)
    BY <2>1, <2>2, AdvanceHolds
  <2> QED
    BY <2>1, <2>3
<1> QED
  BY <1>1, <1>2

(* What a report that succeeded does with the events of its engine. *)
LEMMA ReportHolds ==
  ASSUME TypeInv, NEW l \in Lane, BuildReport(l).ok, NEW id, Holds(engine[l], id)
  PROVE  \/ id \in BuildReport(l).engine.late \/ InSome(BuildReport(l).completed, id)
         \/ ~order.finish /\ Holds(BuildReport(l).engine, id)
<1> DEFINE built == BuildReport(l)
           moved == Advanced(engine[l], order.watermark)
<1>1. EngineOK(engine[l]) /\ order.watermark \in Nat \cup {NoTs}
  BY DEF TypeInv
<1>2. /\ EngineOK(moved) /\ BackStart(moved) = Larger(BackStart(engine[l]), order.watermark)
      /\ ~built.ok => built.engine \in {engine[l], moved}
      /\ built.ok =>
           /\ ~AdvanceRefused(engine[l], order.watermark)
           /\ order.finish => CanEmit(moved, Capacity, 1)
           /\ \E x : built.engine = [[moved EXCEPT !.emitted = x] EXCEPT !.emitted = <<>>]
           /\ built.completed = IF order.finish THEN FinishQuery(moved).emitted
                                                ELSE moved.emitted
           /\ Bounds(built.current) = <<FrontStart(moved), BackStart(moved) + 1>>
  BY BuildIs, Zenon
<1>3. Holds(moved, id)
  BY <1>1, AdvancedHolds
<1> HIDE DEF moved, built
<1>4. moved \in RunningQuery(Id) /\ built.ok
  BY <1>2 DEF EngineOK, built
<1>5. built.engine.late = moved.late /\ built.engine.buckets = moved.buckets
  <2>1. PICK x : built.engine = [[moved EXCEPT !.emitted = x] EXCEPT !.emitted = <<>>]
    BY <1>2, <1>4
  <2> QED
    BY <1>4, <2>1 DEF RunningQuery
<1>6. CASE order.finish
  <2>1. id \in moved.late \/ InSome(FinishQuery(moved).emitted, id)
    BY <1>3, <1>4, FinishHolds
  <2>2. built.completed = FinishQuery(moved).emitted
    BY <1>2, <1>4, <1>6
  <2> QED
    BY <1>5, <2>1, <2>2 DEF built
<1>7. CASE ~order.finish
  <2>1. built.completed = moved.emitted
    BY <1>2, <1>4, <1>7
  <2>2. InRing(moved, id) => InRing(built.engine, id)
    BY <1>5 DEF InRing
  <2> QED
    BY <1>3, <1>5, <1>7, <2>1, <2>2 DEF Holds, built
<1> QED
  BY <1>6, <1>7

(* A report takes over what its engine completed. *)
LEMMA CheckpointKeepsHeld ==
  ASSUME ProtocolInv, AlignInv, HeldInv, QueueInv, CountInv, NEW l \in Lane, ObeyCheckpoint(l)
  PROVE  HeldInv' /\ QueueInv' /\ CountInv'
<1> DEFINE built == BuildReport(l)
           rep   == IF built.ok
                      THEN [lane |-> l, ok |-> TRUE, current |-> built.current,
                            completed |-> built.completed]
                      ELSE [lane |-> l, ok |-> FALSE]
<1>1. /\ worker[l] = "paused" /\ control[l] # <<>> /\ Head(control[l]) = "checkpoint"
      /\ engine' = [engine EXCEPT ![l] = built.engine]
      /\ at \in Answering =>
           /\ reports' = reports \cup {rep}
           /\ worker' = [worker EXCEPT ![l] = IF order.finish THEN "ended" ELSE "loop"]
      /\ at \notin Answering => worker' = [worker EXCEPT ![l] = "failed"]
      /\ UNCHANGED <<log, published, order, at, channel, inBatch, counted, drained, laneOpen>>
  BY DEF ObeyCheckpoint, coord, capture, Answering, Fail
<1>2. /\ rep.lane = l /\ rep.ok = built.ok
      /\ built.ok => rep.completed = built.completed
  <2>0. built.ok \in BOOLEAN
    <3> DEFINE moved == Advanced(engine[l], order.watermark)
    <3> HIDE DEF moved
    <3> QED
      BY DEF BuildReport
  <2> HIDE DEF built
  <2> QED
    BY <2>0
<1> HIDE DEF rep
<1>3. TypeInv /\ DOMAIN engine = Lane
  BY DEF AlignInv, TypeInv
<1>4. /\ \A k \in Lane : k # l => worker'[k] = worker[k] /\ engine'[k] = engine[k]
      /\ engine'[l] = built.engine
      /\ at \in Answering => worker'[l] = IF order.finish THEN "ended" ELSE "loop"
  <2> HIDE DEF built
  <2> QED
    BY <1>1, <1>3, WorkerTyped
<1>5. QueueInv' /\ CountInv'
  <2>1. AfterDrain' <=> AfterDrain
    BY <1>1 DEF AfterDrain
  <2>2. QueueFrame
    BY <1>1, <1>4, <2>1 DEF QueueFrame
  <2> QED
    BY <2>2, QueueStays
<1>6. at \in Answering \cup Closing
  <2>1. ~Asked(l)
    BY <1>1 DEF Asked, Busy
  <2> QED
    BY <1>1, <2>1, PendingMessage DEF Closing, Answering
<1>7. HeldInv'
  <2> SUFFICES ASSUME at \notin Closing, NEW k \in Lane, worker'[k] # "failed",
                      NEW id \in Id, log[id].lane = k
               PROVE  Held(k, id)'
    BY <1>1 DEF HeldInv, Id
  <2>1. Held(k, id) /\ at \in Answering /\ reports' = reports \cup {rep}
    BY <1>1, <1>4, <1>6 DEF HeldInv
  <2>2. InReport(k, id) => InReport(k, id)'
    BY <2>1 DEF InReport
  <2>3. CASE k # l
    BY <1>1, <1>4, <2>1, <2>2, <2>3 DEF Held
  <2>4. CASE k = l /\ ~built.ok
    <3>1. InReport(k, id)'
      BY <1>2, <2>1, <2>4 DEF InReport
    <3> QED
      BY <1>1, <2>1, <3>1 DEF Held
  <2>5. CASE k = l /\ built.ok
    <3>1. InSome(built.completed, id) => InReport(k, id)'
      BY <1>2, <2>1, <2>5 DEF InReport
    <3>2. Holds(engine[l], id) =>
            \/ id \in built.engine.late \/ InSome(built.completed, id)
            \/ ~order.finish /\ Holds(built.engine, id)
      BY <1>3, <2>5, ReportHolds
    <3>3. id \in engine[l].late => Holds(engine[l], id)
      BY DEF Holds
    <3>4. Waits(channel[l], id) => ~order.finish
      <4> SUFFICES ASSUME order.finish PROVE ~Waits(channel[l], id)
        OBVIOUS
      <4>1. AfterDrain
        BY <2>1 DEF AfterDrain, Answering, Closing
      <4>2. channel[l] = <<>>
        BY <4>1 DEF QueueInv, Drained
      <4> QED
        BY <4>2, EmptyQueue
    <3>5. ~order.finish => worker'[l] # "ended"
      BY <1>4, <2>1
    <3> HIDE DEF built
    <3> QED
      BY <1>1, <1>4, <2>1, <2>2, <2>5, <3>1, <3>2, <3>3, <3>4, <3>5 DEF Held
  <2> QED
    BY <2>3, <2>4, <2>5
<1> QED
  BY <1>5, <1>7

(* A publication takes over what was reported. *)
LEMMA PublishKeepsHeld ==
  ASSUME ProtocolInv, AlignInv, HeldInv, QueueInv, CountInv, Publish
  PROVE  HeldInv' /\ QueueInv' /\ CountInv'
<1> DEFINE out == InKeyOrder(Merged(UNION {Windows(r.completed) : r \in reports}))
<1>1. /\ at = "reports" /\ Cardinality(reports) = LaneCount /\ \A r \in reports : r.ok
      /\ UNCHANGED <<log, engine, worker, order, channel, inBatch, counted, drained, laneOpen>>
      /\ \/ at' = "drop"
         \/ /\ published' = published \o out
            /\ at' = "drop" \/ (at' = "join" /\ order.finish) \/ (at' = "idle" /\ ~order.finish)
  BY DEF Publish, Abort, GoTo, workers, boundary, capture
<1>2. QueueInv' /\ CountInv'
  <2>1. AfterDrain' => AfterDrain
    BY <1>1 DEF AfterDrain, Closing
  <2>2. QueueFrame
    BY <1>1, <2>1 DEF QueueFrame
  <2> QED
    BY <2>2, QueueStays
<1>3. HeldInv'
  <2> SUFFICES ASSUME at' \notin Closing, NEW l \in Lane, worker[l] # "failed",
                      NEW id \in Id, log[id].lane = l
               PROVE  Held(l, id)'
    BY <1>1 DEF HeldInv, Id
  <2>1. published' = published \o out
    BY <1>1 DEF Closing
  <2>2. PICK f \in Nat, b \in Nat : Boundary(f, b)
    BY <1>1 DEF AlignInv, Live, Answering
  <2>3. /\ out \in Seq(WindowState(Id)) /\ InOrder(out)
        /\ \A i \in 1 .. Len(out) :
             /\ b < out[i].end
             /\ ~order.finish => out[i].end <= Reached(b)
             /\ out[i].start = Larger(f, out[i].end - Ring)
        /\ \A r \in reports : \A i : InSome(r.completed, i) => InSome(out, i)
    BY <1>1, <2>2, ReportsMerge, Zenon
  <2> HIDE DEF out
  <2>4. published \in Seq(WindowState(Id))
    BY DEF AlignInv, TypeInv
  <2>5. InSome(published', id) <=> InSome(published, id) \/ InSome(out, id)
    BY <2>1, <2>3, <2>4, InSomeConcat
  <2>6. Held(l, id)
    BY <1>1 DEF HeldInv, Closing
  <2>7. InReport(l, id) => InSome(out, id)
    BY <1>1, <2>3 DEF InReport
  <2> QED
    BY <1>1, <2>5, <2>6, <2>7 DEF Held
<1> QED
  BY <1>2, <1>3

(* Before any event. *)
LEMMA HeldInit ==
  ASSUME Init
  PROVE  HeldInv /\ QueueInv /\ CountInv
<1>1. Id = {} /\ log = <<>>
  BY EmptySeq DEF Init, Id
<1>2. HeldInv
  BY <1>1 DEF HeldInv
<1>3. QueueInv
  BY <1>1, EmptyQueue DEF Init, QueueInv, AfterDrain, NoOrder
<1>4. CountInv
  <2> DEFINE B == [l \in Lane |-> {}]
  <2>1. Cardinality({}) = 0 /\ {} \in SUBSET Id /\ B \in [Lane -> SUBSET Id]
    BY FS_EmptySet
  <2>2. counted = 0 /\ \A l \in Lane : B[l] = {} /\ inBatch[l] = 0
    BY DEF Init
  <2> HIDE DEF B
  <2>3. Sorted({}, B)
    BY <1>1, <2>1, <2>2 DEF Sorted
  <2> QED
    BY <2>1, <2>3 DEF CountInv
<1> QED
  BY <1>2, <1>3, <1>4

(* Every step knows where the events are. *)
LEMMA NextKeepsHeld ==
  ASSUME ProtocolInv, AlignInv, HeldInv, QueueInv, CountInv, [Next]_vars
  PROVE  HeldInv' /\ QueueInv' /\ CountInv'
<1>1. ASSUME HeldFrame, QueueFrame PROVE HeldInv' /\ QueueInv' /\ CountInv'
  BY <1>1, HeldStays, QueueStays
<1>2. ASSUME NEW l \in Lane, Worker(l) PROVE HeldInv' /\ QueueInv' /\ CountInv'
  BY <1>1, <1>2, WorkerWaits, FindKeepsHeld, ProcessKeepsHeld, RefuseKeepsHeld,
     CheckpointKeepsHeld DEF Worker
<1>3. CASE Coordinator
  BY <1>1, <1>3, CoordinatorWaits, PublishKeepsHeld
<1>4. ASSUME NEW l \in Lane, CloseLane(l) PROVE HeldInv' /\ QueueInv' /\ CountInv'
  BY <1>1, <1>4, CloseLaneWaits
<1>5. CASE UNCHANGED vars
  <2>1. UNCHANGED <<log, engine, channel, at, published, reports, order, inBatch, counted,
                    drained, worker, laneOpen>>
    BY <1>5 DEF vars, workers, boundary, coord, capture
  <2>2. AfterDrain' <=> AfterDrain
    BY <2>1 DEF AfterDrain
  <2> QED
    BY <1>1, <2>1, <2>2 DEF HeldFrame, QueueFrame
<1> QED
  BY <1>2, <1>3, <1>4, <1>5, OfferKeepsHeld DEF Next, Terminated

(* When the final checkpoint has succeeded nothing is left anywhere. *)
LEMMA DoneLosesNothing ==
  ASSUME ProtocolInv, AlignInv, HeldInv, QueueInv, CountInv
  PROVE  NothingLost
<1> SUFFICES ASSUME at = "done"
             PROVE  /\ counted = Len(log)
                    /\ \A id \in Id : \/ id \in engine[log[id].lane].late
                                      \/ InSome(published, id)
  BY DEF NothingLost, InSome
<1>1. TypeInv
  BY DEF AlignInv
<1>2. \A l \in Lane : worker[l] = "ended" /\ inBatch[l] = 0 /\ channel[l] = <<>>
  <2>1. \A l \in Lane : worker[l] = "ended"
    BY DEF ProtocolInv, InPhase
  <2>2. \A l \in Lane : inBatch[l] = 0 /\ Drained(l)
    BY <2>1 DEF QueueInv, AfterDrain
  <2> QED
    BY <2>1, <2>2 DEF Drained
<1>3. \A id \in Id : log[id].lane \in Lane
  BY <1>1, IdFacts
<1>4. ASSUME NEW id \in Id PROVE id \in engine[log[id].lane].late \/ InSome(published, id)
  <2>1. Held(log[id].lane, id)
    BY <1>2, <1>3 DEF HeldInv, Closing
  <2> QED
    BY <1>2, <1>3, <2>1 DEF Held, Answering
<1>5. counted = Len(log)
  <2>1. PICK C \in SUBSET Id, B \in [Lane -> SUBSET Id] : Sorted(C, B)
    BY DEF CountInv
  <2>2. \A l \in Lane : B[l] = {}
    <3> SUFFICES ASSUME NEW l \in Lane PROVE B[l] = {}
      OBVIOUS
    <3>1. IsFiniteSet(B[l])
      BY <1>1, IdFacts, FS_Subset
    <3>2. Cardinality(B[l]) = 0
      BY <1>2, <2>1 DEF Sorted
    <3> QED
      BY <3>1, <3>2, FS_EmptySet
  <2>3. \A id \in Id : id \in C
    BY <1>2, <1>3, <2>1, <2>2, EmptyQueue DEF Sorted
  <2>4. C = Id
    BY <2>3
  <2> QED
    BY <1>1, <2>1, <2>4, IdFacts DEF Sorted
<1> QED
  BY <1>4, <1>5

(* Nothing is lost by the queue-local runtime: when queue_local_engine_loop*)
(* has run its final checkpoint, every event a channel accepted was counted*)
(* and is late or in a published window, for any number of lanes, batch    *)
(* size, channel capacity and interleaving.                                *)
THEOREM LanesLoseNothing == Spec => []NothingLost
<1> DEFINE All == (ProtocolInv /\ AlignInv) /\ (HeldInv /\ QueueInv /\ CountInv)
<1>1. Init => All
  BY ProtocolInit, AlignInit, HeldInit
<1>2. All /\ [Next]_vars => All'
  BY NextKeepsProtocol, NextKeepsAligned, NextKeepsHeld
<1>3. All => NothingLost
  BY DoneLosesNothing
<1> QED
  BY <1>1, <1>2, <1>3, PTL DEF Spec
===============================================================================
