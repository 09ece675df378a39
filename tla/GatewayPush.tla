----------------------------- MODULE GatewayPush ------------------------------
(***************************************************************************)
(* Agents pushing to the gateway.  The pusher thread of an agent posts its *)
(* latest snapshots once per interval and retries the same body up to      *)
(* ATTEMPTS times.  The gateway gives a request a connection slot and a    *)
(* share of the body budget, or answers 503.  A request whose client has   *)
(* timed out may still be in the hands of a connection thread, which       *)
(* applies it whenever it gets to run: before or after requests sent later.*)
(***************************************************************************)
EXTENDS Gateway, Sequences

CONSTANTS
  Attempts,       \* ATTEMPTS of push_batch
  MaxConnections, \* MAX_CONCURRENT_CONNECTIONS
  MaxBody,        \* MAX_PUSH_BODY_BYTES, which is MAX_BODY_BYTES
  MaxInflight,    \* MAX_INFLIGHT_BODY_BYTES
  Stream,         \* the snapshots an agent publishes, in order
  MaxFaults       \* timeouts and failed connections in one behaviour (bound)

ASSUME PushAssumption ==
  /\ {Attempts, MaxConnections, MaxBody, MaxInflight} \subseteq Nat \ {0}
  /\ Stream \in Seq(Snapshot) /\ Stream # <<>>
  /\ MaxBody <= MaxInflight
  /\ MaxFaults \in Nat

VARIABLES
  made,       \* made[n]   : position in Stream of the agent's latest snapshot
  client,     \* client[n] : [at, attempt, body], the pusher thread
  active,     \* active_connections
  inflight,   \* inflight_body_bytes
  delayed,    \* delayed[n][b] : abandoned requests with body b, not applied yet
  faults      \* timeouts and failed connections so far

limits   == <<active, inflight>>
pushVars == <<made, client, limits, delayed, faults>>
allVars  == <<vars, pushVars>>

Body == 1 .. Len(Stream)

(* The frame around the snapshots is left out. *)
BodyBytes(b) == QueryCount * Stream[b].bytes

PushInit ==
  /\ Init
  /\ made = [n \in Node |-> 1]
  /\ client = [n \in Node |-> [at |-> "idle", attempt |-> 0, body |-> 1]]
  /\ active = 0 /\ inflight = 0
  /\ delayed = [n \in Node |-> [b \in Body |-> 0]]
  /\ faults = 0

-------------------------------------------------------------------------------
(* The agent. *)

(* The engine thread refreshes the agent's snapshots. *)
Refresh(n) ==
  /\ made[n] < Len(Stream)
  /\ made' = [made EXCEPT ![n] = @ + 1]
  /\ UNCHANGED <<vars, client, limits, delayed, faults>>

(* The interval is over: push the latest snapshots, unless they are too    *)
(* large to be sent at all.                                                *)
StartPush(n) ==
  /\ client[n].at = "idle" /\ BodyBytes(made[n]) <= MaxBody
  /\ client' = [client EXCEPT ![n] = [at |-> "sent", attempt |-> 1, body |-> made[n]]]
  /\ UNCHANGED <<vars, made, limits, delayed, faults>>

(* 200 ends the push, and so does 400: neither is retried. *)
Answered(n) ==
  /\ client[n].at = "answered"
  /\ client' = [client EXCEPT ![n].at = "idle"]
  /\ UNCHANGED <<vars, made, limits, delayed, faults>>

(* The next attempt, or the push is given up until the next interval. *)
NextAttempt(n) ==
  IF client[n].attempt < Attempts
    THEN [client[n] EXCEPT !.at = "backoff", !.attempt = @ + 1]
    ELSE [client[n] EXCEPT !.at = "idle"]

Resend(n) ==
  /\ client[n].at = "backoff"
  /\ client' = [client EXCEPT ![n].at = "sent"]
  /\ UNCHANGED <<vars, made, limits, delayed, faults>>

-------------------------------------------------------------------------------
(* The gateway. *)
TryAcquireConnection == active < MaxConnections

TryReserveBodyBytes(b) == inflight + BodyBytes(b) <= MaxInflight

(* A connection thread reads the body. *)
Admit(n) ==
  /\ client[n].at = "sent"
  /\ TryAcquireConnection /\ TryReserveBodyBytes(client[n].body)
  /\ active' = active + 1
  /\ inflight' = inflight + BodyBytes(client[n].body)
  /\ client' = [client EXCEPT ![n].at = "held"]
  /\ UNCHANGED <<vars, made, delayed, faults>>

(* 503, from the accept loop or from a thread that does not find room for  *)
(* the body and gives its slot back.                                       *)
Busy(n) ==
  /\ client[n].at = "sent"
  /\ ~TryAcquireConnection \/ ~TryReserveBodyBytes(client[n].body)
  /\ client' = [client EXCEPT ![n] = NextAttempt(n)]
  /\ UNCHANGED <<vars, made, limits, delayed, faults>>

(* ConnectionGuard and BodyBytesGuard are dropped. *)
Release(b) ==
  /\ active' = active - 1
  /\ inflight' = inflight - BodyBytes(b)

(* A connection thread applies a request: the one its client waits for, or *)
(* an abandoned one.                                                       *)
Receive(n, b) == ApplyBatch(n, [q \in Query |-> Stream[b]])

Handle(n) ==
  /\ client[n].at = "held"
  /\ Receive(n, client[n].body) /\ Release(client[n].body)
  /\ client' = [client EXCEPT ![n].at = "answered"]
  /\ UNCHANGED <<made, delayed, faults>>

HandleDelayed(n, b) ==
  /\ delayed[n][b] > 0
  /\ Receive(n, b) /\ Release(b)
  /\ delayed' = [delayed EXCEPT ![n][b] = @ - 1]
  /\ UNCHANGED <<made, client, faults>>

-------------------------------------------------------------------------------
(* The network. *)

(* The connection is not made, or breaks before the body is complete: the  *)
(* thread answers 400 to nobody.                                           *)
ConnectionFails(n) ==
  /\ client[n].at \in {"sent", "held"} /\ faults < MaxFaults
  /\ IF client[n].at = "held" THEN Release(client[n].body) ELSE UNCHANGED limits
  /\ client' = [client EXCEPT ![n] = NextAttempt(n)]
  /\ faults' = faults + 1
  /\ UNCHANGED <<vars, made, delayed>>

(* HTTP_TIMEOUT: the answer is late or lost, or the request is still being *)
(* worked on.                                                              *)
Timeout(n) ==
  /\ client[n].at \in {"held", "answered"} /\ faults < MaxFaults
  /\ delayed' = IF client[n].at = "held"
                  THEN [delayed EXCEPT ![n][client[n].body] = @ + 1] ELSE delayed
  /\ client' = [client EXCEPT ![n] = NextAttempt(n)]
  /\ faults' = faults + 1
  /\ UNCHANGED <<vars, made, limits>>

Pusher(n) == StartPush(n) \/ Answered(n) \/ Resend(n)

AcceptLoop(n) == Admit(n) \/ Busy(n)

PushNext ==
  \/ \E n \in Node : \/ Refresh(n) \/ Pusher(n) \/ AcceptLoop(n) \/ Handle(n)
                     \/ \E b \in Body : HandleDelayed(n, b)
                     \/ ConnectionFails(n) \/ Timeout(n)
  \/ (Scrape \/ Tick) /\ UNCHANGED pushVars

(* Pusher threads, the accept loop and every connection thread run.        *)
(* Snapshots, scrapes, faults and the clock are not forced.                *)
PushSpec ==
  /\ PushInit /\ [][PushNext]_allVars
  /\ \A n \in Node : /\ WF_allVars(Pusher(n)) /\ WF_allVars(AcceptLoop(n))
                      /\ WF_allVars(Handle(n))
                      /\ \A b \in Body : WF_allVars(HandleDelayed(n, b))

-------------------------------------------------------------------------------
(* Whatever was lost, repeated, refused or delayed, the gateway ends up    *)
(* with the newest state an agent has, for every query: abandoned requests *)
(* neither roll it back for good nor keep the slots and the body budget    *)
(* that later pushes need.                                                 *)
CatchesUp ==
  \A n \in Node : \A q \in Query :
    made[n] = Len(Stream) ~>
      nodes[q][n] # None /\ nodes[q][n].copy = Stream[Len(Stream)].copy

(* apply_batch: "out-of-order delivery must not roll estimates backwards": *)
(* while a node is live, a stored window is not replaced by an older copy  *)
(* of the same window.                                                     *)
SameWindowKeepsNewest ==
  [][\A q \in Query : \A n \in Node :
       (/\ nodes[q][n] # None /\ nodes[q][n].age < StaleAfter
        /\ nodes'[q][n] # None /\ Bounds(nodes'[q][n]) = Bounds(nodes[q][n]))
         => nodes'[q][n].copy >= nodes[q][n].copy]_allVars
===============================================================================
