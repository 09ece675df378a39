------------------------------ MODULE HttpServer ------------------------------
(***************************************************************************)
(* The HTTP server of the agent: one accept loop and a thread for each of  *)
(* at most MaxConnections connections.  The gateway's server has the same  *)
(* loop.  A `slow' client keeps its connection busy past the drain timeout *)
(* by sending a byte before each read timeout.                             *)
(***************************************************************************)
EXTENDS Naturals

CONSTANT MaxConnections  \* MAX_CONCURRENT_CONNECTIONS

ASSUME ConnectionsAssumption == MaxConnections \in Nat \ {0}

VARIABLES
  http,      \* serve_in_background: "off", "accepting", "draining", "ended",
             \* "timedout" (draining), "broken" (accept)
  active,    \* active_connections
  conns,     \* live connection threads, per kind of client
  requests   \* clients still to come (bound)

httpVars == <<http, active, conns, requests>>

Client == {"quick", "slow"}

HttpInit(n) ==
  /\ http = "off" /\ active = 0
  /\ conns = [c \in Client |-> 0]
  /\ requests = n

Listen == http' = "accepting"

CanAcquire == active < MaxConnections

(* Accepted and handed to a thread of its own, whose guard gives the slot  *)
(* back.                                                                   *)
Accept(c) ==
  /\ http = "accepting" /\ requests > 0 /\ requests' = requests - 1
  /\ CanAcquire
  /\ active' = active + 1
  /\ conns' = [conns EXCEPT ![c] = @ + 1]
  /\ UNCHANGED http

(* Mutant: a connection without a thread keeps its slot. *)
MutantSpawnKeepsSlot ==
  /\ http = "accepting" /\ requests > 0 /\ requests' = requests - 1
  /\ active' = IF CanAcquire THEN active + 1 ELSE active
  /\ UNCHANGED <<http, conns>>

(* 503 above the limit; or the thread cannot be spawned, and the accept    *)
(* loop gives the slot back.  The client is gone either way.               *)
TurnAway ==
  /\ http = "accepting" /\ requests > 0 /\ requests' = requests - 1
  /\ UNCHANGED <<http, active, conns>>

(* An error of accept other than WouldBlock and Interrupted ends the loop. *)
AcceptFails ==
  /\ http = "accepting" /\ http' = "broken"
  /\ UNCHANGED <<active, conns, requests>>

(* The response is written, or reading or writing timed out. *)
EndConnection(c) ==
  /\ conns[c] > 0
  /\ conns' = [conns EXCEPT ![c] = @ - 1]
  /\ active' = active - 1
  /\ UNCHANGED <<http, requests>>

(* The loop sees the flag, and waits for the connections. *)
StopAccepting ==
  /\ http = "accepting" /\ http' = "draining"
  /\ UNCHANGED <<active, conns, requests>>

Drained ==
  /\ http = "draining" /\ active = 0 /\ http' = "ended"
  /\ UNCHANGED <<active, conns, requests>>

(* CONNECTION_DRAIN_TIMEOUT is longer than a read and a write timeout, so  *)
(* it passes only if no quick client is left.                              *)
DrainTimeout ==
  /\ http = "draining" /\ active # 0 /\ conns["quick"] = 0
  /\ http' = "timedout"
  /\ UNCHANGED <<active, conns, requests>>
===============================================================================
