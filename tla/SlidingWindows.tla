---------------------------- MODULE SlidingWindows ----------------------------
(***************************************************************************)
(* What the engine promises its callers, without buckets, rings, pushes or *)
(* fast-forwarding: a query remembers which events it accepted, how far    *)
(* event time has got (newest) and the oldest slide it still accepts       *)
(* (horizon), and a completed window is computed from the events           *)
(* themselves.                                                             *)
(***************************************************************************)
EXTENDS Integers, Sequences

CONSTANTS QueryCount, Slide, Ring, Capacity, MaxTs, MaxEvents

Query == 1 .. QueryCount
Ts    == 0 .. MaxTs
Event == [ts : Ts, match : SUBSET Query]

VARIABLES
  log,       \* events accepted by the engine
  newest,    \* newest[q]  : newest slide seen, -1 before the first
  horizon,   \* horizon[q] : oldest slide still accepted
  late,      \* late[q]    : events refused as older than the horizon
  pending,   \* pending[q] : completed windows not drained yet
  taken,     \* taken[q]   : completed windows drained
  finished

vars == <<log, newest, horizon, late, pending, taken, finished>>

SlideOf(q, ts) == ts \div Slide[q]

Least(a, b)    == IF a <= b THEN a ELSE b
Greatest(a, b) == IF a >= b THEN a ELSE b

(* The window of query q that covers the slides from .. upto - 1. *)
Window(q, from, upto) ==
  [start |-> from,
   end   |-> upto,
   ids   |-> {i \in 1 .. Len(log) :
                /\ q \in log[i].match
                /\ i \notin late[q]
                /\ SlideOf(q, log[i].ts) \in from .. upto - 1}]

(* Moving event time to slide t completes one window per slide, the last   *)
(* of them the one that still covers the newest slide.                     *)
Closing(q, t) ==
  IF newest[q] = -1 \/ t <= newest[q] THEN 0 ELSE Least(t - newest[q], Ring[q])

ClosedWindows(q, t) ==
  [i \in 1 .. Closing(q, t) |->
     Window(q, Greatest(horizon[q], newest[q] + i - Ring[q]), newest[q] + i)]

NewestAfter(q, t) == Greatest(newest[q], t)

HorizonAfter(q, t) ==
  IF newest[q] = -1 THEN t ELSE Greatest(horizon[q], t + 1 - Ring[q])

Room(q, n) == Len(pending[q]) + n <= Capacity[q]

Init ==
  /\ log = <<>>
  /\ newest = [q \in Query |-> -1]
  /\ horizon = [q \in Query |-> 0]
  /\ late = [q \in Query |-> {}]
  /\ pending = [q \in Query |-> <<>>]
  /\ taken = [q \in Query |-> <<>>]
  /\ finished = FALSE

(* Event time of the queries in Q moves to ts. *)
Move(Q, ts) ==
  /\ \A q \in Q : Room(q, Closing(q, SlideOf(q, ts)))
  /\ pending' = [q \in Query |->
       IF q \in Q THEN pending[q] \o ClosedWindows(q, SlideOf(q, ts))
                  ELSE pending[q]]
  /\ newest' = [q \in Query |->
       IF q \in Q THEN NewestAfter(q, SlideOf(q, ts)) ELSE newest[q]]
  /\ horizon' = [q \in Query |->
       IF q \in Q THEN HorizonAfter(q, SlideOf(q, ts)) ELSE horizon[q]]

Accept(e) ==
  /\ ~finished
  /\ Move(e.match, e.ts)
  /\ log' = Append(log, e)
  /\ late' = [q \in Query |->
       IF q \in e.match /\ SlideOf(q, e.ts) < horizon'[q]
         THEN late[q] \cup {Len(log) + 1} ELSE late[q]]
  /\ UNCHANGED <<taken, finished>>

Advance(ts) ==
  /\ ~finished
  /\ Move(Query, ts)
  /\ UNCHANGED <<log, late, taken, finished>>

Finish ==
  /\ ~finished
  /\ \A q \in Query : newest[q] # -1 => Room(q, 1)
  /\ pending' = [q \in Query |->
       IF newest[q] = -1 THEN pending[q]
       ELSE Append(pending[q], Window(q, horizon[q], newest[q] + 1))]
  /\ finished' = TRUE
  /\ UNCHANGED <<log, newest, horizon, late, taken>>

Take ==
  /\ taken' = [q \in Query |-> taken[q] \o pending[q]]
  /\ pending' = [q \in Query |-> <<>>]
  /\ UNCHANGED <<log, newest, horizon, late, finished>>

Next ==
  \/ \E e \in Event : Accept(e)
  \/ \E ts \in Ts : Advance(ts)
  \/ Finish
  \/ Take

Spec == Init /\ [][Next]_vars
===============================================================================
