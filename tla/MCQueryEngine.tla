---------------------------- MODULE MCQueryEngine -----------------------------
(* Two queries on one stream: a sliding one (2 buckets of 1 tick) and a    *)
(* tumbling one (1 bucket of 2 ticks).  The engine has one of two callers: *)
(* the replay command, or a program that makes any call at any time.       *)
EXTENDS EngineRefinement, WindowRingLoop, ReplayDriver

CONSTANT CallerEvents \* most events of the latter (bound)

MCSlide    == <<1, 2>>
MCRing     == <<2, 1>>
MCCapacity == MCRing

AnyCaller ==
  /\ pc = "any"
  /\ Next /\ Len(log') <= CallerEvents
  /\ UNCHANGED driver

CallersInit == ReplayInit \/ (Init /\ pc = "any" /\ event = [ts |-> 0, match |-> {}])

CallersSpec ==
  CallersInit /\ [][AnyCaller \/ ReplayNext]_allVars /\ WF_allVars(Step)

(* From every reachable query, and for every bucket an event or a tick can *)
(* ask for, the closed forms the engine uses are what the code's loops     *)
(* compute: the same windows in the same order, the same open buckets, the *)
(* same late events; and windows_closed_by_advance, which the capacity     *)
(* check trusts before anything moves, is the number of windows the loops  *)
(* then emit.                                                              *)
LoopsAgree ==
  \A q \in Query : \A target \in Ts :
    LET rq == queries[q]
    IN  /\ LoopAdvance(rq, Ring[q], target) = AdvanceToBucket(rq, Ring[q], target)
        /\ LoopProcess(rq, Ring[q], target, MaxEvents + 1) =
             ProcessMatching(rq, Ring[q], target, MaxEvents + 1)
        /\ Len(LoopAdvance(rq, Ring[q], target).emitted) =
             Len(rq.emitted) + WindowsClosedByAdvance(rq, Ring[q], target)
===============================================================================
