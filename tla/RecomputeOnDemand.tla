-------------------------- MODULE RecomputeOnDemand --------------------------
(***************************************************************************)
(* What the metric worker promises.  Values are asked for, and are         *)
(* computed one at a time; asking again for a value that is asked for      *)
(* already changes nothing, but a value asked for while it is computed is  *)
(* computed again.  So every request is followed by a computation that     *)
(* begins after it, and a burst of requests costs one.                     *)
(***************************************************************************)
CONSTANT Values    \* what can be computed

VARIABLES asked,       \* the values asked for since their computation began
          computing    \* the value being computed, as a set of at most one

recompute == <<asked, computing>>

InitIdle ==
    /\ asked = {}
    /\ computing = {}

Ask ==
    /\ \E values \in SUBSET Values : asked' = asked \cup values
    /\ UNCHANGED computing

Start(v) ==
    /\ v \in asked
    /\ computing = {}
    /\ asked' = asked \ {v}
    /\ computing' = {v}

Finish ==
    /\ computing # {}
    /\ computing' = {}
    /\ UNCHANGED asked

Work ==
    \/ Ask
    \/ \E v \in Values : Start(v)
    \/ Finish

(***************************************************************************)
(* A computation ends, and none of the values asked for is starved by the  *)
(* others.                                                                 *)
(***************************************************************************)
Served ==
    /\ WF_recompute(Finish)
    /\ \A v \in Values : SF_recompute(Start(v))

SafeRecompute == InitIdle /\ [][Work]_recompute

RecomputeSpec == SafeRecompute /\ Served
=============================================================================
