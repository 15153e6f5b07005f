------------------------------- MODULE MCRouting -------------------------------
(* Three agents; capabilities of which one is perfect and instant, one    *)
(* good and one cheap.                                                     *)
EXTENDS Routing, TLC

CONSTANTS a1, a2, a3

ThreeAgents == {a1, a2, a3}

Register(q, l, c, t) ==
    [capability |-> [quality |-> q, latency |-> l, cost |-> c], trust_score |-> t]

MCProfile == {Register(10, 0, 6, 8), Register(6, 2, 1, 3), Register(8, 1, 3, 8),
              [capability |-> NoCapability, trust_score |-> 8]}

MCLatency == {0, 3}

\* Tight on quality, on latency, on cost, and one only a combination can meet.
MCQoS ==
    {[min_quality |-> 9, max_latency |-> 9, max_cost |-> 20, min_trust |-> 0],
     [min_quality |-> 5, max_latency |-> 4, max_cost |-> 9, min_trust |-> 8],
     [min_quality |-> 5, max_latency |-> 9, max_cost |-> 2, min_trust |-> 0]}

Symmetry == Permutations(ThreeAgents)
================================================================================
