------------------------------- MODULE MCNode -------------------------------
(* One node and two peers.  The first profile meets the constraints at     *)
(* once.  The second names one task type twice, and meets them after they  *)
(* are relaxed, since the last one counts; registering it after the first  *)
(* leaves the first's other capability in the registry.                    *)
EXTENDS Node, TLC

Cap(t, q) == [task_type |-> t, quality |-> q, latency |-> 1, cost |-> 1]

MCProfiles == {<<Cap("CodeGeneration", 90), Cap("Analysis", 60)>>,
               <<Cap("CodeGeneration", 70), Cap("CodeGeneration", 40)>>}

MCQoS == {[min_quality |-> 60, max_latency |-> 2, max_cost |-> 2,
           min_trust |-> 60]}

MCDecay == <<2, 0>>
MCReports == {130}
MCStamps == {-1}

Symmetry == Permutations(Peer)
=============================================================================
