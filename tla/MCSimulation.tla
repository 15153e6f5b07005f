---------------------------- MODULE MCSimulation ----------------------------
(* A budget and a premium agent that serve everything, and a specialist    *)
(* for analysis; nobody serves "orphan" tasks.                             *)
EXTENDS Simulation

MCNetwork ==
  <<[kind |-> "specialist", types |-> {"analysis"}],
    [kind |-> "budget", types |-> {"analysis", "data"}],
    [kind |-> "premium", types |-> {"analysis", "data"}]>>

=============================================================================
