--------------------------- MODULE MCCircuitBreaker ---------------------------
(* CircuitBreaker on small instances.                                      *)
EXTENDS CircuitBreaker

CONSTANTS a1, a2, c1, c2

OneAgent  == {a1}
TwoAgents == {a1, a2}
TwoCallers == {c1, c2}
=============================================================================
