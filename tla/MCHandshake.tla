---------------------------- MODULE MCHandshake ----------------------------
(* Two agents and two task types; constraints 50% relaxable twice, so that *)
(* every relaxed value is a whole number.                                  *)
EXTENDS Handshake, TLC

Cap(t, q, l, c) == [task_type |-> t, quality |-> q, latency |-> l, cost |-> c]

(* c[1] meets Strict at once, c[2] after one relaxation, c[3] after two.   *)
(* c[4] meets the bound of 0 that Free sets on the cost.                   *)
MCCapability ==
  {Cap("analysis", 90, 2, 2), Cap("analysis", 60, 5, 2),
   Cap("analysis", 90, 9, 4), Cap("data", 60, 3, 0)}

Strict == [min_quality |-> 80, max_latency |-> 4, max_cost |-> 4,
           min_trust |-> 80]
Free   == [min_quality |-> 0, max_latency |-> 4, max_cost |-> 0,
           min_trust |-> 40]
MCQoS  == {Strict, Free}

(* update_trust must clamp both.                                           *)
MCRawTrust == {-10, 120}

=============================================================================
