-------------------------- MODULE MCHeartbeatMonitor --------------------------
(* HeartbeatMonitor on small instances.                                    *)
EXTENDS HeartbeatMonitor

CONSTANTS a1, w1, w2

OneAgent   == {a1}
TwoWorkers == {w1, w2}
TwoDepths  == {0, 1}
=============================================================================
