------------------------------- MODULE MCWorkers -------------------------------
(* PoisonDetector and CheckpointStore on small instances.  The detector and *)
(* the store are two structures without common state, and every property   *)
(* is about one of them: a behaviour is one of the detector with the store *)
(* left alone, or the reverse, which shows of each what their product      *)
(* would.                                                                  *)
EXTENDS PoisonDetector, CheckpointStore, TLC

CONSTANTS t1, a1, a2, w1, w2

OneTask     == {t1}
TwoAgents   == {a1, a2}
TwoWorkers  == {w1, w2}
TwoVersions == {0, 1}

VARIABLE used   \* the structure this behaviour is about

DetectorAlone == used = "detector" /\ PoisonNext /\ UNCHANGED <<storeVars, used>>
StoreAlone    == used = "store" /\ StoreNext /\ UNCHANGED <<poisonVars, used>>

WorkersInit == PoisonInit /\ StoreInit /\ used \in {"detector", "store"}

WorkersSpec ==
    WorkersInit /\ [][DetectorAlone \/ StoreAlone]_<<poisonVars, storeVars, used>>

Symmetric == Permutations(TwoWorkers) \cup Permutations(TwoAgents)
=============================================================================
