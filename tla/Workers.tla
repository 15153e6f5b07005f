-------------------------------- MODULE Workers --------------------------------
(***************************************************************************)
(* What the two structures have in common that the worker threads of a     *)
(* node share through more than one lock each, PoisonDetector and          *)
(* CheckpointStore: they are about the tasks and agents of one node.       *)
(***************************************************************************)
EXTENDS Agents

CONSTANTS Task, Worker
================================================================================
