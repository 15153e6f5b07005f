--------------------------------- MODULE Agents ---------------------------------
(* The agents a node works with, the same for all components of layer 5.   *)

CONSTANTS Agent
================================================================================
