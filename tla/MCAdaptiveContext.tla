--------------------------- MODULE MCAdaptiveContext ---------------------------
(* AdaptiveContext with chunks at the relevance threshold, between the two *)
(* thresholds and above both.                                              *)
EXTENDS AdaptiveContext

ThreeRelevances == {1, 2, 4}
================================================================================
