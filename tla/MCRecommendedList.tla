-------------------------- MODULE MCRecommendedList --------------------------
(* Instances of RecommendedList for TLC. *)
EXTENDS RecommendedList
==============================================================================
