--------------------------- MODULE MCLoaderManager ---------------------------
(* Instances of LoaderManager for TLC. *)
EXTENDS LoaderManager

CONSTANTS l1, l2, l3, v1, v2

(* Two loaders in one view and one in another. *)
TwoViews == [l \in {l1, l2, l3} |-> IF l = l3 THEN v2 ELSE v1]
==============================================================================
