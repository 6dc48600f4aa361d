------------------------- MODULE MCRankerPublication -------------------------
(* Two publishers of one bundle. *)
EXTENDS RankerPublication

CONSTANTS p1, p2
=============================================================================
