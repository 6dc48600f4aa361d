-------------------------- MODULE MCWebPublication --------------------------
(* Two publications of the same run. *)
EXTENDS WebPublication, TLC

CONSTANTS o1, o2, r1

MCRunOf == [o \in Ops |-> r1]

Symmetric == Permutations(Ops)
=============================================================================
