-------------------------- MODULE MCAnnotationRaces --------------------------
(* Instances of AnnotationRaces: three reviewers race for one item.         *)
EXTENDS AnnotationRaces, TLC

ReviewerSymmetry == Permutations(Reviewers)
=============================================================================
