------------------------- MODULE MCAnnotationLedger -------------------------
(***************************************************************************)
(* Instances of AnnotationLedger.  The review instance has one item and as *)
(* many reviewers as can get in each other's way; the corpus instance has  *)
(* two projects, whose leases one claim expires together; the opening      *)
(* instance has one project of two groups and two items.                   *)
(***************************************************************************)
EXTENDS AnnotationLedger, TLC

\* A bijection, or the constant map when there is only one target.
Spread(S, T) ==
    IF Cardinality(T) = 1 THEN [s \in S |-> CHOOSE u \in T : TRUE]
    ELSE CHOOSE f \in [S -> T] : \A a, b \in S : f[a] = f[b] => a = b

MCProjectOf == Spread(Groups, Projects)
MCGroupOf == Spread(Items, Groups)
CrowdedGroupOf == [i \in Items |-> CHOOSE g \in Groups : TRUE]
MCSplitOf == [g \in Groups |-> "test"]
MCRequiredSplits == {"test"}
MCLeakageOf == [g \in Groups |-> g]
RankedPriority == Spread(Items, 1 .. Cardinality(Items))

BothRoles == {{"reviewer", "adjudicator"}}
EitherRole == {{"reviewer"}, {"adjudicator"}}

ReviewerSymmetry == Permutations(Reviewers)
=============================================================================
