--------------------------- MODULE AnnotationRules ---------------------------
(***************************************************************************)
(* The pure rules of annotation/service.py, shared by the ledger taken one *)
(* transaction at a time (AnnotationLedger) and by the interleaving of the *)
(* transactions' statements (AnnotationRaces).                             *)
(*                                                                         *)
(* An item's judgments are a function `given' from reviewers to the label  *)
(* each has submitted, None where there is none.                           *)
(***************************************************************************)
EXTENDS Integers, FiniteSets

CONSTANTS Reviewers,   \* verified OIDC identities that may be provisioned
          None

Phases == {"review", "adjudication"}
AssignmentStatuses == {"none", "leased", "submitted", "expired"}
Uncertain == "UNCERTAIN"
ERLabels == {"MATCH", "NON_MATCH", Uncertain}
RequiredReviews == 2

JudgesIn(given) == {r \in Reviewers : given[r] # None}
LabelsIn(given) == {given[r] : r \in JudgesIn(given)}

\* Judgments whose labels do not settle the item by themselves.
Disputed(labels) == labels = {Uncertain} \/ Cardinality(labels) # 1

EscalatesEarly(given, active) ==
    IF Cardinality(JudgesIn(given)) >= RequiredReviews \/ Uncertain \in LabelsIn(given)
    THEN IF Disputed(LabelsIn(given)) THEN "needs_adjudication" ELSE "resolved"
    ELSE IF JudgesIn(given) # {} \/ active # {} THEN "in_review" ELSE "pending"

ForgetsUncertain(given, active) ==
    IF Cardinality(JudgesIn(given)) >= RequiredReviews
    THEN IF Cardinality(LabelsIn(given)) # 1 THEN "needs_adjudication" ELSE "resolved"
    ELSE IF JudgesIn(given) # {} \/ active # {} THEN "in_review" ELSE "pending"

OneReviewIsEnough(given, active) ==
    IF Cardinality(JudgesIn(given)) >= RequiredReviews - 1
    THEN IF Disputed(LabelsIn(given)) THEN "needs_adjudication" ELSE "resolved"
    ELSE IF active # {} THEN "in_review" ELSE "pending"

\* _refresh_item_state: active is the set of reviewers with a live lease.
RefreshedState(given, active) ==
    IF Cardinality(JudgesIn(given)) >= RequiredReviews
    THEN IF Disputed(LabelsIn(given)) THEN "needs_adjudication" ELSE "resolved"
    ELSE IF JudgesIn(given) # {} \/ active # {} THEN "in_review" ELSE "pending"

\* The label a release gives an item that passes the gate.
DecidedLabel(given, ruling) ==
    IF ruling # None THEN ruling.label
    ELSE CHOOSE l \in LabelsIn(given) : TRUE

GateAcceptsMore(given, ruling, st, finals) ==
    /\ Cardinality(JudgesIn(given)) >= RequiredReviews
    /\ IF Disputed(LabelsIn(given))
       THEN ruling # None /\ ruling.by \notin JudgesIn(given)
       ELSE ruling = None
    /\ DecidedLabel(given, ruling) \in finals
    /\ st = "resolved"

\* What _freeze_gate demands of one item: finals are the labels it may end with.
ItemGate(given, ruling, st, finals) ==
    /\ Cardinality(JudgesIn(given)) = RequiredReviews
    /\ IF Disputed(LabelsIn(given))
       THEN ruling # None /\ ruling.by \notin JudgesIn(given)
       ELSE ruling = None
    /\ DecidedLabel(given, ruling) \in finals
    /\ st = "resolved"
=============================================================================
