---------------------------- MODULE LabelRelease ----------------------------
(***************************************************************************)
(* What the annotation control plane promises to those who train on its    *)
(* releases: an item gets at most one final label and keeps it, and a      *)
(* project is published once, with the label every one of its items has    *)
(* been given.  Reviewers, leases and disagreement are not visible here.   *)
(***************************************************************************)
CONSTANTS
    Items, Projects,
    OwnerOf,       \* [Items -> Projects]
    Labels,        \* the labels an item may end with
    None

VARIABLES
    outcome,       \* the final label of each item, None while undecided
    published      \* the labels published for each project, None before

vars == <<outcome, published>>

Init ==
    /\ outcome = [i \in Items |-> None]
    /\ published = [p \in Projects |-> None]

Decide(i) ==
    /\ outcome[i] = None
    /\ published[OwnerOf[i]] = None
    /\ \E l \in Labels : outcome' = [outcome EXCEPT ![i] = l]
    /\ UNCHANGED published

Publish(p) ==
    /\ published[p] = None
    /\ \E S \in SUBSET {i \in Items : OwnerOf[i] = p} :
         /\ S # {}
         /\ \A i \in S : outcome[i] # None
         /\ published' = [published EXCEPT ![p] = [i \in S |-> outcome[i]]]
    /\ UNCHANGED outcome

Next == (\E i \in Items : Decide(i)) \/ (\E p \in Projects : Publish(p))

Spec == Init /\ [][Next]_vars
=============================================================================
