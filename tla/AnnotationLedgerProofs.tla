----------------------- MODULE AnnotationLedgerProofs -----------------------
(***************************************************************************)
(* Proofs about AnnotationLedger, for every set of reviewers, projects,    *)
(* items and timestamps, as far as transactions do not overlap.            *)
(*                                                                         *)
(* The item's rows hold each other up: a state column that follows the     *)
(* judgments is only kept if no third review lease is alive, and that only *)
(* if every submitted assignment has its judgment.  So the properties of   *)
(* one item are proved together, as ItemFine(i), and Inv is the inductive  *)
(* invariant they follow from.                                             *)
(***************************************************************************)
EXTENDS AnnotationLedger, FiniteSetTheorems, TLAPS

Reviews(i) == Leaseholders("review", i)

\* What the tables say of one item.
ItemFine(i) ==
    /\ state[i] = "absent" =>
         \A r \in Reviewers : /\ judgment[i][r] = None
                              /\ assign["review"][i][r] = "none"
                              /\ assign["adjudication"][i][r] = "none"
    /\ state[i] # "absent" => GroupOf[i] \in groups
    /\ Cardinality(Reviews(i) \cup Judges(i)) <= 2
    /\ state[i] = "needs_adjudication" <=>
         /\ Cardinality(Judges(i)) = 2
         /\ Disputed(LabelsGiven(i))
         /\ verdict[i] = None
    /\ state[i] = "resolved" <=>
         /\ Cardinality(Judges(i)) = 2
         /\ Disputed(LabelsGiven(i)) => verdict[i] # None
    /\ state[i] = "pending" => Cardinality(Judges(i)) = 0 /\ Reviews(i) = {}
    /\ \A r \in Reviewers :
         /\ assign["review"][i][r] = "submitted" <=> judgment[i][r] # None
         /\ assign["adjudication"][i][r] = "submitted" <=>
              verdict[i] # None /\ verdict[i].by = r
    /\ verdict[i] # None =>
         /\ Cardinality(Judges(i)) = 2
         /\ Disputed(LabelsGiven(i))
         /\ verdict[i].by \notin Judges(i)

ReleaseRows == release = [p \in Projects |-> release[p]]

Inv == TypeOK /\ ReleaseRows /\ \A i \in Items : ItemFine(i)

-----------------------------------------------------------------------------
(* Counting reviewers *)

\* Leases and judgments are finite sets, and so countable.
LEMMA ReviewersCount ==
    ASSUME NEW i \in Items, NEW t
    PROVE  /\ IsFiniteSet(Reviews(i)) /\ IsFiniteSet(Judges(i))
           /\ IsFiniteSet(ActiveReviews(i, t))
           /\ Cardinality(Reviews(i)) \in Nat
           /\ Cardinality(Judges(i)) \in Nat
           /\ Cardinality(ActiveReviews(i, t)) \in Nat
<1>1. IsFiniteSet(Reviewers)
  BY ConstantsAssumption DEF ConstantsAssumption
<1>2. /\ Reviews(i) \subseteq Reviewers /\ Judges(i) \subseteq Reviewers
      /\ ActiveReviews(i, t) \subseteq Reviewers
  BY DEF Reviews, Leaseholders, Judges, JudgesIn, ActiveReviews
<1>3. IsFiniteSet(Reviews(i)) /\ IsFiniteSet(Judges(i)) /\ IsFiniteSet(ActiveReviews(i, t))
  BY <1>1, <1>2, FS_Subset
<1> QED
  BY <1>3, FS_CardinalityType

\* Nobody holds a review lease on an item and has judged it.
LEMMA LeaseOrJudgment ==
    ASSUME NEW i \in Items, ItemFine(i)
    PROVE  Reviews(i) \cap Judges(i) = {}
  BY DEF ItemFine, Reviews, Leaseholders, Judges, JudgesIn

\* Leases and judgments share the two places of an item.
LEMMA PlacesShared ==
    ASSUME NEW i \in Items, ItemFine(i)
    PROVE  Cardinality(Reviews(i)) + Cardinality(Judges(i)) <= 2
<1>1. Reviews(i) \cap Judges(i) = {}
  BY LeaseOrJudgment
<1>2. IsFiniteSet(Reviews(i)) /\ IsFiniteSet(Judges(i))
  BY ReviewersCount
<1>3. Cardinality(Reviews(i) \cup Judges(i)) =
        Cardinality(Reviews(i)) + Cardinality(Judges(i)) - Cardinality({})
  BY <1>1, <1>2, FS_Union
<1>4. Cardinality({}) = 0
  BY FS_EmptySet
<1>5. Cardinality(Reviews(i)) \in Nat /\ Cardinality(Judges(i)) \in Nat
  BY ReviewersCount
<1> QED
  BY <1>3, <1>4, <1>5 DEF ItemFine

\* An item with its two judgments has no review lease left, lapsed or not.
LEMMA NoLeaseOnceJudged ==
    ASSUME NEW i \in Items, ItemFine(i), Cardinality(Judges(i)) = 2
    PROVE  Reviews(i) = {}
<1>1. Cardinality(Reviews(i)) \in Nat /\ IsFiniteSet(Reviews(i))
  BY ReviewersCount
<1>2. Cardinality(Reviews(i)) = 0
  BY <1>1, PlacesShared
<1> QED
  BY <1>1, <1>2, FS_EmptySet

\* A reviewer whose lease is alive took a place no judgment has.
LEMMA LeaseLeavesRoom ==
    ASSUME NEW i \in Items, ItemFine(i), NEW r \in Reviews(i)
    PROVE  Cardinality(Judges(i)) < 2
<1>1. Cardinality(Reviews(i)) # 0
  BY ReviewersCount, FS_EmptySet
<1> QED
  BY <1>1, PlacesShared, ReviewersCount

-----------------------------------------------------------------------------
(* Steps that leave an item alone *)

\* The rows ItemFine(i) reads, unchanged.
SameItem(i) ==
    /\ state'[i] = state[i] /\ judgment'[i] = judgment[i] /\ verdict'[i] = verdict[i]
    /\ \A ph \in Phases : assign'[ph][i] = assign[ph][i]

\* An item whose rows stay the same stays fine, and groups are never unloaded.
LEMMA UntouchedItem ==
    ASSUME NEW i \in Items, ItemFine(i), SameItem(i), groups \subseteq groups'
    PROVE  ItemFine(i)'
<1>1. assign'["review"][i] = assign["review"][i]
      /\ assign'["adjudication"][i] = assign["adjudication"][i]
  BY DEF SameItem, Phases
<1>2. Reviews(i)' = Reviews(i) /\ Judges(i)' = Judges(i)
      /\ LabelsGiven(i)' = LabelsGiven(i)
  BY <1>1 DEF SameItem, Reviews, Leaseholders, Judges, JudgesIn, LabelsGiven, LabelsIn
<1> QED
  BY <1>1, <1>2 DEF ItemFine, SameItem

\* What _expire_leases does to the rows of an item.
Expires(i, t) ==
    /\ state'[i] = ExpiredState(t)[i]
    /\ judgment'[i] = judgment[i] /\ verdict'[i] = verdict[i]
    /\ \A ph \in Phases : assign'[ph][i] = ExpiredAssign(t)[ph][i]

\* The review leases a clock t leaves alive.
LEMMA LapseLeavesActive ==
    ASSUME TypeOK, NEW i \in Items, NEW t \in Times
    PROVE  /\ ActiveReviews(i, t) \subseteq Reviews(i)
           /\ \A r \in Reviews(i) : r \in ActiveReviews(i, t) \/ Lapsed("review", i, r, t)
           /\ \A r \in ActiveReviews(i, t) : ~Lapsed("review", i, r, t)
<1>1. t \in Int /\ \A r \in Reviewers : expires["review"][i][r] \in Int
  BY ConstantsAssumption DEF ConstantsAssumption, TypeOK, Phases
<1> QED
  BY <1>1 DEF ActiveReviews, Reviews, Leaseholders, Lapsed

\* Only lapsed leases change, and only to "expired".
LEMMA ExpiredAssignments ==
    ASSUME TypeOK, NEW i \in Items, NEW t \in Times, Expires(i, t)
    PROVE  /\ \A ph \in Phases, r \in Reviewers :
                assign'[ph][i][r] = IF Lapsed(ph, i, r, t) THEN "expired" ELSE assign[ph][i][r]
           /\ Reviews(i)' = ActiveReviews(i, t)
<1>1. \A ph \in Phases, r \in Reviewers :
        assign'[ph][i][r] = IF Lapsed(ph, i, r, t) THEN "expired" ELSE assign[ph][i][r]
  BY DEF Expires, ExpiredAssign
<1>2. "review" \in Phases
  BY DEF Phases
<1>3. \A r \in Reviewers : r \in Reviews(i)' <=> r \in ActiveReviews(i, t)
  <2> SUFFICES ASSUME NEW r \in Reviewers
               PROVE  r \in Reviews(i)' <=> r \in ActiveReviews(i, t)
    OBVIOUS
  <2>1. CASE Lapsed("review", i, r, t)
    BY <1>1, <1>2, <2>1, LapseLeavesActive DEF Reviews, Leaseholders
  <2>2. CASE ~Lapsed("review", i, r, t)
    BY <1>1, <1>2, <2>2, LapseLeavesActive DEF Reviews, Leaseholders
  <2> QED
    BY <2>1, <2>2
<1>4. Reviews(i)' \subseteq Reviewers /\ ActiveReviews(i, t) \subseteq Reviewers
  BY DEF Reviews, Leaseholders, ActiveReviews
<1> QED
  BY <1>1, <1>3, <1>4

\* Writing off lapsed leases keeps an item fine.
LEMMA ExpiryKeepsItem ==
    ASSUME TypeOK, NEW i \in Items, NEW t \in Times, ItemFine(i), Expires(i, t),
           groups \subseteq groups'
    PROVE  ItemFine(i)'
<1>1. Judges(i)' = Judges(i) /\ LabelsGiven(i)' = LabelsGiven(i)
  BY DEF Expires, Judges, JudgesIn, LabelsGiven, LabelsIn
<1>2. Reviews(i)' = ActiveReviews(i, t) /\ Reviews(i)' \subseteq Reviews(i)
  BY ExpiredAssignments, LapseLeavesActive
<1>3. \A r \in Reviewers :
        /\ Lapsed("review", i, r, t) => r \in Reviews(i)
        /\ (assign'["review"][i][r] = "submitted" <=> assign["review"][i][r] = "submitted")
        /\ (assign'["adjudication"][i][r] = "submitted" <=>
              assign["adjudication"][i][r] = "submitted")
        /\ (assign["review"][i][r] = "none" => assign'["review"][i][r] = "none")
        /\ (assign["adjudication"][i][r] = "none" => assign'["adjudication"][i][r] = "none")
  BY ExpiredAssignments DEF Phases, Lapsed, Reviews, Leaseholders
<1>4. Cardinality((Reviews(i) \cup Judges(i))') <= 2
  <2>1. (Reviews(i) \cup Judges(i))' \subseteq Reviews(i) \cup Judges(i)
    BY <1>1, <1>2
  <2>2. IsFiniteSet(Reviews(i) \cup Judges(i))
    BY ReviewersCount, FS_Union
  <2>3. Cardinality((Reviews(i) \cup Judges(i))') <= Cardinality(Reviews(i) \cup Judges(i))
        /\ Cardinality((Reviews(i) \cup Judges(i))') \in Nat
        /\ Cardinality(Reviews(i) \cup Judges(i)) \in Nat
    BY <2>1, <2>2, FS_Subset, FS_CardinalityType
  <2> QED
    BY <2>3 DEF ItemFine
<1>5. CASE \E r \in Reviewers : Lapsed("review", i, r, t)
  <2>1. Reviews(i) # {} /\ Cardinality(Judges(i)) < 2
    BY <1>3, <1>5, LeaseLeavesRoom
  <2>2. Cardinality(Judges(i)) \in Nat /\ IsFiniteSet(Judges(i))
    BY ReviewersCount
  <2>3. state'[i] = RefreshedState(judgment[i], ActiveReviews(i, t))
    BY <1>5 DEF Expires, ExpiredState
  <2>4. state'[i] = IF Judges(i) # {} \/ ActiveReviews(i, t) # {}
                    THEN "in_review" ELSE "pending"
    BY <2>1, <2>2, <2>3 DEF RefreshedState, RequiredReviews, Judges
  <2>5. state'[i] = "pending" => Cardinality(Judges(i)) = 0 /\ Reviews(i)' = {}
    BY <1>2, <2>4, FS_EmptySet
  <2>6. state'[i] \notin {"absent", "needs_adjudication", "resolved"}
    BY <2>4
  <2>7. state[i] # "absent"
    BY <1>3, <1>5 DEF ItemFine, Reviews, Leaseholders
  <2>8. Cardinality(Judges(i)) # 2
    BY <2>1, <2>2
  <2> QED
    BY <1>1, <1>3, <1>4, <2>5, <2>6, <2>7, <2>8 DEF ItemFine, Expires
<1>6. CASE ~ \E r \in Reviewers : Lapsed("review", i, r, t)
  <2>1. state'[i] = state[i]
    BY <1>6 DEF Expires, ExpiredState
  <2> QED
    BY <1>1, <1>2, <1>3, <1>4, <2>1 DEF ItemFine, Expires
<1> QED
  BY <1>5, <1>6

-----------------------------------------------------------------------------
(* Claims and submissions *)

\* Two places, at most one of them taken: one more reviewer fits.
LEMMA OneMoreFits ==
    ASSUME NEW i \in Items, NEW t, NEW r,
           Cardinality(ActiveReviews(i, t)) + Cardinality(Judges(i)) < 2
    PROVE  /\ Cardinality(Judges(i)) < 2
           /\ Cardinality((ActiveReviews(i, t) \cup {r}) \cup Judges(i)) <= 2
<1> DEFINE A == ActiveReviews(i, t)
           J == Judges(i)
<1>1. IsFiniteSet(A) /\ IsFiniteSet(J) /\ Cardinality(A) \in Nat /\ Cardinality(J) \in Nat
  BY ReviewersCount
<1>2. IsFiniteSet(A \cup J) /\ IsFiniteSet(A \cap J)
  <2>1. A \cap J \in SUBSET J
    OBVIOUS
  <2> QED
    BY <1>1, <2>1, FS_Union, FS_Subset
<1>3. Cardinality(A \cap J) \in Nat /\ Cardinality(A \cup J) \in Nat
  BY <1>2, FS_CardinalityType
<1>4. Cardinality(A \cup J) = Cardinality(A) + Cardinality(J) - Cardinality(A \cap J)
  BY <1>1, FS_Union
<1>5. /\ Cardinality((A \cup J) \cup {r}) <= Cardinality(A \cup J) + 1
      /\ Cardinality((A \cup J) \cup {r}) \in Nat
  <2>1. /\ IsFiniteSet((A \cup J) \cup {r})
        /\ Cardinality((A \cup J) \cup {r}) =
             IF r \in A \cup J THEN Cardinality(A \cup J) ELSE Cardinality(A \cup J) + 1
    BY <1>2, FS_AddElement
  <2> QED
    BY <1>3, <2>1
<1>6. (A \cup {r}) \cup J = (A \cup J) \cup {r}
  OBVIOUS
<1>7. Cardinality(J) < 2
  BY <1>1 DEF A, J
<1>8. Cardinality((A \cup J) \cup {r}) <= 2
  BY <1>1, <1>3, <1>4, <1>5 DEF A, J
<1> QED
  BY <1>6, <1>7, <1>8

\* The claimed item of a review claim stays fine.
LEMMA ReviewClaimKeepsItem ==
    ASSUME TypeOK, NEW p \in Projects, NEW r \in Reviewers, NEW t \in Times,
           NEW i \in ReviewClaimable(r, p, t), ItemFine(i),
           groups' = groups, judgment' = judgment, verdict' = verdict,
           assign' = [ExpiredAssign(t) EXCEPT !["review"][i][r] = "leased"],
           state' = [ExpiredState(t) EXCEPT ![i] = "in_review"]
    PROVE  ItemFine(i)'
<1>0. i \in Items /\ state[i] \in {"pending", "in_review"}
      /\ Cardinality(ActiveReviews(i, t)) + Cardinality(Judges(i)) < 2
      /\ judgment[i][r] = None
  BY DEF ReviewClaimable, ItemsOf, RequiredReviews
<1>1. Judges(i)' = Judges(i) /\ LabelsGiven(i)' = LabelsGiven(i)
  BY DEF Judges, JudgesIn, LabelsGiven, LabelsIn
<1>2. state'[i] = "in_review"
  BY <1>0 DEF ExpiredState
<1>3. \A ph \in Phases, s \in Reviewers :
        assign'[ph][i][s] = IF ph = "review" /\ s = r THEN "leased"
                            ELSE IF Lapsed(ph, i, s, t) THEN "expired" ELSE assign[ph][i][s]
  BY <1>0 DEF ExpiredAssign, Phases
<1>4. Reviews(i)' = ActiveReviews(i, t) \cup {r}
  <2>1. \A s \in Reviewers : s # r => (s \in Reviews(i)' <=> s \in ActiveReviews(i, t))
    <3> SUFFICES ASSUME NEW s \in Reviewers, s # r
                 PROVE  s \in Reviews(i)' <=> s \in ActiveReviews(i, t)
      OBVIOUS
    <3>1. assign'["review"][i][s] =
            IF Lapsed("review", i, s, t) THEN "expired" ELSE assign["review"][i][s]
      BY <1>3 DEF Phases
    <3>2. CASE Lapsed("review", i, s, t)
      BY <1>0, <3>1, <3>2, LapseLeavesActive DEF Reviews, Leaseholders
    <3>3. CASE ~Lapsed("review", i, s, t)
      BY <1>0, <3>1, <3>3, LapseLeavesActive DEF Reviews, Leaseholders
    <3> QED
      BY <3>2, <3>3
  <2>2. r \in Reviews(i)'
    BY <1>3 DEF Reviews, Leaseholders, Phases
  <2>3. Reviews(i)' \subseteq Reviewers /\ ActiveReviews(i, t) \subseteq Reviewers
    BY DEF Reviews, Leaseholders, ActiveReviews
  <2> QED
    BY <2>1, <2>2, <2>3
<1>5. Cardinality((Reviews(i) \cup Judges(i))') <= 2 /\ Cardinality(Judges(i)) < 2
  BY <1>0, <1>1, <1>4, OneMoreFits
<1>6. Cardinality(Judges(i)) # 2 /\ verdict[i] = None
  BY <1>0, <1>5, ReviewersCount DEF ItemFine
<1>7. \A s \in Reviewers :
        /\ (assign'["review"][i][s] = "submitted" <=> judgment'[i][s] # None)
        /\ (assign'["adjudication"][i][s] = "submitted" <=>
              assign["adjudication"][i][s] = "submitted")
  BY <1>0, <1>3 DEF Phases, Lapsed, ItemFine
<1> QED
  BY <1>0, <1>1, <1>2, <1>5, <1>6, <1>7 DEF ItemFine

\* The claimed item of an adjudication claim stays fine.
LEMMA AdjudicationClaimKeepsItem ==
    ASSUME TypeOK, NEW p \in Projects, NEW r \in Reviewers, NEW t \in Times,
           NEW i \in AdjudicationClaimable(r, p), ItemFine(i),
           groups' = groups, judgment' = judgment, verdict' = verdict,
           assign' = [ExpiredAssign(t) EXCEPT !["adjudication"][i][r] = "leased"],
           state' = ExpiredState(t)
    PROVE  ItemFine(i)'
<1>0. i \in Items /\ state[i] = "needs_adjudication" /\ verdict[i] = None
  BY DEF AdjudicationClaimable, ItemsOf
<1>1. Judges(i)' = Judges(i) /\ LabelsGiven(i)' = LabelsGiven(i)
  BY DEF Judges, JudgesIn, LabelsGiven, LabelsIn
<1>2. Cardinality(Judges(i)) = 2 /\ Reviews(i) = {}
  BY <1>0, NoLeaseOnceJudged DEF ItemFine
<1>3. \A s \in Reviewers : ~Lapsed("review", i, s, t)
  BY <1>2 DEF Lapsed, Reviews, Leaseholders
<1>4. state'[i] = state[i]
  BY <1>0, <1>3 DEF ExpiredState
<1>5. \A ph \in Phases, s \in Reviewers :
        assign'[ph][i][s] = IF ph = "adjudication" /\ s = r THEN "leased"
                            ELSE IF Lapsed(ph, i, s, t) THEN "expired" ELSE assign[ph][i][s]
  BY <1>0 DEF ExpiredAssign, Phases
<1>6. \A s \in Reviewers :
        /\ assign'["review"][i][s] = assign["review"][i][s]
        /\ assign'["adjudication"][i][s] # "submitted"
  BY <1>0, <1>3, <1>5 DEF Phases, Lapsed, ItemFine
<1>7. Reviews(i)' = Reviews(i)
  BY <1>6 DEF Reviews, Leaseholders
<1> QED
  BY <1>0, <1>1, <1>4, <1>6, <1>7 DEF ItemFine

\* An accepted judgment keeps its item fine: it takes over the place of the
\* lease it was submitted under.
LEMMA JudgmentKeepsItem ==
    ASSUME TypeOK, NEW r \in Reviewers, NEW i \in Items, NEW l \in Labels,
           NEW t \in Times, ItemFine(i), SubmitJudgment(r, i, l, t)
    PROVE  ItemFine(i)'
<1>1. /\ r \in Reviews(i) /\ state[i] # "absent"
      /\ groups' = groups /\ verdict' = verdict /\ judgment[i][r] = None
  BY DEF SubmitJudgment, LiveLease, Reviews, Leaseholders, ItemFine, corpus
<1>2. \A s \in Reviewers : judgment'[i][s] = IF s = r THEN l ELSE judgment[i][s]
  BY DEF SubmitJudgment, TypeOK
<1>3. \A s \in Reviewers :
        /\ assign'["review"][i][s] = IF s = r THEN "submitted" ELSE assign["review"][i][s]
        /\ assign'["adjudication"][i][s] = assign["adjudication"][i][s]
  BY DEF SubmitJudgment, TypeOK, Phases
<1>4. l # None
  BY ConstantsAssumption DEF ConstantsAssumption
<1>5. Judges(i)' = Judges(i) \cup {r} /\ r \notin Judges(i)
  BY <1>1, <1>2, <1>4 DEF Judges, JudgesIn
<1>6. Reviews(i)' = Reviews(i) \ {r}
  BY <1>3 DEF Reviews, Leaseholders
<1>7. (Reviews(i) \cup Judges(i))' = Reviews(i) \cup Judges(i)
  BY <1>1, <1>5, <1>6
<1>8. Cardinality(Judges(i)) < 2 /\ verdict[i] = None
  BY <1>1, LeaseLeavesRoom, ReviewersCount DEF ItemFine
<1>9. /\ Cardinality(Judges(i)') = Cardinality(Judges(i)) + 1
      /\ Cardinality(Judges(i)) \in Nat
  BY <1>5, ReviewersCount, FS_AddElement
<1>10. /\ state'[i] = RefreshedState(judgment'[i], ActiveReviews(i, t) \ {r})
       /\ Judges(i)' = JudgesIn(judgment'[i]) /\ LabelsGiven(i)' = LabelsIn(judgment'[i])
  BY DEF SubmitJudgment, TypeOK, Judges, LabelsGiven
<1>11. CASE Cardinality(Judges(i)') = 2
  <2>1. state'[i] = IF Disputed(LabelsGiven(i)') THEN "needs_adjudication" ELSE "resolved"
    BY <1>10, <1>11 DEF RefreshedState, RequiredReviews
  <2>2. Disputed(LabelsGiven(i))' <=> Disputed(LabelsGiven(i)')
    BY DEF Disputed
  <2> QED
    BY <1>1, <1>2, <1>3, <1>4, <1>7, <1>8, <1>11, <2>1, <2>2 DEF ItemFine
<1>12. CASE Cardinality(Judges(i)') # 2
  <2>1. Cardinality(Judges(i)') < 2 /\ r \in Judges(i)'
    BY <1>5, <1>8, <1>9, <1>12
  <2>2. state'[i] = "in_review"
    BY <1>9, <1>10, <2>1 DEF RefreshedState, RequiredReviews
  <2> QED
    BY <1>1, <1>2, <1>3, <1>4, <1>7, <1>8, <1>12, <2>2 DEF ItemFine
<1> QED
  BY <1>11, <1>12

\* An accepted verdict keeps its item fine.
LEMMA VerdictKeepsItem ==
    ASSUME TypeOK, NEW r \in Reviewers, NEW i \in Items, NEW l \in Labels,
           NEW t \in Times, ItemFine(i), SubmitAdjudication(r, i, l, t)
    PROVE  ItemFine(i)'
<1>1. /\ state[i] = "needs_adjudication" /\ verdict[i] = None /\ r \notin Judges(i)
      /\ groups' = groups /\ judgment' = judgment
  BY DEF SubmitAdjudication, corpus
<1>2. verdict'[i] = [by |-> r, label |-> l] /\ state'[i] = "resolved"
  BY DEF SubmitAdjudication, TypeOK
<1>3. verdict'[i] # None /\ verdict'[i].by = r
  <2>1. l \in FinalLabels
    BY DEF SubmitAdjudication, VerdictLabels, FinalLabels
  <2>2. [by |-> r, label |-> l] \in VerdictRecords
    BY <2>1 DEF VerdictRecords
  <2> QED
    BY <1>2, <2>2, ConstantsAssumption DEF ConstantsAssumption
<1>4. \A s \in Reviewers :
        /\ assign'["review"][i][s] = assign["review"][i][s]
        /\ assign'["adjudication"][i][s] =
             IF s = r THEN "submitted" ELSE assign["adjudication"][i][s]
  BY DEF SubmitAdjudication, TypeOK, Phases
<1>5. Judges(i)' = Judges(i) /\ LabelsGiven(i)' = LabelsGiven(i) /\ Reviews(i)' = Reviews(i)
  BY <1>1, <1>4 DEF Judges, JudgesIn, LabelsGiven, LabelsIn, Reviews, Leaseholders
<1> QED
  BY <1>1, <1>2, <1>3, <1>4, <1>5 DEF ItemFine

-----------------------------------------------------------------------------
(* Types *)

\* Refreshing gives a state a loaded item can have.
LEMMA RefreshedStateType ==
    ASSUME NEW given, NEW active
    PROVE  RefreshedState(given, active)
             \in {"pending", "in_review", "needs_adjudication", "resolved"}
  BY DEF RefreshedState

\* Expiring leases keeps the tables' types and loads no item.
LEMMA ExpiryTypes ==
    ASSUME Inv, NEW t \in Times
    PROVE  /\ ExpiredAssign(t) \in [Phases -> [Items -> [Reviewers -> AssignmentStatuses]]]
           /\ ExpiredState(t) \in [Items -> ItemStates]
           /\ \A i \in Items : ExpiredState(t)[i] = "absent" <=> state[i] = "absent"
<1>1. ExpiredAssign(t) \in [Phases -> [Items -> [Reviewers -> AssignmentStatuses]]]
  BY DEF Inv, TypeOK, ExpiredAssign, AssignmentStatuses
<1>2. \A i \in Items : /\ ExpiredState(t)[i] \in ItemStates
                       /\ ExpiredState(t)[i] = "absent" <=> state[i] = "absent"
  <2> SUFFICES ASSUME NEW i \in Items
               PROVE  /\ ExpiredState(t)[i] \in ItemStates
                      /\ ExpiredState(t)[i] = "absent" <=> state[i] = "absent"
    OBVIOUS
  <2>1. CASE \E r \in Reviewers : Lapsed("review", i, r, t)
    <3>1. state[i] # "absent"
      BY <2>1 DEF Inv, ItemFine, Lapsed
    <3>2. ExpiredState(t)[i] = RefreshedState(judgment[i], ActiveReviews(i, t))
      BY <2>1 DEF ExpiredState
    <3> QED
      BY <3>1, <3>2, RefreshedStateType DEF ItemStates
  <2>2. CASE ~ \E r \in Reviewers : Lapsed("review", i, r, t)
    BY <2>2 DEF Inv, TypeOK, ExpiredState
  <2> QED
    BY <2>1, <2>2
<1>3. ExpiredState(t) = [i \in Items |-> ExpiredState(t)[i]]
  BY DEF ExpiredState
<1> QED
  BY <1>1, <1>2, <1>3

\* A transaction that creates no project and loads nothing keeps TypeOK's word
\* that an absent project has no rows.
LEMMA AbsentStaysEmpty ==
    ASSUME TypeOK, groups' = groups,
           \A i \in Items : state'[i] = "absent" <=> state[i] = "absent",
           NEW p \in Projects, status[p] = "absent"
    PROVE  GroupsOf(p)' = {} /\ ItemsOf(p)' = {}
  BY DEF TypeOK, GroupsOf, ItemsOf

\* Each action keeps the types.
LEMMA TypePreserved ==
    ASSUME Inv, [Next]_vars
    PROVE  TypeOK'
<1> USE DEF Inv
<1>1. ASSUME NEW a \in Reviewers, BootstrapAdministrator(a)
      PROVE  TypeOK'
  BY <1>1 DEF TypeOK, BootstrapAdministrator, Roles, corpus, work, exports, GroupsOf, ItemsOf
<1>2. ASSUME NEW a \in Reviewers, NEW r \in Reviewers, NEW granted \in RoleGrants,
             ProvisionReviewer(a, r, granted)
      PROVE  TypeOK'
  <2>1. granted \in SUBSET Roles
    BY ConstantsAssumption DEF ConstantsAssumption
  <2> QED
    BY <1>2, <2>1 DEF TypeOK, ProvisionReviewer, corpus, work, exports, GroupsOf, ItemsOf
<1>3. ASSUME NEW a \in Reviewers, NEW p \in Projects, CreateProject(a, p)
      PROVE  TypeOK'
  BY <1>3 DEF TypeOK, CreateProject, people, work, exports, GroupsOf, ItemsOf, ProjectStatuses
<1>4. ASSUME NEW a \in Reviewers, NEW g \in Groups, AddGroup(a, g)
      PROVE  TypeOK'
  BY <1>4 DEF TypeOK, AddGroup, people, work, exports, GroupsOf, ItemsOf
<1>5. ASSUME NEW a \in Reviewers, NEW i \in Items, AddItem(a, i)
      PROVE  TypeOK'
  BY <1>5 DEF TypeOK, AddItem, people, corpus, exports, GroupsOf, ItemsOf, ItemStates
<1>6. ASSUME NEW a \in Reviewers, NEW p \in Projects, NEW gs \in SUBSET Groups,
             NEW is \in SUBSET Items, ImportBatch(a, p, gs, is)
      PROVE  TypeOK'
  <2>1. /\ groups' \subseteq Groups
        /\ state' \in [Items -> ItemStates]
    BY <1>6 DEF TypeOK, ImportBatch, ItemStates
  <2>2. ASSUME NEW q \in Projects, status'[q] = "absent"
        PROVE  GroupsOf(q)' = {} /\ ItemsOf(q)' = {}
    <3>1. q # p /\ status[q] = "absent" /\ \A g \in gs : ProjectOf[g] # q
      BY <1>6, <2>2 DEF ImportBatch
    <3>2. \A i \in is : ProjectOfItem(i) # q
      BY <1>6, <3>1 DEF ImportBatch, ProjectOfItem
    <3>3. GroupsOf(q) = {} /\ ItemsOf(q) = {}
      BY <3>1 DEF TypeOK
    <3>4. GroupsOf(q)' = {}
      BY <1>6, <3>1, <3>3 DEF ImportBatch, GroupsOf
    <3>5. ItemsOf(q)' = {}
      BY <1>6, <3>2, <3>3 DEF ImportBatch, ItemsOf
    <3> QED
      BY <3>4, <3>5
  <2> QED
    BY <1>6, <2>1, <2>2 DEF TypeOK, ImportBatch, people, exports
<1>7. ASSUME NEW a \in Reviewers, NEW p \in Projects, OpenProject(a, p)
      PROVE  TypeOK'
  BY <1>7 DEF TypeOK, OpenProject, people, work, exports, GroupsOf, ItemsOf, ProjectStatuses
<1>8. ASSUME NEW a \in Reviewers, NEW p \in Projects,
             FreezeProject(a, p) \/ FreezeCrash(a, p)
      PROVE  TypeOK'
  <2>1. status' \in [Projects -> ProjectStatuses]
        /\ \A q \in Projects : status'[q] = "absent" => status[q] = "absent"
    BY <1>8 DEF TypeOK, FreezeProject, FreezeCrash, ProjectStatuses, corpus
  <2>2. \A q \in Projects : \A e \in release'[q] : e.project = q
    <3>1. CASE FreezeProject(a, p)
      <4>1. \A q \in Projects : release'[q] = IF q = p THEN {ReleaseOf(p)} ELSE release[q]
        BY <3>1 DEF ReleaseRows, FreezeProject
      <4>2. ReleaseOf(p).project = p
        BY DEF ReleaseOf
      <4> QED
        BY <4>1, <4>2 DEF TypeOK
    <3>2. CASE FreezeCrash(a, p)
      BY <3>2 DEF TypeOK, FreezeCrash
    <3> QED
      BY <1>8, <3>1, <3>2
  <2>3. UNCHANGED <<people, groups, work>>
    BY <1>8 DEF FreezeProject, FreezeCrash, corpus
  <2> QED
    BY <2>1, <2>2, <2>3 DEF TypeOK, people, work, GroupsOf, ItemsOf
<1>9. ASSUME NEW r \in Reviewers, NEW p \in Projects, NEW t \in Times,
             NEW term \in LeaseTerms \cup {1},
             ClaimReview(r, p, t, term) \/ ClaimAdjudication(r, p, t, term)
               \/ ClaimNothing(r, p, t)
      PROVE  TypeOK'
  <2>1. t + term \in Int
    BY ConstantsAssumption DEF ConstantsAssumption
  <2>2. /\ assign' \in [Phases -> [Items -> [Reviewers -> AssignmentStatuses]]]
        /\ expires' \in [Phases -> [Items -> [Reviewers -> Int]]]
    <3>1. CASE ClaimNothing(r, p, t)
      BY <3>1, ExpiryTypes DEF TypeOK, ClaimNothing
    <3>2. CASE ClaimReview(r, p, t, term)
      <4>1. PICK i \in Items :
              /\ assign' = [ExpiredAssign(t) EXCEPT !["review"][i][r] = "leased"]
              /\ expires' = [expires EXCEPT !["review"][i][r] = t + term]
        BY <3>2 DEF ClaimReview, HeadOfQueue, ReviewClaimable, ItemsOf
      <4>2. assign' \in [Phases -> [Items -> [Reviewers -> AssignmentStatuses]]]
        BY <4>1, ExpiryTypes DEF AssignmentStatuses
      <4>3. expires' \in [Phases -> [Items -> [Reviewers -> Int]]]
        BY <2>1, <4>1 DEF TypeOK
      <4> QED
        BY <4>2, <4>3
    <3>3. CASE ClaimAdjudication(r, p, t, term)
      <4>1. PICK i \in Items :
              /\ assign' = [ExpiredAssign(t) EXCEPT !["adjudication"][i][r] = "leased"]
              /\ expires' = [expires EXCEPT !["adjudication"][i][r] = t + term]
        BY <3>3 DEF ClaimAdjudication, HeadOfQueue, AdjudicationClaimable, ItemsOf
      <4>2. assign' \in [Phases -> [Items -> [Reviewers -> AssignmentStatuses]]]
        BY <4>1, ExpiryTypes DEF AssignmentStatuses
      <4>3. expires' \in [Phases -> [Items -> [Reviewers -> Int]]]
        BY <2>1, <4>1 DEF TypeOK
      <4> QED
        BY <4>2, <4>3
    <3> QED
      BY <1>9, <3>1, <3>2, <3>3
  <2>4. /\ state' \in [Items -> ItemStates]
        /\ \A i \in Items : state'[i] = "absent" <=> state[i] = "absent"
    BY <1>9, ExpiryTypes
      DEF ClaimReview, ClaimAdjudication, ClaimNothing, ItemStates, HeadOfQueue,
          ReviewClaimable, ItemsOf
  <2>5. UNCHANGED <<people, corpus, judgment, verdict, exports>>
    BY <1>9 DEF ClaimReview, ClaimAdjudication, ClaimNothing
  <2>6. \A q \in Projects : status'[q] = "absent" => GroupsOf(q)' = {} /\ ItemsOf(q)' = {}
    BY <2>4, <2>5, AbsentStaysEmpty DEF corpus
  <2> QED
    BY <2>2, <2>4, <2>5, <2>6 DEF TypeOK, people, corpus, exports
<1>10. ASSUME NEW r \in Reviewers, NEW i \in Items, NEW l \in Labels, NEW t \in Times,
              SubmitJudgment(r, i, l, t)
       PROVE  TypeOK'
  <2>1. judgment' \in [Items -> [Reviewers -> Labels \cup {None}]]
    BY <1>10 DEF TypeOK, SubmitJudgment
  <2>2. assign' \in [Phases -> [Items -> [Reviewers -> AssignmentStatuses]]]
    BY <1>10 DEF TypeOK, SubmitJudgment, AssignmentStatuses
  <2>3. state[i] # "absent"
    BY <1>10 DEF SubmitJudgment, LiveLease, ItemFine
  <2>4. /\ state' \in [Items -> ItemStates]
        /\ \A j \in Items : state'[j] = "absent" <=> state[j] = "absent"
    BY <1>10, <2>3, RefreshedStateType DEF TypeOK, SubmitJudgment, ItemStates
  <2>5. UNCHANGED <<people, corpus, expires, verdict, exports>>
    BY <1>10 DEF SubmitJudgment
  <2>6. \A q \in Projects : status'[q] = "absent" => GroupsOf(q)' = {} /\ ItemsOf(q)' = {}
    BY <2>4, <2>5, AbsentStaysEmpty DEF corpus
  <2> QED
    BY <2>1, <2>2, <2>4, <2>5, <2>6 DEF TypeOK, people, corpus, exports
<1>11. ASSUME NEW r \in Reviewers, NEW i \in Items, NEW l \in Labels, NEW t \in Times,
              SubmitAdjudication(r, i, l, t)
       PROVE  TypeOK'
  <2>1. verdict' \in [Items -> VerdictRecords \cup {None}]
    BY <1>11 DEF TypeOK, SubmitAdjudication, VerdictRecords, FinalLabels, VerdictLabels
  <2>2. assign' \in [Phases -> [Items -> [Reviewers -> AssignmentStatuses]]]
    BY <1>11 DEF TypeOK, SubmitAdjudication, AssignmentStatuses
  <2>3. /\ state' \in [Items -> ItemStates]
        /\ \A j \in Items : state'[j] = "absent" <=> state[j] = "absent"
    BY <1>11 DEF TypeOK, SubmitAdjudication, ItemStates
  <2>4. UNCHANGED <<people, corpus, expires, judgment, exports>>
    BY <1>11 DEF SubmitAdjudication
  <2>5. \A q \in Projects : status'[q] = "absent" => GroupsOf(q)' = {} /\ ItemsOf(q)' = {}
    BY <2>3, <2>4, AbsentStaysEmpty DEF corpus
  <2> QED
    BY <2>1, <2>2, <2>3, <2>4, <2>5 DEF TypeOK, people, corpus, exports
<1>12. CASE UNCHANGED vars
  BY <1>12 DEF TypeOK, vars, GroupsOf, ItemsOf
<1>13. ASSUME NEW a \in Reviewers, AdministratorStep(a)
       PROVE  TypeOK'
  BY <1>13, <1>1, <1>2, <1>3, <1>4, <1>5, <1>6, <1>7, <1>8 DEF AdministratorStep
<1>14. ASSUME NEW r \in Reviewers, NEW t \in Times, ReviewerStep(r, t)
       PROVE  TypeOK'
  <2>1. CASE \E p \in Projects : ClaimNothing(r, p, t)
    BY <2>1, <1>9
  <2>2. CASE \E p \in Projects, term \in LeaseTerms :
               ClaimReview(r, p, t, term) \/ ClaimAdjudication(r, p, t, term)
    BY <2>2, <1>9
  <2> QED
    BY <1>14, <1>10, <1>11, <2>1, <2>2 DEF ReviewerStep
<1> QED
  BY <1>12, <1>13, <1>14 DEF Next

-----------------------------------------------------------------------------
(* The invariant *)

\* Items a claim expires leases on but does not hand out, and those it does.
LEMMA ClaimKeepsItems ==
    ASSUME Inv, NEW r \in Reviewers, NEW p \in Projects, NEW t \in Times, NEW term,
           ClaimReview(r, p, t, term) \/ ClaimAdjudication(r, p, t, term)
             \/ ClaimNothing(r, p, t)
    PROVE  \A j \in Items : ItemFine(j)'
<1> SUFFICES ASSUME NEW j \in Items
             PROVE  ItemFine(j)'
  OBVIOUS
<1> USE DEF Inv
<1>1. groups' = groups /\ judgment' = judgment /\ verdict' = verdict
  BY DEF ClaimReview, ClaimAdjudication, ClaimNothing, corpus
<1>2. CASE ClaimNothing(r, p, t)
  <2>1. Expires(j, t)
    BY <1>1, <1>2 DEF ClaimNothing, Expires
  <2> QED
    BY <1>1, <2>1, ExpiryKeepsItem
<1>3. CASE ClaimReview(r, p, t, term)
  <2>1. PICK i \in ReviewClaimable(r, p, t) :
          /\ assign' = [ExpiredAssign(t) EXCEPT !["review"][i][r] = "leased"]
          /\ state' = [ExpiredState(t) EXCEPT ![i] = "in_review"]
    BY <1>3 DEF ClaimReview, HeadOfQueue
  <2>2. i \in Items
    BY DEF ReviewClaimable, ItemsOf
  <2>3. CASE j = i
    BY <1>1, <2>1, <2>2, <2>3, ReviewClaimKeepsItem
  <2>4. CASE j # i
    <3>1. Expires(j, t)
      BY <1>1, <2>1, <2>4 DEF Expires, ExpiredAssign, ExpiredState, Phases
    <3> QED
      BY <1>1, <3>1, ExpiryKeepsItem
  <2> QED
    BY <2>3, <2>4
<1>4. CASE ClaimAdjudication(r, p, t, term)
  <2>1. PICK i \in AdjudicationClaimable(r, p) :
          /\ assign' = [ExpiredAssign(t) EXCEPT !["adjudication"][i][r] = "leased"]
          /\ state' = ExpiredState(t)
    BY <1>4 DEF ClaimAdjudication, HeadOfQueue
  <2>2. i \in Items
    BY DEF AdjudicationClaimable, ItemsOf
  <2>3. CASE j = i
    BY <1>1, <2>1, <2>2, <2>3, AdjudicationClaimKeepsItem
  <2>4. CASE j # i
    <3>1. Expires(j, t)
      BY <1>1, <2>1, <2>4 DEF Expires, ExpiredAssign, Phases
    <3> QED
      BY <1>1, <3>1, ExpiryKeepsItem
  <2> QED
    BY <2>3, <2>4
<1> QED
  BY <1>2, <1>3, <1>4

\* A loaded item starts with nothing: it was absent before.
LEMMA LoadKeepsItem ==
    ASSUME TypeOK, NEW i \in Items, ItemFine(i), state[i] = "absent",
           state'[i] = "pending", GroupOf[i] \in groups',
           judgment' = judgment, verdict' = verdict, assign' = assign
    PROVE  ItemFine(i)'
<1>1. Judges(i) = {} /\ Reviews(i) = {}
  BY DEF ItemFine, Judges, JudgesIn, Reviews, Leaseholders
<1>2. Judges(i)' = {} /\ Reviews(i)' = {}
  BY <1>1 DEF Judges, JudgesIn, Reviews, Leaseholders
<1>3. Cardinality({}) = 0 /\ Cardinality(Reviews(i)' \cup Judges(i)') = 0
  BY <1>2, FS_EmptySet
<1> QED
  BY <1>1, <1>2, <1>3 DEF ItemFine

\* Every step keeps every item fine.
LEMMA ItemsPreserved ==
    ASSUME Inv, [Next]_vars
    PROVE  \A j \in Items : ItemFine(j)'
<1> USE DEF Inv
<1> SUFFICES ASSUME NEW j \in Items
             PROVE  ItemFine(j)'
  OBVIOUS
<1>1. ASSUME UNCHANGED work, groups \subseteq groups'
      PROVE  ItemFine(j)'
  BY <1>1, UntouchedItem DEF work, SameItem
<1>2. ASSUME NEW a \in Reviewers, AdministratorStep(a)
      PROVE  ItemFine(j)'
  <2>1. ASSUME NEW i \in Items, AddItem(a, i)
        PROVE  ItemFine(j)'
    <3>1. groups' = groups /\ judgment' = judgment /\ verdict' = verdict /\ assign' = assign
      BY <2>1 DEF AddItem, corpus
    <3>2. CASE j = i
      BY <2>1, <3>1, <3>2, LoadKeepsItem DEF AddItem, TypeOK
    <3>3. CASE j # i
      <4>1. SameItem(j)
        BY <2>1, <3>1, <3>3 DEF AddItem, SameItem
      <4> QED
        BY <3>1, <4>1, UntouchedItem
    <3> QED
      BY <3>2, <3>3
  <2>2. ASSUME NEW p \in Projects, NEW gs \in SUBSET Groups, NEW is \in SUBSET Items,
               ImportBatch(a, p, gs, is)
        PROVE  ItemFine(j)'
    <3>1. /\ groups' = groups \cup gs
          /\ judgment' = judgment /\ verdict' = verdict /\ assign' = assign
      BY <2>2 DEF ImportBatch
    <3>2. CASE j \in is
      <4>1. GroupOf[j] \in gs /\ GroupOf[j] \notin groups /\ state'[j] = "pending"
        BY <2>2, <3>2 DEF ImportBatch
      <4>2. state[j] = "absent"
        BY <4>1 DEF ItemFine
      <4> QED
        BY <3>1, <4>1, <4>2, LoadKeepsItem
    <3>3. CASE j \notin is
      <4>1. SameItem(j)
        BY <2>2, <3>1, <3>3 DEF ImportBatch, SameItem
      <4> QED
        BY <3>1, <4>1, UntouchedItem
    <3> QED
      BY <3>2, <3>3
  <2>3. CASE UNCHANGED work /\ groups \subseteq groups'
    BY <1>1, <2>3
  <2> QED
    BY <1>2, <2>1, <2>2, <2>3
      DEF AdministratorStep, BootstrapAdministrator, ProvisionReviewer, CreateProject,
          AddGroup, OpenProject, FreezeProject, FreezeCrash, corpus
<1>3. ASSUME NEW r \in Reviewers, NEW t \in Times, ReviewerStep(r, t)
      PROVE  ItemFine(j)'
  <2>1. CASE \/ \E p \in Projects, term \in LeaseTerms :
                  ClaimReview(r, p, t, term) \/ ClaimAdjudication(r, p, t, term)
             \/ \E p \in Projects : ClaimNothing(r, p, t)
    BY <2>1, ClaimKeepsItems
  <2>2. ASSUME NEW i \in Items, NEW l \in Labels, SubmitJudgment(r, i, l, t)
        PROVE  ItemFine(j)'
    <3>1. CASE j = i
      BY <2>2, <3>1, JudgmentKeepsItem
    <3>2. CASE j # i
      <4>1. SameItem(j) /\ groups' = groups
        BY <2>2, <3>2 DEF SubmitJudgment, SameItem, TypeOK, Phases, corpus
      <4> QED
        BY <4>1, UntouchedItem
    <3> QED
      BY <3>1, <3>2
  <2>3. ASSUME NEW i \in Items, NEW l \in Labels, SubmitAdjudication(r, i, l, t)
        PROVE  ItemFine(j)'
    <3>1. CASE j = i
      BY <2>3, <3>1, VerdictKeepsItem
    <3>2. CASE j # i
      <4>1. SameItem(j) /\ groups' = groups
        BY <2>3, <3>2 DEF SubmitAdjudication, SameItem, TypeOK, Phases, corpus
      <4> QED
        BY <4>1, UntouchedItem
    <3> QED
      BY <3>1, <3>2
  <2> QED
    BY <1>3, <2>1, <2>2, <2>3 DEF ReviewerStep
<1>4. CASE UNCHANGED vars
  BY <1>1, <1>4 DEF vars, work
<1> QED
  BY <1>2, <1>3, <1>4 DEF Next

\* An empty database satisfies the invariant.
LEMMA InvInit == Init => Inv
<1> SUFFICES ASSUME Init PROVE Inv
  OBVIOUS
<1>1. TypeOK
  BY DEF Init, TypeOK, ItemStates, ProjectStatuses, AssignmentStatuses, GroupsOf, ItemsOf
<1>2. ReleaseRows
  BY DEF Init, ReleaseRows
<1>3. ASSUME NEW i \in Items
      PROVE  ItemFine(i)
  <2>1. Judges(i) = {} /\ Reviews(i) = {}
    BY DEF Init, Judges, JudgesIn, Reviews, Leaseholders, Phases
  <2>2. Cardinality({}) = 0 /\ Cardinality(Reviews(i) \cup Judges(i)) = 0
    BY <2>1, FS_EmptySet
  <2> QED
    BY <2>1, <2>2 DEF Init, ItemFine, Phases
<1> QED
  BY <1>1, <1>2, <1>3 DEF Inv

\* Only a freeze writes export rows.
LEMMA ReleaseSteps ==
    ASSUME [Next]_vars
    PROVE  \/ release' = release
           \/ \E a \in Reviewers, p \in Projects : FreezeProject(a, p) 
              /\ release' = [release EXCEPT ![p] = {ReleaseOf(p)}]
<1>1. ASSUME NEW a \in Reviewers, AdministratorStep(a)
      PROVE  release' = release \/ \E p \in Projects : FreezeProject(a, p)
  BY <1>1 DEF AdministratorStep, BootstrapAdministrator, ProvisionReviewer, CreateProject,
              AddGroup, AddItem, ImportBatch, OpenProject, FreezeCrash, exports
<1>2. ASSUME NEW r \in Reviewers, NEW t \in Times, ReviewerStep(r, t)
      PROVE  release' = release
  BY <1>2 DEF ReviewerStep, ClaimReview, ClaimAdjudication, ClaimNothing,
              SubmitJudgment, SubmitAdjudication, exports
<1>3. \A a \in Reviewers, p \in Projects :
        FreezeProject(a, p) => release' = [release EXCEPT ![p] = {ReleaseOf(p)}]
  BY DEF FreezeProject
<1> QED
  BY <1>1, <1>2, <1>3 DEF Next, vars

\* Every step keeps the invariant.
LEMMA InvNext == Inv /\ [Next]_vars => Inv'
<1> SUFFICES ASSUME Inv, [Next]_vars PROVE Inv'
  OBVIOUS
<1>1. ReleaseRows'
  BY ReleaseSteps DEF Inv, ReleaseRows
<1> QED
  BY <1>1, TypePreserved, ItemsPreserved DEF Inv

\* The invariant holds in every reachable state.
THEOREM Invariance == Spec => []Inv
<1>1. Init => Inv
  BY InvInit
<1>2. Inv /\ [Next]_vars => Inv'
  BY InvNext
<1> QED
  BY <1>1, <1>2, PTL DEF Spec

-----------------------------------------------------------------------------
(* The properties of AnnotationLedger that follow *)

\* The tables keep their types, and an absent project has no rows.
THEOREM TypesCorrect == Spec => []TypeOK
<1>1. Inv => TypeOK
  BY DEF Inv
<1> QED
  BY <1>1, Invariance, PTL

\* No clocks, however skewed, give an item more than its two reviews.
THEOREM CapacityKept == Spec => []ReviewCapacity
<1>1. Inv => ReviewCapacity
  BY DEF Inv, ItemFine, ReviewCapacity, RequiredReviews, Reviews
<1> QED
  BY <1>1, Invariance, PTL

\* The state column says what the judgments and the verdict say.
THEOREM StateIsSummary == Spec => []StateFollowsJudgments
<1>1. Inv => StateFollowsJudgments
  BY DEF Inv, ItemFine, StateFollowsJudgments, RequiredReviews, Reviews
<1> QED
  BY <1>1, Invariance, PTL

\* Verdicts settle disputes only, and never come from a party to them.
THEOREM VerdictsIndependent == Spec => []IndependentVerdict
<1>1. Inv => IndependentVerdict
  BY DEF Inv, ItemFine, IndependentVerdict, RequiredReviews
<1> QED
  BY <1>1, Invariance, PTL

-----------------------------------------------------------------------------
(* Frozen projects, and projects whose freeze died before its commit *)

\* A project nobody may load into any more, all of whose items are resolved.
Settled(p) ==
    /\ status[p] \in {"open", "frozen"}
    /\ \A i \in ItemsOf(p) : state[i] = "resolved"

SettledInv ==
    /\ \A p \in Projects : status[p] = "frozen" => Settled(p)
    /\ \A d \in directories :
         d.project \in Projects /\ Settled(d.project) /\ d = ReleaseOf(d.project)
    /\ \A p \in Projects :
         /\ release[p] \subseteq directories
         /\ status[p] = "frozen" <=> release[p] # {}

\* A resolved item has no review lease, and so no claim or submission touches it.
LEMMA ResolvedItemKept ==
    ASSUME Inv, NEW i \in Items, [Next]_vars,
           \/ state[i] = "resolved"
           \/ state[i] = "absent" /\ status[ProjectOfItem(i)] \in {"open", "frozen"}
    PROVE  state'[i] = state[i] /\ judgment'[i] = judgment[i] /\ verdict'[i] = verdict[i]
<1> USE DEF Inv
<1>1. \A r \in Reviewers : assign["review"][i][r] # "leased"
  <2>1. CASE state[i] = "resolved"
    <3>1. Reviews(i) = {}
      BY <2>1, NoLeaseOnceJudged DEF ItemFine
    <3> QED
      BY <3>1 DEF Reviews, Leaseholders
  <2>2. CASE state[i] = "absent"
    BY <2>2 DEF ItemFine
  <2> QED
    BY <2>1, <2>2
<1>2. \A t : ExpiredState(t)[i] = state[i]
  BY <1>1 DEF ExpiredState, Lapsed
<1>3. ASSUME NEW a \in Reviewers, AdministratorStep(a)
      PROVE  state'[i] = state[i] /\ judgment'[i] = judgment[i] /\ verdict'[i] = verdict[i]
  <2>1. ASSUME NEW j \in Items, AddItem(a, j)
        PROVE  state'[i] = state[i] /\ judgment' = judgment /\ verdict' = verdict
    <3>1. j # i
      BY <2>1 DEF AddItem
    <3> QED
      BY <2>1, <3>1 DEF AddItem, TypeOK
  <2>2. ASSUME NEW p \in Projects, NEW gs \in SUBSET Groups, NEW is \in SUBSET Items,
               ImportBatch(a, p, gs, is)
        PROVE  state'[i] = state[i] /\ judgment' = judgment /\ verdict' = verdict
    <3>1. i \notin is
      <4>1. CASE state[i] = "resolved"
        <5>1. GroupOf[i] \in groups
          BY <4>1 DEF ItemFine
        <5> QED
          BY <2>2, <5>1 DEF ImportBatch
      <4>2. CASE status[ProjectOfItem(i)] \in {"open", "frozen"}
        BY <2>2, <4>2 DEF ImportBatch, ProjectOfItem
      <4> QED
        BY <4>1, <4>2
    <3> QED
      BY <2>2, <3>1 DEF ImportBatch
  <2>3. CASE UNCHANGED work
    BY <2>3 DEF work
  <2> QED
    BY <1>3, <2>1, <2>2, <2>3
      DEF AdministratorStep, BootstrapAdministrator, ProvisionReviewer, CreateProject,
          AddGroup, OpenProject, FreezeProject, FreezeCrash
<1>4. ASSUME NEW r \in Reviewers, NEW t \in Times, ReviewerStep(r, t)
      PROVE  state'[i] = state[i] /\ judgment'[i] = judgment[i] /\ verdict'[i] = verdict[i]
  <2>1. ASSUME NEW p \in Projects, NEW term \in LeaseTerms, ClaimReview(r, p, t, term)
        PROVE  state'[i] = state[i] /\ judgment' = judgment /\ verdict' = verdict
    <3>1. PICK j \in ReviewClaimable(r, p, t) : state' = [ExpiredState(t) EXCEPT ![j] = "in_review"]
      BY <2>1 DEF ClaimReview, HeadOfQueue
    <3>2. j # i
      BY DEF ReviewClaimable
    <3>3. state'[i] = ExpiredState(t)[i]
      BY <3>1, <3>2 DEF ExpiredState
    <3> QED
      BY <1>2, <2>1, <3>3 DEF ClaimReview
  <2>2. ASSUME NEW p \in Projects,
               (\E term \in LeaseTerms : ClaimAdjudication(r, p, t, term)) \/ ClaimNothing(r, p, t)
        PROVE  state'[i] = state[i] /\ judgment' = judgment /\ verdict' = verdict
    BY <1>2, <2>2 DEF ClaimAdjudication, ClaimNothing
  <2>3. ASSUME NEW j \in Items, NEW l \in Labels, SubmitJudgment(r, j, l, t)
        PROVE  state'[i] = state[i] /\ judgment'[i] = judgment[i] /\ verdict' = verdict
    <3>1. j # i
      BY <1>1, <2>3 DEF SubmitJudgment, LiveLease
    <3> QED
      BY <2>3, <3>1 DEF SubmitJudgment, TypeOK
  <2>4. ASSUME NEW j \in Items, NEW l \in Labels, SubmitAdjudication(r, j, l, t)
        PROVE  state'[i] = state[i] /\ judgment' = judgment /\ verdict'[i] = verdict[i]
    <3>1. j # i
      BY <2>4 DEF SubmitAdjudication
    <3> QED
      BY <2>4, <3>1 DEF SubmitAdjudication, TypeOK
  <2> QED
    BY <1>4, <2>1, <2>2, <2>3, <2>4 DEF ReviewerStep
<1>5. CASE UNCHANGED vars
  BY <1>5 DEF vars
<1> QED
  BY <1>3, <1>4, <1>5 DEF Next

\* A project leaves "open" for "frozen" only, and "frozen" never.
LEMMA StatusSteps ==
    ASSUME Inv, NEW p \in Projects, [Next]_vars
    PROVE  /\ status[p] = "open" => status'[p] \in {"open", "frozen"}
           /\ status[p] = "frozen" => status'[p] = "frozen"
<1> USE DEF Inv, TypeOK
<1>1. ASSUME NEW a \in Reviewers, AdministratorStep(a)
      PROVE  /\ status[p] = "open" => status'[p] \in {"open", "frozen"}
             /\ status[p] = "frozen" => status'[p] = "frozen"
  <2>1. ASSUME NEW q \in Projects, CreateProject(a, q) \/ OpenProject(a, q) \/ FreezeProject(a, q)
        PROVE  /\ status[p] = "open" => status'[p] \in {"open", "frozen"}
               /\ status[p] = "frozen" => status'[p] = "frozen"
    BY <2>1 DEF CreateProject, OpenProject, FreezeProject
  <2>2. CASE UNCHANGED status
    BY <2>2
  <2> QED
    BY <1>1, <2>1, <2>2
      DEF AdministratorStep, BootstrapAdministrator, ProvisionReviewer, AddGroup, AddItem,
          ImportBatch, FreezeCrash, corpus
<1>2. ASSUME NEW r \in Reviewers, NEW t \in Times, ReviewerStep(r, t)
      PROVE  UNCHANGED status
  BY <1>2 DEF ReviewerStep, ClaimReview, ClaimAdjudication, ClaimNothing,
              SubmitJudgment, SubmitAdjudication, corpus
<1> QED
  BY <1>1, <1>2 DEF Next, vars

\* A settled project stays settled, and says what it said.
LEMMA SettledKept ==
    ASSUME Inv, NEW p \in Projects, Settled(p), [Next]_vars
    PROVE  Settled(p)' /\ ReleaseOf(p)' = ReleaseOf(p)
<1>1. \A i \in Items : ProjectOfItem(i) = p =>
        state'[i] = state[i] /\ judgment'[i] = judgment[i] /\ verdict'[i] = verdict[i]
  <2> SUFFICES ASSUME NEW i \in Items, ProjectOfItem(i) = p
               PROVE  state'[i] = state[i] /\ judgment'[i] = judgment[i] /\ verdict'[i] = verdict[i]
    OBVIOUS
  <2>1. state[i] \in {"absent", "resolved"}
    BY DEF Settled, ItemsOf
  <2> QED
    BY <2>1, ResolvedItemKept DEF Settled
<1>2. ItemsOf(p)' = ItemsOf(p)
  BY <1>1 DEF ItemsOf, ProjectOfItem
<1>3. Settled(p)'
  BY <1>1, <1>2, StatusSteps DEF Settled, ItemsOf
<1>4. \A i \in ItemsOf(p) :
        judgment'[i] = judgment[i] /\ verdict'[i] = verdict[i] /\ FinalLabel(i)' = FinalLabel(i)
  <2> SUFFICES ASSUME NEW i \in ItemsOf(p)
               PROVE  /\ judgment'[i] = judgment[i] /\ verdict'[i] = verdict[i]
                      /\ FinalLabel(i)' = FinalLabel(i)
    OBVIOUS
  <2>1. judgment'[i] = judgment[i] /\ verdict'[i] = verdict[i]
    BY <1>1 DEF ItemsOf
  <2> QED
    BY <2>1 DEF FinalLabel
<1>5. ReleaseOf(p)' = ReleaseOf(p)
  <2>1. [i \in ItemsOf(p) |-> FinalLabel(i)]' = [i \in ItemsOf(p) |-> FinalLabel(i)]
    BY <1>2, <1>4
  <2>2. [i \in ItemsOf(p) |-> judgment[i]]' = [i \in ItemsOf(p) |-> judgment[i]]
    BY <1>2, <1>4
  <2>3. [i \in ItemsOf(p) |-> verdict[i]]' = [i \in ItemsOf(p) |-> verdict[i]]
    BY <1>2, <1>4
  <2> QED
    BY <2>1, <2>2, <2>3 DEF ReleaseOf
<1> QED
  BY <1>3, <1>5

\* The gate of a freeze makes a project settled.
LEMMA GateSettles ==
    ASSUME NEW a, NEW p \in Projects, FreezeProject(a, p) \/ FreezeCrash(a, p)
    PROVE  Settled(p)
  BY DEF FreezeProject, FreezeCrash, FreezeGate, ItemGate, Settled

\* Every step keeps SettledInv.
LEMMA SettledInvNext ==
    ASSUME Inv, SettledInv, [Next]_vars
    PROVE  SettledInv'
<1> USE DEF Inv
<1>1. \A p \in Projects : Settled(p) => Settled(p)' /\ ReleaseOf(p)' = ReleaseOf(p)
  BY SettledKept
<1>2. ASSUME NEW a \in Reviewers, NEW p \in Projects, FreezeProject(a, p)
      PROVE  SettledInv'
  <2>1. Settled(p) /\ ReleaseOf(p).project = p
    BY <1>2, GateSettles DEF ReleaseOf
  <2>2. /\ directories' = directories \cup {ReleaseOf(p)}
        /\ \A q \in Projects : /\ release'[q] = IF q = p THEN {ReleaseOf(p)} ELSE release[q]
                               /\ status'[q] = IF q = p THEN "frozen" ELSE status[q]
    BY <1>2 DEF FreezeProject, ReleaseRows, TypeOK
  <2>3. \A q \in Projects : status'[q] = "frozen" => Settled(q)'
    BY <1>1, <2>1, <2>2 DEF SettledInv
  <2>4. \A d \in directories' :
          d.project \in Projects /\ Settled(d.project)' /\ d = ReleaseOf(d.project)'
    BY <1>1, <2>1, <2>2 DEF SettledInv
  <2> QED
    BY <2>2, <2>3, <2>4 DEF SettledInv
<1>3. ASSUME NEW a \in Reviewers, NEW p \in Projects, FreezeCrash(a, p)
      PROVE  SettledInv'
  <2>1. Settled(p) /\ ReleaseOf(p).project = p
    BY <1>3, GateSettles DEF ReleaseOf
  <2>2. directories' = directories \cup {ReleaseOf(p)} /\ release' = release /\ status' = status
    BY <1>3 DEF FreezeCrash, corpus
  <2>3. \A d \in directories' :
          d.project \in Projects /\ Settled(d.project)' /\ d = ReleaseOf(d.project)'
    BY <1>1, <2>1, <2>2 DEF SettledInv
  <2> QED
    BY <1>1, <2>2, <2>3 DEF SettledInv
<1>4. ASSUME UNCHANGED <<directories, release>>,
             \A p \in Projects : status'[p] = "frozen" <=> status[p] = "frozen"
      PROVE  SettledInv'
  BY <1>1, <1>4 DEF SettledInv
<1>5. ASSUME NEW a \in Reviewers, AdministratorStep(a)
      PROVE  SettledInv'
  <2>1. ASSUME NEW p \in Projects, CreateProject(a, p) \/ OpenProject(a, p)
        PROVE  SettledInv'
    <3>1. \A q \in Projects : status'[q] = "frozen" <=> status[q] = "frozen"
      BY <2>1 DEF CreateProject, OpenProject, TypeOK
    <3> QED
      BY <1>4, <2>1, <3>1 DEF CreateProject, OpenProject, exports
  <2>2. CASE UNCHANGED <<directories, release, status>>
    BY <1>4, <2>2
  <2> QED
    BY <1>2, <1>3, <1>5, <2>1, <2>2
      DEF AdministratorStep, BootstrapAdministrator, ProvisionReviewer, AddGroup, AddItem,
          ImportBatch, corpus, exports
<1>6. ASSUME NEW r \in Reviewers, NEW t \in Times, ReviewerStep(r, t)
      PROVE  SettledInv'
  <2>1. UNCHANGED <<directories, release, status>>
    BY <1>6 DEF ReviewerStep, ClaimReview, ClaimAdjudication, ClaimNothing,
                SubmitJudgment, SubmitAdjudication, corpus, exports
  <2> QED
    BY <1>4, <2>1
<1>7. CASE UNCHANGED vars
  BY <1>4, <1>7 DEF vars
<1> QED
  BY <1>5, <1>6, <1>7 DEF Next

\* Settled projects are an invariant.
LEMMA SettledInvariance == Spec => []SettledInv
<1>1. Init => SettledInv
  BY DEF Init, SettledInv
<1>2. Inv /\ SettledInv /\ [Next]_vars => SettledInv'
  BY SettledInvNext
<1> QED
  BY <1>1, <1>2, Invariance, PTL DEF Spec

\* Whatever freezes died, every release directory still says what its project says.
THEOREM DirectoriesStayCurrent == Spec => []DirectoriesCurrent
<1>1. SettledInv => DirectoriesCurrent
  BY DEF SettledInv, DirectoriesCurrent
<1> QED
  BY <1>1, SettledInvariance, PTL

-----------------------------------------------------------------------------
(* The ledger implements LabelRelease *)

\* The refinement mapping of Promise, by name.
OutcomeOf(i) == IF state[i] = "resolved" THEN FinalLabel(i) ELSE None
PublishedOf(p) == IF release[p] = {} THEN None ELSE (CHOOSE e \in release[p] : TRUE).labels
Outcome == [i \in Items |-> OutcomeOf(i)]
Published == [p \in Projects |-> PublishedOf(p)]

\* Undisputed judgments, and verdicts, give a label a release may carry.
LEMMA DecidedLabelType ==
    ASSUME NEW given \in [Reviewers -> Labels \cup {None}],
           NEW ruling \in VerdictRecords \cup {None},
           Disputed(LabelsIn(given)) => ruling # None
    PROVE  DecidedLabel(given, ruling) \in FinalLabels
<1>1. CASE ruling # None
  BY <1>1 DEF DecidedLabel, VerdictRecords
<1>2. CASE ruling = None
  <2>1. Cardinality(LabelsIn(given)) = 1 /\ LabelsIn(given) # {Uncertain}
    BY <1>2 DEF Disputed
  <2>2. IsFiniteSet(LabelsIn(given))
    <3> DEFINE f == [r \in JudgesIn(given) |-> given[r]]
    <3>1. f \in Surjection(JudgesIn(given), LabelsIn(given))
      BY DEF Surjection, LabelsIn
    <3>2. IsFiniteSet(JudgesIn(given))
      BY ConstantsAssumption, FS_Subset DEF ConstantsAssumption, JudgesIn
    <3> QED
      BY <3>1, <3>2, FS_Surjection
  <2>3. PICK l : LabelsIn(given) = {l}
    BY <2>1, <2>2, FS_Singleton
  <2>4. l \in FinalLabels
    BY <2>1, <2>3 DEF FinalLabels, LabelsIn, JudgesIn
  <2>5. DecidedLabel(given, ruling) = CHOOSE k \in {l} : TRUE
    BY <1>2, <2>3 DEF DecidedLabel
  <2> QED
    BY <2>4, <2>5
<1> QED
  BY <1>1, <1>2

\* A resolved item's outcome is for good.
LEMMA OutcomeKept ==
    ASSUME Inv, [Next]_vars, NEW i \in Items, state'[i] = "resolved" => state[i] = "resolved"
    PROVE  OutcomeOf(i)' = OutcomeOf(i)
<1>1. CASE state[i] = "resolved"
  <2>1. state'[i] = state[i] /\ judgment'[i] = judgment[i] /\ verdict'[i] = verdict[i]
    BY <1>1, ResolvedItemKept
  <2> QED
    BY <2>1 DEF OutcomeOf, FinalLabel
<1>2. CASE state[i] # "resolved"
  BY <1>2 DEF OutcomeOf
<1> QED
  BY <1>1, <1>2

\* A claim resolves nothing: an item whose lease it writes off lacks a judgment.
LEMMA ClaimsResolveNothing ==
    ASSUME Inv, NEW r \in Reviewers, NEW p \in Projects, NEW t \in Times, NEW term,
           ClaimReview(r, p, t, term) \/ ClaimAdjudication(r, p, t, term)
             \/ ClaimNothing(r, p, t),
           NEW i \in Items, state'[i] = "resolved"
    PROVE  state[i] = "resolved"
<1> USE DEF Inv
<1>1. ExpiredState(t)[i] = "resolved" => state[i] = "resolved"
  <2>1. CASE \E s \in Reviewers : Lapsed("review", i, s, t)
    <3>1. Cardinality(Judges(i)) < 2
      BY <2>1, LeaseLeavesRoom DEF Lapsed, Reviews, Leaseholders
    <3>2. ExpiredState(t)[i] # "resolved"
      BY <2>1, <3>1, ReviewersCount DEF ExpiredState, RefreshedState, RequiredReviews, Judges
    <3> QED
      BY <3>2
  <2>2. CASE ~ \E s \in Reviewers : Lapsed("review", i, s, t)
    BY <2>2 DEF ExpiredState
  <2> QED
    BY <2>1, <2>2
<1>2. state'[i] = ExpiredState(t)[i]
  <2>1. CASE ClaimReview(r, p, t, term)
    <3>1. PICK j \in Items : state' = [ExpiredState(t) EXCEPT ![j] = "in_review"]
      BY <2>1 DEF ClaimReview, HeadOfQueue, ReviewClaimable, ItemsOf
    <3> QED
      BY <3>1 DEF ExpiredState
  <2>2. CASE ClaimAdjudication(r, p, t, term) \/ ClaimNothing(r, p, t)
    BY <2>2 DEF ClaimAdjudication, ClaimNothing
  <2> QED
    BY <2>1, <2>2
<1> QED
  BY <1>1, <1>2

\* A submission that resolves its item is a Decide step.
LEMMA SubmissionDecides ==
    ASSUME Inv, SettledInv, NEW r \in Reviewers, NEW i \in Items, NEW l \in Labels,
           NEW t \in Times, SubmitJudgment(r, i, l, t) \/ SubmitAdjudication(r, i, l, t),
           Next
    PROVE  Promise!Decide(i) \/ UNCHANGED Promise!vars
<1> USE DEF Inv
<1>1. /\ state[i] \notin {"resolved", "absent"}
      /\ \A j \in Items \ {i} : state'[j] = state[j]
      /\ release' = release
  <2>1. CASE SubmitJudgment(r, i, l, t)
    <3>1. r \in Reviews(i)
      BY <2>1 DEF SubmitJudgment, LiveLease, Reviews, Leaseholders
    <3>2. Cardinality(Judges(i)) # 2
      BY <3>1, NoLeaseOnceJudged
    <3>3. state[i] # "absent"
      BY <3>1 DEF ItemFine, Reviews, Leaseholders
    <3>4. state[i] # "resolved"
      BY <3>2 DEF ItemFine
    <3> QED
      BY <2>1, <3>3, <3>4 DEF SubmitJudgment, TypeOK, exports
  <2>2. CASE SubmitAdjudication(r, i, l, t)
    BY <2>2 DEF SubmitAdjudication, TypeOK, exports
  <2> QED
    BY <2>1, <2>2
<1>2. Inv'
  BY InvNext
<1>3. Published' = Published /\ \A j \in Items \ {i} : OutcomeOf(j)' = OutcomeOf(j)
  BY <1>1, OutcomeKept DEF Published, PublishedOf
<1>4. CASE state'[i] # "resolved"
  <2>1. OutcomeOf(i)' = OutcomeOf(i)
    BY <1>4, OutcomeKept
  <2>2. Outcome' = Outcome
    BY <1>3, <2>1 DEF Outcome
  <2> QED
    BY <1>3, <2>2 DEF Promise!vars, Outcome, Published, OutcomeOf, PublishedOf
<1>5. CASE state'[i] = "resolved"
  <2>1. FinalLabel(i)' \in FinalLabels
    <3>1. /\ judgment'[i] \in [Reviewers -> Labels \cup {None}]
          /\ verdict'[i] \in VerdictRecords \cup {None}
      BY <1>2 DEF TypeOK
    <3>2. Disputed(LabelsIn(judgment'[i])) => verdict'[i] # None
      BY <1>2, <1>5 DEF ItemFine, LabelsGiven
    <3>3. DecidedLabel(judgment'[i], verdict'[i]) \in FinalLabels
      BY <3>1, <3>2, DecidedLabelType
    <3> QED
      BY <3>3 DEF FinalLabel
  <2>2. Outcome[i] = None /\ Outcome' = [Outcome EXCEPT ![i] = FinalLabel(i)']
    BY <1>1, <1>3, <1>5 DEF Outcome, OutcomeOf
  <2>3. ProjectOfItem(i) \in Projects
    BY ConstantsAssumption DEF ConstantsAssumption, ProjectOfItem
  <2>4. Published[ProjectOfItem(i)] = None
    BY <1>1, <2>3 DEF Published, PublishedOf, SettledInv, Settled, ItemsOf
  <2> QED
    BY <1>3, <2>1, <2>2, <2>3, <2>4
      DEF Promise!Decide, Outcome, Published, OutcomeOf, PublishedOf
<1> QED
  BY <1>4, <1>5

\* A freeze is a Publish step.
LEMMA FreezePublishes ==
    ASSUME Inv, SettledInv, NEW a \in Reviewers, NEW p \in Projects, FreezeProject(a, p)
    PROVE  Promise!Publish(p)
<1> USE DEF Inv
<1> DEFINE S == ItemsOf(p)
<1>1. Settled(p) /\ S # {}
  BY GateSettles DEF FreezeProject, FreezeGate
<1>2. Published[p] = None
  BY DEF Published, PublishedOf, SettledInv, FreezeProject
<1>3. Outcome' = Outcome
  BY DEF FreezeProject, work, Outcome, OutcomeOf, FinalLabel
<1>4. \A i \in S : Outcome[i] = FinalLabel(i) /\ Outcome[i] # None
  <2> SUFFICES ASSUME NEW i \in S
               PROVE  Outcome[i] = FinalLabel(i) /\ Outcome[i] # None
    OBVIOUS
  <2>1. i \in Items /\ state[i] = "resolved"
    BY <1>1 DEF Settled, ItemsOf
  <2>2. FinalLabel(i) \in FinalLabels
    <3>1. /\ judgment[i] \in [Reviewers -> Labels \cup {None}]
          /\ verdict[i] \in VerdictRecords \cup {None}
      BY <2>1 DEF TypeOK
    <3>2. Disputed(LabelsIn(judgment[i])) => verdict[i] # None
      BY <2>1 DEF ItemFine, LabelsGiven
    <3> QED
      BY <3>1, <3>2, DecidedLabelType DEF FinalLabel
  <2>3. None \notin FinalLabels
    BY ConstantsAssumption DEF ConstantsAssumption, FinalLabels
  <2> QED
    BY <2>1, <2>2, <2>3 DEF Outcome, OutcomeOf
<1>5. Published' = [Published EXCEPT ![p] = [i \in S |-> Outcome[i]]]
  <2>1. \A q \in Projects : release'[q] = IF q = p THEN {ReleaseOf(p)} ELSE release[q]
    BY DEF FreezeProject, ReleaseRows
  <2>2. PublishedOf(p)' = ReleaseOf(p).labels
    BY <2>1 DEF PublishedOf
  <2>3. ReleaseOf(p).labels = [i \in S |-> FinalLabel(i)]
    BY DEF ReleaseOf
  <2>4. PublishedOf(p)' = [i \in S |-> Outcome[i]]
    BY <1>4, <2>2, <2>3
  <2>5. \A q \in Projects \ {p} : PublishedOf(q)' = PublishedOf(q)
    <3> SUFFICES ASSUME NEW q \in Projects \ {p}
                 PROVE  PublishedOf(q)' = PublishedOf(q)
      OBVIOUS
    <3>1. release'[q] = release[q]
      BY <2>1
    <3> QED
      BY <3>1 DEF PublishedOf
  <2> QED
    BY <2>4, <2>5 DEF Published
<1>6. S \in SUBSET {i \in Items : [j \in Items |-> ProjectOfItem(j)][i] = p}
  BY DEF ItemsOf
<1> QED
  BY <1>1, <1>2, <1>3, <1>4, <1>5, <1>6
    DEF Promise!Publish, Outcome, Published, OutcomeOf, PublishedOf

\* Every step of the ledger is one of LabelRelease or leaves its view alone.
LEMMA StepRefines ==
    ASSUME Inv, SettledInv, [Next]_vars
    PROVE  [Promise!Next]_(Promise!vars)
<1> USE DEF Inv
<1>1. ASSUME release' = release, \A i \in Items : state'[i] = "resolved" => state[i] = "resolved"
      PROVE  UNCHANGED Promise!vars
  <2>1. \A i \in Items : OutcomeOf(i)' = OutcomeOf(i)
    BY <1>1, OutcomeKept
  <2>2. Outcome' = Outcome /\ Published' = Published
    BY <1>1, <2>1 DEF Outcome, Published, PublishedOf
  <2> QED
    BY <2>2 DEF Promise!vars, Outcome, Published, OutcomeOf, PublishedOf
<1>2. ASSUME NEW a \in Reviewers, AdministratorStep(a)
      PROVE  [Promise!Next]_(Promise!vars)
  <2>1. ASSUME NEW p \in Projects, FreezeProject(a, p)
        PROVE  Promise!Next
    BY <2>1, FreezePublishes DEF Promise!Next
  <2>2. ASSUME NEW i \in Items, AddItem(a, i)
        PROVE  UNCHANGED Promise!vars
    BY <1>1, <2>2 DEF AddItem, TypeOK, exports
  <2>3. ASSUME NEW p \in Projects, NEW gs \in SUBSET Groups, NEW is \in SUBSET Items,
               ImportBatch(a, p, gs, is)
        PROVE  UNCHANGED Promise!vars
    BY <1>1, <2>3 DEF ImportBatch, exports
  <2>4. CASE UNCHANGED <<work, release>>
    BY <1>1, <2>4 DEF work
  <2> QED
    BY <1>2, <2>1, <2>2, <2>3, <2>4
      DEF AdministratorStep, BootstrapAdministrator, ProvisionReviewer, CreateProject,
          AddGroup, OpenProject, FreezeCrash, exports
<1>3. ASSUME NEW r \in Reviewers, NEW t \in Times, ReviewerStep(r, t)
      PROVE  [Promise!Next]_(Promise!vars)
  <2>1. ASSUME NEW p \in Projects, NEW term,
               ClaimReview(r, p, t, term) \/ ClaimAdjudication(r, p, t, term)
                 \/ ClaimNothing(r, p, t)
        PROVE  UNCHANGED Promise!vars
    <3>1. release' = release
      BY <2>1 DEF ClaimReview, ClaimAdjudication, ClaimNothing, exports
    <3>2. \A i \in Items : state'[i] = "resolved" => state[i] = "resolved"
      BY <2>1, ClaimsResolveNothing
    <3> QED
      BY <1>1, <3>1, <3>2
  <2>2. ASSUME NEW i \in Items, NEW l \in Labels,
               SubmitJudgment(r, i, l, t) \/ SubmitAdjudication(r, i, l, t)
        PROVE  [Promise!Next]_(Promise!vars)
    <3>1. Next
      BY <1>3 DEF Next
    <3>2. Promise!Decide(i) \/ UNCHANGED Promise!vars
      BY <2>2, <3>1, SubmissionDecides
    <3> QED
      BY <3>2 DEF Promise!Next
  <2> QED
    BY <1>3, <2>1, <2>2 DEF ReviewerStep
<1>4. CASE UNCHANGED vars
  BY <1>1, <1>4 DEF vars
<1> QED
  BY <1>2, <1>3, <1>4 DEF Next

\* The control plane implements LabelRelease: one label per item, kept for good,
\* and one publication per project, of the labels its items have.
THEOREM Refinement == Spec => ImplementsLabelRelease
<1>1. Init => Promise!Init
  BY DEF Init, Promise!Init
<1>2. Inv /\ SettledInv /\ [Next]_vars => [Promise!Next]_(Promise!vars)
  BY StepRefines
<1> QED
  BY <1>1, <1>2, Invariance, SettledInvariance, PTL
    DEF Spec, ImplementsLabelRelease, Promise!Spec

-----------------------------------------------------------------------------
(* Adjudication leases *)

AdjudicationFine(i) ==
    /\ \A r, s \in Leaseholders("adjudication", i) : r = s
    /\ state[i] \in {"absent", "pending", "in_review"} =>
         \A r \in Reviewers : assign["adjudication"][i][r] = "none"

AdjudicationInv == \A i \in Items : AdjudicationFine(i)

\* Expiry gives no lease, and reopens no item that has been judged twice.
LEMMA ExpiryKeepsAdjudication ==
    ASSUME Inv, NEW i \in Items, AdjudicationFine(i), NEW t \in Times, Expires(i, t)
    PROVE  AdjudicationFine(i)'
<1> USE DEF Inv
<1>1. \A r \in Reviewers :
        assign'["adjudication"][i][r] =
          IF Lapsed("adjudication", i, r, t) THEN "expired" ELSE assign["adjudication"][i][r]
  BY ExpiredAssignments DEF Phases
<1>2. state[i] \in {"needs_adjudication", "resolved"} => state'[i] = state[i]
  <2> SUFFICES ASSUME state[i] \in {"needs_adjudication", "resolved"}
               PROVE  state'[i] = state[i]
    OBVIOUS
  <2>1. Reviews(i) = {}
    BY NoLeaseOnceJudged DEF ItemFine
  <2> QED
    BY <2>1 DEF Expires, ExpiredState, Lapsed, Reviews, Leaseholders
<1>3. state'[i] \in {"absent", "pending", "in_review"} =>
        \A r \in Reviewers : assign["adjudication"][i][r] = "none"
  BY <1>2 DEF AdjudicationFine, TypeOK, ItemStates
<1> QED
  BY <1>1, <1>3 DEF AdjudicationFine, Leaseholders, Lapsed

\* Every step keeps AdjudicationInv.
LEMMA AdjudicationNext ==
    ASSUME Inv, AdjudicationInv, [Next]_vars
    PROVE  AdjudicationInv'
<1> USE DEF Inv
<1> SUFFICES ASSUME NEW i \in Items PROVE AdjudicationFine(i)'
  BY DEF AdjudicationInv
<1>0. AdjudicationFine(i)
  BY DEF AdjudicationInv
<1>1. ASSUME assign'["adjudication"][i] = assign["adjudication"][i],
             state'[i] \in {"absent", "pending", "in_review"} =>
               state[i] \in {"absent", "pending", "in_review"}
      PROVE  AdjudicationFine(i)'
  BY <1>0, <1>1 DEF AdjudicationFine, Leaseholders
<1>2. ASSUME NEW a \in Reviewers, AdministratorStep(a)
      PROVE  AdjudicationFine(i)'
  <2>1. ASSUME NEW j \in Items, AddItem(a, j)
        PROVE  AdjudicationFine(i)'
    BY <1>1, <2>1 DEF AddItem, TypeOK
  <2>2. ASSUME NEW p \in Projects, NEW gs \in SUBSET Groups, NEW is \in SUBSET Items,
               ImportBatch(a, p, gs, is)
        PROVE  AdjudicationFine(i)'
    <3>1. i \in is => state[i] = "absent"
      <4>1. i \in is => GroupOf[i] \notin groups
        BY <2>2 DEF ImportBatch
      <4> QED
        BY <4>1 DEF ItemFine
    <3> QED
      BY <1>1, <2>2, <3>1 DEF ImportBatch
  <2>3. CASE UNCHANGED work
    BY <1>1, <2>3 DEF work
  <2> QED
    BY <1>2, <2>1, <2>2, <2>3
      DEF AdministratorStep, BootstrapAdministrator, ProvisionReviewer, CreateProject,
          AddGroup, OpenProject, FreezeProject, FreezeCrash
<1>3. ASSUME NEW r \in Reviewers, NEW t \in Times, ReviewerStep(r, t)
      PROVE  AdjudicationFine(i)'
  <2>1. ASSUME NEW p \in Projects, NEW term \in LeaseTerms, ClaimReview(r, p, t, term)
        PROVE  AdjudicationFine(i)'
    <3>1. PICK j \in ReviewClaimable(r, p, t) :
            /\ assign' = [ExpiredAssign(t) EXCEPT !["review"][j][r] = "leased"]
            /\ state' = [ExpiredState(t) EXCEPT ![j] = "in_review"]
      BY <2>1 DEF ClaimReview, HeadOfQueue
    <3>2. j \in Items /\ state[j] \in {"pending", "in_review"}
      BY DEF ReviewClaimable, ItemsOf
    <3>3. CASE i = j
      <4>1. \A s \in Reviewers : assign["adjudication"][i][s] = "none"
        BY <1>0, <3>2, <3>3 DEF AdjudicationFine
      <4>2. \A s \in Reviewers : assign'["adjudication"][i][s] = "none"
        BY <3>1, <4>1 DEF ExpiredAssign, Lapsed, Phases
      <4> QED
        BY <4>2 DEF AdjudicationFine, Leaseholders
    <3>4. CASE i # j
      <4>1. Expires(i, t)
        BY <2>1, <3>1, <3>4 DEF ClaimReview, Expires, ExpiredAssign, ExpiredState, Phases
      <4> QED
        BY <1>0, <4>1, ExpiryKeepsAdjudication
    <3> QED
      BY <3>3, <3>4
  <2>2. ASSUME NEW p \in Projects, NEW term \in LeaseTerms, ClaimAdjudication(r, p, t, term)
        PROVE  AdjudicationFine(i)'
    <3>1. PICK j \in AdjudicationClaimable(r, p) :
            /\ \A s \in Reviewers : ExpiredAssign(t)["adjudication"][j][s] # "leased"
            /\ assign' = [ExpiredAssign(t) EXCEPT !["adjudication"][j][r] = "leased"]
            /\ state' = ExpiredState(t)
      BY <2>2 DEF ClaimAdjudication, HeadOfQueue
    <3>2. j \in Items /\ state[j] = "needs_adjudication"
      BY DEF AdjudicationClaimable, ItemsOf
    <3>3. CASE i = j
      <4>1. \A s \in Reviewers : s # r => assign'["adjudication"][i][s] # "leased"
        BY <3>1, <3>3 DEF ExpiredAssign, Phases
      <4>2. \A s \in Reviewers : ~Lapsed("review", i, s, t)
        <5>1. Reviews(i) = {}
          BY <3>2, <3>3, NoLeaseOnceJudged DEF ItemFine
        <5> QED
          BY <5>1 DEF Lapsed, Reviews, Leaseholders
      <4>3. state'[i] = "needs_adjudication"
        BY <3>1, <3>2, <3>3, <4>2 DEF ExpiredState
      <4> QED
        BY <4>1, <4>3 DEF AdjudicationFine, Leaseholders
    <3>4. CASE i # j
      <4>1. Expires(i, t)
        BY <2>2, <3>1, <3>4 DEF ClaimAdjudication, Expires, ExpiredAssign, Phases
      <4> QED
        BY <1>0, <4>1, ExpiryKeepsAdjudication
    <3> QED
      BY <3>3, <3>4
  <2>3. ASSUME NEW p \in Projects, ClaimNothing(r, p, t)
        PROVE  AdjudicationFine(i)'
    <3>1. Expires(i, t)
      BY <2>3 DEF ClaimNothing, Expires
    <3> QED
      BY <1>0, <3>1, ExpiryKeepsAdjudication
  <2>4. ASSUME NEW j \in Items, NEW l \in Labels, SubmitJudgment(r, j, l, t)
        PROVE  AdjudicationFine(i)'
    <3>1. assign'["adjudication"][i] = assign["adjudication"][i]
      BY <2>4 DEF SubmitJudgment, TypeOK, Phases
    <3>2. state[i] \in {"needs_adjudication", "resolved"} => i # j
      <4> SUFFICES ASSUME state[i] \in {"needs_adjudication", "resolved"} PROVE i # j
        OBVIOUS
      <4>1. Reviews(i) = {}
        BY NoLeaseOnceJudged DEF ItemFine
      <4> QED
        BY <2>4, <4>1 DEF SubmitJudgment, LiveLease, Reviews, Leaseholders
    <3> QED
      BY <1>1, <2>4, <3>1, <3>2 DEF SubmitJudgment, TypeOK, ItemStates
  <2>5. ASSUME NEW j \in Items, NEW l \in Labels, SubmitAdjudication(r, j, l, t)
        PROVE  AdjudicationFine(i)'
    <3>1. \A s \in Reviewers : assign'["adjudication"][i][s] = "leased" =>
            assign["adjudication"][i][s] = "leased"
      BY <2>5 DEF SubmitAdjudication, TypeOK, Phases
    <3>2. i # j => /\ assign'["adjudication"][i] = assign["adjudication"][i]
                   /\ state'[i] = state[i]
      BY <2>5 DEF SubmitAdjudication, TypeOK, Phases
    <3>3. i = j => state'[i] = "resolved"
      BY <2>5 DEF SubmitAdjudication, TypeOK
    <3> QED
      BY <1>0, <3>1, <3>2, <3>3 DEF AdjudicationFine, Leaseholders
  <2> QED
    BY <1>3, <2>1, <2>2, <2>3, <2>4, <2>5 DEF ReviewerStep
<1>4. CASE UNCHANGED vars
  BY <1>1, <1>4 DEF vars
<1> QED
  BY <1>2, <1>3, <1>4 DEF Next

\* At most one adjudication lease per item, and none before it needs a verdict.
THEOREM AdjudicationCapacityKept == Spec => []AdjudicationCapacity
<1>1. Init => AdjudicationInv
  BY DEF Init, AdjudicationInv, AdjudicationFine, Leaseholders, Phases
<1>2. Inv /\ AdjudicationInv /\ [Next]_vars => AdjudicationInv'
  BY AdjudicationNext
<1>3. AdjudicationInv => AdjudicationCapacity
  <2> SUFFICES ASSUME AdjudicationInv, NEW i \in Items
               PROVE  Cardinality(Leaseholders("adjudication", i)) <= 1
    BY DEF AdjudicationInv, AdjudicationFine, AdjudicationCapacity
  <2>1. CASE Leaseholders("adjudication", i) = {}
    BY <2>1, FS_EmptySet
  <2>2. CASE \E r : r \in Leaseholders("adjudication", i)
    <3>1. PICK r : Leaseholders("adjudication", i) = {r}
      BY <2>2 DEF AdjudicationInv, AdjudicationFine
    <3> QED
      BY <3>1, FS_Singleton
  <2> QED
    BY <2>1, <2>2
<1> QED
  BY <1>1, <1>2, <1>3, Invariance, PTL DEF Spec

\* Nobody is ever at work on an item that needs no more work, in either phase.
THEOREM LeasesBounded == Spec => []LeaseCapacity
<1>1. ReviewCapacity /\ AdjudicationCapacity => LeaseCapacity
  BY DEF LeaseCapacity
<1> QED
  BY <1>1, CapacityKept, AdjudicationCapacityKept, PTL

-----------------------------------------------------------------------------
(* The preflight of project_progress *)

\* Judgments and verdicts keep to the labels of their item's project.
Vocabulary ==
    \A i \in Items :
        /\ \A r \in Reviewers : judgment[i][r] \in JudgmentLabels(ProjectOfItem(i)) \cup {None}
        /\ verdict[i] # None => verdict[i].label \in VerdictLabels(ProjectOfItem(i))

LEMMA VocabularyNext == ASSUME TypeOK, Vocabulary, [Next]_vars PROVE Vocabulary'
<1>1. ASSUME NEW r \in Reviewers, NEW i \in Items, NEW l, NEW t, SubmitJudgment(r, i, l, t)
      PROVE  Vocabulary'
  <2>1. /\ verdict' = verdict
        /\ judgment' = [judgment EXCEPT ![i][r] = l]
        /\ l \in JudgmentLabels(ProjectOfItem(i))
    BY <1>1 DEF SubmitJudgment
  <2> SUFFICES ASSUME NEW j \in Items, NEW s \in Reviewers
               PROVE  judgment'[j][s] \in JudgmentLabels(ProjectOfItem(j)) \cup {None}
    BY <2>1 DEF Vocabulary
  <2>2. judgment[j][s] \in JudgmentLabels(ProjectOfItem(j)) \cup {None}
    BY DEF Vocabulary
  <2>3. judgment'[j][s] = IF j = i /\ s = r THEN l ELSE judgment[j][s]
    BY <2>1 DEF TypeOK
  <2> QED
    BY <2>1, <2>2, <2>3
<1>2. ASSUME NEW r \in Reviewers, NEW i \in Items, NEW l, NEW t, SubmitAdjudication(r, i, l, t)
      PROVE  Vocabulary'
  <2>1. /\ judgment' = judgment
        /\ verdict' = [verdict EXCEPT ![i] = [by |-> r, label |-> l]]
        /\ l \in VerdictLabels(ProjectOfItem(i))
    BY <1>2 DEF SubmitAdjudication
  <2> SUFFICES ASSUME NEW j \in Items, verdict'[j] # None
               PROVE  verdict'[j].label \in VerdictLabels(ProjectOfItem(j))
    BY <2>1 DEF Vocabulary
  <2>2. CASE j = i
    BY <2>1, <2>2 DEF TypeOK
  <2>3. CASE j # i
    BY <2>1, <2>3 DEF TypeOK, Vocabulary
  <2> QED
    BY <2>2, <2>3
<1>3. CASE UNCHANGED <<judgment, verdict>>
  BY <1>3 DEF Vocabulary
<1>4. CASE \E a \in Reviewers : AdministratorStep(a)
  BY <1>3, <1>4
    DEF AdministratorStep, BootstrapAdministrator, ProvisionReviewer, CreateProject, AddGroup,
        AddItem, ImportBatch, OpenProject, FreezeProject, FreezeCrash, work
<1>5. CASE \E r \in Reviewers, t \in Times : ReviewerStep(r, t)
  BY <1>1, <1>2, <1>3, <1>5 DEF ReviewerStep, ClaimReview, ClaimAdjudication, ClaimNothing
<1>6. CASE UNCHANGED vars
  BY <1>3, <1>6 DEF vars
<1> QED
  BY <1>4, <1>5, <1>6 DEF Next

\* A settled item's label is one of its project's.
LEMMA LabelInVocabulary ==
    ASSUME Vocabulary, NEW i \in Items, Disputed(LabelsGiven(i)) => verdict[i] # None
    PROVE  FinalLabel(i) \in VerdictLabels(ProjectOfItem(i))
<1>1. CASE verdict[i] # None
  BY <1>1 DEF FinalLabel, DecidedLabel, Vocabulary
<1>2. CASE verdict[i] = None
  <2> DEFINE S == LabelsIn(judgment[i])
  <2>1. Cardinality(S) = 1 /\ S # {Uncertain}
    BY <1>2 DEF Disputed, LabelsGiven
  <2>2. IsFiniteSet(S)
    <3> DEFINE f == [r \in JudgesIn(judgment[i]) |-> judgment[i][r]]
    <3>1. f \in Surjection(JudgesIn(judgment[i]), S)
      BY DEF Surjection, LabelsIn
    <3>2. IsFiniteSet(JudgesIn(judgment[i]))
      BY ConstantsAssumption, FS_Subset DEF ConstantsAssumption, JudgesIn
    <3> QED
      BY <3>1, <3>2, FS_Surjection
  <2>3. PICK l : S = {l}
    BY <2>1, <2>2, FS_Singleton
  <2>4. PICK r \in Reviewers : judgment[i][r] # None /\ l = judgment[i][r]
    BY <2>3 DEF LabelsIn, JudgesIn
  <2>5. l \in JudgmentLabels(ProjectOfItem(i)) /\ l # Uncertain
    BY <2>1, <2>3, <2>4 DEF Vocabulary
  <2>6. FinalLabel(i) = CHOOSE k \in {l} : TRUE
    BY <1>2, <2>3 DEF FinalLabel, DecidedLabel
  <2> QED
    BY <2>5, <2>6 DEF VerdictLabels
<1> QED
  BY <1>1, <1>2

\* The two columns the preflight counts stand for all that the gate demands of
\* an item: no item has a third judgment, and its state knows its verdict.
LEMMA CountsAreEnough ==
    ASSUME Vocabulary, NEW i \in Items, ItemFine(i)
    PROVE  ItemGate(judgment[i], verdict[i], state[i], VerdictLabels(ProjectOfItem(i)))
             <=> Cardinality(Judges(i)) >= RequiredReviews /\ state[i] = "resolved"
<1>1. state[i] = "resolved" =>
        Cardinality(Judges(i)) = 2 /\ (Disputed(LabelsGiven(i)) => verdict[i] # None)
  BY DEF ItemFine
<1>2. verdict[i] # None => Disputed(LabelsGiven(i)) /\ verdict[i].by \notin Judges(i)
  BY DEF ItemFine
<1>3. state[i] = "resolved" => FinalLabel(i) \in VerdictLabels(ProjectOfItem(i))
  BY <1>1, LabelInVocabulary
<1> QED
  BY <1>1, <1>2, <1>3 DEF ItemGate, RequiredReviews, Judges, LabelsGiven, FinalLabel

\* For an open project the preflight, with the two conditions it does not look
\* at, is the freeze gate (service.py:600, :1556).
THEOREM PreflightRight == Spec => []PreflightAgreesWithGate
<1>1. Init => Vocabulary
  BY DEF Init, Vocabulary
<1>2. Inv /\ Vocabulary /\ [Next]_vars => Vocabulary'
  BY VocabularyNext DEF Inv
<1>3. Inv /\ Vocabulary => PreflightAgreesWithGate
  <2> SUFFICES ASSUME Inv, Vocabulary, NEW p \in Projects, status[p] = "open"
               PROVE  FreezeGate(p) <=>
                        /\ PreflightPasses(p)
                        /\ \A g, h \in GroupsOf(p) :
                             LeakageOf[g] = LeakageOf[h] => SplitOf[g] = SplitOf[h]
                        /\ p \in RelevanceProjects => \A g \in GroupsOf(p) :
                             \E i \in ItemsOf(p) : GroupOf[i] = g /\ FinalLabel(i) # "0"
    BY DEF PreflightAgreesWithGate
  <2>1. \A i \in ItemsOf(p) :
          ItemGate(judgment[i], verdict[i], state[i], VerdictLabels(p))
            <=> Cardinality(Judges(i)) >= RequiredReviews /\ state[i] = "resolved"
    BY CountsAreEnough DEF Inv, ItemsOf
  <2> QED
    BY <2>1 DEF FreezeGate, PreflightPasses
<1> QED
  BY <1>1, <1>2, <1>3, Invariance, PTL DEF Spec
=============================================================================
