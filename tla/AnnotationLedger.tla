-------------------------- MODULE AnnotationLedger --------------------------
(***************************************************************************)
(* The durable annotation control plane of                                 *)
(* packages/core/src/pc_build_recommender/annotation/service.py.           *)
(*                                                                         *)
(* Every public method of AnnotationService that writes is one action: it  *)
(* runs inside one database transaction, and this module takes the         *)
(* transactions one at a time.  PostgreSQL does not: at READ COMMITTED a   *)
(* claim counts, expires and writes in separate statements, and            *)
(* AnnotationRaces.tla shows what that costs.  What is shown here is about *)
(* the code's rules when calls on an item do not overlap, with crashes     *)
(* between a rename and its commit; where a property does not survive      *)
(* overlapping calls, its comment says so.  Every call brings its own      *)
(* timestamp t, as the `now` argument does, and nothing orders the         *)
(* timestamps of different callers.                                        *)
(*                                                                         *)
(* The rows an administrator may load are constants of the instance (which *)
(* group an item belongs to, its split, whether it is synthetic); which of *)
(* them have been loaded is state.  A refused call changes nothing and is  *)
(* not a step.  Payload text, rationales, hashes of unchanging evidence    *)
(* and audit rows are left out.                                            *)
(***************************************************************************)
EXTENDS AnnotationRules

CONSTANTS
    Projects, Groups, Items,
    ProjectOf,        \* [Groups -> Projects]
    GroupOf,          \* [Items -> Groups]
    SplitOf,          \* [Groups -> split names]
    LeakageOf,        \* [Groups -> leakage group ids]
    Priority,         \* [Items -> Int]
    SyntheticGroups, SyntheticItems,
    RelevanceProjects,\* the projects of task type "relevance"
    EligibleProjects, \* source rights permit training and published metrics
    RequiredSplits,   \* the split names every project must cover
    GradeLabels,      \* relevance grades in use, within "0" .. "4"
    RoleGrants,       \* the role sets an administrator hands out
    Times,            \* timestamps a call may carry
    LeaseTerms        \* lease_seconds

Roles == {"reviewer", "adjudicator", "admin"}
ItemStates == {"absent", "pending", "in_review", "needs_adjudication", "resolved"}
ProjectStatuses == {"absent", "draft", "open", "frozen"}

Labels == GradeLabels \cup ERLabels
FinalLabels == Labels \ {Uncertain}
VerdictRecords == [by : Reviewers, label : FinalLabels]

ASSUME ConstantsAssumption ==
    /\ IsFiniteSet(Reviewers)
    /\ ProjectOf \in [Groups -> Projects]
    /\ GroupOf \in [Items -> Groups]
    /\ Priority \in [Items -> Int]
    /\ RoleGrants \subseteq (SUBSET Roles) \ {{}}
    /\ Times \subseteq Int
    /\ LeaseTerms \subseteq Nat \ {0}
    /\ GradeLabels \subseteq {"0", "1", "2", "3", "4"}
    /\ None \notin Labels \cup VerdictRecords

VARIABLES
    roles,        \* annotation_reviewers: the roles of each identity, {} if unknown
    status,       \* annotation_projects.status
    groups,       \* annotation_groups: the groups loaded
    state,        \* annotation_items.state, "absent" if not loaded
    assign,       \* annotation_assignments.status, keyed by (phase, item, reviewer)
    expires,      \* annotation_assignments.lease_expires_at
    judgment,     \* annotation_judgments: label_value of (item, reviewer)
    verdict,      \* annotation_adjudications: [by, label] of an item
    directories,  \* release directories on disk
    release       \* annotation_exports: the rows of a project, at most one

vars == <<roles, status, groups, state, assign, expires, judgment, verdict,
          directories, release>>

ProjectOfItem(i) == ProjectOf[GroupOf[i]]
ItemsOf(p) == {i \in Items : state[i] # "absent" /\ ProjectOfItem(i) = p}
GroupsOf(p) == {g \in groups : ProjectOf[g] = p}

\* The labels a reviewer, and an adjudicator, may submit for an item of p.
JudgmentLabels(p) == IF p \in RelevanceProjects THEN GradeLabels ELSE ERLabels
VerdictLabels(p) == JudgmentLabels(p) \ {Uncertain}

HasRole(r, role) == role \in roles[r]

Judges(i) == JudgesIn(judgment[i])
LabelsGiven(i) == LabelsIn(judgment[i])

-----------------------------------------------------------------------------
(* Leases *)

Lapsed(ph, i, r, t) == assign[ph][i][r] = "leased" /\ expires[ph][i][r] <= t

ActiveReviews(i, t) ==
    {r \in Reviewers : assign["review"][i][r] = "leased" /\ expires["review"][i][r] > t}

\* _expire_leases, over every project, as each claim runs it first.  The code
\* selects the lapsed leases and writes them off at a later flush, without looking
\* again (AnnotationRaces!AfterExpiry); here nothing comes in between.
ExpiredAssign(t) ==
    [ph \in Phases |-> [i \in Items |-> [r \in Reviewers |->
        IF Lapsed(ph, i, r, t) THEN "expired" ELSE assign[ph][i][r]]]]

ExpiredState(t) ==
    [i \in Items |->
        IF \E r \in Reviewers : Lapsed("review", i, r, t)
        THEN RefreshedState(judgment[i], ActiveReviews(i, t))
        ELSE state[i]]

ClaimableIgnoringLeases(r, p, t) ==
    {i \in ItemsOf(p) :
        /\ state[i] \in {"pending", "in_review"}
        /\ Cardinality(Judges(i)) < RequiredReviews
        /\ judgment[i][r] = None
        /\ assign["review"][i][r] = "none"}

\* The WHERE clause of a review claim (_claim_statement, REVIEW).  Its counts
\* are those of the statement's snapshot, which a claim that overlaps may share
\* (AnnotationRaces!Claimable, LockItem); here they hold until the lease is given.
ReviewClaimable(r, p, t) ==
    {i \in ItemsOf(p) :
        /\ state[i] \in {"pending", "in_review"}
        /\ Cardinality(ActiveReviews(i, t)) + Cardinality(Judges(i)) < RequiredReviews
        /\ judgment[i][r] = None
        /\ assign["review"][i][r] = "none"}

\* The WHERE clause of an adjudication claim.  It does not look at leases
\* other adjudicators hold.
AdjudicationClaimable(r, p) ==
    {i \in ItemsOf(p) :
        /\ state[i] = "needs_adjudication"
        /\ judgment[i][r] = None
        /\ verdict[i] = None
        /\ assign["adjudication"][i][r] = "none"}

\* ORDER BY priority DESC LIMIT 1; item ids are random, so ties are free.
HeadOfQueue(S) == {i \in S : \A j \in S : Priority[j] <= Priority[i]}

-----------------------------------------------------------------------------
(* Freezing *)

FinalLabel(i) == DecidedLabel(judgment[i], verdict[i])

\* _freeze_gate: every reason it lists, as one predicate.
FreezeGate(p) ==
    /\ p \in EligibleProjects
    /\ GroupsOf(p) # {}
    /\ ItemsOf(p) # {}
    /\ GroupsOf(p) \cap SyntheticGroups = {}
    /\ ItemsOf(p) \cap SyntheticItems = {}
    /\ \A g \in GroupsOf(p) : \E i \in ItemsOf(p) : GroupOf[i] = g
    /\ {SplitOf[g] : g \in GroupsOf(p)} = RequiredSplits
    /\ \A g, h \in GroupsOf(p) : LeakageOf[g] = LeakageOf[h] => SplitOf[g] = SplitOf[h]
    /\ \A i \in ItemsOf(p) :
         ItemGate(judgment[i], verdict[i], state[i], VerdictLabels(p))
    /\ p \in RelevanceProjects =>
         \A g \in GroupsOf(p) :
            \E i \in ItemsOf(p) : GroupOf[i] = g /\ FinalLabel(i) # "0"

ReleaseNamingStatus(p) ==
    [project   |-> p,
     status    |-> status[p],
     labels    |-> [i \in ItemsOf(p) |-> FinalLabel(i)],
     judgments |-> [i \in ItemsOf(p) |-> judgment[i]],
     verdicts  |-> [i \in ItemsOf(p) |-> verdict[i]]]

\* _export_files and _write_release: the content of a release, and so its
\* directory's name, is every judgment, verdict and final label of the project.
ReleaseOf(p) ==
    [project   |-> p,
     labels    |-> [i \in ItemsOf(p) |-> FinalLabel(i)],
     judgments |-> [i \in ItemsOf(p) |-> judgment[i]],
     verdicts  |-> [i \in ItemsOf(p) |-> verdict[i]]]

PreflightCountingReviews(p) ==
    /\ status[p] = "open"
    /\ p \in EligibleProjects
    /\ GroupsOf(p) # {} /\ ItemsOf(p) # {}
    /\ \A g \in GroupsOf(p) : \E i \in ItemsOf(p) : GroupOf[i] = g
    /\ {SplitOf[g] : g \in GroupsOf(p)} = RequiredSplits
    /\ GroupsOf(p) \cap SyntheticGroups = {} /\ ItemsOf(p) \cap SyntheticItems = {}
    /\ \A i \in ItemsOf(p) : Cardinality(Judges(i)) >= RequiredReviews

\* project_progress: coarse_freeze_preflight_passes, from counts alone.
PreflightPasses(p) ==
    /\ status[p] = "open"
    /\ p \in EligibleProjects
    /\ GroupsOf(p) # {} /\ ItemsOf(p) # {}
    /\ \A g \in GroupsOf(p) : \E i \in ItemsOf(p) : GroupOf[i] = g
    /\ {SplitOf[g] : g \in GroupsOf(p)} = RequiredSplits
    /\ GroupsOf(p) \cap SyntheticGroups = {} /\ ItemsOf(p) \cap SyntheticItems = {}
    /\ \A i \in ItemsOf(p) :
         Cardinality(Judges(i)) >= RequiredReviews /\ state[i] = "resolved"

-----------------------------------------------------------------------------
(* Initial state: an empty database *)

Init ==
    /\ roles = [r \in Reviewers |-> {}]
    /\ status = [p \in Projects |-> "absent"]
    /\ groups = {}
    /\ state = [i \in Items |-> "absent"]
    /\ assign = [ph \in Phases |-> [i \in Items |-> [r \in Reviewers |-> "none"]]]
    /\ expires = [ph \in Phases |-> [i \in Items |-> [r \in Reviewers |-> 0]]]
    /\ judgment = [i \in Items |-> [r \in Reviewers |-> None]]
    /\ verdict = [i \in Items |-> None]
    /\ directories = {}
    /\ release = [p \in Projects |-> {}]

-----------------------------------------------------------------------------
(* Reviewers and projects *)

people == <<roles>>
corpus == <<status, groups>>
work == <<state, assign, expires, judgment, verdict>>
exports == <<directories, release>>

BootstrapAdministrator(a) ==
    /\ \A r \in Reviewers : roles[r] = {}
    /\ roles' = [roles EXCEPT ![a] = {"admin"}]
    /\ UNCHANGED <<corpus, work, exports>>

ProvisionReviewer(a, r, granted) ==
    /\ HasRole(a, "admin")
    /\ roles[r] = {}
    /\ roles' = [roles EXCEPT ![r] = granted]
    /\ UNCHANGED <<corpus, work, exports>>

CreateProject(a, p) ==
    /\ HasRole(a, "admin")
    /\ status[p] = "absent"
    /\ status' = [status EXCEPT ![p] = "draft"]
    /\ UNCHANGED <<people, groups, work, exports>>

AddGroupUnlessOpen(a, g) ==
    /\ HasRole(a, "admin")
    /\ status[ProjectOf[g]] # "open"
    /\ g \notin groups
    /\ groups' = groups \cup {g}
    /\ UNCHANGED <<people, status, work, exports>>

AddGroup(a, g) ==
    /\ HasRole(a, "admin")
    /\ status[ProjectOf[g]] = "draft"
    /\ g \notin groups
    /\ groups' = groups \cup {g}
    /\ UNCHANGED <<people, status, work, exports>>

AddItem(a, i) ==
    /\ HasRole(a, "admin")
    /\ status[ProjectOfItem(i)] = "draft"
    /\ GroupOf[i] \in groups
    /\ state[i] = "absent"
    /\ state' = [state EXCEPT ![i] = "pending"]
    /\ UNCHANGED <<people, corpus, assign, expires, judgment, verdict, exports>>

\* One transaction for the whole batch: every group is new and brings items.
ImportBatch(a, p, newGroups, newItems) ==
    /\ HasRole(a, "admin")
    /\ status[p] = "draft"
    /\ newGroups # {}
    /\ newGroups \cap groups = {}
    /\ \A g \in newGroups : ProjectOf[g] = p /\ \E i \in newItems : GroupOf[i] = g
    /\ \A i \in newItems : GroupOf[i] \in newGroups
    /\ groups' = groups \cup newGroups
    /\ state' = [i \in Items |-> IF i \in newItems THEN "pending" ELSE state[i]]
    /\ UNCHANGED <<people, status, assign, expires, judgment, verdict, exports>>

\* The check compares totals, not each group's own items.
OpenProject(a, p) ==
    /\ HasRole(a, "admin")
    /\ status[p] = "draft"
    /\ GroupsOf(p) # {}
    /\ Cardinality(ItemsOf(p)) >= Cardinality(GroupsOf(p))
    /\ status' = [status EXCEPT ![p] = "open"]
    /\ UNCHANGED <<people, groups, work, exports>>

-----------------------------------------------------------------------------
(* Claims *)

ClaimReview(r, p, t, term) ==
    LET queue == HeadOfQueue(ReviewClaimable(r, p, t))
    IN  /\ HasRole(r, "reviewer")
        /\ status[p] = "open"
        /\ \E i \in queue :
             /\ assign' = [ExpiredAssign(t) EXCEPT !["review"][i][r] = "leased"]
             /\ expires' = [expires EXCEPT !["review"][i][r] = t + term]
             /\ state' = [ExpiredState(t) EXCEPT ![i] = "in_review"]
        /\ UNCHANGED <<people, corpus, judgment, verdict, exports>>

\* A second lease on one item breaks uq_annotation_active_adjudication and the
\* whole transaction rolls back, the expiries with it: not a step.
ClaimAdjudication(r, p, t, term) ==
    LET queue == HeadOfQueue(AdjudicationClaimable(r, p))
    IN  /\ HasRole(r, "adjudicator")
        /\ status[p] = "open"
        /\ \E i \in queue :
             /\ \A s \in Reviewers : ExpiredAssign(t)["adjudication"][i][s] # "leased"
             /\ assign' = [ExpiredAssign(t) EXCEPT !["adjudication"][i][r] = "leased"]
             /\ expires' = [expires EXCEPT !["adjudication"][i][r] = t + term]
             /\ state' = ExpiredState(t)
        /\ UNCHANGED <<people, corpus, judgment, verdict, exports>>

\* A claim that finds no item returns None and still commits the expiries.
ClaimNothing(r, p, t) ==
    /\ status[p] = "open"
    /\ \/ HasRole(r, "reviewer") /\ ReviewClaimable(r, p, t) = {}
       \/ HasRole(r, "adjudicator") /\ AdjudicationClaimable(r, p) = {}
    /\ assign' = ExpiredAssign(t)
    /\ state' = ExpiredState(t)
    /\ UNCHANGED <<people, corpus, expires, judgment, verdict, exports>>

-----------------------------------------------------------------------------
(* Submissions: neither looks at the project's status *)

LiveLease(ph, i, r, t) == assign[ph][i][r] = "leased" /\ expires[ph][i][r] > t

SubmitJudgment(r, i, label, t) ==
    /\ HasRole(r, "reviewer")
    /\ label \in JudgmentLabels(ProjectOfItem(i))
    /\ LiveLease("review", i, r, t)
    /\ judgment[i][r] = None
    /\ judgment' = [judgment EXCEPT ![i][r] = label]
    /\ assign' = [assign EXCEPT !["review"][i][r] = "submitted"]
    /\ state' = [state EXCEPT ![i] =
                    RefreshedState(judgment'[i], ActiveReviews(i, t) \ {r})]
    /\ UNCHANGED <<people, corpus, expires, verdict, exports>>

SubmitAdjudication(r, i, label, t) ==
    /\ HasRole(r, "adjudicator")
    /\ r \notin Judges(i)
    /\ label \in VerdictLabels(ProjectOfItem(i))
    /\ state[i] = "needs_adjudication"
    /\ LiveLease("adjudication", i, r, t)
    /\ verdict[i] = None
    /\ verdict' = [verdict EXCEPT ![i] = [by |-> r, label |-> label]]
    /\ assign' = [assign EXCEPT !["adjudication"][i][r] = "submitted"]
    /\ state' = [state EXCEPT ![i] = "resolved"]
    /\ UNCHANGED <<people, corpus, expires, judgment, exports>>

-----------------------------------------------------------------------------
(* Freezing: the directory is renamed into place before the commit *)

FreezeProject(a, p) ==
    /\ HasRole(a, "admin")
    /\ status[p] = "open"
    /\ FreezeGate(p)
    /\ directories' = directories \cup {ReleaseOf(p)}
    /\ release' = [release EXCEPT ![p] = {ReleaseOf(p)}]
    /\ status' = [status EXCEPT ![p] = "frozen"]
    /\ UNCHANGED <<people, groups, work>>

\* The process dies after the rename: the directory stays, the rows roll back.
FreezeCrash(a, p) ==
    /\ HasRole(a, "admin")
    /\ status[p] = "open"
    /\ FreezeGate(p)
    /\ directories' = directories \cup {ReleaseOf(p)}
    /\ UNCHANGED <<people, corpus, work, release>>

-----------------------------------------------------------------------------
AdministratorStep(a) ==
    \/ BootstrapAdministrator(a)
    \/ \E r \in Reviewers, granted \in RoleGrants : ProvisionReviewer(a, r, granted)
    \/ \E g \in Groups : AddGroup(a, g)
    \/ \E i \in Items : AddItem(a, i)
    \/ \E p \in Projects :
         \/ CreateProject(a, p)
         \/ \E gs \in SUBSET Groups, is \in SUBSET Items : ImportBatch(a, p, gs, is)
         \/ OpenProject(a, p)
         \/ FreezeProject(a, p)
         \/ FreezeCrash(a, p)

ReviewerStep(r, t) ==
    \/ \E p \in Projects, term \in LeaseTerms : ClaimReview(r, p, t, term)
    \/ \E p \in Projects, term \in LeaseTerms : ClaimAdjudication(r, p, t, term)
    \/ \E p \in Projects : ClaimNothing(r, p, t)
    \/ \E i \in Items, l \in Labels : SubmitJudgment(r, i, l, t)
    \/ \E i \in Items, l \in Labels : SubmitAdjudication(r, i, l, t)

Next ==
    \/ \E a \in Reviewers : AdministratorStep(a)
    \/ \E r \in Reviewers, t \in Times : ReviewerStep(r, t)

Spec == Init /\ [][Next]_vars

-----------------------------------------------------------------------------
(* Properties *)

\* Type correctness of every table.
TypeOK ==
    /\ roles \in [Reviewers -> SUBSET Roles]
    /\ status \in [Projects -> ProjectStatuses]
    /\ groups \subseteq Groups
    /\ state \in [Items -> ItemStates]
    /\ assign \in [Phases -> [Items -> [Reviewers -> AssignmentStatuses]]]
    /\ expires \in [Phases -> [Items -> [Reviewers -> Int]]]
    /\ judgment \in [Items -> [Reviewers -> Labels \cup {None}]]
    /\ verdict \in [Items -> VerdictRecords \cup {None}]
    /\ \A p \in Projects : \A e \in release[p] : e.project = p
    /\ \A p \in Projects : status[p] = "absent" => GroupsOf(p) = {} /\ ItemsOf(p) = {}

Leaseholders(ph, i) == {r \in Reviewers : assign[ph][i][r] = "leased"}

\* However the callers' clocks disagree, the review leases and the judgments of
\* an item never exceed the two reviews it needs: a claim first writes off
\* every lease it holds to be lapsed, so no lease it does not count can come
\* back as a third judgment.  (Claims that overlap can overbook an item:
\* AnnotationRaces!ExactlyTwoReviewers.)
ReviewCapacity ==
    \A i \in Items :
        Cardinality(Leaseholders("review", i) \cup Judges(i)) <= RequiredReviews

\* One adjudicator at a time works on an item, and only while it needs one.
AdjudicationCapacity ==
    \A i \in Items :
        /\ Cardinality(Leaseholders("adjudication", i)) <= 1
        /\ state[i] \in {"absent", "pending", "in_review"} =>
             \A r \in Reviewers : assign["adjudication"][i][r] = "none"

\* An item never has more people at work on it than it needs, in either phase.
LeaseCapacity == ReviewCapacity /\ AdjudicationCapacity

\* The state column is only a summary of the judgments and verdicts; claims and
\* submissions trust it.  It always says what they say, so that no item waits
\* for a judgment or a verdict that nobody may give any more.  (Not so of
\* submissions that overlap: AnnotationRaces!DisagreementIsAdjudicated.)
StateFollowsJudgments ==
    \A i \in Items :
        LET n == Cardinality(Judges(i))
            split == n = RequiredReviews /\ Disputed(LabelsGiven(i))
        IN  /\ state[i] = "needs_adjudication" <=> split /\ verdict[i] = None
            /\ state[i] = "resolved" <=>
                 n = RequiredReviews /\ (split => verdict[i] # None)
            /\ state[i] = "pending" => n = 0 /\ Leaseholders("review", i) = {}

\* A verdict exists only on a disputed item and comes from somebody who did not
\* judge it, although the claim and the submission check that at different times.
\* (An adjudicator with a third review lease could still judge afterwards.)
IndependentVerdict ==
    \A i \in Items : verdict[i] # None =>
        /\ Cardinality(Judges(i)) = RequiredReviews
        /\ Disputed(LabelsGiven(i))
        /\ verdict[i].by \notin Judges(i)

\* Every release directory on disk, those of freezes that died before their
\* commit included, holds exactly what the project still says: a retried freeze
\* finds its own directory, and no project has two releases.  (A third judgment,
\* which overlapping claims make possible, would leave an old directory behind.)
DirectoriesCurrent ==
    /\ \A d \in directories : d = ReleaseOf(d.project)
    /\ \A p \in Projects :
         /\ release[p] \subseteq directories
         /\ status[p] = "frozen" <=> release[p] # {}

\* The control plane implements LabelRelease: an item is decided when its state
\* becomes resolved, and then for good; the freeze is the one publication.  (For
\* good as far as calls do not overlap; what a release rests on stays in any case:
\* AnnotationRaces!ReleaseSound.)
Promise == INSTANCE LabelRelease WITH
    OwnerOf <- [i \in Items |-> ProjectOfItem(i)],
    Labels <- FinalLabels,
    outcome <- [i \in Items |-> IF state[i] = "resolved" THEN FinalLabel(i) ELSE None],
    published <- [p \in Projects |->
                    IF release[p] = {} THEN None
                    ELSE (CHOOSE e \in release[p] : TRUE).labels]

ImplementsLabelRelease == Promise!Spec

\* The preflight of project_progress only counts rows, and still it is right: the
\* freeze gate refuses a project it passes only for a leakage group that crosses
\* splits or a query without a relevant candidate, and never accepts another.
PreflightAgreesWithGate ==
    \A p \in Projects : status[p] = "open" =>
        FreezeGate(p) <=>
          /\ PreflightPasses(p)
          /\ \A g, h \in GroupsOf(p) :
               LeakageOf[g] = LeakageOf[h] => SplitOf[g] = SplitOf[h]
          /\ p \in RelevanceProjects => \A g \in GroupsOf(p) :
               \E i \in ItemsOf(p) : GroupOf[i] = g /\ FinalLabel(i) # "0"

\* "every annotation group needs at least one item", says the refusal of
\* open_project (service.py:574): every open project's groups then have one.
OpenGroupsHaveItems ==
    \A p \in Projects : status[p] = "open" =>
        \A g \in GroupsOf(p) : \E i \in ItemsOf(p) : GroupOf[i] = g
=============================================================================
