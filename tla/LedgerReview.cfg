SPECIFICATION Spec
CONSTANTS
    Reviewers = {r1, r2, r3, r4, r5}
    Projects = {p1}
    Groups = {g1}
    Items = {i1}
    ProjectOf <- MCProjectOf
    GroupOf <- MCGroupOf
    SplitOf <- MCSplitOf
    LeakageOf <- MCLeakageOf
    Priority <- RankedPriority
    SyntheticGroups = {}
    SyntheticItems = {}
    RelevanceProjects = {}
    EligibleProjects = {p1}
    RequiredSplits <- MCRequiredSplits
    GradeLabels = {}
    RoleGrants <- BothRoles
    Times = {0, 1, 2}
    LeaseTerms = {1}
    None = None
SYMMETRY ReviewerSymmetry
CHECK_DEADLOCK FALSE
INVARIANTS
    TypeOK
    LeaseCapacity
    StateFollowsJudgments
    IndependentVerdict
PROPERTIES
    ImplementsLabelRelease
