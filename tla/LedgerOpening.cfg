SPECIFICATION Spec
CONSTANTS
    Reviewers = {r1, r2}
    Projects = {p1}
    Groups = {g1, g2}
    Items = {i1, i2}
    ProjectOf <- MCProjectOf
    GroupOf <- CrowdedGroupOf
    SplitOf <- MCSplitOf
    LeakageOf <- MCLeakageOf
    Priority <- RankedPriority
    SyntheticGroups = {}
    SyntheticItems = {}
    RelevanceProjects = {}
    EligibleProjects = {p1}
    RequiredSplits <- MCRequiredSplits
    GradeLabels = {}
    RoleGrants <- BothRoles
    Times = {0}
    LeaseTerms = {1}
    None = None
SYMMETRY ReviewerSymmetry
CHECK_DEADLOCK FALSE
INVARIANT OpenGroupsHaveItems
