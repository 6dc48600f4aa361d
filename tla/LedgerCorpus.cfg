SPECIFICATION Spec
CONSTANTS
    Reviewers = {r1, r2, r3, r4}
    Projects = {p1, p2}
    Groups = {g1, g2}
    Items = {i1, i2}
    ProjectOf <- MCProjectOf
    GroupOf <- MCGroupOf
    SplitOf <- MCSplitOf
    LeakageOf <- MCLeakageOf
    Priority <- RankedPriority
    SyntheticGroups = {}
    SyntheticItems = {}
    RelevanceProjects = {p2}
    EligibleProjects = {p1, p2}
    RequiredSplits <- MCRequiredSplits
    GradeLabels = {"0", "1"}
    RoleGrants <- EitherRole
    Times = {0, 1}
    LeaseTerms = {1}
    None = None
SYMMETRY ReviewerSymmetry
CHECK_DEADLOCK FALSE
INVARIANTS
    DirectoriesCurrent
    PreflightAgreesWithGate
