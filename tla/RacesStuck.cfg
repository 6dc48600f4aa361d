SPECIFICATION Spec
CONSTANTS
    Reviewers = {r1, r2, r3}
    OfferedLabels = {"MATCH", "NON_MATCH"}
    OfferedVerdicts = {"MATCH", "NON_MATCH"}
    Times = {0, 1}
    LeaseTerm = 1
    MaxInFlight = 2
    None = None
SYMMETRY ReviewerSymmetry
CHECK_DEADLOCK FALSE
INVARIANT DisagreementIsAdjudicated
