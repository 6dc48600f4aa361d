SPECIFICATION EvidenceSpec
CONSTANTS
    Missing = Missing
    Garbled = Garbled
    Accessory = 100
    HeadroomPercent = 25
    TransientPercent = 125
    Allowances = 90
    SolverHeadroom = 25
    RequiredEps = 1
    Variants <- MCVariants
    Baseline <- MCBaseline
    Requests <- MCRequests
    MaxChanges = 3
INVARIANT MissingIsUnknown
CHECK_DEADLOCK FALSE
