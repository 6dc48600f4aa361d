SPECIFICATION Spec
CONSTANTS
    o1 = o1
    o2 = o2
    r1 = r1
    NoOp = NoOp
    Ops = {o1, o2}
    Runs = {r1}
    RunOf <- MCRunOf
    Grace = 1
    Patience = 2
    MaxCrashes = 0
CHECK_DEADLOCK FALSE
SYMMETRY Symmetric
PROPERTIES
    NamesKept

