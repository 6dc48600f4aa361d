SPECIFICATION Spec
CONSTANTS
    c1 = c1
    c2 = c2
    c3 = c3
    c4 = c4
    c5 = c5
    Callers = {c1, c2, c3, c4, c5}
    Operations = {"generate", "replace"}
    OperationOf <- MCOperationOf
    MaxConcurrency = 2
    MaxQueueSize = 2
INVARIANTS
    TypeOK
    CountersTrue
    NoSlotStranded
PROPERTIES
    WaitersLeaveQueue
