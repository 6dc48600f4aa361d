SPECIFICATION Spec
CONSTANTS
    p1 = p1
    p2 = p2
    Publishers = {p1, p2}
    Age = 1
    None = None
CHECK_DEADLOCK FALSE
INVARIANTS
    LivingSpared
