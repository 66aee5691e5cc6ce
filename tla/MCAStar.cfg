SPECIFICATION Spec
CONSTANTS
    N = 4
    MaxCost = 3
    Infinity = 100
CHECK_DEADLOCK FALSE
INVARIANTS TypeOK ParentsAreNearer PathLeadsToEnd WaitingWereReached
