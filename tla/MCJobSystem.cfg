SPECIFICATION FairSpec
CONSTANTS
    Workers = {w1, w2}
    Capacity = 3
    Word = 8
    MaxCalls = 2
    Shapes <- MCShapes
INVARIANTS TypeOK IInv IdleMeansDone OldestFirst
PROPERTIES ImplementsForkJoin CallsReturn
