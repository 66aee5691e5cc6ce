SPECIFICATION FairSpec
CONSTANTS
    Workers = {w1, w2}
    Capacity = 3
    Word = 8
    MaxCalls = 1
    Shapes <- MCShapes
PROPERTY IssuedJobsRun
