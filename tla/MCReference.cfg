SPECIFICATION FairSpec
CONSTANTS
    Handle = {h1, h2, h3}
    Object = {o1, o2}
    Null = Null
INVARIANTS TypeOK HeldIsLive CountIsHolders
PROPERTY DroppedIsFreed
