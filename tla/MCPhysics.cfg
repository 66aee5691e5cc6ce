\* A plank to turn and a ball to remove, one object per node, two levels of
\* division below the root.
SPECIFICATION Spec
CONSTANTS
    Bodies <- Things
    Axes = {"x", "y"}
    SweepAxis = "x"
    Divisions <- Quadrants
    MaxObjectsPerPartition = 1
    MaxPartitionDepth = 1
    Infinity = 99
    Orientations <- Turns
    Positions <- Places
    HalfExtents <- Extents
    Shapeless = {"ghost"}
    Declining = {"ball"}
    Fixed = {"floor", "ghost"}
    Toggled = {"plank"}
    Removed = {"ball"}
INVARIANTS
    TypeOK
    NoContactMissed
    NoStrayPair
    StaleOnlyIfTurned
    SolvedBodiesAwake
PROPERTIES
    ResponseReachesBodies
    BroadphaseSpec
