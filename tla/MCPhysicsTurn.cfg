\* The box of a body that was turned in place.
SPECIFICATION Spec
CONSTANTS
    Bodies <- Things
    Axes = {"x", "y"}
    SweepAxis = "x"
    Divisions <- Quadrants
    MaxObjectsPerPartition = 1
    MaxPartitionDepth = 1
    Infinity = 99
    Orientations <- Turns
    Positions <- Places
    HalfExtents <- Extents
    Shapeless = {"ghost"}
    Declining = {"ball"}
    Fixed = {"floor", "ghost"}
    Toggled = {"plank"}
    Removed = {"ball"}
INVARIANT
    FlagTellsStaleBox
