SPECIFICATION Spec
CONSTANTS
    something = something
    constrained = constrained
    none = none
    nothing = nothing
    FileName = {"A", "NewScene"}
    Entities <- Contents
    Serialised <- WithoutConstraints
    Empty = nothing
    None = none
    Projects <- OnlyTwoScenes
    MaxScenes = 2
PROPERTY StopRestores
