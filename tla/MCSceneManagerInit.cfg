SPECIFICATION Spec
CONSTANTS
    something = something
    constrained = constrained
    none = none
    nothing = nothing
    FileName = {"A", "NewScene"}
    Entities <- OneContent
    Serialised <- NothingKept
    Empty = nothing
    None = none
    Projects <- OneOrTwoScenes
    MaxScenes = 2
INVARIANT UpdatedScenesAreInitialised
