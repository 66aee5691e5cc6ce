SPECIFICATION TreeSpec
CONSTANTS
    Entity = {e1, e2, e3, e4}
    NoEntity = NoEntity
    NoFile = NoFile
SYMMETRY Symmetry
INVARIANTS TypeOK NeverStuck ChildListsAgree UpdateFollowsTree
PROPERTY ImplementsSceneTree
