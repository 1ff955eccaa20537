SPECIFICATION Spec
CONSTANTS
    Unset = Unset
    Invalid = Invalid
    NoConfig = NoConfig
    Stem <- MCStem
    TestStem <- MCTestStem
    World <- MCWorld
    TreeOf <- MCTreeOf
    Edited <- MCEdited
    InitBuild <- MCInitBuild
    MaxEdits = 2
    Dirs <- MCDirs
    Walk <- MCWalk
INVARIANTS
    TypeOK
    OneOwner
    Complete
    LazyReached
PROPERTIES
    Stable
