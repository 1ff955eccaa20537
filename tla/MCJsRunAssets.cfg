SPECIFICATION Spec
CONSTANTS
    Unset = Unset
    Invalid = Invalid
    NoConfig = NoConfig
    Stem <- MCStem
    TestStem <- MCTestStem
    World <- MCAssetsWorld
    TreeOf <- MCTreeOf
    Edited <- MCEdited
    InitBuild <- MCInitBuild
    MaxEdits = 0
    Dirs <- MCDirs
    Walk <- MCWalk
INVARIANTS
    AssetsCollected
