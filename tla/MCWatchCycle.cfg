SPECIFICATION Spec
CONSTANTS
    r = r
    a = a
    ab = ab
    v1 = v1
    v2 = v2
    Absent = Absent
    None = None
    Dir <- MCDir
    Root = r
    Parent <- MCParent
    Version = {v1}
    RootBuild = TRUE
INVARIANTS
    TypeOK
    Converged
    CacheTrue
PROPERTIES
    Reflected
