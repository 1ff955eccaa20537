SPECIFICATION Spec
CONSTANTS
    p1 = p1  p2 = p2  k1 = k1  k2 = k2  c1 = c1  c2 = c2
    b1 = b1  b2 = b2  w1 = w1  w2 = w2
    Path <- MCTwoPaths
    Key <- MCOneKey
    Content <- MCContent
    Build <- MCOneBuild
    Worker <- MCTwoWorkers
    Digest <- MCDigest
    HashOf <- MCHashOf
    Absent = Absent
    None = None
    Err = Err
    NoHash = NoHash
    NoBuild = NoBuild
    Stamped = TRUE
    EarlyReturn = TRUE
INVARIANTS
    AnswersFresh
