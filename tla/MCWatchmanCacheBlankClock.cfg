CONSTANTS
    a = a
    l = l
    Path <- MCPath
    Link <- NoLink
    Key = {k}
    c1 = c1
    c2 = c2
    Content <- MCContent
    Build = {b}
    w1 = w1
    w2 = w2
    Worker <- MCOneWorker
    Absent = Absent
    None = None
    Err = Err
    NoBuild = NoBuild
    Dangling = FALSE
    QuietStart = FALSE
    Stamped = TRUE
SPECIFICATION Spec
INVARIANT EntriesRecent
