CONSTANTS
    a = a
    l = l
    Path <- MCPath
    Link <- MCLink
    Key = {k}
    c1 = c1
    c2 = c2
    Content <- MCContent
    Build = {b}
    w1 = w1
    w2 = w2
    Worker <- MCOneWorker
    Absent = Absent
    None = None
    Err = Err
    NoBuild = NoBuild
    Dangling = FALSE
    QuietStart = TRUE
    Stamped = TRUE
SPECIFICATION Spec
INVARIANTS WatchmanTypeOK EntriesRecent DiskSound KeysAreReal
PROPERTIES WatchmanLookupSpec
SYMMETRY Contents
