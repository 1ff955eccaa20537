\* Six values and two workers, so that the rest of an abandoned batch may or may
\* not fit the buffer of the results.
SPECIFICATION Spec
CONSTANTS
    N = 6
    MaxWorkerCount = 2
    Failing = {2, 4}
INVARIANTS TypeOK OnePlace
PROPERTIES DrainedEnds Abandoned BatchSpec
CHECK_DEADLOCK FALSE
