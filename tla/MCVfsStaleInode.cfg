SPECIFICATION Spec
CONSTANTS
    Threads = {1, 2}
    NI = 6
    NB = 6
    NA = 7
    APB = 2
    ENTS = 4
    Scenarios <- mcStale
INVARIANT CopyFresh
