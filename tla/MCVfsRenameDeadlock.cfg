SPECIFICATION Spec
CONSTANTS
    Threads = {1, 2}
    NI = 5
    NB = 5
    NA = 6
    APB = 2
    ENTS = 4
    Scenarios <- mcRenames
INVARIANT NoDeadlock
