CONSTANTS
    Kstages = 2
    NUM_ITER_N = 3
    NUM_ITER_K = 3
    Thread = {0, 1}
    Leader = 0
SPECIFICATION FairSpec
INVARIANTS
    LoadsIntact
    ParityUnambiguous
PROPERTIES
    Termination
