CONSTANTS
    NumGpus = 2
    NumRounds = 2
    NumTiles = 2
    NumRows = 1
    NumWorkers = 3
    Buffer = {0}
    BufferOf <- OneBuffer
    MaxIterations = 1
SPECIFICATION Spec
INVARIANTS
    OwnTermReady
