CONSTANTS
    NumGpus = 2
    NumRounds = 2
    NumTiles = 1
    NumRows = 2
    NumWorkers = 3
    Buffer = {0}
    BufferOf <- OneBuffer
    MaxIterations = 3
SPECIFICATION FairSpec
INVARIANTS
    RowsGathered
    NoSignalMissed
PROPERTIES
    Termination
