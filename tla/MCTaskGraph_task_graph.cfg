CONSTANTS
    MAX_TENSOR_DIMS = 2
    Graphs <- SmallGraphs
SPECIFICATION Spec
INVARIANTS
    EveryBlockOnce
    RuntimeReady
    ReadsCovered
    EndWaitsForAll
