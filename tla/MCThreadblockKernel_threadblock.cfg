CONSTANTS
    Graphs <- SafeKernels
    DeclSets <- AllDecls
    ALIGNMENT = 1
    NumThreads = 2
    DeclaredOrder = {1, 2, 3}
SPECIFICATION Spec
INVARIANTS
    Partition
    LifetimesRespected
    ReadsFresh
