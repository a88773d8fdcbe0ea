CONSTANTS
    Graphs <- RacingKernels
    DeclSets <- AllDecls
    ALIGNMENT = 1
    NumThreads = 2
    DeclaredOrder = {1, 2}
SPECIFICATION Spec
INVARIANTS
    ReadsFresh
