CONSTANTS
    NumTiles = 1
    K_SPLITS = 2
    NumWarps = 2
    MaxLayers = 2
SPECIFICATION Spec
INVARIANTS
    OutputComplete
