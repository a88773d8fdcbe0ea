SPECIFICATION Spec
INVARIANTS
    Safe
    EveryOutputTileOnce
