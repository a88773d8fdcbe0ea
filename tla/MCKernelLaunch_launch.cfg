CONSTANTS
    NumWorkers = 3
    NumXcds = 2
    Placements <- Supported
    MaxLaunches = 2
SPECIFICATION FairSpec
INVARIANTS
    TypeOK
    RolesAndNumbers
    WorkersFound
PROPERTIES
    AllReturn
