CONSTANTS
    NumWorkers = 4
    NumXcds = 2
    HwXcd <- TwoXcds
    NumTasks = 7
    NumEvents = 5
    AllTasks <- GangInTheMiddle
    AllEvents <- GraphEvents
    Ancestors <- GraphAncestors
    TASK_DESCS_BUFFER_LENGTH = 2
    PerWorkerQueueLen = 3
    PerSchedQueueLen = 3
    MaxIterations = 2
SPECIFICATION FairSpec
INVARIANTS
    TypeOK
    DependencySafe
    QuietWhilePreparing
    OncePerIteration
    NoStaleIteration
    NoOverrun
    NothingAfterTerminate
PROPERTIES
    ImplementsLoop
    Termination
