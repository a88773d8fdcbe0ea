CONSTANTS
    Producer = {p1, p2, p3}
    Reader = {s1, s2}
    EventId = {e1, e2}
    EmptySlot = none
    QueueLen = 3
    MaxAhead = 2
    MaxEvents = 5
SPECIFICATION FairSpec
INVARIANTS
    TypeOK
    NoLostEvent
    NothingOverwritten
PROPERTIES
    ImplementsLog
    Delivered
