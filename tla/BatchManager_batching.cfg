CONSTANTS
    TotalNumRequests = 4
    MaxSeqLength = 4
    MaxBatchedRequests = 3
    MaxBatchedTokens = 3
    MaxTokensPerRequest = 2
    PageSize = 2
    NumPages = 6
SPECIFICATION FairSpec
INVARIANTS
    TypeOK
    PagesAccountedFor
    CacheIntact
    InputsKnown
    NoRequestDropped
PROPERTIES
    TokensKept
    AllServed
