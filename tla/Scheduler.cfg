SPECIFICATION FairSpec
CONSTANTS
    r1 = r1
    r2 = r2
    NoRequest = NoRequest
    Requests = {r1, r2}
    MaxTokens <- TokensOf
    NumPages = 2
    PagesPerSlot = 1
    Priorities = {0, 1, 2}
    Lowest = 2
    MaxPreemptions = 1
    Boost = 1
    BatchSize = 1
    PrefillBatch = 2
    HwBatch = 2
INVARIANTS TypeOK PagesOwnedOnce SlotsMatchActive NoRequestLost BoundedPreemption
PROPERTY EveryRequestEnds
