SPECIFICATION ServerFairSpec
CONSTANTS
    r1 = r1
    r2 = r2
    r3 = r3
    r4 = r4
    NoRequest = NoRequest
    Requests = {r1, r2, r3, r4}
    MaxTokens <- TokensOf
    NumPages = 0
    PagesPerSlot = 1
    Priorities = {0}
    Lowest = 255
    MaxPreemptions = 3
    Boost = 64
    BatchSize = 2
    PrefillBatch = 2
    HwBatch = 2
    ChannelCap = 2
INVARIANTS ServerTypeOK NoOrphans BooksAgree ResultOnce LoopDelivers
PROPERTY LoopReturns
