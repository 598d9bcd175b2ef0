SPECIFICATION FairSpec
CONSTANTS
    r1 = r1
    r2 = r2
    id = id
    NoRequest = NoRequest
    Requests = {r1}
    Ids = {r1}
    IdOf <- UniqueIds
    MaxTokens = 1
    MaxLoads = 1
    StreamCapacity = 1
    Scenario = {"silence", "cancel", "close"}
CHECK_DEADLOCK FALSE
PROPERTY SilenceIsNoticed
