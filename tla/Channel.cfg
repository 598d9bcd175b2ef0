SPECIFICATION FairSpec
CONSTANTS
    Producers = {"p1", "p2"}
    Blockers = {"p1"}
    Consumer = "consumer"
    Payload = {"Started", "Token"}
    Terminal = {"Done", "Error"}
    Capacity = 2
    MaxEvents = 4
CHECK_DEADLOCK FALSE
INVARIANTS CapacityBound NothingAfterTerminal WaitersHaveReason
PROPERTIES ImplementsEventStream RecvReturns
