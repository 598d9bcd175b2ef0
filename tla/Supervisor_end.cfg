SPECIFICATION Spec
CONSTANTS
    r1 = r1
    r2 = r2
    id = id
    NoRequest = NoRequest
    Requests = {r1, r2}
    Ids = {r1, r2}
    IdOf <- UniqueIds
    MaxTokens = 1
    MaxLoads = 1
    StreamCapacity = 1
    Scenario = {"crash", "unload", "drop", "load fails", "generation fails"}
CHECK_DEADLOCK FALSE
SYMMETRY Symmetry
INVARIANTS ExactlyOneTerminal StreamsInOrder DropStrandsNobody EventsAccepted
PROPERTY ImplementsService
