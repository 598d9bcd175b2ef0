SPECIFICATION FairSpec
CONSTANTS
    r1 = r1
    r2 = r2
    r3 = r3
    r4 = r4
    NoRequest = NoRequest
    Requests = {r1, r2, r3, r4}
    PromptLen <- PromptOf
    MaxOutput <- OutputOf
    Budget = 3
    MaxSeqs = 3
INVARIANTS PromptConserved PrefillFirst WorkWaits OverrunBounded
PROPERTY CallReturns
CHECK_DEADLOCK FALSE
