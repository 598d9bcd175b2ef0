SPECIFICATION FairSpec
CONSTANTS
    NoImage = NoImage
    Images = {i1, i2}
    RestartLimit = 1
    MaxLaunches = 2
    EnvBinary = TRUE
INVARIANTS TypeOK ServesLoadedModel NothingLeftBehind
PROPERTIES RestartsUseUpBudget CallsReturn
