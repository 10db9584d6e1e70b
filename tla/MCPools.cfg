SPECIFICATION Spec
CONSTANTS
    Candidates <- MCCandidates
    NoConfig = NoConfig
    NoName <- MCNoName
    SupportedProjects <- MCProjects
    MaxGasLimit = 1
    MaxTriggers = 10
    MaxDecimals = 77
    Catalogues <- MCCatalogues
    Rates = {1, 2, 3}
    NoFetch = NoFetch
    MaxTime = 4
    DifferentialThreshold = 2
    MinPoolApy = 0
    MaxPoolApy = 4
    NoApy = NoApy
    MaxSnapshotAge = 1
    MaxReportAge = 1
    MinRebalancePeriod = 2
    InitialStrategy <- MCInitialStrategy
    MaxChoices = 1
    MaxNonce = 2
INVARIANT SelectionIgnoresOrder
PROPERTIES
    MoveJustified
    MovesUseNewerRates
CHECK_DEADLOCK FALSE
