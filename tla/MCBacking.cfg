SPECIFICATION Spec
CONSTANTS
    parent = parent
    child1 = child1
    child2 = child2
    aave = aave
    compound = compound
    ParentChain = parent
    ChildChains = {child1, child2}
    Protocols = {aave, compound}
    NoChain = NoChain
    NoProtocol = NoProtocol
    SharePrecision = 1
    AssetPrecision = 1
    MinAssetAmount = 1
    MaxDeposit = 2
    MaxFeeShares = 0
    SeedShares = 0
    Replay = TRUE
    MaxEpochs = 3
    MaxRebalances = 3
    MaxCronReports = 1
    Pausable = {}
    MaxLoss = 0
SYMMETRY MCSymmetry
INVARIANTS
    SharesFullyBacked
    AcceptedTvlIsCurrent
    TvlCountedOnce
    BackingInv
PROPERTIES
    ImplementsLedger
CHECK_DEADLOCK FALSE
