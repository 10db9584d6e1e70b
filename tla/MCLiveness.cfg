SPECIFICATION FairSpec
CONSTANTS
    parent = parent
    child1 = child1
    child2 = child2
    aave = aave
    compound = compound
    ParentChain = parent
    ChildChains = {child1, child2}
    Protocols = {aave, compound}
    NoChain = NoChain
    NoProtocol = NoProtocol
    SharePrecision = 1
    AssetPrecision = 1
    MinAssetAmount = 1
    MaxDeposit = 2
    MaxFeeShares = 0
    SeedShares = 1
    Replay = FALSE
    MaxEpochs = 2
    MaxRebalances = 2
    MaxCronReports = 1
    Pausable = {}
    MaxLoss = 0
PROPERTIES
    EpochSettles
    RebalanceEnds
CHECK_DEADLOCK FALSE
