SPECIFICATION Spec
CONSTANTS
    parent = parent
    child1 = child1
    child2 = child2
    aave = aave
    compound = compound
    ParentChain = parent
    ChildChains = {child1, child2}
    Protocols = {aave, compound}
    NoChain = NoChain
    NoProtocol = NoProtocol
    SharePrecision = 2
    AssetPrecision = 1
    MinAssetAmount = 1
    MaxDeposit = 2
    MaxFeeShares = 1
    SeedShares = 0
    Replay = TRUE
    MaxEpochs = 3
    MaxRebalances = 2
    MaxCronReports = 1
    Pausable = {child1, child2}
    MaxLoss = 1
SYMMETRY MCSymmetry
INVARIANTS
    TypeOK
    PhaseInv
    ExecutingMintCounted
    AtMostOneRecovery
    FundsUnderActiveAdapter
    SettledAtActiveStrategy
    NoStrandedMessage
    RecoveryContinuesOperation
    ActionableLogNotBlocked
    ReportFitsOperation
PROPERTIES
    SettledEpochFrozen
CHECK_DEADLOCK FALSE
