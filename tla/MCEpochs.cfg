SPECIFICATION Spec
CONSTANTS
    alice = alice
    treasury = treasury
    Users = {alice, treasury}
    Treasury = treasury
    SharePrecision = 1
    AssetPrecision = 1
    MinAssetAmount = 1
    MaxEpochNonce = 3
    MaxQueued = 3
    MaxTvl = 4
    MaxEarned = 1
    MaxShort = 1
    MaxElapsed = 1
    MaxShares = 4
INVARIANTS
    TypeOK
    Solvent
    SupplyMatchesTotalShares
    EscrowCoversWithdrawals
    TotalsAreSums
    PoolsEmptyWithClaims
PROPERTIES
    ClaimOrderNeverHurts
CHECK_DEADLOCK FALSE
