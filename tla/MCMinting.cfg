SPECIFICATION Spec
CONSTANTS
    alice = alice
    treasury = treasury
    Users = {alice, treasury}
    Treasury = treasury
    SharePrecision = 1
    AssetPrecision = 1
    MinAssetAmount = 2
    MaxEpochNonce = 3
    MaxQueued = 4
    MaxTvl = 6
    MaxEarned = 2
    MaxShort = 0
    MaxElapsed = 0
    MaxShares = 8
INVARIANTS
    EveryDepositMints
CHECK_DEADLOCK FALSE
