SPECIFICATION Spec
CONSTANTS
    alice = alice
    treasury = treasury
    Users = {treasury}
    Treasury = treasury
    SharePrecision = 2
    AssetPrecision = 2
    MinAssetAmount = 1
    MaxEpochNonce = 4
    MaxQueued = 2
    MaxTvl = 4
    MaxEarned = 2
    MaxShort = 1
    MaxElapsed = 1
    MaxShares = 4
PROPERTIES
    CloseCostsInterestAtMost
CHECK_DEADLOCK FALSE
