SPECIFICATION AccountingSpec
CONSTANTS
    SharePrecision = 4
    AssetPrecision = 2
    MinAssetAmount = 2
    WordBits = 4
INVARIANTS
    CloseMirrorsContract
    ReconcileMirrorsContract
CHECK_DEADLOCK FALSE
