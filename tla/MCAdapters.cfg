SPECIFICATION AdapterSpec
CONSTANTS
    RAY = 2
    WEI_TOLERANCE = 5
    MAX_BUFFERED_ASSETS = 4
    MaxIndex = 11
    MaxAssets = 12
    MaxDonated = 1
INVARIANTS
    BufferBacked
    RoundingNeverRefuses
PROPERTY
    CallsLoseOnlyDust
CHECK_DEADLOCK FALSE
