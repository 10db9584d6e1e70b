SPECIFICATION ConfigSpec
CONSTANTS
    Candidates <- MCDeployments
    NoConfig = NoConfig
    NoName <- MCNoName
    SupportedProjects <- MCProjects
    MaxGasLimit = 1
    MaxTriggers = 10
    MaxDecimals = 77
INVARIANT SeparateHandlersPerChild
CHECK_DEADLOCK FALSE
