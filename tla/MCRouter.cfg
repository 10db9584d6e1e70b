SPECIFICATION Spec
CONSTANTS
    w1 = w1
    m1 = m1
    m2 = m2
    none = none
    Workflows <- MCWorkflows
    Metas <- MCMetas
    NoMeta = none
    Selectors <- MCSelectors
    MaxReportAge = 1
    MinPeriod = 2
    MaxSkew = 1
    MaxTime = 4
    MaxGeneration = 3
    MaxSigned = 2
SYMMETRY MCSymmetry
INVARIANT DueCallNotTooEarly
PROPERTY ImplementsGrants
CHECK_DEADLOCK FALSE
