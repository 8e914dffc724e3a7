CONSTANTS
    Size = 4
    Weights = {1, 3}
    Far = 20
    MaxLinks = 6
    AdjLists <- MCAdjLists
SPECIFICATION Spec
CHECK_DEADLOCK FALSE
INVARIANT MinimumIsNearest
