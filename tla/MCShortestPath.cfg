CONSTANTS
    Size = 5
    Weights = {0, 1}
    MaxLinks = 5
    Far = 9
    AdjLists <- MCAdjLists
SPECIFICATION Spec
CHECK_DEADLOCK FALSE
INVARIANTS
    TypeOK
    EachNodeOnce
    SlotsFormHeap
    PrehopsLeadToSource
PROPERTY ImplementsRelaxation
