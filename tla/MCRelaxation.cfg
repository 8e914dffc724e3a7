CONSTANTS
    Node = {0, 1, 2, 3}
    Source = 0
    NoPrehop = 4
    Far = 9
    Weights = {0, 2}
    Graphs <- MCGraphs
SPECIFICATION Spec
CHECK_DEADLOCK FALSE
INVARIANTS
    TypeOK
    SourceIsRoot
    PrehopIsNearer
    NoPrehopCycle
