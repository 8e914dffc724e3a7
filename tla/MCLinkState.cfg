CONSTANTS
    Node = {"n0", "n1", "n2"}
    Hears <- Line
    MaxTTL = 1
    Samples = {10}
    MaxHellos = 3
    MaxLost = 1
    MaxData = 1
    Far = 999
SPECIFICATION MCSpec
CHECK_DEADLOCK FALSE
INVARIANTS
    TypeOK
    DatabaseTruthful
    FloodReachesAll
    FirstHopsHaveMetric
PROPERTIES
    NeverOlder
    FloodEnds
