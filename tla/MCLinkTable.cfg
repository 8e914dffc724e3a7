CONSTANTS
    Node = {"n0", "n1", "n2", "n3", "n4"}
    Hears <- MCHears
    MaxTTL = 2
    Samples = {10}
    MaxHellos = 4
    MaxLost = 0
    MaxData = 0
    Far = 999
SPECIFICATION MCSpec
CHECK_DEADLOCK FALSE
INVARIANTS
    SendEntriesFound
    ChainsEnd
PROPERTY ImplementsNFTable
