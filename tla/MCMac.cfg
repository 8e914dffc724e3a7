CONSTANTS
    Station <- MCStation
    Group = Group
    None = None
    MaxSsrc = 2
    MaxSlrc = 2
    Switcher <- MCSwitcher
    InRange <- MCInRange
    Traffic <- MCTraffic
CHECK_DEADLOCK FALSE
SPECIFICATION FairSpec
INVARIANTS
    TypeOK
    Alive
    RepeatIsMarked
    RatioNeverAboveOne
PROPERTIES
    ImplementsLink
    EveryPacketLeaves
