CONSTANTS
    QueueMax = 3
    MaxRetry = 1
    MacMax = 1
    HelloRounds = 1
    Node <- MCNode
    Devices <- MCDevices
    IpForward <- MCIpForward
    InRange <- MCInRange
    Traffic <- MCTraffic
    HelloIds <- MCHelloIds
SPECIFICATION Spec
INVARIANTS
    Alive
    VirtualQueueMirrorsQueue
    NeighborsDisjoint
