CONSTANTS
    QueueMax = 2
    MaxRetry = 2
    MacMax = 1
    HelloRounds = 0
    Node <- MCNode
    Devices <- MCDevices
    IpForward <- MCIpForward
    InRange <- MCInRange
    Traffic <- MCTraffic
    HelloIds <- MCHelloIds
SPECIFICATION MCSpec
INVARIANT DecodeIsZeroWhenComplete
