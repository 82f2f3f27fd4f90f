CONSTANTS
    o1 = o1
    o2 = o2
    u1 = u1
    u2 = u2
    Olts <- MCOlts
    Onus <- MCOnus
    PonOf <- MCPonOf
    OnuMac <- CollidingOnuMac
    QueueSize = 1
    Bulks <- MCBulks
    MaxRules = 2
    AtProxyMac <- LabOlt
    Lossy = FALSE
SPECIFICATION Spec
CHECK_DEADLOCK FALSE
INVARIANT PacketInToOwnLogicalDevice
