CONSTANTS
    o1 = o1
    o2 = o2
    u1 = u1
    u2 = u2
    Olts <- MCOlts
    Onus <- MCOnus
    PonOf <- MCPonOf
    OnuMac <- MCOnuMac
    QueueSize = 1
    Bulks <- NoBulks
    MaxRules = 0
    AtProxyMac <- LabOlt
    Lossy = FALSE
SPECIFICATION Spec
CHECK_DEADLOCK FALSE
PROPERTY EveryOnuEventuallyActive
