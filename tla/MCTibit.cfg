CONSTANTS
    o1 = o1
    o2 = o2
    u1 = u1
    u2 = u2
    Olts <- MCOlts
    Onus <- MCOnus
    PonOf <- MCPonOf
    OnuMac <- MCOnuMac
    QueueSize = 1
    Bulks <- MCBulks
    MaxRules = 3
    AtProxyMac <- LabOlt
    Lossy = TRUE
SPECIFICATION Spec
\* An activation waits without a timeout: a lost frame can stop everything.
CHECK_DEADLOCK FALSE
INVARIANT TypeOK
