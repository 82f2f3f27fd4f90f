CONSTANTS
    o1 = o1
    o2 = o2
    u1 = u1
    u2 = u2
    Olts <- LabOlts
    Onus <- LabOnus
    PonOf <- LabPonOf
    OnuMac <- LabOnuMac
    QueueSize = 2
    Bulks <- MCBulks
    MaxRules = 1
    AtProxyMac <- LabOlt
    Lossy = FALSE
SPECIFICATION Spec
\* Nothing is lost: only flows pushed after ACTIVE can disturb the activation.
CHECK_DEADLOCK FALSE
PROPERTY EveryOnuEventuallyActive
