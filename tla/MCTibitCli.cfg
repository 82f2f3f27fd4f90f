CONSTANTS
    o1 = o1
    u1 = u1
    None = None
    Olts <- MCOlts
    Onus <- MCOnus
    PonOf <- MCPonOf
    OnuMac <- MCOnuMac
    QueueSize = 1
    Bulks <- MCBulks
    MaxRules = 2
    AtProxyMac <- LabOlt
    Lossy = FALSE
SPECIFICATION TSpec
\* The user may stop typing: the shell then waits at its prompt.
CHECK_DEADLOCK FALSE
PROPERTY ActivateOltReturns
PROPERTY OnuActiveOnceOltActivated CliFlowsFollowOnuDetection
INVARIANT FramesRoutedToKnownDevices
