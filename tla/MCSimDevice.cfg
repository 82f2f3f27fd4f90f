CONSTANTS
    Tables <- MCTables
    Ports <- MCPorts
    Frames <- MCFrames
SPECIFICATION Spec
INVARIANT TypeOK
INVARIANT SelectsHighestPriorityFirstInstalled
