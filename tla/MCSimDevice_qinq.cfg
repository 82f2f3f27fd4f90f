\* PUSH_VLAN on a frame that already carries a shim: does it stack?
CONSTANTS
    Tables <- QinQTables
    Ports <- MCPorts
    Frames <- MCFrames
SPECIFICATION Spec
INVARIANT AtMostOneShim
