CONSTANTS
    NumOnus = 2
    MaxHops = 6
    OltTables <- MCOltTables
    OnuTables <- MCOnuTables
    Frames <- MCFrames
SPECIFICATION Spec

PROPERTY FatalErrorAbortsOnlyItsProcess
