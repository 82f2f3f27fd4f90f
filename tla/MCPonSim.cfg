CONSTANTS
    NumOnus = 2
    MaxHops = 6
    OltTables <- RefOltTables
    OnuTables <- RefOnuTables
    Frames <- RefFrames
SPECIFICATION Spec
INVARIANT TypeOK
PROPERTY ImplementsPonSimAbstract
