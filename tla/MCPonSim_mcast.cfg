CONSTANTS
    NumOnus = 2
    MaxHops = 6
    OltTables <- McastOltTables
    OnuTables <- McastOnuTables
    Frames <- McastFrames
SPECIFICATION Spec
PROPERTY ImplementsPonSimAbstract
