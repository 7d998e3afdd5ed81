CONSTANTS
    i1 = i1
    i2 = i2
    None = None
    Initiators <- MCInitiators
    Depth <- MCDepth
    Args <- MCArgs
    FaultSets <- MCFaultSets
SPECIFICATION FairSpec
INVARIANTS
    ReceivesConserved
    ExitNeedsFault
PROPERTY
    EverybodyEnds
CHECK_DEADLOCK FALSE
