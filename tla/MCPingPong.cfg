SPECIFICATION FairSpec
CONSTANTS
    Args <- MCArgs
    FaultSets <- MCFaultSets
INVARIANTS
    Accounting
    MessageFindsReceive
    NoLostWakeup
    OkMeansAllReceived

    
CHECK_DEADLOCK FALSE
