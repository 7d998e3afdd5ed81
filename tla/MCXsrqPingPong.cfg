SPECIFICATION FairSpec
CONSTANTS
    MaxClients = 3
    Args <- MCArgs
    FaultSets <- MCFaultSets
INVARIANTS
    QueuesSuffice
    NobodyLeavesEarly
    NoLostWakeup
PROPERTIES
    EverybodySucceeds
CHECK_DEADLOCK FALSE
