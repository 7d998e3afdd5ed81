SPECIFICATION FairSpec
CONSTANTS
    c1 = c1
    Conns = {c1}
    Modes = {"M_WRITE", "M_READ"}
    AcksInOrder = TRUE
    FaultSets <- MaybeFault
INVARIANTS
    NobodyDies
    PrintedIsPeers
PROPERTIES
    MsgsLeftAlone
    EveryExchangeEnds
