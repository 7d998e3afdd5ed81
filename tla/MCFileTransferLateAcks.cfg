SPECIFICATION Spec
CONSTANTS
    c1 = c1
    c2 = c2
    n1 = n1
    n2 = n2
    Absent = Absent
    Clients = {c1, c2}
    Names = {n1, n2}
    FileName <- SameName
    FileLen <- WithEmpty
    Existing = {n2}
    Fds = {3, 4}
    GarbageFds = {0}
    AcksInOrder = FALSE
    FaultSets <- Unreachable
INVARIANTS
    IInv
    DoneMeansStored
    
PROPERTIES
    FilesOnlyGrow
