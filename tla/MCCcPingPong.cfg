SPECIFICATION FairSpec
CONSTANTS
    Narrow <- MCNarrow
    Wide <- MCWide
    BitAnd <- MCBitAnd
    BitOr <- MCBitOr
    BitXor <- MCBitXor
    Args <- MCArgs
    FaultSets <- MCFaultSets
INVARIANTS
    
    BufferUnshared
    OnlyLastSendFails

    
CHECK_DEADLOCK FALSE
