SPECIFICATION FairSpec
CONSTANTS
    Configs <- MCConfigs
INVARIANTS
    QueuesFit
    
    DataChecksOut

    
