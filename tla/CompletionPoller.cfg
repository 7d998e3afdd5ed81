SPECIFICATION FairSpec
CONSTANT
    Completions = 6
INVARIANTS
    NoLostWakeup
PROPERTIES
    EveryCompletionHandled
