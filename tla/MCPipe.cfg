CONSTANTS
    Capacity = 2
    PayloadSize = 5
SPECIFICATION FairSpec
PROPERTIES BothEnd
INVARIANTS InOrder NoLostWakeup CompleteOnSuccess
CHECK_DEADLOCK FALSE
