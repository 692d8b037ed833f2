CONSTANT Configs <- AllConfigs
SPECIFICATION FairSpec
INVARIANT
    DeliveredInFull
    TokensCoverResults
    ClosedAfterWorkers
    StopIsNoError
PROPERTY
    BothEnd
\* A stream comes to its end, or its reader leaves it.
CHECK_DEADLOCK FALSE
