CONSTANT Kinds <- Stages
CONSTANT N = 2
CONSTANT Fan = 2
CONSTANT MaxItems = 4
CONSTANT MaxWindows = 3
SPECIFICATION FairSpec
INVARIANT
    OutputsRight
    RateBounded
PROPERTY
    Ends
\* A stage comes to its end, and so does its surroundings.
CHECK_DEADLOCK FALSE
