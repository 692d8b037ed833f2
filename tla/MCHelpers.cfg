CONSTANT Kinds <- AllKinds
CONSTANT MaxCalls = 4
CONSTANT Limits <- SomeLimits
SPECIFICATION FairSpec
INVARIANT
    AnswersTrue
PROPERTY
    Answers
\* The helper returns.
CHECK_DEADLOCK FALSE
