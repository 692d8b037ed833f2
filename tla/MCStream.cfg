CONSTANT Cases <- AllCases
CONSTANT N = 2
CONSTANT MaxItems = 3
CONSTANT MaxSub = 2
SPECIFICATION Spec
INVARIANT
    OutcomeRight
    StopReaches
\* A terminal returns.
CHECK_DEADLOCK FALSE
