CONSTANTS
    s1 = s1
    s2 = s2
    s3 = s3
    c1 = c1
    c2 = c2
    Senders <- ThreeSenders
    Closers <- TwoClosers
    Capacities <- SmallCapacities
SPECIFICATION ClosableFairSpec
INVARIANT
    ClosableInv
PROPERTY
    SendersReturn
\* Everybody returns.
CHECK_DEADLOCK FALSE
