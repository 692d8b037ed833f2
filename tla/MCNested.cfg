CONSTANTS a = a b = b c = c h = h
CONSTANT OuterLeaves = {a}
CONSTANT InnerLeaves = {b, c}
CONSTANT Host = h
CONSTANT Configs <- SafetyConfigs
SYMMETRY Alike
SPECIFICATION Spec
INVARIANT
    Attributed
    FailuresClimb
    PanicsClimb
PROPERTY
    ScopesNest
\* Both scopes end.
CHECK_DEADLOCK FALSE
