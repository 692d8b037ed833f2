----------------------------- MODULE MCHelpers -----------------------------
EXTENDS Helpers

AllKinds == {"forEach", "map", "race", "retry"}
\* Without a limit, with one slot, with fewer slots than items.
SomeLimits == {0, 1, 2}
=============================================================================
