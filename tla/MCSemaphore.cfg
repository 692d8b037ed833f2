SPECIFICATION FairSpec
CONSTANTS
  u1 = u1
  u2 = u2
  u3 = u3
  Users <- ThreeUsers
  Misusers <- Rogue
  Cap = 2
INVARIANTS
  ReleaseNeverBlocks
  IInv
PROPERTIES
  AcquireEnds
