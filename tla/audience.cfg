\* Two posts, two writes, one replacement, a retired layout, one fault, one restart.
CONSTANTS
  p1 = p1 p2 = p2
  None = None
  Posts = {p1, p2}
  MaxWrites = 2 MaxGens = 1 MaxLayouts = 1 MaxFlips = 1
  MaxFaults = 1 MaxCrashes = 1 MaxWaiting = 2
  RenewOverListing = FALSE
SPECIFICATION FairSpec
CHECK_DEADLOCK FALSE
INVARIANTS TypeOK PausedForCause
PROPERTIES Implements Converges
