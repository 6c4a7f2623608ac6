\* Expected violation: a listing whose zcap is replaced while its bodies are refused.
CONSTANTS
  p1 = p1 p2 = p2
  None = None
  Posts = {p1, p2}
  MaxWrites = 2 MaxGens = 1 MaxLayouts = 0 MaxFlips = 1
  MaxFaults = 0 MaxCrashes = 0 MaxWaiting = 1
  RenewOverListing = TRUE
SPECIFICATION Spec
CHECK_DEADLOCK FALSE
INVARIANT Current
