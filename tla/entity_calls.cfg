\* Two calls on two documents over one index, a failing persist, two sessions; liveness.
CONSTANTS
  i1 = i1 i2 = i2 o1 = o1 o2 = o2 o3 = o3 p1 = p1 p2 = p2
  None = None
  Ids = {i1, i2}
  Ops = {o1, o2}
  Pulls = {}
  Kinds <- WriteKinds
  MaxStores = 2 MaxFaults = 1 MaxLists = 1
SPECIFICATION FairSpec
CHECK_DEADLOCK FALSE
INVARIANT OneRowPerDocument
PROPERTY CallsSettle
