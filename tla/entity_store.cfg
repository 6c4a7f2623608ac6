\* One document: two calls, two pulls, a failing persist, a re-hydrate, two sessions.
CONSTANTS
  i1 = i1 i2 = i2 o1 = o1 o2 = o2 o3 = o3 p1 = p1 p2 = p2
  None = None
  Ids = {i1}
  Ops = {o1, o2}
  Pulls = {p1, p2}
  Kinds <- AllKinds
  MaxStores = 2 MaxFaults = 1 MaxLists = 1
SPECIFICATION Spec
CHECK_DEADLOCK FALSE
INVARIANTS TypeOK MapShowsReplicaUncrossed NewestWriteStands ShowsNoForeignPull
CONSTRAINT Uncrossed
SYMMETRY Symmetry
