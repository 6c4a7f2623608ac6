\* Three decrypts, two heads, two bootstraps, one failing read.
CONSTANTS
  d1 = d1 d2 = d2 d3 = d3
  None = None
  Decrypts = {d1, d2, d3}
  MaxHeads = 2 MaxBoots = 2 MaxFaults = 1
SPECIFICATION FairSpec
CHECK_DEADLOCK FALSE
INVARIANTS TypeOK RefreshServes RefreshRationed RefusalStands SchemaInstalled
PROPERTIES NeverGoesBack DecryptsSettle
