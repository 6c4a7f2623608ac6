\* Two devices, two instants, one session ended.
CONSTANTS
  None = None
  N = 2 MaxAt = 2 MaxLogouts = 1 MaxIdle = 0
  PullsOverUpdates = FALSE
SPECIFICATION FairSpec
CHECK_DEADLOCK FALSE
INVARIANTS TypeOK NewestStands
PROPERTY Converges
