\* Expected violation: a hydrate over an update.
CONSTANTS
  None = None
  N = 2 MaxAt = 2 MaxLogouts = 0 MaxIdle = 1
  PullsOverUpdates = FALSE
SPECIFICATION Spec
CHECK_DEADLOCK FALSE
INVARIANT UpdatesCompose
