\* The wallet popups against remounts, logouts and clears, and openings that fail twice.
CONSTANTS
  a1 = a1 a2 = a2 n1 = n1 n2 = n2 s1 = s1 s2 = s2
  None = None
  Accounts = {a1, a2}
  Anons = {n1, n2}
  Spaces = {s1}
  Writes = {}
  Logins = {l1}
  Reconnects = {r1}
  Calls <- PopupCalls
  Faults <- TwiceFaults
  GrantLess = FALSE
  SeedLocal = TRUE
  Ttl = 2 Warn = 1
  MaxCalls = 2 MaxChain = 2 MaxFaults = 2 MaxCrashes = 0 MaxNow = 1
SPECIFICATION Spec
CHECK_DEADLOCK FALSE
INVARIANTS SyncsOwnReplica ConnectedIsOpen NothingOutlivesSession ReloadRestoresSession ConnectedIsWatched LogoutIsFinal
