\* Two popups of one page: an answer for one account over another.
CONSTANTS
  a1 = a1 a2 = a2 n1 = n1 n2 = n2 s1 = s1 s2 = s2
  None = None
  Accounts = {a1, a2}
  Anons = {n1, n2}
  Spaces = {s1}
  Writes = {}
  Logins = {l1, l2}
  Reconnects = {r1}
  Calls <- NoCalls
  Faults <- NoFaults
  GrantLess = FALSE
  SeedLocal = FALSE
  Ttl = 2 Warn = 1
  MaxCalls = 0 MaxChain = 2 MaxFaults = 0 MaxCrashes = 0 MaxNow = 0
SPECIFICATION Spec
CHECK_DEADLOCK FALSE
INVARIANT SyncsOwnReplica
