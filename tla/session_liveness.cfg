\* Grant-less and granted answers, a reconnect popup, one write in flight, one failing step.
CONSTANTS
  a1 = a1 a2 = a2 n1 = n1 n2 = n2 s1 = s1 s2 = s2
  None = None
  Accounts = {a1}
  Anons = {n1, n2}
  Spaces = {s1}
  Writes = {w1}
  Logins = {l1}
  Reconnects = {r1}
  Calls <- AdoptCalls
  Faults <- MostFaults
  GrantLess = TRUE
  SeedLocal = TRUE
  Ttl = 2 Warn = 1
  MaxCalls = 1 MaxChain = 2 MaxFaults = 1 MaxCrashes = 0 MaxNow = 0
SPECIFICATION FairSpec
CHECK_DEADLOCK FALSE
PROPERTIES AnswerSettles SwapSettles
INVARIANTS TypeOK NoAnonymousSync
