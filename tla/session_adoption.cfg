\* Merge logins with writes in flight, two calls, one failing step and one crash.
CONSTANTS
  a1 = a1 a2 = a2 n1 = n1 n2 = n2 s1 = s1 s2 = s2
  None = None
  Accounts = {a1}
  Anons = {n1, n2}
  Spaces = {s1}
  Writes = {w1, w2}
  Logins = {l1}
  Reconnects = {}
  Calls <- AdoptCalls
  Faults <- MostFaults
  GrantLess = FALSE
  SeedLocal = TRUE
  Ttl = 2 Warn = 1
  MaxCalls = 2 MaxChain = 2 MaxFaults = 1 MaxCrashes = 1 MaxNow = 0
SPECIFICATION Spec
SYMMETRY WriteSymmetry
CHECK_DEADLOCK FALSE
INVARIANTS LocalIsOpen OneReplicaOpen AckedWriteReachable ErasedIsGone
