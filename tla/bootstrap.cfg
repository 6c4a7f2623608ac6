SPECIFICATION Spec
CONSTANTS
  c1 = c1
  p1 = p1
  s1 = s1
  a = a
  b = b
  None = None
  Private = {c1}
  Public = {p1}
  Shared = {s1}
  Late = {p1}
  Accounts = {a, b}
  MaxHeads = 2
  MaxEvents = 3
  MaxPasses = 2
CONSTRAINT OneIntruder
SYMMETRY Symmetry
INVARIANTS TypeOK CacheOpens DegradesForCause OneCore
PROPERTIES EpochsAdvance CarriesForward
CHECK_DEADLOCK FALSE
