SPECIFICATION LiveSpec
CONSTANTS
  IPs = {ip1, ip2}
  None = None
  Limit = 1
  Window = 1
  BehindProxy = TRUE
  MaxTime = 4
  MaxCount = 2
  MaxBoots = 1
INVARIANTS
  BurstBounded
  RefusalJustified
PROPERTIES
  ImplementsFixedWindow
  Forgotten
