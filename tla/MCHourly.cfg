SPECIFICATION Spec
CONSTANTS
  IPs = {ip1}
  None = None
  Limit = 2
  Window = 2
  BehindProxy = TRUE
  MaxTime = 5
  MaxCount = 3
  MaxBoots = 0
INVARIANTS
  HourlyLimit
