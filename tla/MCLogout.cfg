SPECIFICATION Spec
CONSTANTS
  Browsers = {b1}
  Tabs = {t1}
  Sids = {s1}
  None = None
  TTL = 1
  MaxTime = 0
  MaxFaults = 1
SYMMETRY Interchangeable
INVARIANTS
  AlwaysLogOut
