SPECIFICATION Spec
CONSTANTS
  Browsers = {b1}
  Tabs = {t1, t2}
  Sids = {s1, s2, s3}
  None = None
  TTL = 1
  MaxTime = 2
  MaxFaults = 1
SYMMETRY Interchangeable
INVARIANTS
  TypeOK
  TokenBeforeSession
  SignOutComplete
PROPERTIES
  OverForGood
  ImplementsLife
