SPECIFICATION Spec
CONSTANTS
  Editors = {e1, e2}
  Visitors = {v1}
  URLs = {u1, u2}
  Blank = Blank
  None = None
  MaxFaults = 2
SYMMETRY Interchangeable
INVARIANTS
  TypeOK
  NobodyLost
  OneAtATime
PROPERTIES
  ConfiguredForGood
