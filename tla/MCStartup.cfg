SPECIFICATION LiveSpec
CONSTANTS
  p1 = p1
  p2 = p2
  p3 = p3
  Processes = {p1, p2, p3}
  Last = 3
  Known <- OldAndNew
  None = None
  MaxFaults = 2
\* Everybody serves and the faults are used up: nothing is left to do.
CHECK_DEADLOCK FALSE
INVARIANTS
  TypeOK
  ServesMigrated
  OnceInOrder
PROPERTIES
  BrokenForGood
  ImplementsUpgrade
  ComesUp
