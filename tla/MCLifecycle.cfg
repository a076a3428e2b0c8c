SPECIFICATION LiveSpec
CONSTANTS
  l1 = l1
  l2 = l2
  Libraries = {l1, l2}
  Unlimited = Unlimited
  Never = Never
  None = None
  Int4Max = 2
  Workers = {w1, w2}
  Invites = {i1}
  Users = {u1}
  Servers = {s1}
  FormMaxUses <- AllMaxUses
  FormExpiries <- SoonOrNever
  FormLibraries <- OneLibrary
  DefaultPolicy <- OpenPolicy
  WebhookSet = TRUE
  MaxTime = 1
  MaxFaults = 1
INVARIANTS
  StatusMatchesGate
PROPERTIES
  ClosedForGood
  Answered
  RevocationTakesHold
  HangUpReleases
  ImplementsLedger
