SPECIFICATION Spec
CONSTANTS
  l1 = l1
  l2 = l2
  Libraries = {l1, l2}
  Unlimited = Unlimited
  Never = Never
  None = None
  Int4Max = 2
  Workers = {w1}
  Invites = {i1, i2}
  Users = {u1, u2}
  Servers = {s1, s2}
  FormMaxUses <- OneUse
  FormExpiries <- NeverOnly
  FormLibraries <- EitherOne
  DefaultPolicy <- OpenPolicy
  WebhookSet = FALSE
  MaxTime = 0
  MaxFaults = 1
SYMMETRY Interchangeable
INVARIANTS
  ScopeIsolation
