SPECIFICATION Spec
CONSTANTS
  l1 = l1
  l2 = l2
  Libraries = {l1, l2}
  Unlimited = Unlimited
  Never = Never
  None = None
  Int4Max = 2
  Workers = {w1, w2}
  Invites = {i1}
  Users = {u1, u2}
  Servers = {s1}
  FormMaxUses <- OneUse
  FormExpiries <- NeverOnly
  FormLibraries <- OneLibrary
  DefaultPolicy <- OpenPolicy
  WebhookSet = FALSE
  MaxTime = 0
  MaxFaults = 0
SYMMETRY Interchangeable
INVARIANTS
  QuotaRespected
