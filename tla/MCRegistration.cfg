SPECIFICATION Spec
CONSTANTS
  l1 = l1
  l2 = l2
  Libraries = {l1, l2}
  Unlimited = Unlimited
  Never = Never
  None = None
  Int4Max = 2
  Workers = {w1, w2}
  Invites = {i1}
  Users = {u1, u2, u3}
  Servers = {s1}
  FormMaxUses <- ZeroOrOne
  FormExpiries <- NeverOnly
  FormLibraries <- OneLibrary
  DefaultPolicy <- ShutPolicy
  WebhookSet = TRUE
  MaxTime = 0
  MaxFaults = 1
SYMMETRY Interchangeable
INVARIANTS
  TypeOK
  LedgerBalance
  OvershootBounded
  BooksComplete
  ScopeApplied
  NoticesFollowBooks
  LossBounded
  NumbersShared
PROPERTIES
  ClosedForGood
  ImplementsLedger
