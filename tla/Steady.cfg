SPECIFICATION Spec
SYMMETRY FullSymmetry
CONSTANTS
  v1 = v1  v2 = v2  t1 = t1  t2 = t2  t3 = t3  c1 = c1  None = None
  Videos <- TwoVideos
  Linked <- TwoVideos
  Tasks <- ThreeTasks
  Clients = {}
  Targets = {1, 2}
  MailboxCap = 2
  MaxAttempts = 1
  MaxInteger = 3
  Operations = {}
  Budget <- SteadyBudget
INVARIANTS
  TypeOK
  PermitAccounting
  UniqueDispatch
  QuiescenceSound
  AttemptsBounded
PROPERTIES
  CompletedStaysCompleted
