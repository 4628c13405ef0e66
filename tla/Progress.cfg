SPECIFICATION FairSpec
CONSTANTS
  v1 = v1  v2 = v2  t1 = t1  t2 = t2  t3 = t3  c1 = c1  None = None
  Videos <- OneVideo
  Linked <- OneVideo
  Tasks <- TwoTasks
  Clients = {c1}
  Targets = {1}
  MailboxCap = 2
  MaxAttempts = 1
  MaxInteger = 3
  Operations = {"discover"}
  Budget <- ProgressBudget
PROPERTIES
  PendingIsDispatched
  DrainCompletes
  ReservationsReleased
