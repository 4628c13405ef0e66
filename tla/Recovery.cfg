SPECIFICATION Spec
SYMMETRY Symmetry
CONSTANTS
  v1 = v1  v2 = v2  t1 = t1  t2 = t2  t3 = t3  c1 = c1  None = None
  Videos <- TwoVideos
  Linked <- OneVideo
  Tasks <- ThreeTasks
  Clients = {c1}
  Targets = {1}
  MailboxCap = 2
  MaxAttempts = 1
  MaxInteger = 3
  Operations = {"discover", "retry", "download_now", "cancel", "delete", "clean"}
  Budget <- RecoveryBudget
INVARIANTS
  DownloadingIsOwned
  NoLeakedReservation
  NoLeakedRegistration
PROPERTIES
  ReleasedIsNotDeferred
  SemaphoresArePools
