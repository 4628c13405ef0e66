SPECIFICATION Spec
CONSTANTS
  v1 = v1  v2 = v2  s1 = s1  s2 = s2  p1 = p1  p2 = p2  None = None
  Videos = {v1, v2}
  Sources = {s1, s2}
  Profiles = {p1, p2}
  Links <- SharedLinks
  ProfileOf <- TwoProfiles
  SourceRetention <- Days
  ProfileRetention <- OneDay
  GlobalRetention = 3
  Size <- Sizes
  Quota <- Small
  MaxTime = 2
  MailboxCap = 1
  Budget <- CleanupBudget
PROPERTIES
  RemovedForCause
