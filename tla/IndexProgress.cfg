SPECIFICATION FairSpec
CONSTANTS
  s1 = s1  s2 = s2  i1 = i1  i2 = i2  i3 = i3  None = None
  Sources = {s1, s2}
  Indexers = {i1, i2}
  Results = {"indexed", "failed"}
  MaxIndexRetries = 1
  MaxIndexersPerTick = 1
  MailboxCap = 1
  SweepCap = 1
  Budget <- IndexProgressBudget
PROPERTIES
  RegistrationsEnd
  DueIsIndexed
  SweepsContinue
