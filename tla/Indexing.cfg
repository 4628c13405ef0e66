SPECIFICATION Spec
SYMMETRY Symmetry
CONSTANTS
  s1 = s1  s2 = s2  i1 = i1  i2 = i2  i3 = i3  None = None
  Sources = {s1, s2}
  Indexers = {i1, i2}
  Results = {"indexed", "failed"}
  MaxIndexRetries = 2
  MaxIndexersPerTick = 1
  MailboxCap = 2
  SweepCap = 1
  Budget <- IndexingBudget
INVARIANTS
  OneIndexerPerSource
  ErrorStreakBounded
  ErrorsAreCounted
PROPERTIES
  IndexFloor
