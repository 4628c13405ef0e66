SPECIFICATION FairSpec
CONSTANTS
  a1 = a1  a2 = a2  r1 = r1  r2 = r2  None = None
  Children = {a1, a2}
  Kicked = {a1}
  Restarts = {r1}
  RestartLimit = 1
  MaxSelfExits = 1
  Budget <- SupervisionBudget
INVARIANTS
  HealthIsTrue
  ExitBudget
PROPERTIES
  SelfHeals
  DrainEndsProcess
