SPECIFICATION FairSpec
CONSTANTS
  indexing = indexing  downloads = downloads  None = None  Never = Never
  Modules = {downloads}
  MaxTime = 2
  Budget <- SettingsBudget
INVARIANTS
  ReadYourWrites
PROPERTIES
  CacheIsView
  LapseIsPublished
  PanelCatchesUp
CHECK_DEADLOCK FALSE
