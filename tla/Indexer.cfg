SPECIFICATION FairSpec
CONSTANTS
  Videos <- FiveVideos
  Date <- Days
  Unavailable = {2}
  Cutoffs = {1, 3, 4}
  Playlists <- OrderedPlaylists
  MaxConsecutiveBeforeCutoff = 2
  Budget <- OrderedBudget
INVARIANTS
  TypeOK
  NothingMissed
  VerdictIsTrue
PROPERTIES
  WantedIsFound
