SPECIFICATION FairSpec
CONSTANTS
  None = None
  Malformed = Malformed
  MaxU64 = 3000000
  Tasks = {t1, t2}
  VoiceChannels = {v1, v2}
  Environments <- MCEnvironments
  Migrations = 2
  PurgeCounts = {0, 2}
  MaxPosts = 3
  Posted = 2
  MaxOutside = 2
INVARIANTS
  TypeOK
  ServedReady
  PurgeClearsItsSpan
  OnlyACrossingStrands
PROPERTIES
  PurgeTakesOnlyWhatItSaw
  EverythingSettles
CHECK_DEADLOCK FALSE
