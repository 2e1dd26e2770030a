SPECIFICATION Spec
CONSTANTS
  None = None
  Malformed = Malformed
  MaxU64 = 3000000
  Tasks = {t1, t2}
  VoiceChannels = {v1}
  Environments <- MCEnvironments
  Migrations = 1
  PurgeCounts = {1}
  MaxPosts = 1
  Posted = 1
  MaxOutside = 1
INVARIANTS
  LeaveFindsTheBot
CHECK_DEADLOCK FALSE
