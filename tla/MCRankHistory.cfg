SPECIFICATION HistorySpec
CONSTANTS
  owner = owner
  bot = bot
  moderator = moderator
  member = member
  junior = junior
  senior = senior
  None = None
  a1 = a1
  k1 = k1
  Users = {owner, bot, moderator, member}
  Roles = {junior}
  Position <- MCPosition
  Owner = owner
  Bot = bot
  BotTop = 1
  Commands = {"kick", "ban", "unban", "mute", "unmute", "purge"}
  Attempts = {a1}
  Managements = {k1}
  Shifting = {member}
  Listable <- MCOwnerListable
INVARIANTS
  TypeOK
PROPERTIES
  KeepsGate
  RankOnceHeld
CHECK_DEADLOCK FALSE
