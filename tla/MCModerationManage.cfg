SPECIFICATION Spec
CONSTANTS
  owner = owner
  bot = bot
  moderator = moderator
  member = member
  junior = junior
  senior = senior
  None = None
  k1 = k1
  k2 = k2
  k3 = k3
  Users = {owner, bot, moderator, member}
  Roles = {junior}
  Position <- MCPosition
  Owner = owner
  Bot = bot
  BotTop = 2
  Commands = {}
  Attempts = {}
  Managements = {k1, k2, k3}
  Shifting = {}
  Listable <- MCListable
INVARIANTS
  ReportsHold
CHECK_DEADLOCK FALSE
