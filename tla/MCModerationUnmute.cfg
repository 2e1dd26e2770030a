SPECIFICATION SettledSpec
CONSTANTS
  owner = owner
  bot = bot
  moderator = moderator
  member = member
  junior = junior
  senior = senior
  None = None
  a1 = a1
  Users = {owner, bot, moderator, member}
  Roles = {junior, senior}
  Position <- MCPosition
  Owner = owner
  Bot = bot
  BotTop = 2
  Commands = {"unmute"}
  Attempts = {a1}
  Managements = {}
  Shifting = {moderator, member}
  Listable <- MCListable
PROPERTIES
  UnmuteRespectsHierarchy
CHECK_DEADLOCK FALSE
