SPECIFICATION Spec
CONSTANTS
  g1 = g1
  g2 = g2
  c1 = c1
  c2 = c2
  s1 = s1
  s2 = s2
  d1 = d1
  None = None
  Guilds = {g1, g2}
  Channels = {c1}
  GuildOf <- MCGuildOf
  Chats = {s1}
  Platforms <- MCPlatforms
  Legacy <- MCLegacy
  Inbound = {}
  Outbound = {d1}
  Cap = 1
INVARIANTS
  ForeignBotsNotMirrored
CHECK_DEADLOCK FALSE
