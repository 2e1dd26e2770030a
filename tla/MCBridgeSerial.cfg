SPECIFICATION FairSerialSpec
CONSTANTS
  g1 = g1
  g2 = g2
  c1 = c1
  c2 = c2
  s1 = s1
  s2 = s2
  m1 = m1
  m2 = m2
  d1 = d1
  None = None
  Guilds = {g1, g2}
  Channels = {c1}
  GuildOf <- MCGuildOf
  Chats = {s1}
  Platforms <- MCPlatforms
  Legacy <- MCLegacy
  Inbound = {m1, m2}
  Outbound = {d1}
  Cap = 2
INVARIANTS
  OneManagedWebhook
PROPERTIES
  EverythingSettles
CHECK_DEADLOCK FALSE
