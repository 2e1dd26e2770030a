SPECIFICATION Spec
CONSTANTS
  g1 = g1
  g2 = g2
  c1 = c1
  c2 = c2
  s1 = s1
  s2 = s2
  m1 = m1
  m2 = m2
  None = None
  Guilds = {g1, g2}
  Channels = {c1, c2}
  GuildOf <- MCGuildOf
  Chats = {s1, s2}
  Platforms <- MCPlatforms
  Legacy <- MCLegacy
  Inbound = {m1, m2}
  Outbound = {}
  Cap = 2
INVARIANTS
  TypeOK
  BlankLeavesNoTrace
PROPERTIES
  DuplicatesStop
  KeepsPromise
SYMMETRY Interchangeable
CHECK_DEADLOCK FALSE
