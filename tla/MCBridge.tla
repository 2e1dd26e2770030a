------------------------------ MODULE MCBridge ------------------------------
(***************************************************************************)
(* Small instances of Bridge for TLC: two channels of two guilds, two      *)
(* chats, one platform this version does not know.                         *)
(***************************************************************************)
EXTENDS Bridge, TLC

CONSTANTS c1, c2, s1, s2, g1, g2

MCGuildOf == [c \in Channels |-> IF c = c1 THEN g1 ELSE g2]

Foreign == 1

MCPlatforms == {Telegram, Foreign}

(* A row of the other platform in the first channel, naming the first chat *)
MCLegacy == {[guild |-> g1, channel |-> c1, platform |-> Foreign,
              remote |-> [chat |-> s1, padded |-> FALSE]]}

(* A message is only a name, and so is the webhook made for it.            *)
Interchangeable == Permutations(Inbound) \cup Permutations(Outbound)
=============================================================================
