---------------------------- MODULE MCModeration ----------------------------
(***************************************************************************)
(* Small guilds for TLC: the owner, the bot, a moderator and a member, a   *)
(* role below the bot's highest and one as high as it.                     *)
(***************************************************************************)
EXTENDS Moderation, TLC

CONSTANTS owner, bot, moderator, member, junior, senior

MCPosition == [r \in Roles |-> IF r = junior THEN 1 ELSE 2]

(* Whoever has the lower role, with the moderator or the owner by id.      *)
MCListable == {UserEntry(moderator), RoleEntry(junior)}
MCOwnerListable == {UserEntry(owner), RoleEntry(junior)}
=============================================================================
