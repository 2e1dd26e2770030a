---------------------------- MODULE MCRankHistory ----------------------------
(* The guilds of MCModeration, with a memory of what everybody has been.    *)
EXTENDS MCModeration, RankHistory
=============================================================================
