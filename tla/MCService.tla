------------------------------ MODULE MCService ------------------------------
(***************************************************************************)
(* A small channel and two voice channels for TLC.                         *)
(***************************************************************************)
EXTENDS Service

Environment(token, database, testGuild) ==
  [token |-> token, database |-> database, testGuild |-> testGuild]

(* Two that can serve, with one scope and with the other, and one that     *)
(* cannot.                                                                 *)
MCEnvironments == {Environment("some", TRUE, "id"), Environment("some", TRUE, "garbage"),
                   Environment("blank", TRUE, "unset")}
=============================================================================
