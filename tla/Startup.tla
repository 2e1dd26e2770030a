------------------------------- MODULE Startup -------------------------------
(***************************************************************************)
(* From an environment to a bot that serves commands (main.rs, config.rs). *)
(* An action is the code between two awaits of main, or of the setup that  *)
(* poise runs when the gateway is ready.                                   *)
(***************************************************************************)
EXTENDS Naturals

CONSTANTS Environments,  \* what main may find in its environment
          Migrations,    \* how many migrations are embedded
          Tasks          \* the uses of the bot's commands, each a task

Scopes == {"guild", "global"}

ASSUME StartupAssumption ==
  /\ Environments \subseteq [token : {"missing", "blank", "some"}, database : BOOLEAN, testGuild : {"unset", "garbage", "id"}]
  /\ Migrations \in Nat

VARIABLES
  process,      \* how far this start of the program has come
  scope,        \* where its environment has it register the commands
  schema,       \* the database: how many migrations are applied
  registered    \* Discord: the scopes commands are registered in

startupVars == <<process, scope, schema, registered>>

Booting == {"connect", "migrate", "client", "gateway"}

StartupTypeOK ==
  /\ process \in {"down", "deaf", "serving"} \cup Booting
  /\ scope \in Scopes
  /\ schema \in 0 .. Migrations
  /\ registered \in SUBSET Scopes

StartupInit == process = "down" /\ scope = "global" /\ schema = 0 /\ registered = {}

-----------------------------------------------------------------------------
(* Config::from_token: a token that is there and more than blanks.         *)
from_token(token) == token = "some"

(* TEST_GUILD_ID counts only when it is a number; anything else is global. *)
ScopeOf(testGuild) == IF testGuild = "id" THEN "guild" ELSE "global"

(* main up to the connection: a bad environment ends it.                   *)
Boot(env) ==
  /\ process = "down"
  /\ from_token(env.token) /\ env.database
  /\ process' = "connect"
  /\ scope' = ScopeOf(env.testGuild)
  /\ UNCHANGED <<schema, registered>>

Connect ==
  /\ process = "connect"
  /\ process' \in {"migrate", "down"}
  /\ UNCHANGED <<scope, schema, registered>>

(* Mutant: the next migration is picked by an index that is one too far.   *)
OneTooMany ==
  /\ process = "migrate"
  /\ \/ schema <= Migrations /\ schema' = schema + 1 /\ UNCHANGED process
     \/ schema >= Migrations /\ process' = "client" /\ UNCHANGED schema
     \/ process' = "down" /\ UNCHANGED schema
  /\ UNCHANGED <<scope, registered>>

(* Each pending migration is a transaction of its own; a failing one ends  *)
(* main and leaves those before it applied.                                *)
Migrate ==
  /\ process = "migrate"
  /\ \/ schema < Migrations /\ schema' = schema + 1 /\ UNCHANGED process
     \/ schema = Migrations /\ process' = "client" /\ UNCHANGED schema
     \/ process' = "down" /\ UNCHANGED schema
  /\ UNCHANGED <<scope, registered>>

BuildClient ==
  /\ process = "client"
  /\ process' \in {"gateway", "down"}
  /\ UNCHANGED <<scope, schema, registered>>

(* Mutant: setup logs a failed registration and goes on.                   *)
UnregisteredReady ==
  /\ process = "gateway"
  /\ \/ /\ registered' \in {registered, registered \cup {scope}}
        /\ process' = "serving"
     \/ process' \in {"deaf", "down"} /\ UNCHANGED registered
  /\ UNCHANGED <<scope, schema>>

(* The gateway is ready, and setup registers the commands.  Its failure is *)
(* poise's to report and does not end the program: the bot is connected,   *)
(* but has no Data to run a command with.  The gateway may also turn the   *)
(* client away, which ends it.                                             *)
Ready ==
  /\ process = "gateway"
  /\ \/ /\ registered' = registered \cup {scope}
        /\ process' \in {"serving", "deaf"}
     \/ process' \in {"deaf", "down"} /\ UNCHANGED registered
  /\ UNCHANGED <<scope, schema>>

(* A command is run with the Data that setup returned.                     *)
Serving == process = "serving"

Halt == process # "down" /\ process' = "down" /\ UNCHANGED <<scope, schema, registered>>

StartupStep == (\E env \in Environments : Boot(env)) \/ Connect \/ Migrate \/ BuildClient \/ Ready
=============================================================================
