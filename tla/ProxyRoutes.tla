----------------------------- MODULE ProxyRoutes -----------------------------
(***************************************************************************)
(* The table proxy_routes and the statements proxy/routes.rs runs on it.   *)
(* A table is a set of rows, and each statement is an operator on tables:  *)
(* PostgreSQL executes one statement atomically, so the modules that use   *)
(* the table apply one operator per step.  A query that returns at most    *)
(* one row (LIMIT 1, fetch_optional) is the SET of answers it may give;    *)
(* the empty set is the code's None.                                       *)
(***************************************************************************)
EXTENDS Integers

CONSTANTS Guilds, Channels,     \* Discord guilds and text channels
          GuildOf,              \* the guild a channel belongs to
          Chats,                \* chats of the remote platform
          Platforms,            \* platform discriminants a row can hold
          Legacy                \* rows left behind by another version

Telegram == 0                   \* the only platform this version knows

KnownPlatform(p) == p = Telegram

(* A remote id as a user types it: the chat it names, and whether          *)
(* whitespace surrounds the name.                                          *)
RemoteIds == [chat : Chats, padded : BOOLEAN]

Trimmed(id) == [id EXCEPT !.padded = FALSE]

Rows == [guild : Guilds, channel : Channels,
         platform : Platforms, remote : RemoteIds]

Route(c, p, id) ==
  [guild |-> GuildOf[c], channel |-> c, platform |-> p, remote |-> id]

(* The primary key of the table, and the unique index proxy_routes_remote. *)
SameKey(r, q) ==
  r.guild = q.guild /\ r.channel = q.channel /\ r.platform = q.platform

SameRemote(r, q) == r.platform = q.platform /\ r.remote = q.remote

(* Mutant: the migration forgot the unique index on the remote chat.       *)
Conflicts_noIndex(table, row) == \E r \in table : SameKey(r, row)

Conflicts(table, row) == \E r \in table : SameKey(r, row) \/ SameRemote(r, row)

Consistent(table) ==
  \A r, q \in table : SameKey(r, q) \/ SameRemote(r, q) => r = q

(* Versions of the program count their platforms from 0 up; the column     *)
(* alone, a SMALLINT, would also take a negative number, and such a row    *)
(* would come first in LowestRows.                                         *)
ASSUME RoutesAssumption ==
  /\ GuildOf \in [Channels -> Guilds]
  /\ Platforms \subseteq Nat
  /\ Telegram \in Platforms
  /\ Legacy \subseteq Rows
  /\ Consistent(Legacy)
  /\ \A r \in Legacy : r.guild = GuildOf[r.channel] /\ ~KnownPlatform(r.platform)

-----------------------------------------------------------------------------

(* link: a plain INSERT; the caller turns a unique violation (23505) into  *)
(* ChannelAlreadyLinked and the table stays as it was.                     *)
Linked(table, row) == IF Conflicts(table, row) THEN table ELSE table \cup {row}

(* unlink: DELETE ... WHERE guild, channel and platform match.             *)
Unlinked(table, c, p) ==
  {r \in table : ~(r.guild = GuildOf[c] /\ r.channel = c /\ r.platform = p)}

(* Mutant: the wrong column is selected.                                   *)
FetchByRemote_column(table, p, id) ==
  {r.platform : r \in {q \in table : q.platform = p /\ q.remote = id}}

(* fetch_by_remote: the channels linked to a remote chat.                  *)
FetchByRemote(table, p, id) ==
  {r.channel : r \in {q \in table : q.platform = p /\ q.remote = id}}

(* Mutant: ORDER BY platform DESC.                                         *)
LowestRows_desc(table, c) ==
  {r \in table :
     r.channel = c /\ \A q \in table : q.channel = c => r.platform >= q.platform}

(* fetch_by_channel: the remote ends of a channel, ORDER BY platform LIMIT *)
(* 1; a lowest row of an unknown platform answers None.                    *)
LowestRows(table, c) ==
  {r \in table :
     r.channel = c /\ \A q \in table : q.channel = c => r.platform <= q.platform}

FetchByChannel(table, c) ==
  {r.remote : r \in {q \in LowestRows(table, c) : KnownPlatform(q.platform)}}

(* list: the routes of a guild /proxy list shows, unknown platforms left   *)
(* out.                                                                    *)
ListRoutes(table, g) ==
  {r \in table : r.guild = g /\ KnownPlatform(r.platform)}
=============================================================================
