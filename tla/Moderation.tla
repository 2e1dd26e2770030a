----------------------------- MODULE Moderation -----------------------------
(***************************************************************************)
(* The moderation commands (commands/moderation.rs) behind the allowlist   *)
(* of one guild (access.rs), and the part of Discord they act on.          *)
(*                                                                         *)
(* Every command is a task of its own: an action is the code between two   *)
(* awaits.  What a task learns before an await (the roles the interaction  *)
(* came with, the target's member) it uses after it, and serenity's cache  *)
(* of members is older still: without the GUILD_MEMBERS intent (main.rs)   *)
(* Discord does not announce changes of roles.                             *)
(***************************************************************************)
EXTENDS Integers, FiniteSets

CONSTANTS Users, Roles,
          Position,       \* the place of a role in the guild's hierarchy
          Owner, Bot,     \* users: the guild's owner, this bot
          BotTop,         \* the position of the bot's highest role
          Commands,       \* the commands people use
          Attempts,       \* invocations of these commands
          Managements,    \* invocations of /allow and /disallow
          Shifting,       \* the users that come, go and change roles
          Listable,       \* the entries managers care for
          None

UserEntry(u) == [kind |-> "user", id |-> u]
RoleEntry(r) == [kind |-> "role", id |-> r]
Entries == {UserEntry(u) : u \in Users} \cup {RoleEntry(r) : r \in Roles}

Punishments == {"kick", "ban", "mute"}
AllCommands == Punishments \cup {"unban", "unmute", "purge"}

ASSUME ModerationAssumption ==
  /\ IsFiniteSet(Roles)
  /\ Position \in [Roles -> Nat]
  /\ BotTop \in Nat
  /\ Owner \in Users /\ Bot \in Users /\ Owner # Bot
  /\ Shifting \subseteq Users \ {Owner, Bot}
  /\ Commands \subseteq AllCommands
  /\ Listable \subseteq Entries
  /\ None \notin Users \cup Roles \cup AllCommands

VARIABLES
  allow,                  \* the table allowlist_entries
  roles,                  \* per user: the roles it has
  cache,                  \* per user: {}, or the set of the one snapshot of
                          \* its roles that serenity's cache holds
  members, banned, muted,
  attempt,                \* per invocation: where its task stands
  manage

vars == <<allow, roles, cache, members, banned, muted, attempt, manage>>
guild == <<roles, members, banned, muted>>

-----------------------------------------------------------------------------
AttemptStages == {"access", "resolve", "authorize", "act"}
(* "unconfirmed" and "error" are one error to the code: after the effect,  *)
(* and without it.                                                         *)
AttemptEnds == {"done", "unconfirmed", "denied", "invalid", "refused", "error", "lost"}

AttemptStates ==
  [stage : {"idle"} \cup AttemptStages \cup AttemptEnds,
   command : AllCommands \cup {None}, actor : Users \cup {None},
   target : Users \cup {None}, held : SUBSET Roles, seen : SUBSET Roles]

IdleAttempt == [stage |-> "idle", command |-> None, actor |-> None,
                target |-> None, held |-> {}, seen |-> {}]

ManageStages == {"user", "role"}
ManageEnds == {"done", "error", "lost"}

ManageStates ==
  [stage : {"idle"} \cup ManageStages \cup ManageEnds,
   op : {"allow", "disallow"}, user : Users \cup {None}, role : Roles \cup {None}]

IdleManage == [stage |-> "idle", op |-> "allow", user |-> None, role |-> None]

TypeOK ==
  /\ allow \in SUBSET Entries
  /\ roles \in [Users -> SUBSET Roles]
  /\ cache \in [Users -> {{}} \cup {{held} : held \in SUBSET Roles}]
  /\ members \in SUBSET Users
  /\ banned \in SUBSET (Users \ members)
  /\ muted \in SUBSET Users
  /\ attempt \in [Attempts -> AttemptStates]
  /\ manage \in [Managements -> ManageStates]

(* The roles of the owner and the bot decide nothing here but whether a    *)
(* role lets the owner in; they are left out.                              *)
Init ==
  /\ allow \in SUBSET Listable
  /\ banned \in SUBSET Shifting
  /\ members = Users \ banned
  /\ roles \in [Users -> SUBSET Roles]
  /\ \A u \in banned \cup {Owner, Bot} : roles[u] = {}
  /\ cache = [u \in Users |-> {}]
  /\ muted \in SUBSET Shifting
  /\ attempt = [a \in Attempts |-> IdleAttempt]
  /\ manage = [x \in Managements |-> IdleManage]

-----------------------------------------------------------------------------
(* /allow and /disallow: one statement for the user, then one for the      *)
(* role, each its own transaction.                                         *)

Manage(x, op, user, role) ==
  /\ manage[x].stage = "idle"
  /\ manage' = [manage EXCEPT ![x] =
       [stage |-> IF user # None THEN "user" ELSE IF role # None THEN "role" ELSE "done",
        op |-> op, user |-> user, role |-> role]]
  /\ UNCHANGED <<allow, guild, cache, attempt>>

(* add_entry (ON CONFLICT DO NOTHING) or remove_entry.                     *)
Applied(op, entry) == IF op = "allow" THEN allow \cup {entry} ELSE allow \ {entry}

Goes(x, stage) == manage' = [manage EXCEPT ![x] = [@ EXCEPT !.stage = stage]]

(* The statement takes effect and its answer arrives or is lost, or it     *)
(* fails; a failure ends the command.                                      *)
Statement(x, entry, next) ==
  /\ \/ allow' = Applied(manage[x].op, entry) /\ (Goes(x, next) \/ Goes(x, "error"))
     \/ UNCHANGED allow /\ Goes(x, "error")
  /\ UNCHANGED <<guild, cache, attempt>>

(* Mutant: nothing removed for the user, so the role is not looked at.     *)
ManageUser_stops(x) ==
  /\ manage[x].stage = "user"
  /\ Statement(x, UserEntry(manage[x].user),
       IF manage[x].role # None /\ UserEntry(manage[x].user) \in allow
       THEN "role" ELSE "done")

(* Mutant: the second statement runs whether there is a role or not.       *)
ManageUser_both(x) ==
  /\ manage[x].stage = "user"
  /\ Statement(x, UserEntry(manage[x].user), "role")

ManageUser(x) ==
  /\ manage[x].stage = "user"
  /\ Statement(x, UserEntry(manage[x].user),
               IF manage[x].role # None THEN "role" ELSE "done")

ManageRole(x) ==
  /\ manage[x].stage = "role"
  /\ Statement(x, RoleEntry(manage[x].role), "done")

-----------------------------------------------------------------------------
(* A moderation command, from the interaction to its effect.               *)

(* Every command but /purge names a user.                                  *)
Aims(command) == IF command = "purge" THEN {None} ELSE Users

(* A member uses a command; the interaction carries its roles of now.      *)
Invoke(a, command, actor, target) ==
  /\ attempt[a].stage = "idle"
  /\ actor \in members \ (muted \cup {Bot})
  /\ attempt' = [attempt EXCEPT ![a] =
       [stage |-> "access", command |-> command, actor |-> actor,
        target |-> target, held |-> roles[actor], seen |-> {}]]
  /\ UNCHANGED <<allow, guild, cache, manage>>

Stands(a, stage) == attempt' = [attempt EXCEPT ![a] = [@ EXCEPT !.stage = stage]]

Credentials(t) == {UserEntry(t.actor)} \cup {RoleEntry(r) : r \in t.held}

(* is_allowed: by user id, or by one of the roles.                         *)
IsAllowed(a) == Credentials(attempt[a]) \cap allow # {}

(* Where a command goes that may proceed.  /purge has its number checked   *)
(* and goes to work on the channel (module Purge); /unban takes a user,    *)
(* not a member; neither has anything more to resolve.                     *)
AfterAccess(command) ==
  IF command = "purge" THEN {"act", "invalid"}
  ELSE IF command = "unban" THEN {"act"} ELSE {"resolve"}

(* Mutant: fails open, a database error lets the command through.          *)
CheckAccess_open(a) ==
  /\ attempt[a].stage = "access"
  /\ \/ \E next \in AfterAccess(attempt[a].command) : Stands(a, next)
     \/ ~IsAllowed(a) /\ Stands(a, "denied")
  /\ UNCHANGED <<allow, guild, cache, manage>>

(* moderation_access_check, which fails closed.                            *)
CheckAccess(a) ==
  /\ attempt[a].stage = "access"
  /\ \/ IsAllowed(a) /\ \E next \in AfterAccess(attempt[a].command) : Stands(a, next)
     \/ ~IsAllowed(a) /\ Stands(a, "denied")
     \/ Stands(a, "error")
  /\ UNCHANGED <<allow, guild, cache, manage>>

(* GuildId::member: the cached member if there is one, else Discord's      *)
(* answer, which is an error for a user who is not a member.               *)
MemberRoles(u) ==
  IF cache[u] # {} THEN cache[u]
  ELSE IF u \in members THEN {roles[u]}
  ELSE {}

(* The member argument is resolved, and the command runs to its next call: *)
(* /unmute has no authorization, /ban and /mute check a number first.      *)
Resolve(a) ==
  /\ attempt[a].stage = "resolve"
  /\ \/ \E seen \in MemberRoles(attempt[a].target) :
          attempt' = [attempt EXCEPT ![a] = [@ EXCEPT !.seen = seen, !.stage =
            IF attempt[a].command = "unmute" THEN "act" ELSE "authorize"]]
     \/ /\ MemberRoles(attempt[a].target) # {}
        /\ attempt[a].command \in {"ban", "mute"}
        /\ Stands(a, "invalid")
     \/ Stands(a, "error")
  /\ UNCHANGED <<allow, guild, cache, manage>>

(* The position of the highest of some roles, 0 when there is none.        *)
Highest(held) ==
  CHOOSE p \in {0} \cup {Position[r] : r \in held} :
    \A r \in held : p >= Position[r]

(* Mutant: equal positions pass.                                           *)
Allowed_equal(actor, target, mine, theirs) ==
  /\ target \notin {actor, Bot, Owner}
  /\ actor = Owner \/ Highest(mine) >= Highest(theirs)

(* check_moderation_allowed.                                               *)
Allowed(actor, target, mine, theirs) ==
  /\ target \notin {actor, Bot, Owner}
  /\ actor = Owner \/ Highest(mine) > Highest(theirs)

(* authorize: the actor's member is fetched, and the target's, fetched     *)
(* before, judged against it.  The guild may be missing from the cache.    *)
Authorize(a) ==
  LET t == attempt[a] IN
  /\ t.stage = "authorize"
  /\ \/ \E mine \in MemberRoles(t.actor) :
          Stands(a, IF Allowed(t.actor, t.target, mine, t.seen) THEN "act" ELSE "refused")
     \/ Stands(a, "error")
  /\ UNCHANGED <<allow, guild, cache, manage>>

(* Discord's own rule: the bot reaches only members below its highest role *)
(* and never the owner.                                                    *)
InReach(u) == u \in members \ {Owner, Bot} /\ Highest(roles[u]) < BotTop

Removed(u) ==
  members' = members \ {u} /\ roles' = [roles EXCEPT ![u] = {}]

Kick(u) == InReach(u) /\ Removed(u) /\ UNCHANGED <<banned, muted>>

Ban(u) ==
  /\ u \in members => InReach(u)
  /\ Removed(u) /\ banned' = banned \cup {u} /\ UNCHANGED muted

Unban(u) == u \in banned /\ banned' = banned \ {u} /\ UNCHANGED <<roles, members, muted>>

Mute(u) == InReach(u) /\ muted' = muted \cup {u} /\ UNCHANGED <<roles, members, banned>>

Unmute(u) == InReach(u) /\ muted' = muted \ {u} /\ UNCHANGED <<roles, members, banned>>

Effect(command, u) ==
  \/ command = "kick" /\ Kick(u)
  \/ command = "ban" /\ Ban(u)
  \/ command = "unban" /\ Unban(u)
  \/ command = "mute" /\ Mute(u)
  \/ command = "unmute" /\ Unmute(u)
  \/ command = "purge" /\ UNCHANGED guild

(* The one call that matters, and the reply: an answer that is lost, or a  *)
(* reply that fails, leaves the effect behind.                             *)
Act(a) ==
  /\ attempt[a].stage = "act"
  /\ \/ /\ Effect(attempt[a].command, attempt[a].target)
        /\ Stands(a, "done") \/ Stands(a, "unconfirmed")
     \/ UNCHANGED guild /\ Stands(a, "error")
  /\ UNCHANGED <<allow, cache, manage>>

-----------------------------------------------------------------------------
(* The people of the guild, serenity's cache, and the process.             *)

SetRoles(u, held) ==
  /\ u \in members
  /\ roles' = [roles EXCEPT ![u] = held]
  /\ UNCHANGED <<allow, cache, members, banned, muted, attempt, manage>>

(* An event that carries the member, such as a change of voice state.      *)
Notice(u) ==
  /\ u \in members
  /\ cache' = [cache EXCEPT ![u] = {roles[u]}]
  /\ UNCHANGED <<allow, guild, attempt, manage>>

Leave(u) ==
  /\ u \in members
  /\ Removed(u)
  /\ UNCHANGED <<allow, cache, banned, muted, attempt, manage>>

Join(u) ==
  /\ u \notin members \cup banned
  /\ members' = members \cup {u}
  /\ UNCHANGED <<allow, roles, cache, banned, muted, attempt, manage>>

TimeoutEnds(u) ==
  /\ u \in muted
  /\ muted' = muted \ {u}
  /\ UNCHANGED <<allow, roles, cache, members, banned, attempt, manage>>

Restart ==
  /\ cache' = [u \in Users |-> {}]
  /\ attempt' = [a \in Attempts |->
       IF attempt[a].stage \in AttemptStages THEN [attempt[a] EXCEPT !.stage = "lost"]
       ELSE attempt[a]]
  /\ manage' = [x \in Managements |->
       IF manage[x].stage \in ManageStages THEN [manage[x] EXCEPT !.stage = "lost"]
       ELSE manage[x]]
  /\ UNCHANGED <<allow, guild>>

-----------------------------------------------------------------------------
Managed == {u \in Users : UserEntry(u) \in Listable} \cup {None}
ManagedRoles == {r \in Roles : RoleEntry(r) \in Listable} \cup {None}

Step ==
  \/ \E x \in Managements, op \in {"allow", "disallow"}, u \in Managed, r \in ManagedRoles :
       Manage(x, op, u, r)
  \/ \E x \in Managements : ManageUser(x) \/ ManageRole(x)
  \/ \E a \in Attempts, command \in Commands, actor \in Users :
       \E target \in Aims(command) : Invoke(a, command, actor, target)
  \/ \E a \in Attempts : CheckAccess(a) \/ Resolve(a) \/ Authorize(a) \/ Act(a)
  \/ \E u \in Shifting, held \in SUBSET Roles : SetRoles(u, held)
  \/ \E u \in Shifting : Notice(u) \/ Leave(u) \/ Join(u) \/ TimeoutEnds(u)

Next == Step \/ Restart

Spec == Init /\ [][Next]_vars

(* Assumptions about the guild that the code does not make true, to tell   *)
(* what its checks are worth: nobody's roles change while a command is     *)
(* under way that concerns them; and the cache is right about them.        *)
UnderWay(a) == attempt[a].stage \in AttemptStages

Concerned(a) == {attempt[a].actor, attempt[a].target} \ {None}

Steady(a) ==
  UnderWay(a) /\ UnderWay(a)' => \A u \in Concerned(a) : roles'[u] = roles[u]

CacheRight(a) == UnderWay(a) => \A u \in Concerned(a) : cache[u] \subseteq {roles[u]}

SteadySpec == Init /\ [][Next /\ \A a \in Attempts : Steady(a)]_vars

SettledSpec ==
  Init /\ [][Next /\ \A a \in Attempts : Steady(a) /\ CacheRight(a)]_vars

-----------------------------------------------------------------------------
Performs(a) ==
  attempt[a].stage = "act" /\ attempt'[a].stage \in {"done", "unconfirmed"}

Outranks(u, v) == u = Owner \/ Highest(roles[u]) > Highest(roles[v])

(* README.md:20: nobody is kicked, banned or muted by someone who does not *)
(* outrank them at that instant.  A stale cache breaks it; what authorize  *)
(* does keep is in RankHistory.                                            *)
HierarchyRespected ==
  [][\A a \in Attempts :
       Performs(a) /\ attempt[a].command \in Punishments =>
         Outranks(attempt[a].actor, attempt[a].target)]_vars

(* README.md:19-20 asks the same of every moderation action, and lifting a *)
(* timeout is one.                                                         *)
UnmuteRespectsHierarchy ==
  [][\A a \in Attempts :
       Performs(a) /\ attempt[a].command = "unmute" =>
         Outranks(attempt[a].actor, attempt[a].target)]_vars

(* What a management command reports is so: when it is done, and no        *)
(* command of the other direction names an entry, the entry is on the list *)
(* after /allow and off it after /disallow, whatever other commands of its *)
(* direction did, failed to do or left half done (access.rs).              *)
Names(x) ==
  {UserEntry(u) : u \in {manage[x].user} \ {None}}
    \cup {RoleEntry(r) : r \in {manage[x].role} \ {None}}

ReportsHold ==
  \A x \in Managements : manage[x].stage = "done" =>
    \A e \in Names(x) :
      (\A y \in Managements : e \in Names(y) => manage[y].op = manage[x].op)
        => (e \in allow <=> manage[x].op = "allow")

-----------------------------------------------------------------------------
(* The gate keeps the promise of GatePromise.                              *)
Standing(stage) ==
  CASE stage = "idle"                             -> "unsent"
    [] stage = "access"                           -> "pending"
    [] stage \in {"resolve", "authorize", "act"}  -> "admitted"
    [] stage \in {"done", "unconfirmed"}          -> "performed"
    [] stage = "denied"                           -> "denied"
    [] OTHER                                      -> "closed"

Deed(t) ==
  [at |-> Standing(t.stage), command |-> t.command, actor |-> t.actor,
   target |-> t.target,
   credentials |-> IF t.stage = "idle" THEN {} ELSE Credentials(t)]

Deeds == [a \in Attempts |-> Deed(attempt[a])]

Gate == INSTANCE GatePromise WITH deed <- Deeds, Protected <- {Owner, Bot}

(* A command changes the guild only after its invoker was found on the     *)
(* list, at most once, by what it is for, and is refused as a stranger's   *)
(* only when it is one; nobody punishes themselves, the bot or the owner,  *)
(* however stale the roles it is judged by (moderation_access_check,       *)
(* check_moderation_allowed).                                              *)
KeepsGate == Gate!Promise
=============================================================================
