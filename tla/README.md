# BoyFucker in TLA+

BoyFucker is a Discord bot: moderation commands behind a per-guild allowlist, polls, voice
presence, and the Discord side of a bridge between Discord channels and the chats of a remote
platform (Telegram). It runs as one process on tokio; every slash command, inbound delivery and
gateway event is a task of its own, and the tasks share a PostgreSQL database, Discord itself and
serenity's cache of Discord. There is no lock and no transaction in the code, so whatever is
interesting happens between two `await`s of one task.

## The system's parts

| Part | Source | State it keeps | Operations | What could go wrong |
|---|---|---|---|---|
| route store | `proxy/routes.rs`, migration 0002 | table `proxy_routes` | `link`, `unlink`, `list`, `fetch_by_remote`, `fetch_by_channel` | two links for one chat or channel; the readers disagree; rows of another platform |
| inbound relay | `proxy/webhook.rs` | the managed webhook, in Discord | `deliver_inbound`, `relay_inbound`, `get_or_create_webhook` | duplicate webhooks, the cap, lost answers, stale routes, blank messages |
| outbound relay | `events/mod.rs`, `proxy/transform.rs` | none | `handle_outbound`, `should_relay` | loops, stale routes, events missed |
| proxy commands | `commands/proxy.rs` | none | `/proxy link`, `unlink`, `list`, `/proxytest` | ids typed with blanks |
| egress and types | `proxy/mod.rs` | none | `LoggingEgress::send`, `Platform` | unknown discriminants |
| relay text | `proxy/sanitize.rs` | none | `sanitize_content`, `prepare_relay_content` | text grown past the limit, a mention left alive |
| webhook username | `proxy/username.rs` | none | `derive_webhook_username` | forbidden words spliced together by the removal of others |
| allowlist | `access.rs`, migration 0001 | table `allowlist_entries` | `/allow`, `/disallow`, `/allowlist`, `moderation_access_check` | a check gone stale, half a management command |
| moderation | `commands/moderation.rs` | members, bans and timeouts, in Discord | `/kick`, `/ban`, `/unban`, `/mute`, `/unmute`, `/purge` | roles of different instants compared, effects without an answer; `/purge` in a channel that moves on |
| poll | `commands/poll.rs` | none | validators, one reply | ranges, overflow, blank options |
| voice | `commands/voice.rs` | songbird's calls, the bot's presence in Discord | `/join`, `/leave` | a join and a leave crossing inside songbird, a join given up too early |
| startup | `main.rs`, `config.rs`, `commands/mod.rs` | the schema, the registered commands | environment, connection, migrations, registration | a start that stops halfway |
| errors | `error.rs` | none | names and wording | |

How they interact: the commands call the route store and the allowlist directly; a delivery reads
the route store, then Discord's webhooks of the channel, then executes one; every message in
Discord, the bridge's own included, comes back as a gateway event that reads the route store and
ends in the egress. `/proxytest` is the only caller of `deliver_inbound` today; an adapter for the
remote platform would be another. Every moderation command runs the allowlist check first, then
poise resolves its arguments, then `authorize` fetches the actor, then one call changes the guild.
`/purge` makes two calls, one to list and one to delete; `/join` and `/leave` ask songbird, which
asks the gateway. The relay's text functions run inside a delivery, the validators of numbers and
of the poll at the head of their commands. No component calls back into another, and nothing is
kept in memory between two tasks except serenity's cache and songbird's calls.

### What makes it hard

- **Interleaving.** A value read before an `await` is used after it: the list of webhooks, the
  route of a chat, the roles of the target, the verdict of the allowlist.
- **Failure.** Every awaited call may fail before its effect, or take effect and lose its answer.
  The code retries nothing and rolls nothing back, so a later task must cope with what was left.
- **Restart.** Only PostgreSQL and Discord remember. A running task is lost wherever it stands, and
  a start may stop between any two of its steps.
- **Stale data.** Without the `GUILD_MEMBERS` intent (`main.rs:60-61`) the cached roles of a
  member are as old as the last gateway event that happened to carry the member.
- **Feedback.** What the bridge posts comes back to it as an event.
- **Edges.** Casts, products, roundings and clamps stand before or after the check that guards
  them; one order is right. A removal in a name may create what it removes.

`PROJECT.json` lists each hazard at its line, with the properties that would catch it.

### What makes each component correct

| Part | Properties |
|---|---|
| route store | its three readers agree and the links are one to one (`RoutesAgree`) |
| inbound relay | a message is posted at most once, and only where its chat was linked (`KeepsPromise`); a blank one leaves no trace (`BlankLeavesNoTrace`); one managed webhook per channel (`OneManagedWebhook`, only for deliveries one at a time), duplicates cannot multiply (`DuplicatesStop`); every delivery ends (`EverythingSettles`) |
| outbound relay | nothing of the bot's own goes out (`NoEcho`), a message goes only where its channel was linked (`KeepsPromise`), every event is settled (`EverythingSettles`) |
| allowlist | a command, `/purge` included, passes only on an entry that is in the table at that instant (`KeepsGate`); what a management command reports is so (`ReportsHold`) |
| moderation | the guild changes at most once per admitted command, by what the command is for, never against its actor, the bot or the owner (`KeepsGate`); the ranks a punishment rests on are ones both people have had since the process started (`RankOnceHeld`); that they are those of the instant of the effect is refuted (`HierarchyRespected`) |
| purge | when it says so, nothing is left between the first and the last message it listed (`PurgeClearsItsSpan`); it takes no more than asked and nothing newer than its listing (`PurgeTakesOnlyWhatItSaw`) |
| number parsers, poll | no cast makes a bad number good (`CountsNeverAlias`); a timeout and a poll last what was typed, or are refused for a true reason (`TimeoutAsAsked`, `PollRunsAsTold`); the options are those a reader sees (`OptionsAsTyped`) |
| relay text, webhook username | what is sent is legal and says what the author said (`RelayedTextIsLegal`, `RelayedNameIsLegal`, `RelayedNameIsTheAuthors`) |
| voice | songbird has a call for a bot that is in a channel, so `/leave` can take it out, unless a `/join` and a `/leave` met inside songbird (`OnlyACrossingStrands`); without that exception it is refuted (`LeaveFindsTheBot`) |
| startup | a command runs only when every table is there and the commands are registered (`ServedReady`); every start and every command ends (`EverythingSettles`) |

## The modules

```
ProxyRoutes  <- Bridge  <- MCBridge         RelayPromise: what Bridge implements
                        <- BridgeProofs
               Moderation <- MCModeration   GatePromise: what Moderation implements
                          <- RankHistory <- MCRankHistory (and MCModeration)
                                         <- ModerationProofs

Results <- Durations          Inputs: Durations, PollInput, RelayText, WebhookUsername
Texts   <- PollInput                  <- MCInputs
        <- RelayText                  <- InputsProofs
        <- WebhookUsername    TextProofs       <- PollInputProofs, RelayProofs
                              DurationsProofs  <- InputsProofs (and the two above)

Startup <- Purge (and Durations)   Service: Startup, Purge, Voice
        <- Voice                           <- MCService
                                           <- ServiceProofs
```

Throughout, an action is the code between two awaits of one task: the awaited query or HTTP call
takes effect, and the task runs to its next await. PostgreSQL executes one statement atomically and
the code opens no transaction, so a statement is one step. A *stage* in the task's record names the
call it waits for, or how it ended.

### ProxyRoutes: the table and its statements

A table is a set of rows; each statement of `routes.rs` is an operator on tables. A `LIMIT 1` query
is the set of answers it may give. Both keys of migration 0002 are in `Conflicts`. A remote id is a
chat and whether the text still has blanks around it, because `/proxy link` and `/proxytest` trim
and the store does not. `Legacy` holds rows of a platform this version does not know, which
`fetch_by_channel` must skip without losing the Telegram route.

### Bridge: both relays, the proxy commands, and Discord's webhooks

| Variable | Stands for |
|---|---|
| `routes` | table `proxy_routes` |
| `hooks`, `others` | a channel's webhooks: the managed ones (named by the delivery that created them), and the number of all others |
| `call` | per delivery: where `deliver_inbound` stands |
| `posted` | per delivery: the channels its message was posted in, one entry for each time |
| `event` | per message in Discord: where its gateway event stands |

| Action | Code |
|---|---|
| `Link`, `Unlink` | `/proxy link`, `/proxy unlink` with `routes::link`, `routes::unlink` |
| `Deliver` | `/proxytest` calling `deliver_inbound` |
| `RouteInbound` | `fetch_by_remote`, then `relay_inbound` up to the blank test |
| `ListWebhooks`, `CreateWebhook` | `get_or_create_webhook`, one action for each of its two awaits |
| `Execute` | `Webhook::execute`; the message it posts is an event of its own |
| `Post` | anybody posting in a channel: members, other bots, webhooks, this bot |
| `Dispatch`, `Lookup`, `Send` | `event_handler` and `should_relay`; `fetch_by_channel`; the egress |
| `DeleteManaged`, `AddOther`, `DeleteOther` | people managing webhooks in Discord |
| `Restart` | the process stops, the tasks with it, and starts again |

`RelayPromise` is the abstract bridge: a one-to-one relation between channels and chats, and per
message one fate and the ends that were shown it, each time they were. `KeepsPromise` maps `routes`
to the relation, the stages to fates, and `posted` to what was shown, so a second `execute` of one
message would be a second showing, which the promise does not allow in any fate.

### Moderation: the allowlist and the member commands

| Variable | Stands for |
|---|---|
| `allow` | the guild's rows of `allowlist_entries` |
| `roles`, `members`, `banned`, `muted` | the guild, in Discord |
| `cache` | serenity's cached roles per member: none, or one snapshot of any age |
| `attempt` | per use of a command: stage, actor, target (none for `/purge`), the roles its interaction carried (`held`) and the target's as resolved (`seen`) |
| `manage` | per `/allow` or `/disallow`: which of its two statements it waits for |

| Action | Code |
|---|---|
| `Manage`, `ManageUser`, `ManageRole` | `/allow` and `/disallow`: `add_entry` or `remove_entry` for the user, then for the role |
| `Invoke` | a member uses a command; Discord sends the roles of that instant |
| `CheckAccess` | `moderation_access_check` with `is_allowed`; an error refuses; `/purge` goes on to its number, `/unban` to its effect |
| `Resolve` | poise resolving the member argument, from the cache first; then the command up to its next await, where `/ban` and `/mute` may refuse a number |
| `Authorize` | `authorize` and `check_moderation_allowed` |
| `Act` | the one call that changes the guild, and the reply; of `/purge`, whose work is on a channel, only that it proceeds (its steps are in `Purge`) |
| `SetRoles`, `Notice`, `Leave`, `Join`, `TimeoutEnds` | the people, and an event that refreshes the cache |
| `Restart` | the process; the cache starts empty |

`GatePromise` is the abstract gate: attempts that carry credentials, admitted or denied at one
instant, performed at most once. `KeepsGate` maps the tasks' stages to it; the cache, the roles and
the awaits between admission and effect disappear.

The promise says nothing about how long an admission lasts: a command admitted before a `/disallow`
may act after it. And since the people of the abstract guild come and go as they like, a kick done
twice would look like a kick and a departure; that a command acts once shows in its bans, timeouts
and stages.

`RankHistory` adds a history variable, `had`: the sets of roles everybody has had as a member since
the process started. `RankOnceHeld` asks, under nothing but the code's own steps, that the owner
apart nobody is punished by somebody who was never strictly above anything the target has been. It
is what is left of the hierarchy with a cache of any age, and it is still broken by equal ranks that
pass, by a missing member counted as one without roles, by a target's roles kept for another, or by
a cache that outlives its process.

`SteadySpec` and `SettledSpec` add assumptions the code does not make true, so that the two findings
about the hierarchy cannot be put down to something else: the first, that nobody's roles change
while a command concerning them is under way; the second, that in addition the cache is right about
them. Nothing is claimed to hold under either.

### Inputs: from what is typed to what Discord gets

Functions without state, so a behaviour is a single step: `Purge`, `Ban`, `Mute` and `Poll` are the
heads of the commands, `Relay` is `relay_inbound` up to the webhook. Each step keeps the input in
`request` and what is handed on, or why it is refused, in `answer`.

| Module | Code |
|---|---|
| `Results`, `Texts` | what is used of Rust's `Result`, `Option` and strings |
| `Durations` | `validate_purge_count`, `validate_ban_delete_days`, `parse_timeout_duration`, `parse_poll_duration` |
| `PollInput` | `validate_poll_question`, `parse_poll_options` |
| `RelayText` | `sanitize_content`, `prepare_relay_content` |
| `WebhookUsername` | `strip_ci`, `derive_webhook_username` |

A duration is its magnitude and its unit, or `Malformed`; the width of a word is a constant, because
only its edge matters, and a checked product is a comparison with a quotient. A text is a sequence
of characters, and a character stands for all those the code treats alike: the blank is any
whitespace, and the letters of a name are chosen by what the forbidden words make of them. The
properties do not repeat the functions: the options are counted where they begin in the typed text,
a name is what remains of the author's when characters are taken out, a timeout is compared by
division.

### Service: starting, and the commands that act on a channel and a call

| Variable | Stands for |
|---|---|
| `process`, `scope` | how far this start has come, and the scope its environment names |
| `schema`, `registered` | the applied migrations; the scopes Discord knows the commands in |
| `channel`, `latest`, `old` | the channel's messages by number, the newest ever, the newest that is over 14 days old |
| `purge` | per task: stage, count and what it listed |
| `call`, `requests` | songbird's call for the guild, and its requests on the way to the gateway |
| `presence`, `stale` | where the bot is seen, and whether that is left of a session that is over |
| `voice` | per task: where a `/join` or `/leave` stands, and the channel a join aims at |
| `crossed` | for the properties only: whether a `/join` and a `/leave` of this process were inside songbird together |
| `outside` | how much people and time have done, for a bound |

| Action | Code |
|---|---|
| `Boot`, `Connect`, `Migrate`, `BuildClient` | `main` up to `client.start`, one migration per step |
| `Ready` | the `setup` closure: registration, then `Data`; its failure leaves a *deaf* bot, connected and without `Data` |
| `StartPurge`, `PurgeAccess`, `ListMessages`, `DeleteListed` | `/purge` at its awaits: the allowlist check (whom it lets through is in `Moderation`), the listing, the deletion; Discord refuses a bulk deletion with an old message in it, not the deletion of a single one |
| `StartJoin`, `SendJoin`, `FinishJoin` | `/join` up to `join_gateway`, which takes the guild's call, sends the request and waits for the gateway |
| `Leave`, `DropCall` | `/leave` with `Manager::remove`: the bot is asked to leave, and after that await the call is dropped |
| `TakeRequest` | the gateway moves the bot, or refuses the channel |
| `PostMessage`, `DeleteMessage`, `GrowOld`, `Moved` | people and time |
| `Restart` | the process stops at any point, with its tasks and songbird's memory; the bot is still seen where it was |
| `Forgotten` | Discord notices that the session is over, and the bot is seen nowhere |

### What the models assume

- An awaited call returns or fails. A request cut off by a restart has taken effect before the
  restart or never does.
- The gateway reports a message at most once; events missed while the process is down are not
  replayed.
- Discord enforces its own rules: the cap on webhooks, that a bot reaches only members below its
  highest role and never the owner, and the permissions the commands require.
- One guild for the allowlist (every statement carries the guild id). Positions of roles, the owner
  and the bot's top role do not change. A guild missing from the cache is an error of `authorize`.
- No command defers its reply, so any reply may fail after the effect: the end `unconfirmed`.
- Egress is `LoggingEgress`, which cannot fail.
- Of songbird the model has what `voice.rs` says of it: a `/join` makes a call or takes the one there
  is, whether or not the gateway follows; `remove` leaves and *then* drops the guild's call, or fails
  and keeps it; requests reach the gateway in order; `join_gateway` returns when confirmed, or with
  an error at any time before. After a restart the bot is seen where it was until Discord notices
  that the session is over, or the new process moves it.
- The managed webhooks of a channel, which `get_or_create_webhook` recognises by name and token, are
  the bot's own. One of that name that comes without a token is among `others`; one that somebody
  else made under that name, with a token the bot would use, is left out.
- `Platforms` are natural numbers. The column would take a negative one, which would come first in
  `ORDER BY platform`, but no version of the program has counted its platforms from below 0.
- poise runs a command only with the `Data` that `setup` returned, and reports a failing `setup`
  without ending the program.
- Message ids grow with time, and a listing with a limit returns the newest messages.
- sqlx applies each pending migration as a whole, in order, and only once.
- The pool of five connections is not modelled: no task holds one across an await of something
  else, so waiting for a connection is part of the awaited query.
- Replies and log lines are left out. Outside `Inputs` the models keep of a text whether anything is
  left of it after sanitizing, and of a number whether it was accepted.

## The checks

`tlc -config <cfg> <module>`, each three minutes at most.

| Run | Instance | Shows |
|---|---|---|
| `MCBridgeInbound` | two channels, two chats, two deliveries, cap 2, a foreign row or none | types, `BlankLeavesNoTrace`, `DuplicatesStop`, `KeepsPromise` inbound, with every interleaving of links, unlinks, deletions, lost answers and restarts (776,132 states) |
| `MCBridgeBoth` | the same with one delivery and one message posted by others, cap 1 | `RoutesAgree`, `NoEcho`, `KeepsPromise` in both directions at once (494,760 states) |
| `MCBridgeSerial` | one channel and chat, two deliveries that do not overlap, one posted message, cap 2, fair tasks | `OneManagedWebhook` when deliveries come one at a time; `EverythingSettles` (532,508 states) |
| `MCBridgeDuplicate` | one channel, two deliveries that may overlap | finding: two managed webhooks |
| `MCBridgeBots` | one channel, one posted message | finding: other bots are mirrored |
| `MCRankHistory` | owner, bot, moderator and member, one role as high as the bot's; one command of the six; one management command; the member's roles and membership change | types, `KeepsGate`, `RankOnceHeld` (2,432,929 states) |
| `MCModerationManage` | three management commands on a user and a role | `ReportsHold` (278,888 states) |
| `MCModerationHierarchy` | one kick under `SteadySpec` | finding: a stale cache defeats the hierarchy |
| `MCModerationUnmute` | one unmute under `SettledSpec` | finding: `/unmute` ignores the hierarchy |
| `MCInputs` | counts and durations around every limit in every unit; all option texts up to seven characters, contents up to six, names up to six (seven without capitals and blanks) | the seven properties of `Inputs` (103,606 states) |
| `MCService` | two tasks, three environments, two migrations, two voice channels, a channel of up to three messages, two acts of people or time | types, `ServedReady`, `PurgeClearsItsSpan`, `PurgeTakesOnlyWhatItSaw`, `OnlyACrossingStrands`, `EverythingSettles` (1,118,632 states) |
| `MCServiceCrossing` | the same without fairness | finding: a join that meets a leave is stranded |

**Bounds.** In `Bridge` and `Moderation` nothing is capped artificially: `Cap` is the code's own
`MAX_CHANNEL_WEBHOOKS`, only smaller, and the sets of deliveries, messages, attempts and management
commands are constants, each element being used once. Two deliveries are enough for a race on a
webhook or on a route, because a task touches no other task's record and only the table and the
channel's webhooks are shared; cap 2 lets both duplicates exist, cap 1 makes the cap bite at once.
Two channels and two chats give every crossing of links, and a chat may move from one channel to
the other while a message is under way. The unknown platform's row names the first channel and the
first chat, the one place where it can get in the way. In `Moderation` no attempt reads what
another attempt keeps, so one attempt against an arbitrary environment (which joins, leaves, takes
roles and manages the list) stands for many; `Shifting`, the users who do so, and `Listable`, the
entries a manager names, keep the instances small. In `MCRankHistory` one role, level with the bot's
highest, gives ranks below, equal and above, and a member in and out of the bot's reach; the
moderator may have it or not, the owner is on the list by id, and the member has been with and
without it in every order with the snapshots of the cache. The runs of the findings have a second,
lower role, and a moderator whose roles change. Three management commands are one more than the
two whose statements cross.

In `MCInputs` the limits are small (a message has 4 characters, an option 2, a name 4) and the texts
longer than them, so that each limit is passed and a cut falls on every kind of character. The
seconds in an hour and a day and the windows of `/mute` and `/poll` are the real ones; `MaxU64` is
3,000,000, above the longest poll by more than a day and small enough that products in hours and
days pass it. The forbidden words keep what matters of "discord" and "clyde": one begins with the
letter it ends with, they share a letter, and seven letters nest three removals.

In `MCService` two commands are enough for two purges to overlap and for any two of join and leave
to cross, inside songbird and at the gateway. `MaxPosts` and `MaxOutside` bound people and time: of three messages one can be posted
after the listing, one be old and one deleted by somebody else, and two acts put a posting and an
ageing, or a deletion and a posting, between two steps of a purge. A purge that finds fewer messages
than asked for, one, and none are all among the states. Two migrations are the fewest a start can
stop between. None of these bounds is in the proofs.

**Symmetry** (`MCBridgeInbound` only) permutes deliveries with deliveries: a delivery is only a
name, no operator chooses or compares one, and the run checks no liveness.

**Fairness** is weak fairness of each delivery and each gateway event: tokio polls every task that
can run, and every awaited call is assumed to return or fail. In `Service` it is weak fairness of
the start, of each task and of the gateway taking requests. Nothing is assumed of people, of
Discord's other users, of starting the program or of restarts. `EverythingSettles` does not need a
message to be delivered or a join to succeed, only its task to end.

**Deadlock** is not checked: when every delivery, message and command of an instance is used up and
nobody posts or links anything, the system rightly stands still; and an input is answered once.

**Mutants.** Definitions whose comment begins with "Mutant" are what the code is not: each is the
code with one plausible slip, kept beside the definition it would replace, and no specification
uses it. Each property of each passing run is violated by at least one of them.

## Where the code and its documents disagree

1. *Duplicate webhooks* (`MCBridgeDuplicate`). `get_or_create_webhook` lists, awaits and creates.
   Two first deliveries to a channel may both find nothing and both create; `webhook.rs:1,22` speak
   of one webhook per channel. `DuplicatesStop` shows it ends there: later deliveries find one.
2. *Other bots are mirrored* (`MCBridgeBots`). `should_relay` never asks whether the author is a
   bot, though `transform.rs:10` says "we do not mirror foreign webhooks/bots either".
3. *A stale cache defeats the hierarchy* (`MCModerationHierarchy`). `authorize` compares roles from
   serenity's cache, of whatever age, while its comment calls them live facts.
4. *`/unmute` has no hierarchy check* (`MCModerationUnmute`), though `README.md:19-20` of the
   repository asks for one of every moderation action.
5. *A join that meets a leave is stranded* (`MCServiceCrossing`). `/leave` awaits the departure and
   then drops the guild's call. A `/join` that has taken that call in between goes on to the
   gateway; the bot appears in its channel, and `/leave` answers that it is in none, where
   `voice.rs:96` reads `NoCall` as "the bot wasn't connected here". The next `/join` mends it.
   `OnlyACrossingStrands` shows that nothing else has this end.

## What is proved

TLAPS checks `BridgeProofs`, `ModerationProofs`, `ServiceProofs` and `InputsProofs` in full, and the
lemmas the last rests on in `DurationsProofs`, `TextProofs`, `RelayProofs` and `PollInputProofs`; the
assumptions are the `ASSUME`s of the modules they are about, on the constants only, which TLC
evaluates on each instance. Every invariant and every action property that a passing run checks,
and both refinements, are proved.

**Bridge**, for any guilds, channels, chats, platforms, deliveries, messages and cap:

| Theorem | Says |
|---|---|
| `Invariance`, `TypeCorrect` | `IndInv` and `TypeOK` are invariants |
| `RoutesAlwaysAgree` | `RoutesAgree` |
| `NoEchoEver` | `NoEcho` |
| `BlankNeverShows` | `BlankLeavesNoTrace` |
| `DuplicatesDoStop` | the action property `DuplicatesStop` |
| `SerialNeverDuplicates` | `OneManagedWebhook` under `SerialSpec` |
| `PromiseKept` | `Bridge` implements `RelayPromise` |

`IndInv` is `TypeOK` with three parts. `TaskShape` says what a task carries at each await, so that
the refinement mapping never meets `None` for a channel and a message is never posted twice.
`TableInOrder` is the table's two keys, and that its own rows hold trimmed ids: without it two rows
for `" 7"` and `"7"` would be different remote ids of one chat, and the links no longer one to one.
`GuardsHold` remembers what the blank test and `should_relay` decided, after the awaits that follow
them. `SerialNeverDuplicates` needs a fourth: while a delivery creates, its channel has no managed
webhook, which only the serial specification preserves. For `PromiseKept`, `Link` maps to adding a
pair or a stutter, `RouteInbound` and `Lookup` to binding or dismissing, `Execute` to delivering
(its echo's event is not one of the abstract messages), a restart to the failure of everything
under way.

**Moderation**, for any users, roles, positions, commands, attempts and management commands:

| Theorem | Says |
|---|---|
| `Invariance`, `TypeCorrect` | `IndInv` and `TypeOK` are invariants |
| `GateKept` | `Moderation` implements `GatePromise` |
| `RankAlwaysOnceHeld` | `RankOnceHeld` under `HistorySpec`, the code's steps with their history |
| `ReportsAlwaysHold` | `ReportsHold` |

`IndInv` is `TypeOK` with the shape of a task at each stage and `Judgement`: a punishment that
waits for its effect has a target other than actor, bot and owner, which is what the gate's
`Perform` demands and what only `Authorize` established, awaits ago; `/unban`, `/unmute` and
`/purge` skip that stage, so the invariant also says which commands reach the stages before it.
`RankAlwaysOnceHeld` adds `HistInv`: what the cache holds of a user, and what Discord would answer,
the user has had; so has the target what a command under way resolved; and whoever was judged to
outrank did so once. A history that only grows keeps that over every step of the people, and a
restart forgets cache, commands and history together, which is why the history need not go back any
further. `ReportsAlwaysHold` adds `MadeSo`:
each entry a command has *dealt with* is as its direction says, unless a command of the other
direction names it; a command that begins can only make more entries contested.

**Inputs**, for any integers, magnitudes, units, width of a word, and for texts of any length over
any characters, whatever the limits and the forbidden and reserved words:

| Theorem | Says |
|---|---|
| `CountsNeverAliasEver` | `CountsNeverAlias` |
| `TimeoutAlwaysAsAsked` | `TimeoutAsAsked` |
| `PollAlwaysRunsAsTold` | `PollRunsAsTold` |
| `OptionsAlwaysAsTyped` | `OptionsAsTyped` |
| `RelayedTextAlwaysLegal` | `RelayedTextIsLegal` |
| `RelayedNameAlwaysLegal` | `RelayedNameIsLegal` |
| `RelayedNameAlwaysTheAuthors` | `RelayedNameIsTheAuthors` |

The first three rest on the lemmas of `DurationsProofs`: a product of a magnitude and a unit is
within a limit just when the magnitude is within the quotient (`FittingIsExact`), so a duration
within a window is never an overflow (`ShortIsRepresentable`), and whole hours are at most an hour
below what they round (`HoursAreClose`), which makes the range of the rounded value the range that
is told.

The other four are about functions that go through a text, so they need induction and recursion.
The library's theorems on both take an operator as a parameter, which the installed provers cannot
instantiate; `TextProofs` states them with sets and functions instead. `LeastNumber`, from the
well-foundedness of the natural numbers, gives `Induction`, `CourseOfValues` and `TextInduction`:
*a set that holds the empty text, and of every text the longer ones, holds all texts*. `Recursion`
says that a functional whose value at each point looks only at points of smaller measure has a
fixed point; with it a recursive definition is known to satisfy its own equation. It is used for
`FlattenSeq`, for the scan of `strip_ci`, for the rounds of `Settled` and for the splitting in
`Pieces`. From there:

- *The name* (`RelayProofs`). A scan of `strip_ci` only takes characters out, at least one where its
  word occurs and none otherwise (`StripScan`), so a round either shortens the name or finds nothing
  forbidden in it (`StripRound`), and the loop ends with a name that has no forbidden word, be it
  the empty one (`SettledName`). Trimming and cutting it keep that,
  because a part of a text without forbidden words has none (`NothingForbiddenInTheMiddle`), and
  the fallback is legal by assumption (`DerivedName`). `NameAssumption` asks that a reserved name is
  shorter than the limit: then no cut can make one out of a longer name.
- *The content* (`RelayProofs`). The sanitizer changes nothing that is seen
  (`SanitizedLooksTheSame`) and leaves no @ before anything but a zero-width space
  (`SanitizedHasNoMention`); cutting keeps both, and since nothing before the first @ moves
  (`NothingMovesBeforeAnAt`), whether anything solid is within the limit can be told from the text
  as it was typed (`PreparedContent`).
- *The options* (`PollInputProofs`). Each piece of the split text lies in it between separators, and
  the last one at its end (`PiecesLie`). So a character begins an option just when it is the first
  letter of its piece, and options are offered one for each place where one begins
  (`AsManyAsBegin`); splitting, trimming and dropping blank pieces lose no letter
  (`PiecesKeepLetters`, `TrimKeepsLetters`, `OfferedKeepsLetters`); and an option is never longer
  than what a reader measures at its place (`OptionOfPiece`), so that a refusal for length is true.

**Service**, for any tasks, environments, migrations, channels, counts and bounds:

| Theorem | Says |
|---|---|
| `TypeCorrect` | `TypeOK` |
| `AlwaysServedReady` | `ServedReady` |
| `PurgeAlwaysClearsItsSpan` | `PurgeClearsItsSpan` |
| `PurgeOnlyTakesWhatItSaw` | the action property `PurgeTakesOnlyWhatItSaw` |
| `OnlyACrossingEverStrands` | `OnlyACrossingStrands` |

`StartedSo` says what a start has behind it at each point: from the client on every migration is
applied, a serving process is registered where it should be, and tasks run in no other. `SpanSo` is
the argument for `/purge`: a listing has no gaps (`ListingHasNoGaps`) and is within its limit
(`ListingIsLimited`: the numbers of newer messages are below the limit and all different), what is
posted later is newer than all of it, and deletions by others only make the channel smaller.
`CallCovers` is the argument for `/leave`, as long as no two commands met inside songbird: then no
`/join` and `/leave` are there together now, a `/join` there has the call, and the call is held, with
no `/leave` about to drop it, while the *last* request asks for a channel, or, when there is none,
while the bot is in one by a live session. That is inductive where `OnlyACrossingStrands` is not,
because the latter is silent while requests are under way.

**Only model-checked.** `EverythingSettles`, of `Bridge` and of `Service`: liveness and fairness are
outside what the prover handles. The properties of the five findings are refuted, not proved.

## What is not modelled

- The Display texts of `error.rs`, `format_outbound`, logging and `.env`: wording and layout.
- `/allowlist`, and `/proxy list` beyond its query: they only read and reply.
- `/poll`'s choice of several answers, the avatar of a relayed message and the reasons of `/kick` and
  `/ban`: handed on unread.
- The two clocks behind the 28 days of `/mute`: Discord's refusal of a date too far ahead is the
  error its effect may have in `Moderation`.
- The age of the voice states in serenity's cache: `/join` may find the invoker in any channel, and
  the code promises nothing better.
- Rate limits, reconnections of the gateway within one process, and the three seconds an interaction
  waits: they are the errors and lost answers that every awaited call may have.
- The order of two messages of one channel on their way to the egress: each is a task of its own,
  and nothing in the code or its documents promises an order.
