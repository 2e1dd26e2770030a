------------------------------- MODULE Bridge -------------------------------
(***************************************************************************)
(* The message bridge: the routes table, the inbound relay                 *)
(* (deliver_inbound, proxy/webhook.rs), the outbound relay                 *)
(* (handle_outbound, events/mod.rs) and the part of Discord they drive.    *)
(*                                                                         *)
(* Every delivery and every gateway event runs as a task of its own, so an *)
(* action is the code between two awaits of one task: the query or the     *)
(* HTTP call takes effect, and the task runs to its next await.  A call    *)
(* may fail with or without its effect.                                    *)
(***************************************************************************)
EXTENDS ProxyRoutes, FiniteSets, Sequences

CONSTANTS Inbound,      \* the deliveries: one call of deliver_inbound each
          Outbound,     \* the messages others post in the Discord channels
          Cap,          \* MAX_CHANNEL_WEBHOOKS
          None

Messages == Inbound \cup Outbound

ASSUME BridgeAssumption ==
  /\ IsFiniteSet(Inbound)
  /\ Inbound \cap Outbound = {}
  /\ Channels \cap Chats = {}
  /\ Cap \in Nat \ {0}
  /\ None \notin Channels \cup Chats \cup RemoteIds \cup Inbound

VARIABLES
  routes,       \* the table proxy_routes
  hooks,        \* per channel: its managed webhooks, named by the delivery
                \* whose create_webhook made them
  others,       \* per channel: how many webhooks the bot does not manage
  call,         \* per delivery: where deliver_inbound stands
  posted,       \* per delivery: the channels its message was posted in, one
                \* entry for each time
  event         \* per message in Discord: where its gateway event stands

vars == <<routes, hooks, others, call, posted, event>>

-----------------------------------------------------------------------------
(* The tasks.  A stage names what the task awaits, or how it ended.        *)

RelayStages == {"route", "list", "create", "execute"}
RelayEnds == {"ok", "skipped", "NoRouteForRemote", "WebhookLimitReached",
              "error", "lost"}

Calls == [stage : {"unsent"} \cup RelayStages \cup RelayEnds,
          remote : RemoteIds \cup {None}, blank : BOOLEAN,
          channel : Channels \cup {None}, hook : Inbound \cup {None}]

UnsentCall == [stage |-> "unsent", remote |-> None, blank |-> FALSE,
               channel |-> None, hook |-> None]

EventStages == {"pending", "lookup", "send"}
EventEnds == {"sent", "unlinked", "ignored", "error", "missed"}
Authors == {"member", "bot", "self"}

Events == [stage : {"unsent"} \cup EventStages \cup EventEnds,
           channel : Channels \cup {None}, remote : RemoteIds \cup {None},
           webhook : BOOLEAN, author : Authors, blank : BOOLEAN]

UnsentEvent == [stage |-> "unsent", channel |-> None, remote |-> None,
                webhook |-> FALSE, author |-> "member", blank |-> FALSE]

Postings == [Inbound -> Seq(Channels)]

TypeOK ==
  /\ routes \in SUBSET Rows
  /\ hooks \in [Channels -> SUBSET Inbound]
  /\ others \in [Channels -> 0..Cap]
  /\ call \in [Inbound -> Calls]
  /\ posted \in Postings
  /\ event \in [Messages -> Events]

(* A first start: nothing linked by this version, no managed webhook yet,  *)
(* any number of other webhooks.                                           *)
Init ==
  /\ routes \in SUBSET Legacy
  /\ hooks = [c \in Channels |-> {}]
  /\ others \in [Channels -> 0..Cap]
  /\ call = [m \in Inbound |-> UnsentCall]
  /\ posted = [m \in Inbound |-> <<>>]
  /\ event = [x \in Messages |-> UnsentEvent]

-----------------------------------------------------------------------------
(* /proxy link and /proxy unlink.  A statement that fails before it takes  *)
(* effect changes nothing, one whose answer is lost has taken effect.      *)

Link(c, id) ==
  /\ routes' = Linked(routes, Route(c, Telegram, Trimmed(id)))
  /\ UNCHANGED <<hooks, others, call, posted, event>>

Unlink(c) ==
  /\ routes' = Unlinked(routes, c, Telegram)
  /\ UNCHANGED <<hooks, others, call, posted, event>>

-----------------------------------------------------------------------------
(* The inbound relay.                                                      *)

(* /proxytest calls deliver_inbound with the trimmed id.                   *)
Deliver(m, id, blank) ==
  /\ call[m].stage = "unsent"
  /\ call' = [call EXCEPT ![m] = [UnsentCall EXCEPT
                !.stage = "route", !.remote = Trimmed(id), !.blank = blank]]
  /\ UNCHANGED <<routes, hooks, others, posted, event>>

Ends(m, end) == call' = [call EXCEPT ![m].stage = end]

(* Mutant: the content is not looked at before a webhook is.               *)
RouteFound_anyContent(m) ==
  \E c \in FetchByRemote(routes, Telegram, call[m].remote) :
    call' = [call EXCEPT ![m].stage = "list", ![m].channel = c]

(* fetch_by_remote answers; with a channel, relay_inbound begins, and      *)
(* returns at once when nothing is left of the content.                    *)
RouteFound(m) ==
  \E c \in FetchByRemote(routes, Telegram, call[m].remote) :
    IF call[m].blank
      THEN Ends(m, "skipped")
      ELSE call' = [call EXCEPT ![m].stage = "list", ![m].channel = c]

RouteInbound(m) ==
  /\ call[m].stage = "route"
  /\ \/ RouteFound(m)
     \/ /\ FetchByRemote(routes, Telegram, call[m].remote) = {}
        /\ Ends(m, "NoRouteForRemote")
     \/ Ends(m, "error")
  /\ UNCHANGED <<routes, hooks, others, posted, event>>

(* A channel holding Cap webhooks takes no other one.                      *)
Full(c) == Cardinality(hooks[c]) + others[c] >= Cap

(* Mutant: the managed webhook is not recognised in the list.              *)
ListWebhooks_blind(m) ==
  /\ call[m].stage = "list"
  /\ \/ Ends(m, IF Full(call[m].channel) THEN "WebhookLimitReached" ELSE "create")
     \/ Ends(m, "error")
  /\ UNCHANGED <<routes, hooks, others, posted, event>>

(* get_or_create_webhook up to its second await: the webhooks are listed,  *)
(* and the answer is used after the await, whatever happens in between.    *)
ListWebhooks(m) ==
  LET c == call[m].channel IN
  /\ call[m].stage = "list"
  /\ \/ \E h \in hooks[c] :
          call' = [call EXCEPT ![m].stage = "execute", ![m].hook = h]
     \/ /\ hooks[c] = {}
        /\ Ends(m, IF Full(c) THEN "WebhookLimitReached" ELSE "create")
     \/ Ends(m, "error")
  /\ UNCHANGED <<routes, hooks, others, posted, event>>

(* create_webhook: Discord counts the webhooks again, and its refusal is   *)
(* an error like any other to the code.                                    *)
CreateWebhook(m) ==
  LET c == call[m].channel
      created == hooks' = [hooks EXCEPT ![c] = @ \cup {m}]
  IN
  /\ call[m].stage = "create"
  /\ \/ /\ ~Full(c) /\ created
        /\ call' = [call EXCEPT ![m].stage = "execute", ![m].hook = m]
     \/ ~Full(c) /\ created /\ Ends(m, "error")
     \/ UNCHANGED hooks /\ Ends(m, "error")
  /\ UNCHANGED <<routes, others, posted, event>>

(* Mutant: a webhook that is gone is looked for again.                     *)
Execute_retry(m) ==
  /\ call[m].stage = "execute"
  /\ Ends(m, IF call[m].hook \in hooks[call[m].channel] THEN "ok" ELSE "list")
  /\ UNCHANGED <<routes, hooks, others, posted, event>>

Posts(m, c) == posted' = [posted EXCEPT ![m] = Append(@, c)]

(* Mutant: an execute whose answer was lost is tried again.                *)
Execute_again(m) ==
  LET c == call[m].channel IN
  /\ call[m].stage = "execute"
  /\ \/ /\ call[m].hook \in hooks[c]
        /\ Posts(m, c)
        /\ Ends(m, "ok") \/ UNCHANGED call
     \/ Ends(m, "error") /\ UNCHANGED posted
  /\ UNCHANGED <<routes, hooks, others, event>>

(* execute: the message appears in the channel if the webhook still        *)
(* exists, and Discord announces it to the bot like any other message.     *)
Execute(m) ==
  LET c == call[m].channel IN
  /\ call[m].stage = "execute"
  /\ \/ /\ call[m].hook \in hooks[c]
        /\ Posts(m, c)
        /\ event' = [event EXCEPT ![m] = [UnsentEvent EXCEPT
             !.stage = "pending", !.channel = c, !.webhook = TRUE, !.author = "bot"]]
        /\ \E end \in {"ok", "error"} : Ends(m, end)
     \/ Ends(m, "error") /\ UNCHANGED <<posted, event>>
  /\ UNCHANGED <<routes, hooks, others>>

-----------------------------------------------------------------------------
(* The outbound relay.                                                     *)

(* Somebody posts in a channel: a member, another bot, a webhook the bot   *)
(* does not manage, or this bot itself, in its own name or as a reply to   *)
(* an interaction, which Discord sends through a webhook of its own.       *)
Post(x, c, webhook, author, blank) ==
  /\ event[x].stage = "unsent"
  /\ webhook => author # "member"
  /\ event' = [event EXCEPT ![x] =
       [stage |-> "pending", channel |-> c, remote |-> None,
        webhook |-> webhook, author |-> author, blank |-> blank]]
  /\ UNCHANGED <<routes, hooks, others, call, posted>>

(* Mutant: the loop guard only knows the bot's own name.                   *)
ShouldRelay_noWebhook(msg) == msg.author # "self" /\ ~msg.blank

ShouldRelay(msg) == ~msg.webhook /\ msg.author # "self" /\ ~msg.blank

Becomes(x, stage) == event' = [event EXCEPT ![x].stage = stage]

(* The event reaches event_handler, in no order: one task per event.       *)
Dispatch(x) ==
  /\ event[x].stage = "pending"
  /\ Becomes(x, IF ShouldRelay(event[x]) THEN "lookup" ELSE "ignored")
  /\ UNCHANGED <<routes, hooks, others, call, posted>>

Lookup(x) ==
  LET answers == FetchByChannel(routes, event[x].channel) IN
  /\ event[x].stage = "lookup"
  /\ \/ \E id \in answers :
          event' = [event EXCEPT ![x].stage = "send", ![x].remote = id]
     \/ answers = {} /\ Becomes(x, "unlinked")
     \/ Becomes(x, "error")
  /\ UNCHANGED <<routes, hooks, others, call, posted>>

(* LoggingEgress::send never fails.                                        *)
Send(x) ==
  /\ event[x].stage = "send"
  /\ Becomes(x, "sent")
  /\ UNCHANGED <<routes, hooks, others, call, posted>>

-----------------------------------------------------------------------------
(* Discord's side of the webhooks, and the process.                        *)

DeleteManaged(c, h) ==
  /\ h \in hooks[c]
  /\ hooks' = [hooks EXCEPT ![c] = @ \ {h}]
  /\ UNCHANGED <<routes, others, call, posted, event>>

AddOther(c) ==
  /\ ~Full(c)
  /\ others' = [others EXCEPT ![c] = @ + 1]
  /\ UNCHANGED <<routes, hooks, call, posted, event>>

DeleteOther(c) ==
  /\ others[c] > 0
  /\ others' = [others EXCEPT ![c] = @ - 1]
  /\ UNCHANGED <<routes, hooks, call, posted, event>>

(* The process stops and starts again.  Only the database and Discord keep *)
(* anything: running deliveries are lost, waiting events are missed.       *)
Restart ==
  /\ call' = [m \in Inbound |->
       IF call[m].stage \in RelayStages THEN [call[m] EXCEPT !.stage = "lost"]
       ELSE call[m]]
  /\ event' = [x \in Messages |->
       IF event[x].stage \in EventStages THEN [event[x] EXCEPT !.stage = "missed"]
       ELSE event[x]]
  /\ UNCHANGED <<routes, hooks, others, posted>>

-----------------------------------------------------------------------------
RelayStep(m) ==
  RouteInbound(m) \/ ListWebhooks(m) \/ CreateWebhook(m) \/ Execute(m)

EventStep(x) == Dispatch(x) \/ Lookup(x) \/ Send(x)

Next ==
  \/ \E c \in Channels, id \in RemoteIds : Link(c, id)
  \/ \E c \in Channels : Unlink(c) \/ AddOther(c) \/ DeleteOther(c)
  \/ \E c \in Channels, h \in Inbound : DeleteManaged(c, h)
  \/ \E m \in Inbound, id \in RemoteIds, blank \in BOOLEAN : Deliver(m, id, blank)
  \/ \E m \in Inbound : RelayStep(m)
  \/ \E x \in Outbound, c \in Channels, webhook, blank \in BOOLEAN, author \in Authors :
       Post(x, c, webhook, author, blank)
  \/ \E x \in Messages : EventStep(x)
  \/ Restart

Spec == Init /\ [][Next]_vars

(* Every call the bot awaits returns or fails, and tokio runs every task   *)
(* that can run.  Nothing is assumed of the people.                        *)
Fairness ==
  /\ \A m \in Inbound : WF_vars(RelayStep(m))
  /\ \A x \in Messages : WF_vars(EventStep(x))

(* The deliveries of an adapter that waits for one before it starts the    *)
(* next.                                                                   *)
Running(m) == call[m].stage \in RelayStages

OneAtATime == \A m, n \in Inbound : Running(m) /\ Running(n) => m = n

SerialSpec == Init /\ [][Next /\ OneAtATime']_vars

FairSerialSpec == SerialSpec /\ Fairness

-----------------------------------------------------------------------------
(* The three readers of the table agree (fetch_by_remote,                  *)
(* fetch_by_channel, list), and what they agree on is one to one between   *)
(* channels and chats, however ids were typed, whatever rows another       *)
(* version left and however links and unlinks interleave.                  *)
RoutesAgree ==
  /\ \A c \in Channels, id \in RemoteIds :
       c \in FetchByRemote(routes, Telegram, id) <=> id \in FetchByChannel(routes, c)
  /\ \A c \in Channels :
       FetchByChannel(routes, c) =
         {r.remote : r \in {q \in ListRoutes(routes, GuildOf[c]) : q.channel = c}}
  /\ \A c, d \in Channels :
       \A i \in FetchByChannel(routes, c), j \in FetchByChannel(routes, d) :
         c = d <=> i.chat = j.chat

(* No loop: nothing the bot put into Discord itself, by its webhooks or in *)
(* its own name, is on its way out (should_relay, proxy/transform.rs).     *)
NoEcho ==
  \A x \in Messages :
    event[x].stage \in {"lookup", "send", "sent"} =>
      x \notin Inbound /\ event[x].author # "self"

(* A delivery with nothing to say leaves no trace in Discord: no message   *)
(* and no webhook made for it (relay_inbound's early return).              *)
BlankLeavesNoTrace ==
  \A m \in Inbound :
    call[m].blank => posted[m] = <<>> /\ \A c \in Channels : m \notin hooks[c]

(* Once a channel has a managed webhook and no creation is under way       *)
(* there, no further one is begun or made: concurrent first deliveries     *)
(* make duplicates, but they cannot keep multiplying                       *)
(* (get_or_create_webhook).                                                *)
Creating(c) == {m \in Inbound : call[m].stage = "create" /\ call[m].channel = c}

DuplicatesStop ==
  [][\A c \in Channels :
       hooks[c] # {} /\ Creating(c) = {} =>
         Creating(c)' = {} /\ hooks'[c] \subseteq hooks[c]]_vars

(* At most one managed webhook per channel: "via a per-channel webhook",   *)
(* proxy/webhook.rs:1.  It holds when deliveries come one at a time, and   *)
(* fails when two first deliveries overlap.                                *)
OneManagedWebhook ==
  \A c \in Channels : \A h, k \in hooks[c] : h = k

(* Messages of other bots are not mirrored, proxy/transform.rs:10.         *)
ForeignBotsNotMirrored ==
  \A x \in Messages : event[x].stage = "sent" => event[x].author # "bot"

(* Every delivery and every gateway event comes to an end.                 *)
EverythingSettles ==
  /\ \A m \in Inbound : Running(m) ~> ~Running(m)
  /\ \A x \in Messages :
       event[x].stage \in EventStages ~> event[x].stage \notin EventStages

-----------------------------------------------------------------------------
(* The bridge keeps the promise of RelayPromise: an inbound message goes   *)
(* from a chat to a channel, an outbound one from a channel to a chat.     *)

Links == {<<r.channel, r.remote.chat>> : r \in {q \in routes : q.platform = Telegram}}

InboundFate(m) ==
  [at   |-> CASE posted[m] # <<>>                             -> "delivered"
              [] call[m].stage = "unsent"                     -> "unsent"
              [] call[m].stage = "route"                      -> "arrived"
              [] call[m].stage = "NoRouteForRemote"           -> "dismissed"
              [] call[m].stage = "skipped"                    -> "ignored"
              [] call[m].stage \in {"list", "create", "execute"} -> "bound"
              [] OTHER                                        -> "failed",
   from |-> IF call[m].stage = "unsent" THEN None ELSE call[m].remote.chat,
   to   |-> call[m].channel]

OutboundFate(x) ==
  LET e == event[x] IN
  [at   |-> CASE e.stage = "unsent"                -> "unsent"
              [] e.stage \in {"pending", "lookup"} -> "arrived"
              [] e.stage = "send"                  -> "bound"
              [] e.stage = "sent"                  -> "delivered"
              [] e.stage = "unlinked"              -> "dismissed"
              [] e.stage = "ignored"               -> "ignored"
              [] OTHER                             -> "failed",
   from |-> e.channel,
   to   |-> IF e.remote = None THEN None ELSE e.remote.chat]

Fates ==
  [x \in Messages |-> IF x \in Inbound THEN InboundFate(x) ELSE OutboundFate(x)]

(* Where a message has been shown, one entry for each time.                *)
Shown ==
  [x \in Messages |->
     IF x \in Inbound THEN posted[x]
     ELSE IF event[x].stage = "sent" THEN <<event[x].remote.chat>> ELSE <<>>]

Unfit ==
  {m \in Inbound : call[m].blank} \cup
  {x \in Outbound : event[x].webhook \/ event[x].author = "self" \/ event[x].blank}

Relay == INSTANCE RelayPromise WITH
  links <- Links, fate <- Fates, shown <- Shown, unfit <- Unfit

(* Every message is shown at most once, whatever answers are lost, and     *)
(* only to the partner its own end had after it arrived, is refused only   *)
(* while there is no partner, and is ignored only if it is unfit           *)
(* (deliver_inbound, handle_outbound).                                     *)
KeepsPromise == Relay!Promise
=============================================================================
