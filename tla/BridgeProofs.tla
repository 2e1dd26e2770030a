---------------------------- MODULE BridgeProofs ----------------------------
(***************************************************************************)
(* Proofs about Bridge, for every set of guilds, channels, chats and       *)
(* messages, any cap, and whatever rows another version left behind.       *)
(*                                                                         *)
(* The inductive invariant IndInv has four named parts: the types, the     *)
(* shape of a task at each of its awaits, the table's own order, and what  *)
(* the two guards (blank content, should_relay) leave behind them.         *)
(***************************************************************************)
EXTENDS Bridge, FiniteSetTheorems, SequenceTheorems, TLAPS

(* What a task carries at each await.                                      *)
CallShape(m) ==
  /\ call[m].stage # "unsent" =>
       call[m].remote \in RemoteIds /\ call[m].remote.padded = FALSE
  /\ call[m].stage \in {"unsent", "route", "NoRouteForRemote", "skipped"} =>
       call[m].channel = None
  /\ call[m].stage \in {"list", "create", "execute"} => call[m].channel \in Channels
  /\ posted[m] # <<>> => call[m].stage \in {"ok", "error"}

EventShape(x) ==
  /\ event[x].stage = "unsent" => event[x] = UnsentEvent
  /\ event[x].stage # "unsent" => event[x].channel \in Channels
  /\ event[x].stage \in {"unsent", "pending", "lookup", "unlinked", "ignored"} =>
       event[x].remote = None
  /\ event[x].stage = "send" => event[x].remote \in RemoteIds

TaskShape ==
  /\ \A m \in Inbound : CallShape(m)
  /\ \A x \in Messages : EventShape(x)

(* The table obeys its two unique indexes, knows the guild of a channel,   *)
(* and its own rows hold trimmed ids.                                      *)
TableInOrder ==
  /\ Consistent(routes)
  /\ \A r \in routes :
       /\ r.guild = GuildOf[r.channel]
       /\ r.platform = Telegram => r.remote.padded = FALSE

(* A blank delivery never gets past its route, and never touched Discord.  *)
BlankStops(m) ==
  /\ call[m].blank =>
       call[m].stage \in {"route", "NoRouteForRemote", "skipped", "error", "lost"}
  /\ call[m].blank \/ call[m].stage = "unsent" =>
       posted[m] = <<>> /\ \A c \in Channels : m \notin hooks[c]

(* Only relayable messages get past the gate, and echoes are webhook       *)
(* messages from the start.                                                *)
GateHolds(x) ==
  /\ event[x].stage \in {"lookup", "send", "sent"} => ShouldRelay(event[x])
  /\ x \in Inbound /\ event[x].stage # "unsent" => event[x].webhook

GuardsHold ==
  /\ \A m \in Inbound : BlankStops(m)
  /\ \A x \in Messages : GateHolds(x)

IndInv == TypeOK /\ TaskShape /\ TableInOrder /\ GuardsHold

-----------------------------------------------------------------------------
(* The constants, and the parts of the table.                              *)

LEMMA TrimmedId ==
  ASSUME NEW id \in RemoteIds
  PROVE  Trimmed(id) \in RemoteIds /\ Trimmed(id).padded = FALSE
  BY DEF Trimmed, RemoteIds

LEMMA RouteIsRow ==
  ASSUME NEW c \in Channels, NEW id \in RemoteIds
  PROVE  Route(c, Telegram, Trimmed(id)) \in Rows
  BY RoutesAssumption, TrimmedId DEF Route, Rows

LEMMA FetchedChannels ==
  ASSUME TypeOK, NEW id PROVE FetchByRemote(routes, Telegram, id) \subseteq Channels
  BY DEF TypeOK, FetchByRemote, Rows

LEMMA FetchedRemotes ==
  ASSUME TypeOK, NEW c PROVE FetchByChannel(routes, c) \subseteq RemoteIds
  BY DEF TypeOK, FetchByChannel, LowestRows, Rows

(* One posting more, in one channel.                                       *)
LEMMA OnePosting ==
  ASSUME TypeOK, NEW m \in Inbound, NEW c \in Channels, Posts(m, c)
  PROVE  /\ posted' \in Postings
         /\ posted'[m] = Append(posted[m], c)
         /\ posted'[m] # <<>>
         /\ \A n \in Inbound \ {m} : posted'[n] = posted[n]
<1>1. posted \in [Inbound -> Seq(Channels)]
  BY DEF TypeOK, Postings
<1>2. posted[m] \in Seq(Channels)
  BY <1>1
<1> DEFINE longer == Append(posted[m], c)
<1>3. longer \in Seq(Channels) /\ longer # <<>>
  BY <1>2, AppendProperties
<1>4. posted' = [posted EXCEPT ![m] = longer]
  BY DEF Posts
<1> HIDE DEF longer
<1>5. posted' \in [Inbound -> Seq(Channels)] /\ posted'[m] = longer
  BY <1>1, <1>3, <1>4
<1>6. \A n \in Inbound \ {m} : posted'[n] = posted[n]
  BY <1>1, <1>4
<1> QED
  BY <1>3, <1>5, <1>6 DEF Postings, longer

(* A channel with room stays within the cap when it gets another webhook.  *)
LEMMA RoomLeft ==
  ASSUME TypeOK, NEW c \in Channels, ~Full(c) PROVE others[c] + 1 \in 0..Cap
<1>1. hooks[c] \subseteq Inbound
  BY DEF TypeOK
<1>2. Cardinality(hooks[c]) \in Nat
  BY <1>1, BridgeAssumption, FS_Subset, FS_CardinalityType
<1> QED
  BY <1>2, BridgeAssumption DEF TypeOK, Full

-----------------------------------------------------------------------------
(* Types.                                                                  *)

LEMMA TypeInit == Init => TypeOK
<1> SUFFICES ASSUME Init PROVE TypeOK
  OBVIOUS
<1>1. posted \in Postings
  BY EmptySeq DEF Init, Postings
<1> QED
  BY <1>1, RoutesAssumption, BridgeAssumption
  DEF Init, TypeOK, Rows, UnsentCall, Calls, UnsentEvent, Events, Authors

LEMMA RelayKeepsTypes ==
  ASSUME TypeOK, TaskShape, NEW m \in Inbound, RelayStep(m) PROVE TypeOK'
<1> USE BridgeAssumption DEF TypeOK
<1>1. CASE RouteInbound(m)
  BY <1>1, FetchedChannels
  DEF RouteInbound, RouteFound, Ends, Calls, RelayStages, RelayEnds
<1>2. CASE ListWebhooks(m)
  <2>1. hooks[call[m].channel] \subseteq Inbound
    BY <1>2 DEF ListWebhooks, TaskShape, CallShape
  <2>2. CASE \E h \in hooks[call[m].channel] :
               call' = [call EXCEPT ![m].stage = "execute", ![m].hook = h]
    <3>1. PICK h \in hooks[call[m].channel] :
            call' = [call EXCEPT ![m].stage = "execute", ![m].hook = h]
      BY <2>2
    <3>2. h \in Inbound
      BY <2>1
    <3>3. call' \in [Inbound -> Calls]
      BY <3>1, <3>2 DEF Calls, RelayStages
    <3> QED
      BY <1>2, <3>3 DEF ListWebhooks
  <2> QED
    BY <1>2, <2>2 DEF ListWebhooks, Ends, Calls, RelayStages, RelayEnds
<1>3. CASE CreateWebhook(m)
  BY <1>3 DEF CreateWebhook, Ends, Calls, RelayStages, RelayEnds
<1>4. CASE Execute(m)
  <2>1. call' \in [Inbound -> Calls]
    BY <1>4 DEF Execute, Ends, Calls, RelayEnds
  <2>2. event' \in [Messages -> Events]
    <3>1. call[m].channel \in Channels
      BY <1>4 DEF Execute, TaskShape, CallShape
    <3>2. [UnsentEvent EXCEPT !.stage = "pending", !.channel = call[m].channel,
                              !.webhook = TRUE, !.author = "bot"] \in Events
      BY <3>1 DEF Events, UnsentEvent, EventStages, Authors
    <3> QED
      BY <1>4, <3>2 DEF Execute, Messages
  <2>3. posted' \in Postings
    <3>1. call[m].channel \in Channels
      BY <1>4 DEF Execute, TaskShape, CallShape
    <3> QED
      BY <1>4, <3>1, OnePosting DEF Execute
  <2> QED
    BY <1>4, <2>1, <2>2, <2>3 DEF Execute
<1> QED
  BY <1>1, <1>2, <1>3, <1>4 DEF RelayStep

LEMMA EventKeepsTypes ==
  ASSUME TypeOK, NEW x \in Messages, EventStep(x) PROVE TypeOK'
<1> USE DEF TypeOK, Becomes, Events, EventStages, EventEnds
<1>1. CASE Dispatch(x)
  BY <1>1 DEF Dispatch
<1>2. CASE Lookup(x)
  BY <1>2, FetchedRemotes DEF Lookup
<1>3. CASE Send(x)
  BY <1>3 DEF Send
<1> QED
  BY <1>1, <1>2, <1>3 DEF EventStep

LEMMA TypeStep == TypeOK /\ TaskShape /\ [Next]_vars => TypeOK'
<1> SUFFICES ASSUME TypeOK, TaskShape, [Next]_vars PROVE TypeOK'
  OBVIOUS
<1> USE BridgeAssumption DEF TypeOK
<1>1. CASE UNCHANGED vars
  BY <1>1 DEF vars
<1>2. ASSUME NEW c \in Channels, NEW id \in RemoteIds, Link(c, id) PROVE TypeOK'
  BY <1>2, RouteIsRow DEF Link, Linked
<1>3. ASSUME NEW c \in Channels, Unlink(c) PROVE TypeOK'
  BY <1>3 DEF Unlink, Unlinked
<1>4. ASSUME NEW m \in Inbound, NEW id \in RemoteIds, NEW blank \in BOOLEAN,
             Deliver(m, id, blank)
      PROVE  TypeOK'
  <2>1. [UnsentCall EXCEPT !.stage = "route", !.remote = Trimmed(id),
                           !.blank = blank] \in Calls
    BY TrimmedId DEF UnsentCall, Calls, RelayStages
  <2> QED
    BY <1>4, <2>1 DEF Deliver
<1>5. ASSUME NEW m \in Inbound, RelayStep(m) PROVE TypeOK'
  BY <1>5, RelayKeepsTypes
<1>6. ASSUME NEW x \in Outbound, NEW c \in Channels, NEW webhook \in BOOLEAN,
             NEW blank \in BOOLEAN, NEW author \in Authors,
             Post(x, c, webhook, author, blank)
      PROVE  TypeOK'
  BY <1>6 DEF Post, Messages, Events, EventStages
<1>7. ASSUME NEW x \in Messages, EventStep(x) PROVE TypeOK'
  BY <1>7, EventKeepsTypes
<1>8. ASSUME NEW c \in Channels, NEW h \in Inbound, DeleteManaged(c, h) PROVE TypeOK'
  BY <1>8 DEF DeleteManaged
<1>9. ASSUME NEW c \in Channels, AddOther(c) PROVE TypeOK'
  BY <1>9, RoomLeft DEF AddOther
<1>10. ASSUME NEW c \in Channels, DeleteOther(c) PROVE TypeOK'
  BY <1>10 DEF DeleteOther
<1>11. CASE Restart
  BY <1>11 DEF Restart, Calls, Events, RelayEnds, EventEnds
<1> QED
  BY <1>1, <1>2, <1>3, <1>4, <1>5, <1>6, <1>7, <1>8, <1>9, <1>10, <1>11 DEF Next

-----------------------------------------------------------------------------
(* The shape of the tasks.                                                 *)

LEMMA ShapeInit == Init => TaskShape
  BY BridgeAssumption
  DEF Init, TaskShape, CallShape, EventShape, UnsentCall, UnsentEvent, Messages

LEMMA RelayKeepsShape ==
  ASSUME TypeOK, TaskShape, NEW m \in Inbound, RelayStep(m) PROVE TaskShape'
<1>1. call \in [Inbound -> Calls] /\ event \in [Messages -> Events]
  BY DEF TypeOK
<1>2. \A n \in Inbound : CallShape(n)
  BY DEF TaskShape
<1>3. \A n \in Inbound : CallShape(n)'
  <2>1. CASE RouteInbound(m)
    BY <1>1, <1>2, <2>1, FetchedChannels
    DEF RouteInbound, RouteFound, Ends, CallShape, Calls
  <2>2. CASE ListWebhooks(m)
    BY <1>1, <1>2, <2>2 DEF ListWebhooks, Ends, CallShape, Calls
  <2>3. CASE CreateWebhook(m)
    BY <1>1, <1>2, <2>3 DEF CreateWebhook, Ends, CallShape, Calls
  <2>4. CASE Execute(m)
    <3>1. call[m].channel \in Channels
      BY <1>2, <2>4 DEF Execute, CallShape
    <3>2. \A n \in Inbound \ {m} : posted'[n] = posted[n]
      BY <2>4, <3>1, OnePosting DEF Execute
    <3> QED
      BY <1>1, <1>2, <2>4, <3>2 DEF Execute, Ends, CallShape, Calls
  <2> QED
    BY <2>1, <2>2, <2>3, <2>4 DEF RelayStep
<1>4. \A x \in Messages : EventShape(x)'
  <2>1. CASE Execute(m)
    <3>1. call[m].channel \in Channels
      BY <1>2, <2>1 DEF Execute, CallShape
    <3>2. \/ event' = event
          \/ event' = [event EXCEPT ![m] = [UnsentEvent EXCEPT
               !.stage = "pending", !.channel = call[m].channel, !.webhook = TRUE,
               !.author = "bot"]]
      BY <2>1 DEF Execute
    <3>3. CASE event' = event
      BY <3>3 DEF TaskShape, EventShape
    <3>4. CASE event' = [event EXCEPT ![m] = [UnsentEvent EXCEPT
                 !.stage = "pending", !.channel = call[m].channel, !.webhook = TRUE,
                 !.author = "bot"]]
      <4>1. \A x \in Messages : x # m => event'[x] = event[x]
        BY <1>1, <3>4
      <4>2. EventShape(m)'
        <5>1. event'[m] = [UnsentEvent EXCEPT
                !.stage = "pending", !.channel = call[m].channel, !.webhook = TRUE,
                !.author = "bot"]
          BY <1>1, <3>4 DEF Messages
        <5>2. /\ event'[m].stage = "pending" /\ event'[m].channel = call[m].channel
              /\ event'[m].remote = None
          BY <5>1 DEF UnsentEvent
        <5> QED BY <3>1, <5>2 DEF EventShape
      <4>3. ASSUME NEW x \in Messages, x # m PROVE EventShape(x)'
        BY <4>1, <4>3 DEF TaskShape, EventShape
      <4> QED BY <4>2, <4>3
    <3> QED BY <3>2, <3>3, <3>4
  <2>2. CASE UNCHANGED event
    BY <2>2 DEF TaskShape, EventShape
  <2> QED
    BY <2>1, <2>2 DEF RelayStep, RouteInbound, ListWebhooks, CreateWebhook
<1> QED
  BY <1>3, <1>4 DEF TaskShape

LEMMA EventKeepsShape ==
  ASSUME TypeOK, TaskShape, NEW x \in Messages, EventStep(x) PROVE TaskShape'
<1>1. UNCHANGED <<call, posted>>
  BY DEF EventStep, Dispatch, Lookup, Send
<1>2. event \in [Messages -> Events]
  BY DEF TypeOK
<1>3. \A y \in Messages : EventShape(y)'
  BY <1>2, FetchedRemotes
  DEF EventStep, Dispatch, Lookup, Send, Becomes, TaskShape, EventShape, Events
<1> QED
  BY <1>1, <1>3 DEF TaskShape, CallShape

LEMMA ShapeStep == TypeOK /\ TaskShape /\ [Next]_vars => TaskShape'
<1> SUFFICES ASSUME TypeOK, TaskShape, [Next]_vars PROVE TaskShape'
  OBVIOUS
<1>1. CASE UNCHANGED <<call, posted, event>>
  BY <1>1 DEF TaskShape, CallShape, EventShape
<1>2. ASSUME NEW m \in Inbound, NEW id \in RemoteIds, NEW blank \in BOOLEAN,
             Deliver(m, id, blank)
      PROVE  TaskShape'
  <2>1. UNCHANGED <<posted, event>>
    BY <1>2 DEF Deliver
  <2>2. call \in [Inbound -> Calls]
    BY DEF TypeOK
  <2>3. posted[m] = <<>>
    BY <1>2 DEF Deliver, TaskShape, CallShape
  <2>4. \A n \in Inbound : CallShape(n)'
    BY <1>2, <2>1, <2>2, <2>3, TrimmedId DEF Deliver, UnsentCall, TaskShape, CallShape
  <2> QED
    BY <2>1, <2>4 DEF TaskShape, EventShape
<1>3. ASSUME NEW m \in Inbound, RelayStep(m) PROVE TaskShape'
  BY <1>3, RelayKeepsShape
<1>4. ASSUME NEW x \in Outbound, NEW c \in Channels, NEW webhook \in BOOLEAN,
             NEW blank \in BOOLEAN, NEW author \in Authors,
             Post(x, c, webhook, author, blank)
      PROVE  TaskShape'
  BY <1>4 DEF Post, TypeOK, TaskShape, CallShape, EventShape, Messages
<1>5. ASSUME NEW x \in Messages, EventStep(x) PROVE TaskShape'
  BY <1>5, EventKeepsShape
<1>6. CASE Restart
  BY <1>6 DEF Restart, TypeOK, Calls, Events, RelayStages, EventStages, TaskShape,
              CallShape, EventShape
<1> QED
  BY <1>1, <1>2, <1>3, <1>4, <1>5, <1>6
  DEF Next, vars, Link, Unlink, DeleteManaged, AddOther, DeleteOther

-----------------------------------------------------------------------------
(* The table.                                                              *)

LEMMA TableInit == Init => TableInOrder
  BY RoutesAssumption DEF Init, TableInOrder, Consistent, KnownPlatform

LEMMA TableStep == TableInOrder /\ [Next]_vars => TableInOrder'
<1> SUFFICES ASSUME TableInOrder, [Next]_vars PROVE TableInOrder'
  OBVIOUS
<1>1. CASE UNCHANGED routes
  BY <1>1 DEF TableInOrder, Consistent
<1>2. ASSUME NEW c \in Channels, NEW id \in RemoteIds, Link(c, id)
      PROVE  TableInOrder'
  <2> DEFINE row == Route(c, Telegram, Trimmed(id))
  <2>1. row.guild = GuildOf[row.channel] /\ row.remote.padded = FALSE
    BY TrimmedId DEF Route
  <2>2. CASE Conflicts(routes, row)
    BY <1>1, <1>2, <2>2 DEF Link, Linked
  <2>3. CASE ~Conflicts(routes, row)
    <3>1. routes' = routes \cup {row}
      BY <1>2, <2>3 DEF Link, Linked
    <3>2. \A r \in routes : ~(SameKey(r, row) \/ SameRemote(r, row)
                               \/ SameKey(row, r) \/ SameRemote(row, r))
      BY <2>3 DEF Conflicts, SameKey, SameRemote
    <3> HIDE DEF row
    <3>3. Consistent(routes)'
      BY <3>1, <3>2 DEF TableInOrder, Consistent
    <3> QED
      BY <2>1, <3>1, <3>3 DEF TableInOrder
  <2> QED
    BY <2>2, <2>3
<1>3. ASSUME NEW c \in Channels, Unlink(c) PROVE TableInOrder'
  BY <1>3 DEF Unlink, Unlinked, TableInOrder, Consistent
<1> QED
  BY <1>1, <1>2, <1>3
  DEF Next, vars, RelayStep, EventStep, Deliver, RouteInbound, ListWebhooks,
      CreateWebhook, Execute, Post, Dispatch, Lookup, Send, DeleteManaged, AddOther,
      DeleteOther, Restart

-----------------------------------------------------------------------------
(* The two guards.                                                         *)

LEMMA GuardsInit == Init => GuardsHold
  BY BridgeAssumption
  DEF Init, GuardsHold, BlankStops, GateHolds, UnsentCall, UnsentEvent, Messages

LEMMA RelayKeepsGuards ==
  ASSUME TypeOK, TaskShape, GuardsHold, NEW m \in Inbound, RelayStep(m)
  PROVE  GuardsHold'
<1>1. call \in [Inbound -> Calls] /\ event \in [Messages -> Events]
  BY DEF TypeOK
<1>2. \A n \in Inbound : BlankStops(n)
  BY DEF GuardsHold
<1>3. \A n \in Inbound : BlankStops(n)'
  <2>1. CASE RouteInbound(m)
    BY <1>1, <1>2, <2>1 DEF RouteInbound, RouteFound, Ends, BlankStops, Calls
  <2>2. CASE ListWebhooks(m)
    BY <1>1, <1>2, <2>2 DEF ListWebhooks, Ends, BlankStops, Calls
  <2>3. CASE CreateWebhook(m)
    <3>1. hooks \in [Channels -> SUBSET Inbound]
      BY DEF TypeOK
    <3>2. ~call[m].blank /\ call'[m].stage # "unsent" /\ ~call'[m].blank
      BY <1>1, <1>2, <2>3 DEF CreateWebhook, Ends, BlankStops, Calls
    <3>3. \A c \in Channels : hooks'[c] \subseteq hooks[c] \cup {m}
      BY <2>3, <3>1 DEF CreateWebhook
    <3>4. \A n \in Inbound \ {m} : call'[n] = call[n]
      BY <1>1, <2>3 DEF CreateWebhook, Ends
    <3> QED
      BY <1>2, <2>3, <3>2, <3>3, <3>4 DEF BlankStops, CreateWebhook
  <2>4. CASE Execute(m)
    <3>1. call[m].channel \in Channels /\ ~call[m].blank
      BY <1>2, <2>4 DEF Execute, TaskShape, CallShape, BlankStops
    <3>2. \A n \in Inbound \ {m} : posted'[n] = posted[n]
      BY <2>4, <3>1, OnePosting DEF Execute
    <3> QED
      BY <1>1, <1>2, <2>4, <3>1, <3>2 DEF Execute, Ends, BlankStops, Calls
  <2> QED
    BY <2>1, <2>2, <2>3, <2>4 DEF RelayStep
<1>4. \A x \in Messages : GateHolds(x)'
  <2>1. CASE Execute(m)
    BY <1>1, <2>1 DEF Execute, GuardsHold, GateHolds, ShouldRelay, UnsentEvent
  <2>2. CASE UNCHANGED event
    BY <2>2 DEF GuardsHold, GateHolds, ShouldRelay
  <2> QED
    BY <2>1, <2>2 DEF RelayStep, RouteInbound, ListWebhooks, CreateWebhook
<1> QED
  BY <1>3, <1>4 DEF GuardsHold

LEMMA GuardsStep == TypeOK /\ TaskShape /\ GuardsHold /\ [Next]_vars => GuardsHold'
<1> SUFFICES ASSUME TypeOK, TaskShape, GuardsHold, [Next]_vars PROVE GuardsHold'
  OBVIOUS
<1> USE DEF GuardsHold
<1>1. call \in [Inbound -> Calls] /\ event \in [Messages -> Events]
  BY DEF TypeOK
<1>2. CASE UNCHANGED <<hooks, call, posted, event>>
  BY <1>2 DEF BlankStops, GateHolds, ShouldRelay
<1>3. ASSUME NEW m \in Inbound, NEW id \in RemoteIds, NEW blank \in BOOLEAN,
             Deliver(m, id, blank)
      PROVE  GuardsHold'
  <2>1. \A n \in Inbound : BlankStops(n)'
    BY <1>1, <1>3 DEF Deliver, UnsentCall, BlankStops
  <2> QED
    BY <1>3, <2>1 DEF Deliver, GateHolds, ShouldRelay
<1>4. ASSUME NEW m \in Inbound, RelayStep(m) PROVE GuardsHold'
  BY <1>4, RelayKeepsGuards
<1>5. ASSUME NEW x \in Outbound, NEW c \in Channels, NEW webhook \in BOOLEAN,
             NEW blank \in BOOLEAN, NEW author \in Authors,
             Post(x, c, webhook, author, blank)
      PROVE  GuardsHold'
  BY <1>1, <1>5, BridgeAssumption DEF Post, BlankStops, GateHolds, ShouldRelay, Messages
<1>6. ASSUME NEW x \in Messages, EventStep(x) PROVE GuardsHold'
  <2>1. UNCHANGED <<hooks, call, posted>>
    BY <1>6 DEF EventStep, Dispatch, Lookup, Send
  <2>2. \A y \in Messages : GateHolds(y)'
    BY <1>1, <1>6
    DEF EventStep, Dispatch, Lookup, Send, Becomes, GateHolds, ShouldRelay, Events
  <2> QED
    BY <2>1, <2>2 DEF BlankStops
<1>7. ASSUME NEW c \in Channels, NEW h \in Inbound, DeleteManaged(c, h)
      PROVE  GuardsHold'
  BY <1>7 DEF DeleteManaged, TypeOK, BlankStops, GateHolds, ShouldRelay
<1>8. CASE Restart
  BY <1>1, <1>8
  DEF Restart, Calls, Events, RelayStages, EventStages, BlankStops, GateHolds, ShouldRelay
<1> QED
  BY <1>2, <1>3, <1>4, <1>5, <1>6, <1>7, <1>8
  DEF Next, vars, Link, Unlink, AddOther, DeleteOther

-----------------------------------------------------------------------------
(* The invariant, and what follows from it.                                *)

THEOREM Invariance == Spec => []IndInv
<1>1. Init => IndInv
  BY TypeInit, ShapeInit, TableInit, GuardsInit DEF IndInv
<1>2. IndInv /\ [Next]_vars => IndInv'
  BY TypeStep, ShapeStep, TableStep, GuardsStep DEF IndInv
<1> QED
  BY <1>1, <1>2, PTL DEF Spec

(* Every variable keeps its type: in particular no handler ever runs on    *)
(* with a channel or a remote id it did not get from the table.            *)
THEOREM TypeCorrect == Spec => []TypeOK
<1>1. IndInv => TypeOK
  BY DEF IndInv
<1> QED
  BY <1>1, Invariance, PTL

(* The rows of this version are one to one between channels and chats.     *)
LEMMA OneToOne ==
  ASSUME TypeOK, TableInOrder,
         NEW r \in routes, NEW q \in routes, r.platform = Telegram, q.platform = Telegram
  PROVE  /\ r.channel = q.channel => r = q
         /\ r.remote.chat = q.remote.chat => r = q
<1>1. r.channel = q.channel => SameKey(r, q)
  BY DEF TableInOrder, SameKey
<1>2. r.remote.chat = q.remote.chat => SameRemote(r, q)
  <2>1. r.remote \in RemoteIds /\ q.remote \in RemoteIds
    BY DEF TypeOK, Rows
  <2> QED
    BY <2>1 DEF TableInOrder, SameRemote, RemoteIds
<1> QED
  BY <1>1, <1>2 DEF TableInOrder, Consistent

(* A row of this version is the lowest of its channel.                     *)
LEMMA TelegramFirst ==
  ASSUME TypeOK, NEW c, NEW id
  PROVE  id \in FetchByChannel(routes, c) <=>
           \E r \in routes : r.platform = Telegram /\ r.channel = c /\ r.remote = id
  BY RoutesAssumption DEF TypeOK, Rows, FetchByChannel, LowestRows, KnownPlatform, Telegram

(* Inbound lookups, outbound lookups and /proxy list agree on a one-to-one *)
(* relation between channels and chats, whatever the interleaving of links *)
(* and unlinks and whatever rows another version left.                     *)
THEOREM RoutesAlwaysAgree == Spec => []RoutesAgree
<1>1. ASSUME TypeOK, TableInOrder PROVE RoutesAgree
  <2>1. \A c \in Channels, id \in RemoteIds :
          c \in FetchByRemote(routes, Telegram, id) <=> id \in FetchByChannel(routes, c)
    BY <1>1, TelegramFirst DEF FetchByRemote
  <2>2. \A c \in Channels :
          FetchByChannel(routes, c) =
            {r.remote : r \in {q \in ListRoutes(routes, GuildOf[c]) : q.channel = c}}
    BY <1>1, TelegramFirst DEF ListRoutes, KnownPlatform, TableInOrder
  <2>3. ASSUME NEW c \in Channels, NEW d \in Channels,
               NEW i \in FetchByChannel(routes, c), NEW j \in FetchByChannel(routes, d)
        PROVE  c = d <=> i.chat = j.chat
    <3>1. PICK r \in routes : r.platform = Telegram /\ r.channel = c /\ r.remote = i
      BY <1>1, TelegramFirst
    <3>2. PICK q \in routes : q.platform = Telegram /\ q.channel = d /\ q.remote = j
      BY <1>1, TelegramFirst
    <3> QED
      BY <1>1, <3>1, <3>2, OneToOne
  <2> QED
    BY <2>1, <2>2, <2>3 DEF RoutesAgree
<1>2. IndInv => RoutesAgree
  BY <1>1 DEF IndInv
<1> QED
  BY <1>2, Invariance, PTL

(* Nothing the bot put into Discord itself is ever on its way out.         *)
THEOREM NoEchoEver == Spec => []NoEcho
<1>1. IndInv => NoEcho
  BY DEF IndInv, GuardsHold, GateHolds, ShouldRelay, NoEcho
<1> QED
  BY <1>1, Invariance, PTL

(* A delivery with nothing to say leaves no message and no webhook.        *)
THEOREM BlankNeverShows == Spec => []BlankLeavesNoTrace
<1>1. IndInv => BlankLeavesNoTrace
  BY DEF IndInv, GuardsHold, BlankStops, BlankLeavesNoTrace
<1> QED
  BY <1>1, Invariance, PTL

-----------------------------------------------------------------------------
(* Managed webhooks.                                                       *)

(* Only two steps touch what DuplicatesStop looks at: a list that finds no *)
(* managed webhook may begin a creation, a creation may make a webhook.    *)
LEMMA NoFurtherWebhook ==
  ASSUME IndInv, [Next]_vars, NEW c \in Channels, hooks[c] # {}, Creating(c) = {}
  PROVE  Creating(c)' = {} /\ hooks'[c] \subseteq hooks[c]
<1> USE DEF Creating
<1>1. call \in [Inbound -> Calls] /\ hooks \in [Channels -> SUBSET Inbound]
  BY DEF IndInv, TypeOK
<1>2. CASE UNCHANGED <<call, hooks>>
  BY <1>2
<1>3. ASSUME NEW m \in Inbound, NEW id \in RemoteIds, NEW blank \in BOOLEAN,
             Deliver(m, id, blank)
      PROVE  Creating(c)' = {} /\ hooks'[c] \subseteq hooks[c]
  BY <1>1, <1>3 DEF Deliver, UnsentCall
<1>4. ASSUME NEW m \in Inbound, RouteInbound(m)
      PROVE  Creating(c)' = {} /\ hooks'[c] \subseteq hooks[c]
  BY <1>1, <1>4 DEF RouteInbound, RouteFound, Ends, Calls
<1>5. ASSUME NEW m \in Inbound, ListWebhooks(m)
      PROVE  Creating(c)' = {} /\ hooks'[c] \subseteq hooks[c]
  BY <1>1, <1>5 DEF ListWebhooks, Ends, Calls
<1>6. ASSUME NEW m \in Inbound, CreateWebhook(m)
      PROVE  Creating(c)' = {} /\ hooks'[c] \subseteq hooks[c]
  <2>1. call[m].channel # c
    BY <1>6 DEF CreateWebhook
  <2> QED
    BY <1>1, <1>6, <2>1 DEF CreateWebhook, Ends, Calls
<1>7. ASSUME NEW m \in Inbound, Execute(m)
      PROVE  Creating(c)' = {} /\ hooks'[c] \subseteq hooks[c]
  BY <1>1, <1>7 DEF Execute, Ends, Calls
<1>8. ASSUME NEW d \in Channels, NEW h \in Inbound, DeleteManaged(d, h)
      PROVE  Creating(c)' = {} /\ hooks'[c] \subseteq hooks[c]
  BY <1>1, <1>8 DEF DeleteManaged
<1>9. CASE Restart
  BY <1>1, <1>9 DEF Restart, Calls
<1> QED
  BY <1>2, <1>3, <1>4, <1>5, <1>6, <1>7, <1>8, <1>9
  DEF Next, vars, RelayStep, EventStep, Link, Unlink, AddOther, DeleteOther, Post,
      Dispatch, Lookup, Send

(* Concurrent first deliveries may leave duplicates in a channel, but once *)
(* they are over the channel never gets another managed webhook while it   *)
(* has one.                                                                *)
THEOREM DuplicatesDoStop == Spec => DuplicatesStop
<1>1. IndInv /\ [Next]_vars =>
        [\A c \in Channels :
           hooks[c] # {} /\ Creating(c) = {} =>
             Creating(c)' = {} /\ hooks'[c] \subseteq hooks[c]]_vars
  BY NoFurtherWebhook
<1> QED
  BY <1>1, Invariance, PTL DEF Spec, DuplicatesStop

(* Serially, whoever is about to create knows the channel is still empty.  *)
SerialInv ==
  /\ IndInv
  /\ OneAtATime
  /\ OneManagedWebhook
  /\ \A m \in Inbound : call[m].stage = "create" => hooks[call[m].channel] = {}

LEMMA SerialStep ==
  ASSUME SerialInv, [Next /\ OneAtATime']_vars PROVE SerialInv'
<1>0. IndInv' /\ OneAtATime'
  <2>1. [Next]_vars
    OBVIOUS
  <2>2. IndInv'
    BY <2>1, TypeStep, ShapeStep, TableStep, GuardsStep DEF SerialInv, IndInv
  <2>3. OneAtATime'
    BY DEF SerialInv, vars, OneAtATime, Running
  <2> QED
    BY <2>2, <2>3
<1>1. call \in [Inbound -> Calls] /\ hooks \in [Channels -> SUBSET Inbound]
  BY DEF SerialInv, IndInv, TypeOK
<1>2. \A m \in Inbound : call[m].stage = "create" => call[m].channel \in Channels
  BY DEF SerialInv, IndInv, TaskShape, CallShape
<1> DEFINE Empty(m) == call[m].stage = "create" => hooks[call[m].channel] = {}
           Goal == OneManagedWebhook' /\ \A m \in Inbound : Empty(m)'
<1> USE DEF SerialInv, OneManagedWebhook
<1>3. ASSUME UNCHANGED <<call, hooks>> PROVE Goal
  BY <1>3
<1>4. ASSUME NEW m \in Inbound, NEW id \in RemoteIds, NEW blank \in BOOLEAN,
             Deliver(m, id, blank)
      PROVE  Goal
  BY <1>1, <1>4 DEF Deliver, UnsentCall
<1>5. ASSUME NEW m \in Inbound, RouteInbound(m) PROVE Goal
  BY <1>1, <1>5 DEF RouteInbound, RouteFound, Ends, Calls
<1>6. ASSUME NEW m \in Inbound, ListWebhooks(m) PROVE Goal
  BY <1>1, <1>6 DEF ListWebhooks, Ends, Calls
<1>7. ASSUME NEW m \in Inbound, CreateWebhook(m) PROVE Goal
  <2>1. call[m].stage = "create" /\ hooks[call[m].channel] = {}
    BY <1>7 DEF CreateWebhook
  <2>2. \A n \in Inbound : call'[n].stage # "create"
    <3>1. \A n \in Inbound \ {m} : call[n].stage # "create"
      BY <2>1 DEF OneAtATime, Running, RelayStages
    <3> QED
      BY <1>1, <1>7, <3>1 DEF CreateWebhook, Ends, Calls
  <2>3. \A c \in Channels : hooks'[c] \subseteq hooks[c] \/ hooks'[c] = {m}
    BY <1>1, <1>7, <2>1 DEF CreateWebhook
  <2> QED
    BY <2>2, <2>3
<1>8. ASSUME NEW m \in Inbound, Execute(m) PROVE Goal
  BY <1>1, <1>8 DEF Execute, Ends, Calls
<1>9. ASSUME NEW d \in Channels, NEW h \in Inbound, DeleteManaged(d, h) PROVE Goal
  BY <1>1, <1>2, <1>9 DEF DeleteManaged
<1>10. ASSUME Restart PROVE Goal
  BY <1>1, <1>10 DEF Restart, Calls, RelayStages
<1>11. Goal
  BY <1>3, <1>4, <1>5, <1>6, <1>7, <1>8, <1>9, <1>10
  DEF Next, vars, RelayStep, EventStep, Link, Unlink, AddOther, DeleteOther, Post,
      Dispatch, Lookup, Send
<1> QED
  BY <1>0, <1>11

(* Deliveries that come one at a time never leave two managed webhooks in  *)
(* a channel, even when the answer to a creation is lost, webhooks are     *)
(* deleted and the process restarts.                                       *)
THEOREM SerialNeverDuplicates == SerialSpec => []OneManagedWebhook
<1>1. Init => SerialInv
  <2>1. Init => IndInv
    BY TypeInit, ShapeInit, TableInit, GuardsInit DEF IndInv
  <2> QED
    BY <2>1 DEF Init, SerialInv, OneAtATime, OneManagedWebhook, Running, RelayStages,
                UnsentCall
<1>2. SerialInv /\ [Next /\ OneAtATime']_vars => SerialInv'
  BY SerialStep
<1>3. SerialInv => OneManagedWebhook
  BY DEF SerialInv
<1> QED
  BY <1>1, <1>2, <1>3, PTL DEF SerialSpec

-----------------------------------------------------------------------------
(* The bridge keeps the promise of RelayPromise.                           *)

(* A chat's partners are what the inbound lookup finds, a channel's what   *)
(* the outbound lookup finds.                                              *)
LEMMA ChatPartners ==
  ASSUME TypeOK, TableInOrder, NEW id \in RemoteIds, id.padded = FALSE
  PROVE  Relay!Partners(id.chat) = FetchByRemote(routes, Telegram, id)
<1> USE RoutesAssumption, BridgeAssumption
<1>1. id.chat \in Chats /\ id.chat \notin Channels
  BY DEF RemoteIds
<1>2. \A r \in routes : r.channel \in Channels /\ r.remote \in RemoteIds
  BY DEF TypeOK, Rows
<1>3. {s \in Chats : <<id.chat, s>> \in Links} = {}
  BY <1>1, <1>2 DEF Links
<1>4. \A r \in routes : r.platform = Telegram /\ r.remote.chat = id.chat => r.remote = id
  BY <1>2 DEF TableInOrder, RemoteIds
<1>5. {c \in Channels : <<c, id.chat>> \in Links} = FetchByRemote(routes, Telegram, id)
  BY <1>2, <1>4 DEF Links, FetchByRemote
<1> QED
  BY <1>3, <1>5 DEF Relay!Partners

LEMMA ChannelPartners ==
  ASSUME TypeOK, NEW c \in Channels
  PROVE  Relay!Partners(c) = {id.chat : id \in FetchByChannel(routes, c)}
<1> USE RoutesAssumption, BridgeAssumption
<1>1. \A r \in routes : r.channel \in Channels /\ r.remote \in RemoteIds
  BY DEF TypeOK, Rows
<1>2. \A r \in routes : r.remote.chat \in Chats
  BY <1>1 DEF RemoteIds
<1>3. {d \in Channels : <<d, c>> \in Links} = {}
  BY <1>2 DEF Links
<1>4. {s \in Chats : <<c, s>> \in Links} = {id.chat : id \in FetchByChannel(routes, c)}
  BY <1>1, <1>2, TelegramFirst DEF Links
<1> QED
  BY <1>3, <1>4 DEF Relay!Partners

LEMMA LinkKept ==
  ASSUME TypeOK, TableInOrder, NEW c \in Channels, NEW id \in RemoteIds, Link(c, id)
  PROVE  (\E s \in Chats : Relay!AddLink(c, s)) \/ UNCHANGED <<Links, Fates, Shown, Unfit>>
<1> DEFINE key == Trimmed(id)
           row == Route(c, Telegram, key)
<1>1. UNCHANGED <<Fates, Shown, Unfit>>
  BY DEF Link, Fates, InboundFate, OutboundFate, Unfit, Shown
<1>2. key \in RemoteIds /\ key.padded = FALSE /\ key.chat \in Chats
  BY TrimmedId DEF RemoteIds
<1>3. CASE Conflicts(routes, row)
  BY <1>1, <1>3 DEF Link, Linked, Links
<1>4. CASE ~Conflicts(routes, row)
  <2>1. Links' = Links \cup {<<c, key.chat>>}
    BY <1>4 DEF Link, Linked, Links, Route
  <2>2. FetchByRemote(routes, Telegram, key) = {}
    BY <1>4 DEF Conflicts, SameRemote, Route, FetchByRemote
  <2>3. FetchByChannel(routes, c) = {}
    BY <1>4, TelegramFirst DEF Conflicts, SameKey, Route, TableInOrder
  <2>4. Relay!Partners(key.chat) = {} /\ Relay!Partners(c) = {}
    BY <1>2, <2>2, <2>3, ChatPartners, ChannelPartners
  <2> QED
    BY <1>1, <1>2, <2>1, <2>4 DEF Relay!AddLink
<1> QED
  BY <1>3, <1>4

LEMMA UnlinkKept ==
  ASSUME TypeOK, TableInOrder, NEW c \in Channels, Unlink(c)
  PROVE  (\E s \in Chats : Relay!DropLink(c, s)) \/ UNCHANGED <<Links, Fates, Shown, Unfit>>
<1>1. UNCHANGED <<Fates, Shown, Unfit>>
  BY DEF Unlink, Fates, InboundFate, OutboundFate, Unfit, Shown
<1>2. routes' = {r \in routes : ~(r.platform = Telegram /\ r.channel = c)}
  BY DEF Unlink, Unlinked, TableInOrder
<1>3. CASE \E r \in routes : r.platform = Telegram /\ r.channel = c
  <2>1. PICK r \in routes : r.platform = Telegram /\ r.channel = c
    BY <1>3
  <2>2. r.remote.chat \in Chats
    BY DEF TypeOK, Rows, RemoteIds
  <2>3. \A q \in routes : q.platform = Telegram /\ q.channel = c => q = r
    BY <2>1, OneToOne
  <2>4. Links' = Links \ {<<c, r.remote.chat>>}
    BY <1>2, <2>1, <2>3 DEF Links
  <2>5. <<c, r.remote.chat>> \in Links
    BY <2>1 DEF Links
  <2> QED
    BY <1>1, <2>2, <2>4, <2>5 DEF Relay!DropLink
<1>4. CASE ~\E r \in routes : r.platform = Telegram /\ r.channel = c
  BY <1>1, <1>2, <1>4 DEF Links
<1> QED
  BY <1>3, <1>4

(* A step of one message changes the fate of that message alone.           *)
LEMMA OneInbound ==
  ASSUME NEW m \in Inbound,
         \A n \in Inbound \ {m} : call'[n] = call[n] /\ posted'[n] = posted[n],
         \A x \in Outbound : event'[x] = event[x]
  PROVE  /\ Fates[m] = InboundFate(m)
         /\ Fates' = [Fates EXCEPT ![m] = InboundFate(m)']
<1>1. m \in Messages /\ Fates[m] = InboundFate(m)
  BY DEF Messages, Fates
<1>2. \A n \in Inbound \ {m} : InboundFate(n)' = InboundFate(n)
  BY DEF InboundFate
<1>3. \A x \in Outbound : OutboundFate(x)' = OutboundFate(x)
  BY DEF OutboundFate
<1> QED
  BY <1>1, <1>2, <1>3 DEF Fates, Messages

LEMMA OneOutbound ==
  ASSUME NEW x \in Outbound, UNCHANGED <<call, posted>>,
         \A y \in Outbound \ {x} : event'[y] = event[y]
  PROVE  /\ Fates[x] = OutboundFate(x)
         /\ Fates' = [Fates EXCEPT ![x] = OutboundFate(x)']
<1>1. x \in Messages /\ x \notin Inbound /\ Fates[x] = OutboundFate(x)
  BY BridgeAssumption DEF Messages, Fates
<1>2. \A n \in Inbound : InboundFate(n)' = InboundFate(n)
  BY DEF InboundFate
<1>3. \A y \in Outbound \ {x} : OutboundFate(y)' = OutboundFate(y)
  BY DEF OutboundFate
<1> QED
  BY <1>1, <1>2, <1>3 DEF Fates, Messages

(* Only a step that posts or sends shows a message.                        *)
LEMMA NothingShown ==
  ASSUME UNCHANGED posted,
         \A x \in Outbound :
           /\ event'[x].stage = "sent" <=> event[x].stage = "sent"
           /\ event[x].stage = "sent" => event'[x].remote = event[x].remote
  PROVE  UNCHANGED Shown
<1>1. \A x \in Messages : Shown'[x] = Shown[x]
  BY DEF Shown, Messages
<1> QED
  BY <1>1 DEF Shown

(* What settling and binding one message are.                              *)
LEMMA SettleOne ==
  ASSUME NEW m \in Messages, NEW here, NEW there, NEW from, NEW to,
         Fates[m] = [at |-> here, from |-> from, to |-> to],
         Fates' = [Fates EXCEPT ![m] = [at |-> there, from |-> from, to |-> to]],
         UNCHANGED <<Links, Unfit>>
  PROVE  Relay!Settle(m, there)
<1>1. [at |-> there, from |-> from, to |-> to] = [Fates[m] EXCEPT !.at = there]
  OBVIOUS
<1> QED
  BY <1>1 DEF Relay!Settle

LEMMA BindOne ==
  ASSUME NEW m \in Messages, NEW from, NEW to,
         Fates[m] = [at |-> "arrived", from |-> from, to |-> None],
         Fates' = [Fates EXCEPT ![m] = [at |-> "bound", from |-> from, to |-> to]],
         m \notin Unfit, to \in Relay!Partners(from), UNCHANGED <<Links, Shown, Unfit>>
  PROVE  Relay!Bind(m)
<1>1. Fates[m].at = "arrived" /\ Fates[m].from = from
  OBVIOUS
<1>2. to \in Relay!Partners(Fates[m].from)
  BY <1>1
<1> QED
  BY <1>1, <1>2 DEF Relay!Bind

LEMMA FailOne ==
  ASSUME NEW m \in Messages, Fates[m].at \in {"arrived", "bound"},
         Relay!Settle(m, "failed"), UNCHANGED Shown
  PROVE  \E failing \in SUBSET Messages : Relay!Fail(failing)
<1>1. Fates' = [n \in Messages |-> IF n \in {m} THEN [Fates[n] EXCEPT !.at = "failed"]
                                              ELSE Fates[n]]
  BY DEF Fates, Relay!Settle
<1>2. Relay!Fail({m})
  BY <1>1 DEF Relay!Fail, Relay!Settle
<1> QED
  BY <1>2

LEMMA DeliverKept ==
  ASSUME IndInv, NEW m \in Inbound, NEW id \in RemoteIds, NEW blank \in BOOLEAN,
         Deliver(m, id, blank)
  PROVE  Relay!Arrive(m)
<1>1. call \in [Inbound -> Calls]
  BY DEF IndInv, TypeOK
<1>2. Fates[m] = InboundFate(m) /\ Fates' = [Fates EXCEPT ![m] = InboundFate(m)']
  BY <1>1, OneInbound DEF Deliver
<1>3. posted[m] = <<>> /\ ~call[m].blank
  BY DEF IndInv, TaskShape, CallShape, GuardsHold, BlankStops, Deliver
<1>4. InboundFate(m).at = "unsent"
  BY <1>3 DEF Deliver, InboundFate
<1>5. call'[m] = [stage |-> "route", remote |-> Trimmed(id), blank |-> blank,
                  channel |-> None, hook |-> None]
  BY <1>1 DEF Deliver, UnsentCall
<1>6. InboundFate(m)' = [at |-> "arrived", from |-> id.chat, to |-> None]
  <2>1. posted'[m] = <<>>
    BY <1>3 DEF Deliver
  <2>2. Trimmed(id).chat = id.chat
    BY DEF Trimmed, RemoteIds
  <2> QED
    BY <1>5, <2>1, <2>2 DEF InboundFate
<1>7. Unfit' \in {Unfit, Unfit \cup {m}}
  <2>1. \A n \in Inbound \ {m} : call'[n] = call[n]
    BY <1>1 DEF Deliver
  <2>2. UNCHANGED event
    BY DEF Deliver
  <2>3. blank => Unfit' = Unfit \cup {m}
    BY <1>3, <1>5, <2>1, <2>2, BridgeAssumption DEF Unfit
  <2>4. ~blank => Unfit' = Unfit
    BY <1>3, <1>5, <2>1, <2>2, BridgeAssumption DEF Unfit
  <2> QED
    BY <2>3, <2>4
<1>8. id.chat \in Relay!Ends /\ UNCHANGED <<Links, Shown>>
  BY NothingShown DEF RemoteIds, Relay!Ends, Deliver, Links
<1> QED
  BY <1>2, <1>4, <1>6, <1>7, <1>8 DEF Relay!Arrive

LEMMA RouteKept ==
  ASSUME IndInv, NEW m \in Inbound, RouteInbound(m)
  PROVE  \/ Relay!Bind(m) \/ Relay!Dismiss(m) \/ Relay!Ignore(m)
         \/ \E failing \in SUBSET Messages : Relay!Fail(failing)
<1> DEFINE Fate(at, to) == [at |-> at, from |-> call[m].remote.chat, to |-> to]
<1>1. call \in [Inbound -> Calls] /\ call[m].stage = "route"
  BY DEF IndInv, TypeOK, RouteInbound
<1>2. m \in Messages /\ posted[m] = <<>> /\ posted'[m] = <<>> /\ call[m].channel = None
  BY DEF Messages, IndInv, TaskShape, CallShape, RouteInbound
<1>3. Fates[m] = InboundFate(m) /\ Fates' = [Fates EXCEPT ![m] = InboundFate(m)']
  BY <1>1, OneInbound DEF RouteInbound, RouteFound, Ends
<1>4. InboundFate(m) = Fate("arrived", None)
  BY <1>1, <1>2 DEF InboundFate
<1>5. Relay!Partners(call[m].remote.chat) = FetchByRemote(routes, Telegram, call[m].remote)
  BY <1>1, ChatPartners DEF IndInv, TaskShape, CallShape
<1>6. UNCHANGED <<Links, Shown, Unfit>>
  <2>1. \A n \in Inbound : call'[n].blank = call[n].blank
    BY <1>1 DEF RouteInbound, RouteFound, Ends, Calls
  <2>2. UNCHANGED Shown
    BY NothingShown DEF RouteInbound
  <2> QED
    BY <2>1, <2>2 DEF RouteInbound, Links, Unfit
<1>10. UNCHANGED <<Links, Unfit>>
  BY <1>6
<1>11. m \in Messages
  BY DEF Messages
<1>7. CASE RouteFound(m)
  <2>1. PICK c \in FetchByRemote(routes, Telegram, call[m].remote) :
          IF call[m].blank THEN Ends(m, "skipped")
          ELSE call' = [call EXCEPT ![m].stage = "list", ![m].channel = c]
    BY <1>7 DEF RouteFound
  <2>2. CASE call[m].blank
    <3>1. call'[m] = [call[m] EXCEPT !.stage = "skipped"]
      BY <1>1, <2>1, <2>2 DEF Ends
    <3>2. InboundFate(m)' = Fate("ignored", None)
      BY <1>1, <1>2, <3>1 DEF InboundFate, Calls
    <3>3. m \in Unfit
      BY <2>2 DEF Unfit
    <3>4. Relay!Ignore(m)
      <4>1. Relay!Settle(m, "ignored")
        BY <1>11, <1>3, <1>4, <1>10, <3>2, SettleOne
      <4> QED
        BY <1>3, <1>4, <1>6, <3>3, <4>1 DEF Relay!Ignore
    <3> QED
      BY <3>4
  <2>3. CASE ~call[m].blank
    <3>1. call'[m] = [call[m] EXCEPT !.stage = "list", !.channel = c]
      BY <1>1, <2>1, <2>3
    <3>2. InboundFate(m)' = Fate("bound", c)
      BY <1>1, <1>2, <3>1 DEF InboundFate, Calls
    <3>3. m \notin Unfit
      BY <2>3, BridgeAssumption DEF Unfit
    <3>4. Relay!Bind(m)
      BY <1>2, <1>3, <1>4, <1>5, <1>6, <3>2, <3>3, BindOne
    <3> QED
      BY <3>4
  <2> QED
    BY <2>2, <2>3
<1>8. CASE FetchByRemote(routes, Telegram, call[m].remote) = {} /\ Ends(m, "NoRouteForRemote")
  <2>1. call'[m] = [call[m] EXCEPT !.stage = "NoRouteForRemote"]
    BY <1>1, <1>8 DEF Ends
  <2>2. InboundFate(m)' = Fate("dismissed", None)
    BY <1>1, <1>2, <2>1 DEF InboundFate, Calls
  <2>3. Relay!Dismiss(m)
    <3>1. Relay!Settle(m, "dismissed")
      BY <1>11, <1>3, <1>4, <1>10, <2>2, SettleOne
    <3>2. Fates[m].at = "arrived" /\ Fates[m].from = call[m].remote.chat
      BY <1>3, <1>4
    <3>3. Relay!Partners(Fates[m].from) = {}
      BY <1>5, <1>8, <3>2
    <3> QED
      BY <1>6, <3>1, <3>2, <3>3 DEF Relay!Dismiss
  <2> QED
    BY <2>3
<1>9. CASE Ends(m, "error")
  <2>1. call'[m] = [call[m] EXCEPT !.stage = "error"]
    BY <1>1, <1>9 DEF Ends
  <2>2. InboundFate(m)' = Fate("failed", None)
    BY <1>1, <1>2, <2>1 DEF InboundFate, Calls
  <2>3. Relay!Settle(m, "failed")
    BY <1>11, <1>3, <1>4, <1>10, <2>2, SettleOne
  <2> QED
    BY <1>2, <1>3, <1>4, <1>6, <2>3, FailOne
<1> QED
  BY <1>7, <1>8, <1>9 DEF RouteInbound

(* Between the route and the end of a delivery every step keeps it bound,  *)
(* delivers it or fails it.                                                *)
LEMMA HttpKept ==
  ASSUME IndInv, NEW m \in Inbound, ListWebhooks(m) \/ CreateWebhook(m) \/ Execute(m)
  PROVE  \/ Relay!Deliver(m) \/ UNCHANGED <<Links, Fates, Shown, Unfit>>
         \/ \E failing \in SUBSET Messages : Relay!Fail(failing)
<1> DEFINE Fate(at) == [at |-> at, from |-> call[m].remote.chat, to |-> call[m].channel]
<1>1. call \in [Inbound -> Calls] /\ event \in [Messages -> Events]
  BY DEF IndInv, TypeOK
<1>1a. TypeOK /\ TaskShape
  BY DEF IndInv
<1>2. call[m].stage \in {"list", "create", "execute"}
  BY DEF ListWebhooks, CreateWebhook, Execute
<1>3. m \in Messages /\ posted[m] = <<>>
  BY <1>2 DEF Messages, IndInv, TaskShape, CallShape
<1>4. /\ \A n \in Inbound \ {m} : call'[n] = call[n]
      /\ call'[m].remote = call[m].remote
      /\ call'[m].channel = call[m].channel
      /\ call'[m].stage # "unsent"
      /\ \A n \in Inbound : call'[n].blank = call[n].blank
  BY <1>1 DEF ListWebhooks, CreateWebhook, Execute, Ends, Calls
<1>5. \A x \in Outbound : event'[x] = event[x]
  BY <1>1, BridgeAssumption DEF ListWebhooks, CreateWebhook, Execute, Messages
<1>6. /\ \A n \in Inbound \ {m} : posted'[n] = posted[n]
      /\ \/ UNCHANGED posted
         \/ /\ posted'[m] # <<>>
            /\ posted'[m] = Append(posted[m], call[m].channel)
  <2>1. call[m].channel \in Channels
    BY <1>2 DEF IndInv, TaskShape, CallShape
  <2>2. CASE UNCHANGED posted
    BY <2>2
  <2>3. CASE Posts(m, call[m].channel)
    BY <1>1a, <2>1, <2>3, OnePosting
  <2> QED
    BY <2>2, <2>3 DEF ListWebhooks, CreateWebhook, Execute
<1>7. \/ posted'[m] = <<>> /\ call'[m].stage \in {"create", "execute"}
      \/ posted'[m] = <<>> /\ call'[m].stage \in {"WebhookLimitReached", "error"}
      \/ posted'[m] # <<>>
  <2>1. CASE posted'[m] # <<>>
    BY <2>1
  <2>2. CASE posted'[m] = <<>>
    <3>1. ~Posts(m, call[m].channel)
      BY <1>1a, <1>2, <2>2, OnePosting DEF TaskShape, CallShape
    <3>2. CASE ListWebhooks(m)
      BY <1>1, <2>2, <3>2 DEF ListWebhooks, Ends, Calls
    <3>3. CASE CreateWebhook(m)
      BY <1>1, <2>2, <3>3 DEF CreateWebhook, Ends, Calls
    <3>4. CASE Execute(m)
      BY <1>1, <2>2, <3>1, <3>4 DEF Execute, Ends, Calls
    <3> QED
      BY <3>2, <3>3, <3>4
  <2> QED
    BY <2>1, <2>2
<1>8. Fates[m] = InboundFate(m) /\ Fates' = [Fates EXCEPT ![m] = InboundFate(m)']
  BY <1>4, <1>5, <1>6, OneInbound
<1>9. UNCHANGED <<Links, Unfit>>
  <2>1. UNCHANGED routes
    BY DEF ListWebhooks, CreateWebhook, Execute
  <2> QED
    BY <1>4, <1>5, <2>1 DEF Links, Unfit
<1>10. InboundFate(m) = Fate("bound")
  BY <1>2, <1>3 DEF InboundFate
<1>11. ASSUME posted'[m] = <<>> PROVE UNCHANGED Shown
  <2>1. \A x \in Messages : Shown'[x] = Shown[x]
    BY <1>3, <1>5, <1>6, <1>11 DEF Shown, Messages
  <2> QED
    BY <2>1 DEF Shown
<1>12. CASE posted'[m] = <<>> /\ call'[m].stage \in {"create", "execute"}
  <2>1. InboundFate(m)' = Fate("bound")
    BY <1>4, <1>12 DEF InboundFate
  <2>2. Fates' = Fates
    BY <1>8, <1>10, <2>1 DEF Fates
  <2> QED
    BY <1>9, <1>11, <1>12, <2>2
<1>13. CASE posted'[m] = <<>> /\ call'[m].stage \in {"WebhookLimitReached", "error"}
  <2>1. InboundFate(m)' = Fate("failed")
    BY <1>4, <1>13 DEF InboundFate
  <2>2. Relay!Settle(m, "failed")
    BY <1>3, <1>8, <1>9, <1>10, <2>1, SettleOne
  <2> QED
    BY <1>3, <1>8, <1>10, <1>11, <1>13, <2>2, FailOne
<1>14. CASE posted'[m] # <<>>
  <2>1. posted'[m] = Append(posted[m], call[m].channel)
    BY <1>3, <1>6, <1>14
  <2>2. InboundFate(m)' = Fate("delivered")
    <3>1. TaskShape'
      BY <1>1a, RelayKeepsShape DEF RelayStep
    <3>2. call'[m].stage \in {"ok", "error"}
      BY <1>14, <3>1 DEF TaskShape, CallShape
    <3> QED
      BY <1>4, <1>14, <3>2 DEF InboundFate
  <2>3. Relay!Settle(m, "delivered")
    BY <1>3, <1>8, <1>9, <1>10, <2>2, SettleOne
  <2>4. Shown' = [Shown EXCEPT ![m] = Append(@, call[m].channel)]
    <3>1. posted'[m] = Append(posted[m], call[m].channel) /\ Shown[m] = posted[m]
      BY <1>3, <2>1 DEF Shown
    <3>2. \A x \in Messages \ {m} : Shown'[x] = Shown[x]
      BY <1>5, <1>6 DEF Shown, Messages
    <3>3. Shown'[m] = Append(Shown[m], call[m].channel)
      BY <1>3, <3>1 DEF Shown
    <3>4. Shown = [x \in Messages |-> Shown[x]] /\ Shown' = [x \in Messages |-> Shown'[x]]
      BY DEF Shown
    <3> HIDE DEF Shown
    <3> QED
      BY <3>2, <3>3, <3>4
  <2>5. Relay!Deliver(m)
    BY <1>8, <1>10, <2>3, <2>4 DEF Relay!Deliver
  <2> QED
    BY <2>5
<1> QED
  BY <1>7, <1>12, <1>13, <1>14

LEMMA PostKept ==
  ASSUME IndInv, NEW x \in Outbound, NEW c \in Channels, NEW webhook \in BOOLEAN,
         NEW blank \in BOOLEAN, NEW author \in Authors,
         Post(x, c, webhook, author, blank)
  PROVE  Relay!Arrive(x)
<1>1. event \in [Messages -> Events] /\ x \in Messages /\ UNCHANGED <<routes, call, posted>>
  BY DEF IndInv, TypeOK, Messages, Post
<1>2. Fates[x] = OutboundFate(x) /\ Fates' = [Fates EXCEPT ![x] = OutboundFate(x)']
  BY <1>1, OneOutbound DEF Post, Messages
<1>3. event'[x] = [stage |-> "pending", channel |-> c, remote |-> None,
                   webhook |-> webhook, author |-> author, blank |-> blank]
  BY <1>1 DEF Post
<1>4. OutboundFate(x).at = "unsent"
  BY DEF Post, OutboundFate
<1>5. OutboundFate(x)' = [at |-> "arrived", from |-> c, to |-> None]
  BY <1>3 DEF OutboundFate
<1>6. Unfit' \in {Unfit, Unfit \cup {x}}
  <2>1. \A y \in Outbound \ {x} : event'[y] = event[y]
    BY <1>1 DEF Post, Messages
  <2>2. x \notin Unfit
    BY <1>1, BridgeAssumption
    DEF IndInv, TaskShape, EventShape, UnsentEvent, Post, Unfit
  <2>3. webhook \/ author = "self" \/ blank => Unfit' = Unfit \cup {x}
    BY <1>1, <1>3, <2>1, <2>2 DEF Unfit
  <2>4. ~(webhook \/ author = "self" \/ blank) => Unfit' = Unfit
    BY <1>1, <1>3, <2>1, <2>2 DEF Unfit
  <2> QED
    BY <2>3, <2>4
<1>7. c \in Relay!Ends /\ UNCHANGED <<Links, Shown>>
  <2>1. event'[x].stage # "sent" /\ event[x].stage # "sent"
    BY <1>3 DEF Post
  <2>2. \A y \in Outbound \ {x} : event'[y] = event[y]
    BY <1>1 DEF Post, Messages
  <2>3. UNCHANGED Shown
    BY <1>1, <2>1, <2>2, NothingShown
  <2> QED
    BY <1>1, <2>3 DEF Relay!Ends, Links
<1> QED
  BY <1>2, <1>4, <1>5, <1>6, <1>7 DEF Relay!Arrive

(* The handler of an echo changes no fate.                                 *)
LEMMA EchoKept ==
  ASSUME IndInv, NEW x \in Inbound, EventStep(x)
  PROVE  UNCHANGED <<Links, Fates, Shown, Unfit>>
<1>1. event \in [Messages -> Events] /\ UNCHANGED <<routes, call, posted>>
  BY DEF IndInv, TypeOK, EventStep, Dispatch, Lookup, Send
<1>2. \A y \in Outbound : event'[y] = event[y]
  BY <1>1, BridgeAssumption DEF EventStep, Dispatch, Lookup, Send, Becomes, Messages
<1>3. UNCHANGED Shown
  BY <1>1, <1>2, NothingShown
<1> QED
  BY <1>1, <1>2, <1>3, BridgeAssumption
  DEF Links, Unfit, Fates, InboundFate, OutboundFate, Messages

LEMMA EventKept ==
  ASSUME IndInv, NEW x \in Outbound, EventStep(x)
  PROVE  \/ Relay!Bind(x) \/ Relay!Deliver(x) \/ Relay!Dismiss(x) \/ Relay!Ignore(x)
         \/ UNCHANGED <<Links, Fates, Shown, Unfit>>
         \/ \E failing \in SUBSET Messages : Relay!Fail(failing)
<1> DEFINE Fate(at, to) == [at |-> at, from |-> event[x].channel, to |-> to]
<1>1. /\ event \in [Messages -> Events] /\ x \in Messages
      /\ UNCHANGED <<routes, call, posted>>
  BY DEF IndInv, TypeOK, Messages, EventStep, Dispatch, Lookup, Send
<1>2. \A y \in Outbound \ {x} : event'[y] = event[y]
  BY <1>1 DEF EventStep, Dispatch, Lookup, Send, Becomes, Messages
<1>3. Fates[x] = OutboundFate(x) /\ Fates' = [Fates EXCEPT ![x] = OutboundFate(x)']
  BY <1>1, <1>2, OneOutbound
<1>4. UNCHANGED <<Links, Unfit>>
  <2>1. /\ event'[x].webhook = event[x].webhook
        /\ event'[x].author = event[x].author
        /\ event'[x].blank = event[x].blank
    BY <1>1 DEF EventStep, Dispatch, Lookup, Send, Becomes, Events
  <2> QED
    BY <1>1, <1>2, <2>1 DEF Links, Unfit
<1>5. EventShape(x) /\ GateHolds(x)
  BY <1>1 DEF IndInv, TaskShape, GuardsHold
<1>6. x \in Unfit <=> ~ShouldRelay(event[x])
  BY <1>1, BridgeAssumption DEF Unfit, ShouldRelay
<1>7. ASSUME event'[x].stage # "sent", event[x].stage # "sent" PROVE UNCHANGED Shown
  BY <1>1, <1>2, <1>7, NothingShown
<1>8. CASE Dispatch(x)
  <2> UNCHANGED Shown
    BY <1>1, <1>7, <1>8 DEF Dispatch, Becomes, Events
  <2>1. OutboundFate(x) = Fate("arrived", None)
    BY <1>5, <1>8 DEF Dispatch, EventShape, OutboundFate
  <2>2. CASE ShouldRelay(event[x])
    <3>1. event'[x] = [event[x] EXCEPT !.stage = "lookup"]
      BY <1>1, <1>8, <2>2 DEF Dispatch, Becomes
    <3>2. OutboundFate(x)' = Fate("arrived", None)
      BY <1>1, <1>5, <1>8, <3>1 DEF Dispatch, EventShape, OutboundFate, Events
    <3>3. Fates' = Fates
      BY <1>3, <2>1, <3>2 DEF Fates
    <3> QED
      BY <1>4, <3>3
  <2>3. CASE ~ShouldRelay(event[x])
    <3>1. event'[x] = [event[x] EXCEPT !.stage = "ignored"]
      BY <1>1, <1>8, <2>3 DEF Dispatch, Becomes
    <3>2. OutboundFate(x)' = Fate("ignored", None)
      BY <1>1, <1>5, <1>8, <3>1 DEF Dispatch, EventShape, OutboundFate, Events
    <3>3. Relay!Settle(x, "ignored")
      BY <1>1, <1>3, <1>4, <2>1, <3>2, SettleOne
    <3>4. Relay!Ignore(x)
      BY <1>3, <1>6, <2>1, <2>3, <3>3 DEF Relay!Ignore
    <3> QED
      BY <3>4
  <2> QED
    BY <2>2, <2>3
<1>9. CASE Lookup(x)
  <2> UNCHANGED Shown
    BY <1>1, <1>7, <1>9 DEF Lookup, Becomes, Events
  <2>1. OutboundFate(x) = Fate("arrived", None) /\ x \notin Unfit
    BY <1>5, <1>6, <1>9 DEF Lookup, EventShape, GateHolds, OutboundFate
  <2>2. event[x].channel \in Channels
    BY <1>5, <1>9 DEF Lookup, EventShape
  <2>3. Relay!Partners(event[x].channel) =
          {id.chat : id \in FetchByChannel(routes, event[x].channel)}
    BY <2>2, ChannelPartners DEF IndInv
  <2>4. ASSUME NEW id \in FetchByChannel(routes, event[x].channel),
               event' = [event EXCEPT ![x].stage = "send", ![x].remote = id]
        PROVE  Relay!Bind(x)
    <3>1. event'[x] = [event[x] EXCEPT !.stage = "send", !.remote = id]
      BY <1>1, <2>4
    <3>2. id # None
      BY FetchedRemotes, BridgeAssumption DEF IndInv
    <3>3. OutboundFate(x)' = Fate("bound", id.chat)
      BY <1>1, <3>1, <3>2 DEF OutboundFate, Events
    <3> QED
      BY <1>1, <1>3, <1>4, <2>1, <2>3, <3>3, BindOne
  <2>5. CASE FetchByChannel(routes, event[x].channel) = {} /\ Becomes(x, "unlinked")
    <3>1. event'[x] = [event[x] EXCEPT !.stage = "unlinked"]
      BY <1>1, <2>5 DEF Becomes
    <3>2. OutboundFate(x)' = Fate("dismissed", None)
      BY <1>1, <1>5, <1>9, <3>1 DEF Lookup, EventShape, OutboundFate, Events
    <3>3. Relay!Settle(x, "dismissed")
      BY <1>1, <1>3, <1>4, <2>1, <3>2, SettleOne
    <3>4. Fates[x].at = "arrived" /\ Fates[x].from = event[x].channel
      BY <1>3, <2>1
    <3>5. Relay!Partners(Fates[x].from) = {}
      BY <2>3, <2>5, <3>4
    <3>6. Relay!Dismiss(x)
      BY <3>3, <3>4, <3>5 DEF Relay!Dismiss
    <3> QED
      BY <3>6
  <2>6. CASE Becomes(x, "error")
    <3>1. event'[x] = [event[x] EXCEPT !.stage = "error"]
      BY <1>1, <2>6 DEF Becomes
    <3>2. OutboundFate(x)' = Fate("failed", None)
      BY <1>1, <1>5, <1>9, <3>1 DEF Lookup, EventShape, OutboundFate, Events
    <3>3. Relay!Settle(x, "failed")
      BY <1>1, <1>3, <1>4, <2>1, <3>2, SettleOne
    <3> QED
      BY <1>1, <1>3, <2>1, <3>3, FailOne
  <2> QED
    BY <1>9, <2>4, <2>5, <2>6 DEF Lookup
<1>10. CASE Send(x)
  <2>1. event'[x] = [event[x] EXCEPT !.stage = "sent"] /\ event[x].stage = "send"
    BY <1>1, <1>10 DEF Send, Becomes
  <2>2. event[x].remote # None
    BY <1>5, <2>1, BridgeAssumption DEF EventShape
  <2>3. OutboundFate(x) = Fate("bound", event[x].remote.chat)
    BY <2>1, <2>2 DEF OutboundFate
  <2>4. OutboundFate(x)' = Fate("delivered", event[x].remote.chat)
    BY <1>1, <2>1, <2>2 DEF OutboundFate, Events
  <2>5. Relay!Settle(x, "delivered")
    BY <1>1, <1>3, <1>4, <2>3, <2>4, SettleOne
  <2>6. Shown' = [Shown EXCEPT ![x] = Append(@, event[x].remote.chat)]
    <3>1. Shown[x] = <<>>
      BY <1>1, <2>1, BridgeAssumption DEF Shown
    <3>2. Shown'[x] = <<event[x].remote.chat>>
      BY <1>1, <2>1, BridgeAssumption DEF Shown, Events
    <3>3. \A y \in Messages \ {x} : Shown'[y] = Shown[y]
      BY <1>1, <1>2 DEF Shown, Messages
    <3>4. Append(<<>>, event[x].remote.chat) = <<event[x].remote.chat>>
      OBVIOUS
    <3>5. Shown = [y \in Messages |-> Shown[y]] /\ Shown' = [y \in Messages |-> Shown'[y]]
      BY DEF Shown
    <3> HIDE DEF Shown
    <3> QED
      BY <3>1, <3>2, <3>3, <3>4, <3>5
  <2>7. Relay!Deliver(x)
    BY <1>3, <2>3, <2>5, <2>6 DEF Relay!Deliver
  <2> QED
    BY <2>7
<1> QED
  BY <1>8, <1>9, <1>10 DEF EventStep

LEMMA RestartKept ==
  ASSUME IndInv, Restart
  PROVE  \E failing \in SUBSET Messages : Relay!Fail(failing)
<1> DEFINE failing == {m \in Inbound : call[m].stage \in RelayStages}
                        \cup {x \in Outbound : event[x].stage \in EventStages}
<1>1. call \in [Inbound -> Calls] /\ event \in [Messages -> Events]
  BY DEF IndInv, TypeOK
<1>2. UNCHANGED <<Links, Shown, Unfit>>
  <2>1. UNCHANGED <<Links, Unfit>>
    BY <1>1 DEF Restart, Links, Unfit, Calls, Events, Messages
  <2>2. UNCHANGED Shown
    BY <1>1, NothingShown DEF Restart, Messages, Events, EventStages
  <2> QED
    BY <2>1, <2>2
<1>3. ASSUME NEW m \in Inbound
      PROVE  /\ m \in failing => /\ InboundFate(m).at \in {"arrived", "bound"}
                                 /\ InboundFate(m)' = [InboundFate(m) EXCEPT !.at = "failed"]
             /\ m \notin failing => InboundFate(m)' = InboundFate(m)
  <2>1. CallShape(m) /\ m \notin Outbound /\ UNCHANGED posted
    BY BridgeAssumption DEF IndInv, TaskShape, Restart
  <2>2. CASE m \in failing
    <3> DEFINE fate(at) == [at |-> at, from |-> call[m].remote.chat,
                            to |-> call[m].channel]
    <3>1. call'[m] = [call[m] EXCEPT !.stage = "lost"]
      BY <1>1, <2>1, <2>2 DEF Restart
    <3>2. posted[m] = <<>> /\ call[m].stage \in RelayStages
      BY <2>1, <2>2 DEF CallShape, RelayStages
    <3>3. PICK at \in {"arrived", "bound"} :
            InboundFate(m) = fate(at)
      BY <3>2 DEF InboundFate, RelayStages
    <3>4. InboundFate(m)' = fate("failed")
      BY <1>1, <2>1, <3>1, <3>2 DEF InboundFate, Calls
    <3>5. fate("failed") = [fate(at) EXCEPT !.at = "failed"] /\ fate(at).at = at
      OBVIOUS
    <3> QED
      BY <2>2, <3>3, <3>4, <3>5
  <2>3. CASE m \notin failing
    BY <1>1, <2>1, <2>3 DEF Restart, InboundFate
  <2> QED
    BY <2>2, <2>3
<1>4. ASSUME NEW x \in Outbound
      PROVE  /\ x \in failing => /\ OutboundFate(x).at \in {"arrived", "bound"}
                                 /\ OutboundFate(x)' = [OutboundFate(x) EXCEPT !.at = "failed"]
             /\ x \notin failing => OutboundFate(x)' = OutboundFate(x)
  <2>1. x \in Messages /\ x \notin Inbound
    BY BridgeAssumption DEF Messages
  <2>2. CASE x \in failing
    <3> DEFINE fate(at) ==
                 [at |-> at, from |-> event[x].channel,
                  to |-> IF event[x].remote = None THEN None ELSE event[x].remote.chat]
    <3>1. event'[x] = [event[x] EXCEPT !.stage = "missed"] /\ event[x].stage \in EventStages
      BY <1>1, <2>1, <2>2 DEF Restart
    <3>2. PICK at \in {"arrived", "bound"} :
            OutboundFate(x) = fate(at)
      BY <3>1 DEF OutboundFate, EventStages
    <3>3. OutboundFate(x)' = fate("failed")
      BY <1>1, <2>1, <3>1 DEF OutboundFate, Events
    <3>4. fate("failed") = [fate(at) EXCEPT !.at = "failed"] /\ fate(at).at = at
      OBVIOUS
    <3> QED
      BY <2>2, <3>2, <3>3, <3>4
  <2>3. CASE x \notin failing
    BY <1>1, <2>1, <2>3 DEF Restart, OutboundFate
  <2> QED
    BY <2>2, <2>3
<1>5. \A m \in failing : Fates[m].at \in {"arrived", "bound"}
  BY <1>3, <1>4, BridgeAssumption DEF Fates, Messages
<1>6. Fates' = [m \in Messages |-> IF m \in failing THEN [Fates[m] EXCEPT !.at = "failed"]
                                                   ELSE Fates[m]]
  BY <1>3, <1>4, BridgeAssumption DEF Fates, Messages
<1>7. failing \in SUBSET Messages
  BY DEF Messages
<1>8. Relay!Fail(failing)
  BY <1>2, <1>5, <1>6 DEF Relay!Fail
<1> QED
  BY <1>7, <1>8

(* Every message is shown at most once and only to the partner its own     *)
(* end had after it arrived, is refused only while there is no partner,    *)
(* and is ignored only if it is unfit: Bridge implements RelayPromise.     *)
THEOREM PromiseKept == Spec => KeepsPromise
<1>1. Init => Relay!PromiseInit
  <2> SUFFICES ASSUME Init PROVE Relay!PromiseInit
    OBVIOUS
  <2>1. Links = {}
    BY RoutesAssumption DEF Init, Links, KnownPlatform
  <2>2. \A m \in Inbound : InboundFate(m) = Relay!Unsent
    BY DEF Init, InboundFate, UnsentCall, Relay!Unsent
  <2>3. \A x \in Outbound : OutboundFate(x) = Relay!Unsent
    BY DEF Init, OutboundFate, UnsentEvent, Relay!Unsent, Messages
  <2>4. Unfit = {}
    BY DEF Init, Unfit, UnsentCall, UnsentEvent, Messages
  <2>5. Shown = [x \in Messages |-> <<>>]
    BY DEF Init, Shown, UnsentEvent
  <2> QED
    BY <2>1, <2>2, <2>3, <2>4, <2>5 DEF Relay!PromiseInit, Fates, Messages
<1>2. IndInv /\ [Next]_vars => [Relay!PromiseNext]_(Relay!promiseVars)
  <2> SUFFICES ASSUME IndInv, [Next]_vars
               PROVE  Relay!PromiseNext \/ UNCHANGED <<Links, Fates, Shown, Unfit>>
    BY DEF Relay!promiseVars
  <2> USE DEF Relay!PromiseNext
  <2>1. CASE UNCHANGED <<routes, call, posted, event>>
    BY <2>1 DEF Links, Fates, Shown, Unfit, InboundFate, OutboundFate
  <2>2. ASSUME NEW c \in Channels, NEW id \in RemoteIds, Link(c, id)
        PROVE  Relay!PromiseNext \/ UNCHANGED <<Links, Fates, Shown, Unfit>>
    BY <2>2, LinkKept DEF IndInv
  <2>3. ASSUME NEW c \in Channels, Unlink(c)
        PROVE  Relay!PromiseNext \/ UNCHANGED <<Links, Fates, Shown, Unfit>>
    BY <2>3, UnlinkKept DEF IndInv
  <2>4. ASSUME NEW m \in Inbound, NEW id \in RemoteIds, NEW blank \in BOOLEAN,
               Deliver(m, id, blank)
        PROVE  Relay!PromiseNext
    BY <2>4, DeliverKept DEF Messages
  <2>5. ASSUME NEW m \in Inbound, RouteInbound(m) PROVE Relay!PromiseNext
    BY <2>5, RouteKept DEF Messages
  <2>6. ASSUME NEW m \in Inbound, ListWebhooks(m) \/ CreateWebhook(m) \/ Execute(m)
        PROVE  Relay!PromiseNext \/ UNCHANGED <<Links, Fates, Shown, Unfit>>
    BY <2>6, HttpKept DEF Messages
  <2>7. ASSUME NEW x \in Outbound, NEW c \in Channels, NEW webhook \in BOOLEAN,
               NEW blank \in BOOLEAN, NEW author \in Authors,
               Post(x, c, webhook, author, blank)
        PROVE  Relay!PromiseNext
    BY <2>7, PostKept DEF Messages
  <2>8. ASSUME NEW x \in Messages, EventStep(x)
        PROVE  Relay!PromiseNext \/ UNCHANGED <<Links, Fates, Shown, Unfit>>
    BY <2>8, EchoKept, EventKept DEF Messages
  <2>9. CASE Restart
    BY <2>9, RestartKept
  <2> QED
    BY <2>1, <2>2, <2>3, <2>4, <2>5, <2>6, <2>7, <2>8, <2>9
    DEF Next, vars, RelayStep, DeleteManaged, AddOther, DeleteOther
<1> QED
  BY <1>1, <1>2, Invariance, PTL DEF Spec, KeepsPromise, Relay!Promise
=============================================================================
