---------------------------- MODULE ServiceProofs ----------------------------
(***************************************************************************)
(* The safety properties of Service, for any number of tasks, messages,    *)
(* channels, migrations and environments.                                  *)
(***************************************************************************)
EXTENDS Service, DurationsProofs, FiniteSetTheorems, SequenceTheorems

(* What a step does to each of the three parts.                            *)
LEMMA StartupPart ==
  ASSUME [Next]_vars PROVE StartupStep \/ Halt \/ UNCHANGED startupVars
  BY DEF Next, vars, StartStep, Command, Progress, Gateway, Outside, Forgotten, Restart

LEMMA PurgePart ==
  ASSUME [Next]_vars
  PROVE  \/ \E t \in Tasks, count \in PurgeCounts : StartPurge(t, count)
         \/ \E t \in Tasks : PurgeAccess(t)
         \/ \E t \in Tasks : ListMessages(t)
         \/ \E t \in Tasks : DeleteListed(t)
         \/ PostMessage
         \/ DeleteMessage
         \/ GrowOld
         \/ LosePurges
         \/ UNCHANGED purgeVars
  BY DEF Next, vars, StartStep, Command, Progress, PurgeStep, Gateway, Outside,
         Forgotten, Restart

LEMMA VoicePart ==
  ASSUME [Next]_vars
  PROVE  \/ \E t \in Tasks, explicit, invokers \in Places : StartJoin(t, explicit, invokers)
         \/ \E t \in Tasks : Leave(t)
         \/ \E t \in Tasks : SendJoin(t)
         \/ \E t \in Tasks : FinishJoin(t)
         \/ \E t \in Tasks : DropCall(t)
         \/ TakeRequest
         \/ Moved
         \/ LoseVoice
         \/ SessionEnds
         \/ UNCHANGED voiceVars
  BY DEF Next, vars, StartStep, Command, Progress, VoiceStep, Gateway, Outside, Forgotten,
         Restart

-----------------------------------------------------------------------------
LEMMA StartupTyped ==
  ASSUME StartupTypeOK, [Next]_vars PROVE StartupTypeOK'
<1>1. CASE \E env \in Environments : Boot(env)
  BY <1>1 DEF StartupTypeOK, Boot, ScopeOf, Scopes, Booting
<1>2. CASE Connect \/ BuildClient \/ Halt
  BY <1>2 DEF StartupTypeOK, Connect, BuildClient, Halt, Booting
<1>3. CASE Migrate
  BY <1>3, StartupAssumption DEF StartupTypeOK, Migrate, Booting
<1>4. CASE Ready
  BY <1>4 DEF StartupTypeOK, Ready, Booting
<1>5. CASE UNCHANGED startupVars
  BY <1>5 DEF StartupTypeOK, startupVars
<1> QED BY <1>1, <1>2, <1>3, <1>4, <1>5, StartupPart DEF StartupStep

(* A count that is let through is between 1 and 100.                       *)
LEMMA PurgeCountVerdict ==
  ASSUME NEW count \in Int, validate_purge_count(count).ok
  PROVE  validate_purge_count(count).value \in 1 .. 100
  BY CastsAreExact DEF validate_purge_count, Ok, Err

LEMMA PurgeEndTyped ==
  ASSUME PurgeTypeOK, NEW t \in Tasks, NEW end \in PurgeEnds, PurgeEnd(t, end)
  PROVE  /\ purge' \in [Tasks -> PurgeStates]
         /\ \A u \in Tasks : purge'[u].stage \in {"list", "delete"} => purge'[u].count \in 0 .. 100
  BY DEF PurgeTypeOK, PurgeEnd, PurgeStates, PurgeEnds, PurgeStages

(* A purge that is let through, and nobody else's.                         *)
LEMMA PurgeLetThrough ==
  ASSUME PurgeTypeOK, NEW t \in Tasks, NEW count \in 1 .. 100,
         purge' = [purge EXCEPT ![t] = [stage |-> "list", count |-> count, listed |-> {}]]
  PROVE  /\ purge' \in [Tasks -> PurgeStates]
         /\ \A u \in Tasks : purge'[u].stage \in {"list", "delete"} => purge'[u].count \in 0 .. 100
<1>1. count \in 0 .. 100
  OBVIOUS
<1>2. [stage |-> "list", count |-> count, listed |-> {}] \in PurgeStates
  BY <1>1 DEF PurgeStates, PurgeStages
<1> QED BY <1>1, <1>2 DEF PurgeTypeOK

LEMMA PurgeTyped ==
  ASSUME PurgeTypeOK, [Next]_vars PROVE PurgeTypeOK'
<1> USE PurgeAssumption
<1>1. ASSUME NEW t \in Tasks, NEW count \in PurgeCounts, StartPurge(t, count) PROVE PurgeTypeOK'
  <2>1. [stage |-> "access", count |-> count, listed |-> {}] \in PurgeStates
    BY DEF PurgeStates, PurgeStages
  <2> QED BY <1>1, <2>1 DEF StartPurge, PurgeTypeOK
<1>7. ASSUME NEW t \in Tasks, PurgeAccess(t) PROVE PurgeTypeOK'
  <2> DEFINE verdict == validate_purge_count(purge[t].count)
  <2>1. purge[t].count \in Int
    <3>1. purge[t].count \in PurgeCounts \cup 0 .. 100
      BY DEF PurgeTypeOK, PurgeStates
    <3>2. \A k \in PurgeCounts \cup 0 .. 100 : k \in Int
      OBVIOUS
    <3> QED BY <3>1, <3>2
  <2>2. verdict.ok => verdict.value \in 1 .. 100
    BY <2>1, PurgeCountVerdict
  <2>3. /\ UNCHANGED <<channel, latest, old>>
        /\ \/ \E end \in PurgeEnds : PurgeEnd(t, end)
           \/ /\ verdict.ok
              /\ purge' = [purge EXCEPT ![t] =
                   [stage |-> "list", count |-> verdict.value, listed |-> {}]]
    BY <1>7 DEF PurgeAccess, PurgeEnds
  <2> HIDE DEF verdict
  <2>4. /\ purge' \in [Tasks -> PurgeStates]
        /\ \A u \in Tasks : purge'[u].stage \in {"list", "delete"} => purge'[u].count \in 0 .. 100
    BY <2>2, <2>3, PurgeEndTyped, PurgeLetThrough
  <2> QED BY <2>3, <2>4 DEF PurgeTypeOK
<1>2. ASSUME NEW t \in Tasks, ListMessages(t) PROVE PurgeTypeOK'
  <2>1. Newest(purge[t].count) \subseteq 1 .. MaxPosts
    <3>1. channel \subseteq 1 .. MaxPosts
      BY DEF PurgeTypeOK
    <3> QED BY <3>1 DEF Newest
  <2>2. CASE \E end \in PurgeEnds : PurgeEnd(t, end)
    BY <1>2, <2>2, PurgeEndTyped DEF ListMessages, PurgeTypeOK
  <2>3. CASE purge' = [purge EXCEPT ![t].stage = "delete", ![t].listed = Newest(purge[t].count)]
    <3> DEFINE new == [purge[t] EXCEPT !.stage = "delete", !.listed = Newest(purge[t].count)]
    <3>1. /\ purge \in [Tasks -> PurgeStates] /\ purge[t] \in PurgeStates
          /\ purge[t].count \in 0 .. 100
      BY <1>2 DEF ListMessages, PurgeTypeOK
    <3>2. purge' = [purge EXCEPT ![t] = new]
      BY <2>3
    <3>3. new \in PurgeStates /\ new.count = purge[t].count
      BY <2>1, <3>1 DEF PurgeStates, PurgeStages
    <3> HIDE DEF new
    <3>4. purge' \in [Tasks -> PurgeStates]
      BY <3>1, <3>2, <3>3
    <3>5. \A u \in Tasks : purge'[u].stage \in {"list", "delete"} => purge'[u].count \in 0 .. 100
      BY <3>1, <3>2, <3>3 DEF PurgeTypeOK
    <3>6. UNCHANGED <<channel, latest, old>>
      BY <1>2 DEF ListMessages
    <3> QED BY <3>4, <3>5, <3>6 DEF PurgeTypeOK
  <2>4. \/ \E end \in PurgeEnds : PurgeEnd(t, end)
        \/ purge' = [purge EXCEPT ![t].stage = "delete", ![t].listed = Newest(purge[t].count)]
    BY <1>2 DEF ListMessages, PurgeEnds
  <2> QED BY <2>2, <2>3, <2>4
<1>3. ASSUME NEW t \in Tasks, DeleteListed(t) PROVE PurgeTypeOK'
  <2>1. \E end \in PurgeEnds : PurgeEnd(t, end)
    BY <1>3 DEF DeleteListed, PurgeEnds
  <2> QED BY <1>3, <2>1, PurgeEndTyped DEF DeleteListed, PurgeTypeOK
<1>4. CASE PostMessage \/ DeleteMessage \/ GrowOld
  <2>1. purge' = purge
    BY <1>4 DEF PostMessage, DeleteMessage, GrowOld, PurgeTypeOK
  <2>2. channel' \in SUBSET (1 .. latest') /\ latest' \in 0 .. MaxPosts /\ old' \in 0 .. latest'
    <3>1. CASE PostMessage
      BY <3>1 DEF PostMessage, PurgeTypeOK
    <3>2. CASE DeleteMessage
      BY <3>2 DEF DeleteMessage, PurgeTypeOK
    <3>3. CASE GrowOld
      BY <3>3 DEF GrowOld, PurgeTypeOK
    <3> QED BY <1>4, <3>1, <3>2, <3>3
  <2> QED BY <2>1, <2>2 DEF PurgeTypeOK
<1>5. CASE LosePurges
  BY <1>5 DEF LosePurges, PurgeTypeOK, PurgeStates, IdlePurge, PurgeEnds, PurgeStages
<1>6. CASE UNCHANGED purgeVars
  BY <1>6 DEF purgeVars, PurgeTypeOK
<1> QED BY <1>1, <1>2, <1>3, <1>4, <1>5, <1>6, <1>7, PurgePart

LEMMA AskTyped ==
  ASSUME VoiceTypeOK, NEW t \in Tasks, NEW place \in Places, Ask(t, place)
  PROVE  requests' \in Seq([task : Tasks, place : Places])
<1>1. [task |-> t, place |-> place] \in [task : Tasks, place : Places]
  OBVIOUS
<1> QED BY <1>1, AppendProperties DEF Ask, VoiceTypeOK

LEMMA VoiceBecomesTyped ==
  ASSUME VoiceTypeOK, NEW t \in Tasks, NEW stage \in VoiceStages \cup VoiceEnds,
         VoiceBecomes(t, stage)
  PROVE  voice' \in [Tasks -> VoiceStates]
<1>1. [stage |-> stage, aim |-> None] \in VoiceStates
  BY DEF VoiceStates, Places
<1> QED BY <1>1 DEF VoiceTypeOK, VoiceBecomes

LEMMA VoiceTyped ==
  ASSUME VoiceTypeOK, [Next]_vars PROVE VoiceTypeOK'
<1>1. ASSUME NEW t \in Tasks, NEW explicit \in Places, NEW invokers \in Places,
             StartJoin(t, explicit, invokers)
      PROVE  VoiceTypeOK'
  <2> DEFINE target == resolve_join_target(explicit, invokers)
             aimed == [stage |-> "joining", aim |-> target]
  <2>1. aimed \in VoiceStates
    BY DEF resolve_join_target, VoiceStates, VoiceStages
  <2> HIDE DEF target
  <2>2. /\ \/ \E end \in VoiceStages \cup VoiceEnds : VoiceBecomes(t, end)
           \/ voice' = [voice EXCEPT ![t] = aimed]
        /\ call' = TRUE \/ UNCHANGED call
        /\ crossed' = (crossed \/ Some("leaving")) \/ UNCHANGED crossed
        /\ UNCHANGED <<requests, presence, stale>>
    BY <1>1 DEF StartJoin, target, VoiceEnds
  <2> HIDE DEF aimed
  <2>3. voice' \in [Tasks -> VoiceStates]
    BY <2>1, <2>2, VoiceBecomesTyped DEF VoiceTypeOK
  <2> QED BY <2>2, <2>3 DEF VoiceTypeOK, Some
<1>2. ASSUME NEW t \in Tasks, Leave(t) PROVE VoiceTypeOK'
  <2>1. /\ \E end \in VoiceStages \cup VoiceEnds : VoiceBecomes(t, end)
        /\ Ask(t, None) \/ UNCHANGED requests
        /\ crossed' = (crossed \/ Some("joining")) \/ UNCHANGED crossed
        /\ UNCHANGED <<call, presence, stale>>
    BY <1>2 DEF Leave, VoiceEnds, VoiceStages
  <2>2. None \in Places
    BY DEF Places
  <2>3. requests' \in Seq([task : Tasks, place : Places])
    BY <2>1, <2>2, AskTyped DEF VoiceTypeOK
  <2> QED BY <2>1, <2>3, VoiceBecomesTyped DEF VoiceTypeOK, Some
<1>3. ASSUME NEW t \in Tasks, FinishJoin(t) \/ DropCall(t) PROVE VoiceTypeOK'
  <2>1. /\ \E end \in VoiceStages \cup VoiceEnds : VoiceBecomes(t, end)
        /\ call' = FALSE \/ UNCHANGED call
        /\ UNCHANGED <<requests, presence, stale, crossed>>
    BY <1>3 DEF FinishJoin, DropCall, VoiceEnds
  <2> QED BY <2>1, VoiceBecomesTyped DEF VoiceTypeOK
<1>4. ASSUME NEW t \in Tasks, SendJoin(t) PROVE VoiceTypeOK'
  <2>1. /\ \E end \in VoiceStages \cup VoiceEnds : VoiceBecomes(t, end)
        /\ Ask(t, voice[t].aim) \/ UNCHANGED requests
        /\ UNCHANGED <<call, presence, stale, crossed>>
    BY <1>4 DEF SendJoin, VoiceEnds, VoiceStages
  <2>2. voice[t].aim \in Places
    BY DEF VoiceTypeOK, VoiceStates
  <2>3. requests' \in Seq([task : Tasks, place : Places])
    BY <2>1, <2>2, AskTyped DEF VoiceTypeOK
  <2> QED BY <2>1, <2>3, VoiceBecomesTyped DEF VoiceTypeOK
<1>5. CASE TakeRequest
  <2>1. requests # <<>> /\ requests' = Tail(requests) /\ UNCHANGED <<call, crossed>>
    BY <1>5 DEF TakeRequest
  <2>2. /\ Head(requests) \in [task : Tasks, place : Places]
        /\ requests' \in Seq([task : Tasks, place : Places])
    BY <2>1, HeadTailProperties DEF VoiceTypeOK
  <2>3. presence' \in Places /\ stale' \in BOOLEAN
    BY <1>5, <2>2 DEF TakeRequest, VoiceTypeOK
  <2>4. voice' \in [Tasks -> VoiceStates]
    <3>1. UNCHANGED voice \/ VoiceBecomes(Head(requests).task, "confirmed")
      BY <1>5 DEF TakeRequest
    <3>2. Head(requests).task \in Tasks /\ "confirmed" \in VoiceStages \cup VoiceEnds
      BY <2>2 DEF VoiceStages
    <3> QED BY <3>1, <3>2, VoiceBecomesTyped DEF VoiceTypeOK
  <2> QED BY <2>1, <2>2, <2>3, <2>4 DEF VoiceTypeOK
<1>6. CASE Moved \/ SessionEnds
  <2>1. presence' \in Places /\ stale' \in BOOLEAN /\ UNCHANGED <<call, requests, voice, crossed>>
    BY <1>6 DEF Moved, SessionEnds, Places
  <2> QED BY <2>1 DEF VoiceTypeOK
<1>7. CASE LoseVoice
  <2>1. <<>> \in Seq([task : Tasks, place : Places])
    BY EmptySeq
  <2>2. [stage |-> "lost", aim |-> None] \in VoiceStates
    BY DEF VoiceStates, VoiceEnds, Places
  <2>3. voice' \in [Tasks -> VoiceStates]
    BY <1>7, <2>2 DEF LoseVoice, VoiceTypeOK
  <2> QED BY <1>7, <2>1, <2>3 DEF LoseVoice, VoiceTypeOK
<1>8. CASE UNCHANGED voiceVars
  BY <1>8 DEF voiceVars, VoiceTypeOK
<1> QED BY <1>1, <1>2, <1>3, <1>4, <1>5, <1>6, <1>7, <1>8, VoicePart

(* Every variable stays in its domain, whoever runs what and whenever the  *)
(* process stops.                                                          *)
THEOREM TypeCorrect == Spec => []TypeOK
<1>1. Init => TypeOK
  <2> SUFFICES ASSUME Init PROVE TypeOK
    OBVIOUS
  <2>1. StartupTypeOK
    BY StartupAssumption DEF Init, StartupInit, StartupTypeOK, Scopes
  <2>2. PurgeTypeOK
    BY PurgeAssumption DEF Init, PurgeInit, PurgeTypeOK, PurgeStates, IdlePurge
  <2>3. VoiceTypeOK
    BY EmptySeq DEF Init, VoiceInit, VoiceTypeOK, VoiceStates, Places
  <2> QED BY <2>1, <2>2, <2>3, ServiceAssumption DEF Init, TypeOK
<1>2. TypeOK /\ [Next]_vars => TypeOK'
  <2> SUFFICES ASSUME TypeOK, [Next]_vars PROVE TypeOK'
    OBVIOUS
  <2>1. outside' \in 0 .. MaxOutside
    <3>1. UNCHANGED outside \/ (outside < MaxOutside /\ outside' = outside + 1)
      BY DEF Next, vars, StartStep, Command, Progress, Gateway, Outside, Forgotten, Restart
    <3> QED BY <3>1, ServiceAssumption DEF TypeOK
  <2> QED BY <2>1, StartupTyped, PurgeTyped, VoiceTyped DEF TypeOK
<1> QED BY <1>1, <1>2, PTL DEF Spec

-----------------------------------------------------------------------------
(* What the start has got behind it, at each point.                        *)
StartedSo ==
  /\ process \in {"client", "gateway", "deaf", "serving"} => schema = Migrations
  /\ process = "serving" => scope \in registered
  /\ \A t \in Tasks : Running(t) => process = "serving"

LEMMA StartedKept ==
  ASSUME TypeOK, StartedSo, [Next]_vars PROVE StartedSo'
<1>1. CASE StartStep
  <2>1. \A t \in Tasks : ~Running(t) /\ ~Running(t)'
    BY <1>1 DEF StartStep, StartupStep, StartedSo, Running, purgeVars, voiceVars,
                Boot, Connect, Migrate, BuildClient, Ready
  <2>2. CASE \E env \in Environments : Boot(env)
    BY <2>1, <2>2 DEF Boot, StartedSo
  <2>3. CASE Connect \/ BuildClient
    BY <2>1, <2>3 DEF Connect, BuildClient, StartedSo
  <2>4. CASE Migrate
    BY <2>1, <2>4 DEF Migrate, StartedSo
  <2>5. CASE Ready
    BY <2>1, <2>5 DEF Ready, StartedSo
  <2> QED BY <1>1, <2>2, <2>3, <2>4, <2>5 DEF StartStep, StartupStep
<1>2. CASE Restart
  <2>1. process' = "down"
    BY <1>2 DEF Restart, Halt
  <2>2. \A t \in Tasks : ~Running(t)'
    BY <1>2 DEF Restart, LosePurges, LoseVoice, Running, IdlePurge, PurgeStages,
                   VoiceStages
  <2> QED BY <2>1, <2>2 DEF StartedSo
<1>3. ASSUME UNCHANGED startupVars, \A t \in Tasks : Running(t)' => Running(t) \/ Serving
      PROVE  StartedSo'
  BY <1>3 DEF StartedSo, startupVars, Serving
<1>4. CASE Command
  <2>1. \A t \in Tasks : Running(t)' => Serving
    BY <1>4 DEF Command, StartPurge, StartJoin, Leave, Serving, Running, StartedSo
  <2> QED BY <1>3, <1>4, <2>1 DEF Command
<1>5. ASSUME NEW t \in Tasks, Progress(t) PROVE StartedSo'
  <2>1. CASE UNCHANGED voiceVars /\ (PurgeAccess(t) \/ ListMessages(t) \/ DeleteListed(t))
    <3>1. \A u \in Tasks : Running(u)' => Running(u)
      <4>1. purge[t].stage \in PurgeStages
        BY <2>1 DEF PurgeAccess, ListMessages, DeleteListed, PurgeStages
      <4>2. \A u \in Tasks \ {t} : purge'[u] = purge[u]
        BY <2>1 DEF PurgeAccess, ListMessages, DeleteListed, PurgeEnd, TypeOK, PurgeTypeOK
      <4> QED BY <2>1, <4>1, <4>2 DEF Running, voiceVars
    <3> QED BY <1>3, <1>5, <3>1 DEF Progress
  <2>2. CASE UNCHANGED purgeVars /\ VoiceStep(t)
    <3>1. voice[t].stage \in VoiceStages
      BY <2>2 DEF VoiceStep, SendJoin, FinishJoin, DropCall, VoiceStages
    <3>2. \A u \in Tasks \ {t} : voice'[u] = voice[u]
      BY <2>2 DEF VoiceStep, SendJoin, FinishJoin, DropCall, VoiceBecomes, TypeOK, VoiceTypeOK
    <3>3. \A u \in Tasks : Running(u)' => Running(u)
      BY <2>2, <3>1, <3>2 DEF Running, purgeVars
    <3> QED BY <1>3, <1>5, <3>3 DEF Progress
  <2> QED BY <1>5, <2>1, <2>2 DEF Progress, PurgeStep
<1>6. CASE Gateway
  <2>1. \A u \in Tasks : voice'[u].stage \in VoiceStages => voice[u].stage \in VoiceStages
    BY <1>6 DEF Gateway, TakeRequest, VoiceBecomes, VoiceStages, TypeOK, VoiceTypeOK
  <2>2. \A u \in Tasks : Running(u)' => Running(u)
    BY <1>6, <2>1 DEF Gateway, Running, purgeVars
  <2> QED BY <1>3, <1>6, <2>2 DEF Gateway
<1>7. CASE Outside \/ Forgotten
  <2>1. UNCHANGED <<purge, voice, startupVars>>
    BY <1>7 DEF Outside, Forgotten, PostMessage, DeleteMessage, GrowOld, Moved, SessionEnds,
                purgeVars, voiceVars
  <2> QED BY <1>3, <2>1 DEF Running
<1>8. CASE UNCHANGED vars
  BY <1>3, <1>8 DEF vars, purgeVars, voiceVars, Running
<1> QED BY <1>1, <1>2, <1>4, <1>5, <1>6, <1>7, <1>8 DEF Next

(* A running command has all its tables and is registered where this start *)
(* said, for any environment, any number of migrations and any history of  *)
(* starts that failed.                                                     *)
THEOREM AlwaysServedReady == Spec => []ServedReady
<1>1. Init => StartedSo
  BY DEF Init, StartupInit, PurgeInit, VoiceInit, IdlePurge, PurgeStages, VoiceStages,
         StartedSo, Running
<1>2. StartedSo => ServedReady
  BY DEF StartedSo, ServedReady
<1> QED BY <1>1, <1>2, StartedKept, TypeCorrect, PTL DEF Spec

-----------------------------------------------------------------------------
(* While no /join and /leave were in songbird together, none are, a /join  *)
(* holds the call, and so does a bot that is, or is last asked to be, in a *)
(* channel: it is not about to lose it either.                             *)
Apart == ~(Some("joining") /\ Some("leaving"))

Held == call /\ ~Some("leaving")

CallCovers ==
  ~crossed =>
    /\ Apart
    /\ Some("joining") => call
    /\ requests = <<>> /\ presence # None /\ ~stale => Held
    /\ requests # <<>> /\ requests[Len(requests)].place # None => Held

(* One task moves, and no other.                                           *)
LEMMA SomeMoves ==
  ASSUME VoiceTypeOK, NEW t \in Tasks, NEW here,
         \A u \in Tasks \ {t} : voice'[u] = voice[u], voice'[t].stage = here
  PROVE  \A stage : stage # here => (Some(stage)' => Some(stage))
  BY DEF Some

LEMMA BecomesMoves ==
  ASSUME VoiceTypeOK, NEW t \in Tasks, NEW stage, VoiceBecomes(t, stage)
  PROVE  voice'[t].stage = stage /\ \A u \in Tasks \ {t} : voice'[u] = voice[u]
  BY DEF VoiceTypeOK, VoiceBecomes

LEMMA AskedLast ==
  ASSUME VoiceTypeOK, NEW t \in Tasks, NEW place \in Places, Ask(t, place)
  PROVE  requests' # <<>> /\ requests'[Len(requests')].place = place
<1>1. [task |-> t, place |-> place] \in [task : Tasks, place : Places]
  OBVIOUS
<1>2. requests' # <<>> /\ requests'[Len(requests')] = [task |-> t, place |-> place]
  BY <1>1, AppendProperties, LenProperties DEF Ask, VoiceTypeOK
<1> QED BY <1>2

LEMMA CallCovered ==
  ASSUME VoiceTypeOK, CallCovers, [Next]_vars PROVE CallCovers'
<1> SUFFICES ASSUME ~crossed'
             PROVE  /\ Apart'
                    /\ Some("joining")' => call'
                    /\ requests' = <<>> /\ presence' # None /\ ~stale' => Held'
                    /\ requests' # <<>> /\ requests'[Len(requests')].place # None => Held'
  BY DEF CallCovers
<1> DEFINE Goal == /\ Apart'
                   /\ Some("joining")' => call'
                   /\ requests' = <<>> /\ presence' # None /\ ~stale' => Held'
                   /\ requests' # <<>> /\ requests'[Len(requests')].place # None => Held'
<1> USE DEF CallCovers, Apart, Held
(* What a step that is not a crossing leaves as it was.                    *)
<1>1. ASSUME ~crossed, UNCHANGED <<requests, presence, stale>>, call => call',
             Some("joining")' => Some("joining"), Some("leaving")' => Some("leaving")
      PROVE  Goal
  BY <1>1
<1>2. ASSUME NEW t \in Tasks, NEW explicit \in Places, NEW invokers \in Places,
             StartJoin(t, explicit, invokers)
      PROVE  Goal
  <2> DEFINE target == resolve_join_target(explicit, invokers)
  <2> HIDE DEF target
  <2>1. CASE \E end \in {"refused", "error"} : VoiceBecomes(t, end) /\ UNCHANGED <<call, crossed>>
    <3>1. Some("joining")' => Some("joining")
      BY <2>1, BecomesMoves, SomeMoves
    <3>2. Some("leaving")' => Some("leaving")
      BY <2>1, BecomesMoves, SomeMoves
    <3> QED BY <1>1, <1>2, <2>1, <3>1, <3>2 DEF StartJoin
  <2>2. CASE /\ call' = TRUE /\ crossed' = (crossed \/ Some("leaving"))
             /\ voice' = [voice EXCEPT ![t] = [stage |-> "joining", aim |-> target]]
    <3>1. voice'[t].stage = "joining" /\ \A u \in Tasks \ {t} : voice'[u] = voice[u]
      BY <2>2 DEF VoiceTypeOK
    <3>2. Some("leaving")' => Some("leaving")
      BY <3>1, SomeMoves
    <3>3. ~crossed /\ ~Some("leaving")'
      BY <2>2, <3>2
    <3> QED BY <1>2, <2>2, <3>3 DEF StartJoin
  <2> QED BY <1>2, <2>1, <2>2 DEF StartJoin, target
<1>3. ASSUME NEW t \in Tasks, SendJoin(t) PROVE Goal
  <2>1. PICK end \in {"waiting", "error"} : VoiceBecomes(t, end)
    BY <1>3 DEF SendJoin
  <2>2. Some("joining")' => Some("joining")
    BY <2>1, BecomesMoves, SomeMoves
  <2>3. Some("leaving")' => Some("leaving")
    BY <2>1, BecomesMoves, SomeMoves
  <2>4. ~crossed /\ Some("joining") /\ UNCHANGED <<call, presence, stale>>
    BY <1>3 DEF SendJoin, Some
  <2>5. CASE UNCHANGED requests
    BY <1>1, <2>2, <2>3, <2>4, <2>5
  <2>6. CASE Ask(t, voice[t].aim)
    <3>1. voice[t].aim \in Places
      BY DEF VoiceTypeOK, VoiceStates
    <3>2. requests' # <<>>
      BY <2>6, <3>1, AskedLast
    <3>3. Held'
      BY <2>3, <2>4
    <3> QED BY <2>2, <2>3, <2>4, <3>2, <3>3
  <2> QED BY <1>3, <2>5, <2>6 DEF SendJoin
<1>4. ASSUME NEW t \in Tasks, FinishJoin(t) PROVE Goal
  <2>1. PICK end \in {"joined", "unconfirmed", "error"} : VoiceBecomes(t, end)
    BY <1>4 DEF FinishJoin
  <2>2. Some("joining")' => Some("joining")
    BY <2>1, BecomesMoves, SomeMoves
  <2>3. Some("leaving")' => Some("leaving")
    BY <2>1, BecomesMoves, SomeMoves
  <2> QED BY <1>1, <1>4, <2>2, <2>3 DEF FinishJoin
<1>5. ASSUME NEW t \in Tasks, Leave(t) PROVE Goal
  <2>1. CASE \E end \in {"nocall", "unconfirmed", "error"} :
               VoiceBecomes(t, end) /\ UNCHANGED <<requests, crossed>>
    <3>1. Some("joining")' => Some("joining")
      BY <2>1, BecomesMoves, SomeMoves
    <3>2. Some("leaving")' => Some("leaving")
      BY <2>1, BecomesMoves, SomeMoves
    <3> QED BY <1>1, <1>5, <2>1, <3>1, <3>2 DEF Leave
  <2>2. CASE /\ Ask(t, None) /\ VoiceBecomes(t, "leaving")
             /\ crossed' = (crossed \/ Some("joining"))
    <3>1. None \in Places
      BY DEF Places
    <3>2. requests' # <<>> /\ ~(requests'[Len(requests')].place # None)
      BY <2>2, <3>1, AskedLast
    <3>3. Some("joining")' => Some("joining")
      BY <2>2, BecomesMoves, SomeMoves
    <3>4. ~Some("joining")'
      BY <2>2, <3>3
    <3> QED BY <3>2, <3>4
  <2> QED BY <1>5, <2>1, <2>2 DEF Leave
<1>6. ASSUME NEW t \in Tasks, DropCall(t) PROVE Goal
  <2>1. PICK end \in {"left", "unconfirmed"} : VoiceBecomes(t, end)
    BY <1>6 DEF DropCall
  <2>2. Some("joining")' => Some("joining")
    BY <2>1, BecomesMoves, SomeMoves
  <2>3. ~crossed /\ Some("leaving") /\ UNCHANGED <<requests, presence, stale>>
    BY <1>6 DEF DropCall, Some
  <2>4. ~Some("joining")'
    BY <2>2, <2>3
  <2> QED BY <2>3, <2>4
<1>7. CASE TakeRequest
  <2>1. requests # <<>> /\ requests' = Tail(requests) /\ UNCHANGED <<call, crossed>>
    BY <1>7 DEF TakeRequest
  <2>2. (Some("joining")' => Some("joining")) /\ (Some("leaving")' => Some("leaving"))
    <3>1. CASE UNCHANGED voice
      BY <3>1 DEF Some
    <3>2. CASE VoiceBecomes(Head(requests).task, "confirmed")
      <4>1. Head(requests).task \in Tasks
        <5>1. Head(requests) \in [task : Tasks, place : Places]
          BY <2>1, HeadTailProperties DEF VoiceTypeOK
        <5> QED BY <5>1
      <4>2. Some("joining")' => Some("joining")
        BY <3>2, <4>1, BecomesMoves, SomeMoves
      <4>3. Some("leaving")' => Some("leaving")
        BY <3>2, <4>1, BecomesMoves, SomeMoves
      <4> QED BY <4>2, <4>3
    <3> QED BY <1>7, <3>1, <3>2 DEF TakeRequest
  <2>3. Len(requests) \in Nat \ {0} /\ Head(requests) = requests[1]
    BY <2>1, EmptySeq DEF VoiceTypeOK
  <2>4. /\ requests' \in Seq([task : Tasks, place : Places])
        /\ Len(requests') = Len(requests) - 1
        /\ \A i \in 1 .. Len(requests') : requests'[i] = requests[i + 1]
    BY <2>1, HeadTailProperties DEF VoiceTypeOK
  <2>5. requests[Len(requests)].place # None => Held'
    BY <2>1, <2>2
  <2>6. CASE Len(requests) = 1
    <3>1. requests' = <<>>
      BY <2>4, <2>6, EmptySeq
    <3>2. presence' # None => requests[Len(requests)].place # None
      <4>1. presence' = requests[1].place \/ requests[1].place # None
        BY <1>7, <2>3 DEF TakeRequest
      <4> QED BY <2>6, <4>1
    <3> QED BY <2>1, <2>2, <2>5, <3>1, <3>2
  <2>7. CASE Len(requests) # 1
    <3>1. Len(requests') \in 1 .. Len(requests') /\ Len(requests') + 1 = Len(requests)
      BY <2>3, <2>4, <2>7
    <3>2. requests' # <<>>
      BY <3>1, EmptySeq
    <3>3. requests'[Len(requests')] = requests[Len(requests)]
      BY <2>4, <3>1
    <3> QED BY <2>1, <2>2, <2>5, <3>2, <3>3
  <2> QED BY <2>6, <2>7
<1>8. CASE Moved
  <2>1. presence # None /\ (presence' # None /\ ~stale' => ~stale)
    BY <1>8 DEF Moved
  <2>2. UNCHANGED <<call, requests, crossed>> /\ UNCHANGED voice
    BY <1>8 DEF Moved
  <2> QED BY <2>1, <2>2 DEF Some
<1>9. CASE LoseVoice
  <2>1. ~Some("joining")' /\ ~Some("leaving")'
    BY <1>9 DEF LoseVoice, Some, VoiceStages
  <2>2. requests' = <<>> /\ (presence' # None => stale')
    BY <1>9 DEF LoseVoice
  <2> QED BY <2>1, <2>2
<1>10. CASE SessionEnds
  <2>1. presence' = None /\ UNCHANGED <<call, requests, crossed>> /\ UNCHANGED voice
    BY <1>10 DEF SessionEnds
  <2> QED BY <2>1 DEF Some
<1>11. CASE UNCHANGED voiceVars
  BY <1>1, <1>11 DEF voiceVars, Some
<1> QED BY <1>2, <1>3, <1>4, <1>5, <1>6, <1>7, <1>8, <1>9, <1>10, <1>11, VoicePart

(* For any number of commands that cross, /leave finds the call of every   *)
(* bot that is in a channel once the gateway has caught up, unless a /join *)
(* and a /leave were inside songbird together.                             *)
THEOREM OnlyACrossingEverStrands == Spec => []OnlyACrossingStrands
<1>1. Init => CallCovers
  BY DEF Init, VoiceInit, CallCovers, Apart, Some
<1>2. CallCovers => OnlyACrossingStrands
  BY DEF CallCovers, Held, OnlyACrossingStrands, LeaveFindsTheBot
<1>3. TypeOK => VoiceTypeOK
  BY DEF TypeOK
<1> QED BY <1>1, <1>2, <1>3, CallCovered, TypeCorrect, PTL DEF Spec

-----------------------------------------------------------------------------
After(m) == {n \in channel : n > m}

LEMMA ChannelFacts ==
  ASSUME PurgeTypeOK
  PROVE  /\ latest \in Nat /\ channel \in SUBSET (1 .. latest)
         /\ \A m \in channel : m \in Int
         /\ IsFiniteSet(channel)
<1>1. latest \in Nat /\ channel \in SUBSET (1 .. latest)
  BY PurgeAssumption DEF PurgeTypeOK
<1>2. \A m \in channel : m \in Int
  BY <1>1
<1>3. IsFiniteSet(1 .. latest)
  BY <1>1, FS_Interval
<1> QED BY <1>1, <1>2, <1>3, FS_Subset

LEMMA AfterCounted ==
  ASSUME PurgeTypeOK
  PROVE  \A m : IsFiniteSet(After(m)) /\ Cardinality(After(m)) \in Nat
<1>1. IsFiniteSet(channel)
  BY ChannelFacts
<1>2. \A m : After(m) \in SUBSET channel
  BY DEF After
<1> QED BY <1>1, <1>2, FS_Subset, FS_CardinalityType

(* A listing has no gaps: what is newer than one listed is listed.         *)
LEMMA ListingHasNoGaps ==
  ASSUME PurgeTypeOK, NEW count \in Nat, NEW o \in Newest(count), NEW m \in channel, o <= m
  PROVE  m \in Newest(count)
<1>1. o \in channel /\ Cardinality(After(o)) < count
  BY DEF Newest, After
<1>2. After(m) \in SUBSET After(o)
  BY <1>1, ChannelFacts DEF After
<1>3. Cardinality(After(m)) <= Cardinality(After(o))
  BY <1>2, AfterCounted, FS_Subset
<1>4. Cardinality(After(m)) < count
  BY <1>1, <1>3, AfterCounted
<1> QED BY <1>4 DEF Newest, After

(* And it is no longer than its limit: each of its messages has a number   *)
(* of newer ones that is below the limit, and no two the same.             *)
LEMMA ListingIsLimited ==
  ASSUME PurgeTypeOK, NEW count \in Nat
  PROVE  IsFiniteSet(Newest(count)) /\ Cardinality(Newest(count)) <= count
<1> DEFINE listing == Newest(count)
           rank == [m \in listing |-> Cardinality(After(m))]
<1>1. IsFiniteSet(listing) /\ Cardinality(listing) \in Nat
  <2>1. IsFiniteSet(channel) /\ listing \in SUBSET channel
    BY ChannelFacts DEF Newest
  <2> QED BY <2>1, FS_Subset, FS_CardinalityType
<1>2. \A m \in listing : m \in channel /\ Cardinality(After(m)) < count
  BY DEF Newest, After
<1>3. rank \in [listing -> 0 .. count - 1]
  BY <1>2, AfterCounted
<1>4. IsFiniteSet(0 .. count - 1) /\ Cardinality(0 .. count - 1) = count
  BY FS_Interval
<1>5. ASSUME NEW m \in listing, NEW n \in listing, m < n PROVE rank[m] # rank[n]
  <2>1. m \in Int /\ n \in Int /\ n \in channel
    BY <1>2, ChannelFacts
  <2>2. After(n) \in SUBSET After(m) /\ n \in After(m) /\ n \notin After(n)
    <3>1. \A k \in channel : k > n => k > m
      BY <1>5, <2>1, ChannelFacts
    <3>2. n > m /\ ~(n > n)
      BY <1>5, <2>1
    <3> QED BY <2>1, <3>1, <3>2 DEF After
  <2>3. Cardinality(After(m)) # Cardinality(After(n))
    BY <2>2, AfterCounted, FS_Subset
  <2> QED BY <2>3
<1>6. \A m, n \in listing : m # n => rank[m] # rank[n]
  <2>1. \A m, n \in listing : m # n => m < n \/ n < m
    BY <1>2, ChannelFacts
  <2> QED BY <1>5, <2>1
<1>7. ~(count < Cardinality(listing))
  <2> HIDE DEF rank, listing
  <2> QED BY <1>1, <1>3, <1>4, <1>6, FS_PigeonHole
<1> QED BY <1>1, <1>7

(* What a purge has listed, from its listing to its answer.                *)
SpanSo(t) ==
  LET p == purge[t] IN
    /\ p.listed \subseteq 1 .. latest
    /\ p.stage \in {"access", "list"} => p.listed = {}
    /\ p.stage = "delete" =>
         /\ Cardinality(p.listed) <= p.count
         /\ IsFiniteSet(p.listed)
         /\ \A m \in channel, oldest, newest \in p.listed :
              oldest <= m /\ m <= newest => m \in p.listed
    /\ p.stage = "done" =>
         \A m \in channel, oldest, newest \in p.listed : ~(oldest <= m /\ m <= newest)

LEMMA SpanUndisturbed ==
  ASSUME PurgeTypeOK, NEW t \in Tasks, SpanSo(t), purge'[t] = purge[t],
         latest' \in Nat, latest <= latest',
         \A m \in channel' : m \in channel \/ (m \in Int /\ m > latest)
  PROVE  SpanSo(t)'
<1>1. purge[t].listed \subseteq 1 .. latest /\ latest \in Nat
  BY DEF SpanSo, PurgeTypeOK
<1>2. \A m \in channel', newest \in purge[t].listed : m <= newest => m \in channel
  BY <1>1
<1>3. purge[t].listed \subseteq 1 .. latest'
  BY <1>1
<1> QED BY <1>2, <1>3 DEF SpanSo

(* A step that only ends the purge of t, or begins it.                     *)
LEMMA SpanOfOthers ==
  ASSUME PurgeTypeOK, \A u \in Tasks : SpanSo(u), NEW t \in Tasks, SpanSo(t)',
         UNCHANGED latest, channel' \subseteq channel, \A u \in Tasks \ {t} : purge'[u] = purge[u]
  PROVE  \A u \in Tasks : SpanSo(u)'
<1> SUFFICES ASSUME NEW u \in Tasks \ {t} PROVE SpanSo(u)'
  OBVIOUS
<1>1. latest' \in Nat /\ latest <= latest' /\ \A m \in channel' : m \in channel
  BY DEF PurgeTypeOK
<1> QED BY <1>1, SpanUndisturbed

LEMMA SpanKept ==
  ASSUME PurgeTypeOK, \A t \in Tasks : SpanSo(t), [Next]_vars
  PROVE  \A t \in Tasks : SpanSo(t)'
<1>1. ASSUME NEW t \in Tasks, NEW count \in PurgeCounts, StartPurge(t, count)
      PROVE  \A u \in Tasks : SpanSo(u)'
  <2>1. /\ \A u \in Tasks \ {t} : purge'[u] = purge[u]
        /\ purge'[t].listed = {} /\ purge'[t].stage = "access"
        /\ UNCHANGED <<channel, latest>>
    BY <1>1 DEF StartPurge, PurgeTypeOK
  <2>2. SpanSo(t)'
    BY <2>1 DEF SpanSo
  <2> QED BY <2>1, <2>2, SpanOfOthers
<1>9. ASSUME NEW t \in Tasks, PurgeAccess(t) PROVE \A u \in Tasks : SpanSo(u)'
  <2>1. /\ \A u \in Tasks \ {t} : purge'[u] = purge[u]
        /\ purge'[t].stage \in {"list", "denied", "error", "invalid"}
        /\ UNCHANGED <<channel, latest>>
    BY <1>9 DEF PurgeAccess, PurgeEnd, PurgeTypeOK, PurgeStates
  <2>2. purge'[t].listed = {}
    BY <1>9 DEF PurgeAccess, PurgeEnd, PurgeTypeOK, PurgeStates, SpanSo
  <2>3. SpanSo(t)'
    BY <2>1, <2>2 DEF SpanSo
  <2> QED BY <2>1, <2>3, SpanOfOthers
<1>2. ASSUME NEW t \in Tasks, ListMessages(t) PROVE \A u \in Tasks : SpanSo(u)'
  <2>1. /\ \A u \in Tasks \ {t} : purge'[u] = purge[u]
        /\ UNCHANGED <<channel, latest>>
        /\ purge[t].stage = "list" /\ purge[t].listed = {} /\ purge[t].count \in Nat
    BY <1>2 DEF ListMessages, PurgeEnd, PurgeTypeOK, PurgeStates, SpanSo
  <2>2. CASE purge' = [purge EXCEPT ![t].stage = "delete", ![t].listed = Newest(purge[t].count)]
    <3>1. /\ purge'[t].stage = "delete" /\ purge'[t].listed = Newest(purge[t].count)
          /\ purge'[t].count = purge[t].count
      BY <2>2 DEF PurgeTypeOK, PurgeStates
    <3>2. Newest(purge[t].count) \subseteq channel /\ channel \subseteq 1 .. latest
      BY DEF Newest, PurgeTypeOK
    <3> DEFINE listing == Newest(purge[t].count)
    <3>3. IsFiniteSet(listing) /\ Cardinality(listing) <= purge[t].count
      BY <2>1, ListingIsLimited
    <3>4. \A m \in channel, oldest, newest \in listing :
            oldest <= m /\ m <= newest => m \in listing
      BY <2>1, ListingHasNoGaps
    <3>5. listing \subseteq 1 .. latest
      BY <3>2
    <3> HIDE DEF listing
    <3>6. SpanSo(t)'
      BY <2>1, <3>1, <3>3, <3>4, <3>5 DEF SpanSo, listing
    <3> QED BY <2>1, <3>6, SpanOfOthers
  <2>3. ASSUME NEW end \in {"done", "unconfirmed", "error"}, PurgeEnd(t, end)
        PROVE  \A u \in Tasks : SpanSo(u)'
    <3>1. purge'[t].stage = end /\ purge'[t].listed = {}
      BY <2>1, <2>3 DEF PurgeEnd, PurgeTypeOK, PurgeStates
    <3>2. SpanSo(t)'
      BY <3>1 DEF SpanSo
    <3> QED BY <2>1, <3>2, SpanOfOthers
  <2> QED BY <1>2, <2>2, <2>3 DEF ListMessages
<1>3. ASSUME NEW t \in Tasks, DeleteListed(t) PROVE \A u \in Tasks : SpanSo(u)'
  <2>1. /\ \A u \in Tasks \ {t} : purge'[u] = purge[u]
        /\ UNCHANGED latest /\ channel' \subseteq channel
        /\ purge[t].stage = "delete"
        /\ purge'[t].stage \in {"done", "unconfirmed", "error"}
        /\ purge'[t].listed = purge[t].listed
        /\ purge'[t].stage = "done" => channel' = channel \ purge[t].listed
    BY <1>3 DEF DeleteListed, PurgeEnd, PurgeTypeOK, PurgeStates
  <2>2. SpanSo(t)'
    BY <2>1 DEF SpanSo
  <2> QED BY <2>1, <2>2, SpanOfOthers
<1>4. ASSUME UNCHANGED purge, latest' \in Nat, latest <= latest',
             \A m \in channel' : m \in channel \/ (m \in Int /\ m > latest)
      PROVE  \A t \in Tasks : SpanSo(t)'
  BY <1>4, SpanUndisturbed
<1>5. CASE PostMessage
  BY <1>4, <1>5 DEF PostMessage, PurgeTypeOK
<1>6. CASE DeleteMessage
  <2>1. UNCHANGED <<purge, latest>> /\ \A m \in channel' : m \in channel
    BY <1>6 DEF DeleteMessage
  <2>2. latest' \in Nat /\ latest <= latest'
    BY <2>1 DEF PurgeTypeOK
  <2> QED BY <1>4, <2>1, <2>2
<1>7. CASE GrowOld \/ UNCHANGED purgeVars
  <2>1. UNCHANGED <<purge, latest, channel>>
    BY <1>7 DEF GrowOld, purgeVars
  <2>2. latest' \in Nat /\ latest <= latest'
    BY <2>1 DEF PurgeTypeOK
  <2> QED BY <1>4, <2>1, <2>2
<1>8. CASE LosePurges
  <2> SUFFICES ASSUME NEW t \in Tasks PROVE SpanSo(t)'
    OBVIOUS
  <2>1. UNCHANGED <<latest, channel>>
    BY <1>8 DEF LosePurges
  <2>2. CASE purge[t].stage \in PurgeStages
    <3>1. purge'[t].stage = "lost" /\ purge'[t].listed = {}
      BY <1>8, <2>2 DEF LosePurges, IdlePurge
    <3> QED BY <3>1 DEF SpanSo
  <2>3. CASE purge[t].stage \notin PurgeStages
    <3>1. purge'[t] = purge[t]
      BY <1>8, <2>3 DEF LosePurges
    <3>2. SpanSo(t)
      OBVIOUS
    <3> QED BY <2>1, <3>1, <3>2 DEF SpanSo
  <2> QED BY <2>2, <2>3
<1> QED BY <1>1, <1>2, <1>3, <1>5, <1>6, <1>7, <1>8, <1>9, PurgePart

(* "Deleted n messages" leaves no message among those n, for any number of *)
(* purges and any posting, deleting and ageing in between.                 *)
THEOREM PurgeAlwaysClearsItsSpan == Spec => []PurgeClearsItsSpan
<1> DEFINE AllSo == \A t \in Tasks : SpanSo(t)
<1>1. Init => AllSo
  BY DEF Init, PurgeInit, IdlePurge, SpanSo
<1>2. TypeOK /\ AllSo /\ [Next]_vars => AllSo'
  BY SpanKept DEF TypeOK
<1>3. AllSo => PurgeClearsItsSpan
  BY DEF SpanSo, PurgeClearsItsSpan
<1> HIDE DEF AllSo
<1> QED BY <1>1, <1>2, <1>3, TypeCorrect, PTL DEF Spec

(* A deletion stays within what was listed, whatever happened in between,  *)
(* so it takes at most what was asked for and nothing newer.               *)
THEOREM PurgeOnlyTakesWhatItSaw == Spec => PurgeTakesOnlyWhatItSaw
<1> DEFINE AllSo == \A t \in Tasks : SpanSo(t)
           Step == \A t \in Tasks :
             purge[t].stage = "delete" /\ purge'[t].stage # "delete" =>
               /\ Cardinality(channel \ channel') <= purge[t].count
               /\ \A m \in channel \ channel' : \E newest \in purge[t].listed : m <= newest
<1>1. Init => AllSo
  BY DEF Init, PurgeInit, IdlePurge, SpanSo
<1>2. TypeOK /\ AllSo /\ [Next]_vars => AllSo'
  BY SpanKept DEF TypeOK
<1>3. TypeOK /\ AllSo /\ [Next]_vars => [Step]_purgeVars
  <2> SUFFICES ASSUME TypeOK, AllSo, [Next]_vars, NEW t \in Tasks,
                      purge[t].stage = "delete", purge'[t].stage # "delete"
               PROVE  /\ Cardinality(channel \ channel') <= purge[t].count
                      /\ \A m \in channel \ channel' : \E newest \in purge[t].listed : m <= newest
    OBVIOUS
  <2> USE DEF TypeOK
  <2>1. /\ IsFiniteSet(purge[t].listed) /\ Cardinality(purge[t].listed) <= purge[t].count
        /\ purge[t].count \in Nat
    BY DEF SpanSo, PurgeTypeOK, PurgeStates
  <2>2. channel \ channel' \subseteq purge[t].listed
    <3>1. ASSUME NEW u \in Tasks, NEW count \in PurgeCounts, StartPurge(u, count) PROVE FALSE
      BY <3>1 DEF StartPurge, PurgeTypeOK
    <3>2. ASSUME NEW u \in Tasks, PurgeAccess(u) \/ ListMessages(u) PROVE FALSE
      BY <3>2 DEF PurgeAccess, ListMessages, PurgeEnd, PurgeTypeOK
    <3>3. ASSUME NEW u \in Tasks, DeleteListed(u)
          PROVE  u = t /\ channel \ channel' \subseteq purge[t].listed
      <4>1. u = t
        BY <3>3 DEF DeleteListed, PurgeEnd, PurgeTypeOK
      <4> QED BY <3>3, <4>1 DEF DeleteListed
    <3>4. CASE PostMessage \/ DeleteMessage \/ GrowOld \/ UNCHANGED purgeVars
      BY <3>4 DEF PostMessage, DeleteMessage, GrowOld, purgeVars
    <3>5. CASE LosePurges
      BY <3>5 DEF LosePurges
    <3> QED BY <3>1, <3>2, <3>3, <3>4, <3>5, PurgePart
  <2>3. Cardinality(channel \ channel') <= Cardinality(purge[t].listed)
    BY <2>1, <2>2, FS_Subset
  <2>4. Cardinality(channel \ channel') \in Nat /\ Cardinality(purge[t].listed) \in Nat
    BY <2>1, <2>2, FS_Subset, FS_CardinalityType
  <2>5. \A m \in channel \ channel' : m \in Int
    BY ChannelFacts
  <2> QED BY <2>1, <2>2, <2>3, <2>4, <2>5
<1> HIDE DEF AllSo
<1> QED BY <1>1, <1>2, <1>3, TypeCorrect, PTL DEF Spec, PurgeTakesOnlyWhatItSaw
=============================================================================
