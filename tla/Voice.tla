-------------------------------- MODULE Voice --------------------------------
(***************************************************************************)
(* /join and /leave (commands/voice.rs) in one guild.  songbird keeps a    *)
(* call for a guild from the first /join to the next /leave and speaks to  *)
(* the gateway, which takes requests in order; of songbird the model has   *)
(* only what voice.rs says of it.                                          *)
(***************************************************************************)
EXTENDS Naturals, Sequences, Startup, Results

CONSTANT VoiceChannels

ASSUME VoiceAssumption == None \notin VoiceChannels

VARIABLES call,       \* whether songbird holds a call for the guild
          requests,   \* on their way to the gateway: where the bot shall be
          presence,   \* where the bot is, for everybody to see
          stale,      \* whether that is left of a session that is over
          voice,      \* per task: where it stands, and where it is to join
          crossed     \* only the properties look at it: whether a /join and
                      \* a /leave of this process were in songbird together

voiceVars == <<call, requests, presence, stale, voice, crossed>>

Places == VoiceChannels \cup {None}
VoiceStages == {"joining", "waiting", "confirmed", "leaving"}
VoiceEnds == {"joined", "left", "refused", "nocall", "unconfirmed", "error", "lost"}
VoiceStates == [stage : {"idle"} \cup VoiceStages \cup VoiceEnds, aim : Places]

VoiceTypeOK ==
  /\ call \in BOOLEAN /\ stale \in BOOLEAN /\ crossed \in BOOLEAN
  /\ requests \in Seq([task : Tasks, place : Places])
  /\ presence \in Places
  /\ voice \in [Tasks -> VoiceStates]

VoiceInit ==
  /\ call = FALSE /\ requests = <<>> /\ presence = None /\ stale = FALSE
  /\ voice = [t \in Tasks |-> [stage |-> "idle", aim |-> None]] /\ crossed = FALSE

-----------------------------------------------------------------------------
VoiceBecomes(t, stage) == voice' = [voice EXCEPT ![t] = [stage |-> stage, aim |-> None]]

Ask(t, place) == requests' = Append(requests, [task |-> t, place |-> place])

Some(stage) == \E t \in Tasks : voice[t].stage = stage

(* The channel that was named, else the one the invoker is in.             *)
resolve_join_target(explicit, invokers) == IF explicit # None THEN explicit ELSE invokers

(* Mutant: the voice state update is to be sent without songbird.          *)
StartJoin_bare(t, explicit, invokers) ==
  LET target == resolve_join_target(explicit, invokers) IN
    /\ Serving /\ voice[t].stage = "idle"
    /\ \/ target = None /\ VoiceBecomes(t, "refused") /\ UNCHANGED crossed
       \/ VoiceBecomes(t, "error") /\ UNCHANGED crossed
       \/ /\ target # None /\ crossed' = (crossed \/ Some("leaving"))
          /\ voice' = [voice EXCEPT ![t] = [stage |-> "joining", aim |-> target]]
    /\ UNCHANGED <<call, requests, presence, stale>>

(* /join up to join_gateway, which takes songbird's call for the guild, or *)
(* makes it hold one.  The cache has the invoker in some channel or in     *)
(* none, as of some time ago.                                              *)
StartJoin(t, explicit, invokers) ==
  LET target == resolve_join_target(explicit, invokers) IN
    /\ Serving /\ voice[t].stage = "idle"
    /\ \/ target = None /\ VoiceBecomes(t, "refused") /\ UNCHANGED <<call, crossed>>
       \/ VoiceBecomes(t, "error") /\ UNCHANGED <<call, crossed>>
       \/ /\ target # None /\ call' = TRUE /\ crossed' = (crossed \/ Some("leaving"))
          /\ voice' = [voice EXCEPT ![t] = [stage |-> "joining", aim |-> target]]
    /\ UNCHANGED <<requests, presence, stale>>

(* join_gateway sends the voice state update, or cannot.                   *)
SendJoin(t) ==
  /\ voice[t].stage = "joining"
  /\ \/ Ask(t, voice[t].aim) /\ VoiceBecomes(t, "waiting")
     \/ VoiceBecomes(t, "error") /\ UNCHANGED requests
  /\ UNCHANGED <<call, presence, stale, crossed>>

(* The gateway moves the bot, or will not have it in that channel; a bot   *)
(* may always leave.                                                       *)
TakeRequest ==
  LET request == Head(requests) IN
    /\ requests # <<>>
    /\ requests' = Tail(requests)
    /\ \/ /\ presence' = request.place /\ stale' = FALSE
          /\ IF voice[request.task].stage = "waiting"
             THEN VoiceBecomes(request.task, "confirmed") ELSE UNCHANGED voice
       \/ request.place # None /\ UNCHANGED <<presence, stale, voice>>
    /\ UNCHANGED <<call, crossed>>

(* Mutant: only the gateway's confirmation ends the wait.                  *)
PatientFinishJoin(t) ==
  /\ voice[t].stage = "confirmed"
  /\ \E end \in {"joined", "unconfirmed"} : VoiceBecomes(t, end)
  /\ UNCHANGED <<call, requests, presence, stale, crossed>>

(* join_gateway returns: confirmed, or at any time before with an error    *)
(* (timed out, superseded), while its request may still be on the way.     *)
FinishJoin(t) ==
  /\ \/ /\ voice[t].stage = "confirmed"
        /\ \E end \in {"joined", "unconfirmed"} : VoiceBecomes(t, end)
     \/ voice[t].stage = "waiting" /\ VoiceBecomes(t, "error")
  /\ UNCHANGED <<call, requests, presence, stale, crossed>>

(* Manager::remove up to its await: no call, no leaving; with one, the bot *)
(* is to leave, and a failure keeps the call.                              *)
Leave(t) ==
  /\ Serving /\ voice[t].stage = "idle"
  /\ \/ /\ ~call /\ UNCHANGED <<requests, crossed>>
        /\ \E end \in {"nocall", "unconfirmed"} : VoiceBecomes(t, end)
     \/ /\ call /\ Ask(t, None) /\ VoiceBecomes(t, "leaving")
        /\ crossed' = (crossed \/ Some("joining"))
     \/ call /\ VoiceBecomes(t, "error") /\ UNCHANGED <<requests, crossed>>
  /\ UNCHANGED <<call, presence, stale>>

(* Then it drops the guild's call, whosoever holds it by now.              *)
DropCall(t) ==
  /\ voice[t].stage = "leaving"
  /\ call' = FALSE /\ \E end \in {"left", "unconfirmed"} : VoiceBecomes(t, end)
  /\ UNCHANGED <<requests, presence, stale, crossed>>

VoiceStep(t) == SendJoin(t) \/ FinishJoin(t) \/ DropCall(t)

(* Somebody disconnects the bot, or drags it elsewhere.                    *)
Moved == \E place \in Places \ {presence} :
  /\ presence # None /\ presence' = place /\ stale' = (stale /\ place # None)
  /\ UNCHANGED <<call, requests, voice, crossed>>

(* A restart ends songbird and the gateway's session.  The bot is seen     *)
(* where it was for a while, until the gateway notices.                    *)
LoseVoice ==
  /\ call' = FALSE /\ requests' = <<>> /\ stale' = (presence # None) /\ crossed' = FALSE
  /\ voice' = [t \in Tasks |->
       IF voice[t].stage \in VoiceStages THEN [stage |-> "lost", aim |-> None] ELSE voice[t]]
  /\ UNCHANGED presence

SessionEnds ==
  /\ stale /\ stale' = FALSE /\ presence' = None
  /\ UNCHANGED <<call, requests, voice, crossed>>

-----------------------------------------------------------------------------
(* Whenever nothing is on its way to the gateway and the bot is in a       *)
(* channel, songbird has the call: "NoCall means the bot wasn't connected  *)
(* here" (voice.rs:96), so a /leave can take it out.  It fails when a      *)
(* /leave drops the call that a /join already has in hand.                 *)
LeaveFindsTheBot == requests = <<>> /\ presence # None /\ ~stale => call

(* Nothing else does that: unless a /join and a /leave of this process     *)
(* were inside songbird together, /leave finds the call of every bot that  *)
(* is in a channel, whatever joins that overtake each other or give up,    *)
(* leaves, failures, people and restarts came before.                      *)
OnlyACrossingStrands == LeaveFindsTheBot \/ crossed
=============================================================================
