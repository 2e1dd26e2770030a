------------------------------- MODULE Service -------------------------------
(***************************************************************************)
(* The process: Startup brings it up, commands run while it serves, and it *)
(* may stop at any moment.  What stops with it are the tasks and what      *)
(* songbird holds; the database, the channel and the registered commands   *)
(* stay.  poise runs a command only with the Data that setup returns.      *)
(***************************************************************************)
EXTENDS Purge, Voice

CONSTANT MaxOutside     \* bound: what other people and time do

ASSUME ServiceAssumption == MaxOutside \in Nat

VARIABLE outside        \* how much of it has happened

vars == <<startupVars, purgeVars, voiceVars, outside>>

Init == StartupInit /\ PurgeInit /\ VoiceInit /\ outside = 0

(* A task is one use of one command.                                       *)
Unused(t) == purge[t].stage = "idle" /\ voice[t].stage = "idle"

StartStep ==
  StartupStep /\ UNCHANGED <<purgeVars, voiceVars, outside>>

Command ==
  /\ \E t \in Tasks : Unused(t) /\
       \/ \E count \in PurgeCounts : StartPurge(t, count) /\ UNCHANGED voiceVars
       \/ \E explicit, invokers \in Places :
            StartJoin(t, explicit, invokers) /\ UNCHANGED purgeVars
       \/ Leave(t) /\ UNCHANGED purgeVars
  /\ UNCHANGED <<startupVars, outside>>

Progress(t) ==
  /\ \/ PurgeStep(t) /\ UNCHANGED voiceVars
     \/ VoiceStep(t) /\ UNCHANGED purgeVars
  /\ UNCHANGED <<startupVars, outside>>

Gateway == TakeRequest /\ UNCHANGED <<startupVars, purgeVars, outside>>

Outside ==
  /\ outside < MaxOutside /\ outside' = outside + 1
  /\ \/ (PostMessage \/ DeleteMessage \/ GrowOld) /\ UNCHANGED voiceVars
     \/ Moved /\ UNCHANGED purgeVars
  /\ UNCHANGED startupVars

(* Discord forgets where the bot of a session that is over was.            *)
Forgotten == SessionEnds /\ UNCHANGED <<startupVars, purgeVars, outside>>

(* The process stops, or is stopped.                                       *)
Restart == Halt /\ LosePurges /\ LoseVoice /\ UNCHANGED outside

Next ==
  \/ StartStep
  \/ Command
  \/ \E t \in Tasks : Progress(t)
  \/ Gateway
  \/ Outside
  \/ Forgotten
  \/ Restart

(* tokio runs what can run, and every awaited call returns or fails; the   *)
(* gateway takes its requests.  Whether anybody starts the program, uses a *)
(* command or stops it, is up to them.                                     *)
Fairness ==
  /\ WF_vars((Connect \/ Migrate \/ BuildClient \/ Ready) /\ UNCHANGED <<purgeVars, voiceVars, outside>>)
  /\ \A t \in Tasks : WF_vars(Progress(t))
  /\ WF_vars(Gateway)

Spec == Init /\ [][Next]_vars
FairSpec == Spec /\ Fairness

-----------------------------------------------------------------------------
Running(t) == purge[t].stage \in PurgeStages \/ voice[t].stage \in VoiceStages

TypeOK == StartupTypeOK /\ PurgeTypeOK /\ VoiceTypeOK /\ outside \in 0 .. MaxOutside

(* A command runs only in a process that has every table the commands use, *)
(* and whose commands Discord knows in the scope this start asked for,     *)
(* whatever stopped the starts before it halfway.                          *)
ServedReady ==
  (\E t \in Tasks : Running(t)) => schema = Migrations /\ scope \in registered

(* A start ends in serving, in being deaf or in stopping, and a command in *)
(* an answer, an error or the end of the process.                          *)
EverythingSettles ==
  /\ process \in Booting ~> process \in {"serving", "deaf", "down"}
  /\ \A t \in Tasks : Running(t) ~> ~Running(t)
=============================================================================
