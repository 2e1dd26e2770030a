-------------------------------- MODULE Purge --------------------------------
(***************************************************************************)
(* /purge (commands/moderation.rs) in a channel where people post and      *)
(* delete messages meanwhile.  Discord's ids grow with time, so a message  *)
(* is its number, and all messages up to `old` are over 14 days of age.    *)
(* The access check, which poise runs first, lets some through: whom the   *)
(* allowlist admits is in Moderation.                                      *)
(***************************************************************************)
EXTENDS Integers, FiniteSets, Startup, Durations

CONSTANTS PurgeCounts,    \* the numbers typed
          MaxPosts,       \* bound: messages ever posted
          Posted          \* of these, the ones posted before the model begins

ASSUME PurgeAssumption ==
  /\ PurgeCounts \subseteq Int
  /\ MaxPosts \in Nat /\ Posted \in 0 .. MaxPosts

VARIABLES channel,    \* the messages in the channel
          latest,     \* the newest ever posted
          old,
          purge       \* per task: where it stands, and what it listed

purgeVars == <<channel, latest, old, purge>>

PurgeStages == {"access", "list", "delete"}
PurgeEnds == {"done", "denied", "unconfirmed", "invalid", "error", "lost"}
PurgeStates == [stage : {"idle"} \cup PurgeStages \cup PurgeEnds,
                count : PurgeCounts \cup 0 .. 100, listed : SUBSET (1 .. MaxPosts)]
IdlePurge == [stage |-> "idle", count |-> 0, listed |-> {}]

PurgeTypeOK ==
  /\ channel \in SUBSET (1 .. latest) /\ latest \in 0 .. MaxPosts /\ old \in 0 .. latest
  /\ purge \in [Tasks -> PurgeStates]
  /\ \A t \in Tasks : purge[t].stage \in {"list", "delete"} => purge[t].count \in 0 .. 100

PurgeInit ==
  /\ latest = Posted /\ channel = 1 .. Posted /\ old \in 0 .. Posted
  /\ purge = [t \in Tasks |-> IdlePurge]

-----------------------------------------------------------------------------
(* The command comes with the number typed, and its check begins.          *)
StartPurge(t, count) ==
  /\ Serving /\ purge[t].stage = "idle"
  /\ purge' = [purge EXCEPT ![t] = [stage |-> "access", count |-> count, listed |-> {}]]
  /\ UNCHANGED <<channel, latest, old>>

PurgeEnd(t, stage) == purge' = [purge EXCEPT ![t].stage = stage]

(* moderation_access_check has its answer, and refuses or fails, or the    *)
(* handler runs up to its listing.                                         *)
PurgeAccess(t) ==
  LET verdict == validate_purge_count(purge[t].count) IN
    /\ purge[t].stage = "access"
    /\ \/ \E end \in {"denied", "error"} : PurgeEnd(t, end)
       \/ ~verdict.ok /\ PurgeEnd(t, "invalid")
       \/ /\ verdict.ok
          /\ purge' = [purge EXCEPT ![t] =
               [stage |-> "list", count |-> verdict.value, listed |-> {}]]
    /\ UNCHANGED <<channel, latest, old>>

(* GetMessages with a limit: the newest messages, that many.               *)
Newest(count) == {m \in channel : Cardinality({n \in channel : n > m}) < count}

(* Nothing listed is answered at once; a reply may fail.                   *)
ListMessages(t) ==
  LET listed == Newest(purge[t].count) IN
    /\ purge[t].stage = "list"
    /\ \/ listed # {} /\ purge' = [purge EXCEPT ![t].stage = "delete", ![t].listed = listed]
       \/ listed = {} /\ \E end \in {"done", "unconfirmed"} : PurgeEnd(t, end)
       \/ PurgeEnd(t, "error")
    /\ UNCHANGED <<channel, latest, old>>

(* What Discord accepts: one message if it is there, of whatever age;      *)
(* several in bulk if none is old, the missing ones passed over.           *)
Deletable(listed) ==
  IF Cardinality(listed) = 1 THEN listed \subseteq channel
  ELSE \A m \in listed : m > old

(* Mutant: old messages are sorted out, and counted as deleted.            *)
YoungDeleted(t) ==
  /\ purge[t].stage = "delete"
  /\ \/ /\ channel' = channel \ {m \in purge[t].listed : m > old}
        /\ \E end \in {"done", "unconfirmed"} : PurgeEnd(t, end)
     \/ UNCHANGED channel /\ PurgeEnd(t, "error")
  /\ UNCHANGED <<latest, old>>

(* Mutant: the channel is listed once more for the deletion.               *)
ListedAnew(t) ==
  /\ purge[t].stage = "delete"
  /\ \/ /\ Deletable(Newest(purge[t].count))
        /\ channel' = channel \ Newest(purge[t].count)
        /\ \E end \in {"done", "unconfirmed"} : PurgeEnd(t, end)
     \/ UNCHANGED channel /\ PurgeEnd(t, "error")
  /\ UNCHANGED <<latest, old>>

(* The deletion and the reply.  Either may fail, the answer to a deletion  *)
(* that took place included.                                               *)
DeleteListed(t) ==
  /\ purge[t].stage = "delete"
  /\ \/ /\ Deletable(purge[t].listed)
        /\ channel' = channel \ purge[t].listed
        /\ \E end \in {"done", "unconfirmed"} : PurgeEnd(t, end)
     \/ UNCHANGED channel /\ PurgeEnd(t, "error")
  /\ UNCHANGED <<latest, old>>

-----------------------------------------------------------------------------
(* Everybody else, and time.                                               *)
PostMessage ==
  /\ latest < MaxPosts
  /\ latest' = latest + 1 /\ channel' = channel \cup {latest + 1}
  /\ UNCHANGED <<old, purge>>

DeleteMessage == \E m \in channel : channel' = channel \ {m} /\ UNCHANGED <<latest, old, purge>>

GrowOld == old < latest /\ old' = old + 1 /\ UNCHANGED <<channel, latest, purge>>

(* A restart: a purge under way is gone, wherever it stood.                *)
LosePurges ==
  /\ purge' = [t \in Tasks |->
       IF purge[t].stage \in PurgeStages THEN [IdlePurge EXCEPT !.stage = "lost"] ELSE purge[t]]
  /\ UNCHANGED <<channel, latest, old>>

PurgeStep(t) == PurgeAccess(t) \/ ListMessages(t) \/ DeleteListed(t)

-----------------------------------------------------------------------------
(* When /purge says "Deleted n messages", nothing is left between the      *)
(* oldest and the newest of them, whoever posted and deleted meanwhile,    *)
(* and neither age nor an overlapping purge has saved one.                 *)
PurgeClearsItsSpan ==
  \A t \in Tasks : purge[t].stage = "done" =>
    \A m \in channel, oldest, newest \in purge[t].listed : ~(oldest <= m /\ m <= newest)

(* A deletion takes no more messages than were asked for, and none posted  *)
(* after the command looked, though the channel moves on between the two.  *)
PurgeTakesOnlyWhatItSaw ==
  [][\A t \in Tasks :
       purge[t].stage = "delete" /\ purge'[t].stage # "delete" =>
         /\ Cardinality(channel \ channel') <= purge[t].count
         /\ \A m \in channel \ channel' : \E newest \in purge[t].listed : m <= newest]_purgeVars
=============================================================================
