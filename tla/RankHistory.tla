---------------------------- MODULE RankHistory ----------------------------
(***************************************************************************)
(* How stale the roles may be that a punishment is judged by.  authorize   *)
(* (commands/moderation.rs) asks serenity's cache, which keeps a member as *)
(* an event last carried it, and for as long as the process runs: after    *)
(* role changes, a departure, a return.  A history variable remembers what *)
(* everybody has been since the process started.                           *)
(***************************************************************************)
EXTENDS Moderation

VARIABLE had    \* per user: the sets of roles it has had as a member

HistoryInit == had = [u \in Users |-> IF u \in members THEN {roles[u]} ELSE {}]

Remember ==
  had' = [u \in Users |-> IF u \in members' THEN had[u] \cup {roles'[u]} ELSE had[u]]

(* Whoever is a member at a restart is one anew.                           *)
Forget == had' = [u \in Users |-> IF u \in members THEN {roles[u]} ELSE {}]

HistoryNext == (Step /\ Remember) \/ (Restart /\ Forget)

HistorySpec == Init /\ HistoryInit /\ [][HistoryNext]_<<vars, had>>

-----------------------------------------------------------------------------
(* At some instant since the process started the actor was that high, and  *)
(* at some instant the target that low.                                    *)
OnceOutranked(u, v) ==
  u = Owner \/ \E mine \in had[u], theirs \in had[v] : Highest(mine) > Highest(theirs)

(* Who kicks, bans or mutes somebody is the owner or has been strictly     *)
(* above something the target has been, since this process started: the    *)
(* roles authorize judges by may be of two instants and long lost, but are *)
(* never made up, of somebody else, or from before a restart.              *)
RankOnceHeld ==
  [][\A a \in Attempts :
       Performs(a) /\ attempt[a].command \in Punishments =>
         OnceOutranked(attempt[a].actor, attempt[a].target)]_<<vars, had>>
=============================================================================
