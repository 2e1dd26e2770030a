---------------------------- MODULE GatePromise ----------------------------
(***************************************************************************)
(* What the moderation commands promise, with no await, cache or table in  *)
(* sight: an attempt is admitted only at an instant where one of the       *)
(* credentials it came with is on the allowlist, and turned away as a      *)
(* stranger only at one where none is; an admitted attempt changes the     *)
(* guild at most once, by what its command says, and never turns against   *)
(* its own actor or a protected user.  Only people and admitted attempts   *)
(* change the guild, and people ban and mute nobody.                       *)
(***************************************************************************)
CONSTANTS Attempts, Users, Entries, Protected, Commands, Punishments, None

VARIABLES allow,        \* the entries on the allowlist
          members, banned, muted,
          deed          \* per attempt: where it stands, and what it asks for

guild == <<members, banned, muted>>
promiseVars == <<allow, members, banned, muted, deed>>

NoDeed == [at |-> "unsent", command |-> None, actor |-> None,
           target |-> None, credentials |-> {}]

PromiseInit ==
  /\ allow \subseteq Entries
  /\ members \subseteq Users /\ banned \subseteq Users /\ muted \subseteq Users
  /\ deed = [a \in Attempts |-> NoDeed]

Grant(e) == allow' = allow \cup {e} /\ UNCHANGED <<guild, deed>>

Revoke(e) == allow' = allow \ {e} /\ UNCHANGED <<guild, deed>>

(* People come and go, and timeouts run out.                               *)
Drift ==
  /\ members' \subseteq Users /\ muted' \subseteq muted
  /\ UNCHANGED <<banned, allow, deed>>

Requests ==
  [at : {"pending"}, command : Commands, actor : Users,
   target : Users \cup {None}, credentials : SUBSET Entries]

Submit(a) ==
  /\ deed[a] = NoDeed
  /\ deed'[a] \in Requests /\ deed' = [deed EXCEPT ![a] = deed'[a]]
  /\ UNCHANGED <<guild, allow>>

Stands(a, at) == deed' = [deed EXCEPT ![a] = [@ EXCEPT !.at = at]]

Admit(a) ==
  /\ deed[a].at = "pending" /\ deed[a].credentials \cap allow # {}
  /\ Stands(a, "admitted")
  /\ UNCHANGED <<guild, allow>>

Deny(a) ==
  /\ deed[a].at = "pending" /\ deed[a].credentials \cap allow = {}
  /\ Stands(a, "denied")
  /\ UNCHANGED <<guild, allow>>

Carries(command, u) ==
  \/ command = "kick"   /\ members' = members \ {u} /\ UNCHANGED <<banned, muted>>
  \/ command = "ban"    /\ members' = members \ {u} /\ banned' = banned \cup {u}
                        /\ UNCHANGED muted
  \/ command = "unban"  /\ banned' = banned \ {u} /\ UNCHANGED <<members, muted>>
  \/ command = "mute"   /\ muted' = muted \cup {u} /\ UNCHANGED <<members, banned>>
  \/ command = "unmute" /\ muted' = muted \ {u} /\ UNCHANGED <<members, banned>>
  \/ command = "purge"  /\ UNCHANGED guild

Perform(a) ==
  /\ deed[a].at = "admitted"
  /\ deed[a].command \in Punishments =>
       deed[a].target \notin Protected \cup {deed[a].actor}
  /\ Carries(deed[a].command, deed[a].target)
  /\ Stands(a, "performed")
  /\ UNCHANGED allow

(* Refusals, errors, and a crash that takes everything under way with it.  *)
Close(closing) ==
  /\ \A a \in closing : deed[a].at \in {"pending", "admitted"}
  /\ deed' = [a \in Attempts |->
       IF a \in closing THEN [deed[a] EXCEPT !.at = "closed"] ELSE deed[a]]
  /\ UNCHANGED <<guild, allow>>

PromiseNext ==
  \/ \E e \in Entries : Grant(e) \/ Revoke(e)
  \/ \E a \in Attempts : Submit(a) \/ Admit(a) \/ Deny(a) \/ Perform(a)
  \/ \E closing \in SUBSET Attempts : Close(closing)
  \/ Drift

Promise == PromiseInit /\ [][PromiseNext]_promiseVars
=============================================================================
