-------------------------- MODULE ModerationProofs --------------------------
(***************************************************************************)
(* Proofs about Moderation, for any guild, any number of invocations and   *)
(* any history of the cache.  The argument: an inductive invariant that    *)
(* says what shape a task has at each stage and that only a judged command *)
(* reaches its effect; the promise of GatePromise step by step from it;    *)
(* and two further invariants, for the roles a punishment is judged by and *)
(* for what /allow and /disallow report.                                   *)
(***************************************************************************)
EXTENDS RankHistory, TLAPS

(* What is known of a task at its stage.                                   *)
AttemptShape(a) ==
  /\ attempt[a].stage = "idle" => attempt[a] = IdleAttempt
  /\ attempt[a].stage # "idle" =>
       /\ attempt[a].command \in AllCommands
       /\ attempt[a].actor \in Users
       /\ attempt[a].target \in Aims(attempt[a].command)

(* A punishment is about to be carried out only after it was judged.       *)
Judgement(a) ==
  /\ attempt[a].stage = "resolve" => attempt[a].command \notin {"unban", "purge"}
  /\ attempt[a].stage = "authorize" => attempt[a].command # "purge"
  /\ attempt[a].stage = "act" /\ attempt[a].command \in Punishments =>
       attempt[a].target \notin {attempt[a].actor, Bot, Owner}

ManageShape(x) ==
  /\ manage[x].stage = "idle" => manage[x] = IdleManage
  /\ manage[x].stage = "user" => manage[x].user # None
  /\ manage[x].stage = "role" => manage[x].role # None

IndInv ==
  /\ TypeOK
  /\ \A a \in Attempts : AttemptShape(a) /\ Judgement(a)
  /\ \A x \in Managements : ManageShape(x)

-----------------------------------------------------------------------------
(* The steps of a task, field by field.                                    *)

(* A task that moves to a stage keeps everything else.                     *)
LEMMA StandsKeeps ==
  ASSUME TypeOK, NEW a \in Attempts, NEW stage, Stands(a, stage)
  PROVE  /\ attempt' = [attempt EXCEPT ![a] = attempt'[a]]
         /\ attempt'[a] = [stage |-> stage, command |-> attempt[a].command,
              actor |-> attempt[a].actor, target |-> attempt[a].target,
              held |-> attempt[a].held, seen |-> attempt[a].seen]
<1> DEFINE t == attempt[a]
<1>1. t \in AttemptStates
  BY DEF TypeOK
<1>2. [t EXCEPT !.stage = stage] =
        [stage |-> stage, command |-> t.command, actor |-> t.actor,
         target |-> t.target, held |-> t.held, seen |-> t.seen]
  BY <1>1 DEF AttemptStates
<1>3. attempt' = [attempt EXCEPT ![a] = [t EXCEPT !.stage = stage]]
  BY DEF Stands
<1>4. attempt'[a] = [t EXCEPT !.stage = stage]
  BY <1>3 DEF TypeOK
<1> QED BY <1>2, <1>3, <1>4

LEMMA GoesKeeps ==
  ASSUME TypeOK, NEW x \in Managements, NEW stage, Goes(x, stage)
  PROVE  /\ manage' = [manage EXCEPT ![x] = manage'[x]]
         /\ manage'[x] = [stage |-> stage, op |-> manage[x].op,
              user |-> manage[x].user, role |-> manage[x].role]
<1> DEFINE t == manage[x]
<1>1. t \in ManageStates
  BY DEF TypeOK
<1>2. [t EXCEPT !.stage = stage] =
        [stage |-> stage, op |-> t.op, user |-> t.user, role |-> t.role]
  BY <1>1 DEF ManageStates
<1>3. manage' = [manage EXCEPT ![x] = [t EXCEPT !.stage = stage]]
  BY DEF Goes
<1>4. manage'[x] = [t EXCEPT !.stage = stage]
  BY <1>3 DEF TypeOK
<1> QED BY <1>2, <1>3, <1>4

(* Where one step of a command can take it, seen from the task alone.      *)
Steps(t, u) ==
  \/ /\ t.stage = "access"
     /\ u.stage \in AfterAccess(t.command) \cup {"denied", "error"}
     /\ u.seen = t.seen
  \/ /\ t.stage = "resolve"
     /\ u.stage \in {IF t.command = "unmute" THEN "act" ELSE "authorize", "invalid", "error"}
  \/ /\ t.stage = "authorize"
     /\ u.stage \in {"act", "refused", "error"}
     /\ u.stage = "act" => t.target \notin {t.actor, Bot, Owner}
     /\ u.seen = t.seen
  \/ /\ t.stage = "act"
     /\ u.stage \in {"done", "unconfirmed", "error"}
     /\ u.seen = t.seen

CommandStep(a) == CheckAccess(a) \/ Resolve(a) \/ Authorize(a) \/ Act(a)

SameRequest(t, u) ==
  /\ u.command = t.command /\ u.actor = t.actor
  /\ u.target = t.target /\ u.held = t.held

LEMMA RolesSeen ==
  ASSUME TypeOK, NEW u \in Users, NEW held \in MemberRoles(u)
  PROVE  held \in SUBSET Roles
<1>1. CASE cache[u] # {}
  BY <1>1 DEF TypeOK, MemberRoles
<1>2. CASE cache[u] = {}
  BY <1>2 DEF TypeOK, MemberRoles
<1> QED BY <1>1, <1>2

LEMMA CommandStepKeeps ==
  ASSUME IndInv, NEW a \in Attempts, CommandStep(a)
  PROVE  /\ attempt' = [attempt EXCEPT ![a] = attempt'[a]]
         /\ attempt'[a] \in AttemptStates
         /\ SameRequest(attempt[a], attempt'[a])
         /\ Steps(attempt[a], attempt'[a])
<1> DEFINE t == attempt[a]
<1>1. TypeOK /\ t \in AttemptStates
  BY DEF IndInv, TypeOK
<1>2. ASSUME NEW stage \in AttemptStages \cup AttemptEnds, Stands(a, stage)
      PROVE  /\ attempt' = [attempt EXCEPT ![a] = attempt'[a]]
             /\ attempt'[a] \in AttemptStates
             /\ SameRequest(t, attempt'[a])
             /\ attempt'[a].stage = stage /\ attempt'[a].seen = t.seen
  <2>1. /\ attempt' = [attempt EXCEPT ![a] = attempt'[a]]
        /\ attempt'[a] = [stage |-> stage, command |-> t.command,
             actor |-> t.actor, target |-> t.target, held |-> t.held,
             seen |-> t.seen]
    BY <1>1, <1>2, StandsKeeps
  <2>2. attempt'[a] \in AttemptStates
    BY <1>1, <2>1 DEF AttemptStates
  <2> QED BY <2>1, <2>2 DEF SameRequest
<1>3. CASE CheckAccess(a)
  <2>1. /\ t.stage = "access"
        /\ \E stage \in AfterAccess(t.command) \cup {"denied", "error"} : Stands(a, stage)
    BY <1>3 DEF CheckAccess
  <2>2. AfterAccess(t.command) \cup {"denied", "error"} \subseteq AttemptStages \cup AttemptEnds
    BY DEF AfterAccess, AttemptStages, AttemptEnds
  <2> QED BY <1>2, <2>1, <2>2 DEF Steps
<1>4. CASE Resolve(a)
  <2>1. t.stage = "resolve"
    BY <1>4 DEF Resolve
  <2>2. CASE \E stage \in {"invalid", "error"} : Stands(a, stage)
    BY <1>2, <2>1, <2>2 DEF Steps, AttemptEnds
  <2>3. CASE \E seen \in MemberRoles(t.target) :
               attempt' = [attempt EXCEPT ![a] = [@ EXCEPT !.seen = seen, !.stage =
                 IF t.command = "unmute" THEN "act" ELSE "authorize"]]
    <3> DEFINE next == IF t.command = "unmute" THEN "act" ELSE "authorize"
    <3>1. PICK seen \in MemberRoles(t.target) :
            attempt' = [attempt EXCEPT ![a] = [t EXCEPT !.seen = seen, !.stage = next]]
      BY <2>3
    <3>2. t.target \in Users
      BY <2>1 DEF IndInv, AttemptShape, Judgement, Aims
    <3>3. seen \in SUBSET Roles
      BY <1>1, <3>2, RolesSeen
    <3> HIDE DEF next
    <3>4. attempt'[a] = [t EXCEPT !.seen = seen, !.stage = next]
      BY <1>1, <3>1 DEF TypeOK
    <3>5. next \in AttemptStages
      BY DEF next, AttemptStages
    <3>6. attempt'[a] \in AttemptStates /\ SameRequest(t, attempt'[a])
      BY <1>1, <3>3, <3>4, <3>5 DEF AttemptStates, SameRequest
    <3>7. attempt'[a].stage = next
      BY <1>1, <3>4 DEF AttemptStates
    <3>8. attempt' = [attempt EXCEPT ![a] = attempt'[a]]
      BY <3>1, <3>4
    <3>9. Steps(t, attempt'[a])
      BY <2>1, <3>7 DEF Steps, next
    <3> QED BY <3>6, <3>8, <3>9
  <2> QED BY <1>4, <2>2, <2>3 DEF Resolve
<1>5. CASE Authorize(a)
  <2>1. /\ t.stage = "authorize"
        /\ \E stage \in {"act", "refused", "error"} :
             /\ Stands(a, stage)
             /\ stage = "act" => t.target \notin {t.actor, Bot, Owner}
    BY <1>5 DEF Authorize, Allowed
  <2> QED BY <1>2, <2>1 DEF Steps, AttemptStages, AttemptEnds
<1>6. CASE Act(a)
  <2>1. /\ t.stage = "act"
        /\ \E stage \in {"done", "unconfirmed", "error"} : Stands(a, stage)
    BY <1>6 DEF Act
  <2> QED BY <1>2, <2>1 DEF Steps, AttemptEnds
<1> QED BY <1>3, <1>4, <1>5, <1>6 DEF CommandStep

-----------------------------------------------------------------------------
(* The inductive invariant.                                                *)

LEMMA Constants ==
  /\ \A u \in Users : UserEntry(u) \in Entries
  /\ \A r \in Roles : RoleEntry(r) \in Entries
  /\ Managed \subseteq Users \cup {None}
  /\ ManagedRoles \subseteq Roles \cup {None}
  /\ Commands \subseteq AllCommands
  /\ Shifting \subseteq Users
  /\ Listable \subseteq Entries
  /\ None \notin Users /\ None \notin Roles
  /\ \A command : Aims(command) \subseteq Users \cup {None}
  /\ Owner \in Users /\ Bot \in Users
BY ModerationAssumption DEF Entries, Managed, ManagedRoles, Aims

LEMMA InitTyped ==
  ASSUME Init
  PROVE  IndInv
<1>1. allow \in SUBSET Entries /\ roles \in [Users -> SUBSET Roles]
  BY Constants DEF Init
<1>2. cache \in [Users -> {{}} \cup {{held} : held \in SUBSET Roles}]
  BY DEF Init
<1>3. /\ members \in SUBSET Users /\ banned \in SUBSET (Users \ members)
      /\ muted \in SUBSET Users
  BY Constants DEF Init
<1>4. IdleAttempt \in AttemptStates
  BY DEF IdleAttempt, AttemptStates
<1>5. IdleManage \in ManageStates
  BY DEF IdleManage, ManageStates
<1>6. \A a \in Attempts : attempt[a] = IdleAttempt
  BY DEF Init
<1>7. \A x \in Managements : manage[x] = IdleManage
  BY DEF Init
<1>8. TypeOK
  BY <1>1, <1>2, <1>3, <1>4, <1>5 DEF Init, TypeOK
<1>9. \A a \in Attempts : AttemptShape(a) /\ Judgement(a)
  BY <1>6 DEF AttemptShape, Judgement, IdleAttempt
<1>10. \A x \in Managements : ManageShape(x)
  BY <1>7 DEF ManageShape, IdleManage
<1> QED BY <1>8, <1>9, <1>10 DEF IndInv

(* What a step of one task of either kind leaves of the others.            *)
LEMMA OneAttempt ==
  ASSUME IndInv, NEW a \in Attempts,
         attempt' = [attempt EXCEPT ![a] = attempt'[a]],
         attempt'[a] \in AttemptStates,
         AttemptShape(a)', Judgement(a)'
  PROVE  /\ attempt' \in [Attempts -> AttemptStates]
         /\ \A b \in Attempts : AttemptShape(b)' /\ Judgement(b)'
<1>1. attempt \in [Attempts -> AttemptStates]
  BY DEF IndInv, TypeOK
<1>2. \A b \in Attempts : b # a => attempt'[b] = attempt[b]
  BY <1>1
<1>3. ASSUME NEW b \in Attempts, b # a
      PROVE  AttemptShape(b)' /\ Judgement(b)'
  BY <1>2, <1>3 DEF IndInv, AttemptShape, Judgement
<1>4. attempt' \in [Attempts -> AttemptStates]
  BY <1>1
<1> QED BY <1>3, <1>4

LEMMA SameAttempts ==
  ASSUME IndInv, attempt' = attempt
  PROVE  /\ attempt' \in [Attempts -> AttemptStates]
         /\ \A b \in Attempts : AttemptShape(b)' /\ Judgement(b)'
BY DEF IndInv, TypeOK, AttemptShape, Judgement

LEMMA OneManage ==
  ASSUME IndInv, NEW x \in Managements,
         manage' = [manage EXCEPT ![x] = manage'[x]],
         manage'[x] \in ManageStates, ManageShape(x)'
  PROVE  /\ manage' \in [Managements -> ManageStates]
         /\ \A y \in Managements : ManageShape(y)'
<1>1. manage \in [Managements -> ManageStates]
  BY DEF IndInv, TypeOK
<1>2. \A y \in Managements : y # x => manage'[y] = manage[y]
  BY <1>1
<1>3. ASSUME NEW y \in Managements, y # x
      PROVE  ManageShape(y)'
  BY <1>2, <1>3 DEF IndInv, ManageShape
<1>4. manage' \in [Managements -> ManageStates]
  BY <1>1
<1> QED BY <1>3, <1>4

LEMMA SameManage ==
  ASSUME IndInv, manage' = manage
  PROVE  /\ manage' \in [Managements -> ManageStates]
         /\ \A y \in Managements : ManageShape(y)'
BY DEF IndInv, TypeOK, ManageShape

LEMMA SameGuild ==
  ASSUME IndInv, UNCHANGED guild
  PROVE  /\ roles' \in [Users -> SUBSET Roles] /\ members' \in SUBSET Users
         /\ banned' \in SUBSET (Users \ members') /\ muted' \in SUBSET Users
BY DEF IndInv, TypeOK, guild

LEMMA SameCache ==
  ASSUME IndInv, cache' = cache
  PROVE  cache' \in [Users -> {{}} \cup {{held} : held \in SUBSET Roles}]
BY DEF IndInv, TypeOK

LEMMA RemovedTyped ==
  ASSUME TypeOK, NEW u \in Users, Removed(u)
  PROVE  /\ roles' \in [Users -> SUBSET Roles]
         /\ members' = members \ {u} /\ members' \in SUBSET Users
BY DEF TypeOK, Removed

LEMMA EffectTyped ==
  ASSUME IndInv, NEW command, NEW u \in Aims(command), Effect(command, u)
  PROVE  /\ roles' \in [Users -> SUBSET Roles] /\ members' \in SUBSET Users
         /\ banned' \in SUBSET (Users \ members') /\ muted' \in SUBSET Users
<1>1. TypeOK
  BY DEF IndInv
<1>2. CASE command = "purge"
  BY <1>2, SameGuild DEF Effect
<1>3. CASE command # "purge"
  <2>1. u \in Users
    BY <1>3 DEF Aims
  <2>2. CASE Kick(u)
    BY <1>1, <2>1, <2>2, RemovedTyped DEF Kick, TypeOK
  <2>3. CASE Ban(u)
    BY <1>1, <2>1, <2>3, RemovedTyped DEF Ban, TypeOK
  <2>4. CASE Unban(u)
    BY <1>1, <2>1, <2>4 DEF Unban, TypeOK
  <2>5. CASE Mute(u)
    BY <1>1, <2>1, <2>5 DEF Mute, TypeOK
  <2>6. CASE Unmute(u)
    BY <1>1, <2>1, <2>6 DEF Unmute, TypeOK
  <2> QED BY <1>3, <2>2, <2>3, <2>4, <2>5, <2>6 DEF Effect
<1> QED BY <1>2, <1>3

LEMMA CommandPreserves ==
  ASSUME IndInv, NEW a \in Attempts, CommandStep(a)
  PROVE  IndInv'
<1>1. /\ attempt' = [attempt EXCEPT ![a] = attempt'[a]]
      /\ attempt'[a] \in AttemptStates
      /\ SameRequest(attempt[a], attempt'[a])
      /\ Steps(attempt[a], attempt'[a])
  BY CommandStepKeeps
<1>2. AttemptShape(a) /\ Judgement(a)
  BY DEF IndInv
<1>3. attempt[a].stage # "idle" /\ attempt'[a].stage # "idle"
  BY <1>1 DEF Steps, AfterAccess
<1>4. AttemptShape(a)'
  BY <1>1, <1>2, <1>3 DEF AttemptShape, SameRequest
<1>5. Judgement(a)'
  <2>1. CASE attempt[a].stage = "access"
    BY <1>1, <2>1 DEF Steps, SameRequest, Judgement, Punishments, AfterAccess
  <2>2. CASE attempt[a].stage = "resolve"
    BY <1>1, <1>2, <2>2 DEF Steps, SameRequest, Judgement, Punishments
  <2>3. CASE attempt[a].stage = "authorize"
    BY <1>1, <2>3 DEF Steps, SameRequest, Judgement
  <2>4. CASE attempt[a].stage = "act"
    BY <1>1, <2>4 DEF Steps, SameRequest, Judgement
  <2> QED BY <1>1, <2>1, <2>2, <2>3, <2>4 DEF Steps
<1>6. /\ attempt' \in [Attempts -> AttemptStates]
      /\ \A b \in Attempts : AttemptShape(b)' /\ Judgement(b)'
  BY <1>1, <1>4, <1>5, OneAttempt
<1>7. UNCHANGED <<allow, cache, manage>>
  BY DEF CommandStep, CheckAccess, Resolve, Authorize, Act
<1>8. /\ manage' \in [Managements -> ManageStates]
      /\ \A y \in Managements : ManageShape(y)'
  BY <1>7, SameManage
<1>9. cache' \in [Users -> {{}} \cup {{held} : held \in SUBSET Roles}]
  BY <1>7, SameCache
<1>10. allow' \in SUBSET Entries
  BY <1>7 DEF IndInv, TypeOK
<1>11. /\ roles' \in [Users -> SUBSET Roles] /\ members' \in SUBSET Users
       /\ banned' \in SUBSET (Users \ members') /\ muted' \in SUBSET Users
  <2>1. CASE UNCHANGED guild
    BY <2>1, SameGuild
  <2>2. CASE Effect(attempt[a].command, attempt[a].target)
    <3>1. attempt[a].target \in Aims(attempt[a].command)
      BY <1>2, <1>3 DEF AttemptShape
    <3> QED BY <2>2, <3>1, EffectTyped
  <2> QED BY <2>1, <2>2 DEF CommandStep, CheckAccess, Resolve, Authorize, Act
<1> QED BY <1>6, <1>8, <1>9, <1>10, <1>11 DEF IndInv, TypeOK

LEMMA InvokePreserves ==
  ASSUME IndInv, NEW a \in Attempts, NEW command \in Commands,
         NEW actor \in Users, NEW target \in Aims(command), Invoke(a, command, actor, target)
  PROVE  IndInv'
<1> DEFINE t == [stage |-> "access", command |-> command, actor |-> actor,
                 target |-> target, held |-> roles[actor], seen |-> {}]
<1>1. TypeOK /\ command \in AllCommands
  BY Constants DEF IndInv
<1>2. t \in AttemptStates
  BY <1>1, Constants DEF TypeOK, AttemptStates, AttemptStages
<1>3. attempt' = [attempt EXCEPT ![a] = t]
  BY DEF Invoke
<1>4. attempt'[a] = t
  BY <1>1, <1>3 DEF TypeOK
<1>5. AttemptShape(a)' /\ Judgement(a)'
  BY <1>1, <1>4 DEF AttemptShape, Judgement
<1>6. /\ attempt' \in [Attempts -> AttemptStates]
      /\ \A b \in Attempts : AttemptShape(b)' /\ Judgement(b)'
  <2>1. attempt' = [attempt EXCEPT ![a] = attempt'[a]] /\ attempt'[a] \in AttemptStates
    BY <1>2, <1>3, <1>4
  <2> QED BY <1>5, <2>1, OneAttempt
<1>7. UNCHANGED <<allow, guild, cache, manage>>
  BY DEF Invoke
<1>8. /\ manage' \in [Managements -> ManageStates]
      /\ \A y \in Managements : ManageShape(y)'
  BY <1>7, SameManage
<1>9. cache' \in [Users -> {{}} \cup {{held} : held \in SUBSET Roles}]
  BY <1>7, SameCache
<1>10. /\ roles' \in [Users -> SUBSET Roles] /\ members' \in SUBSET Users
       /\ banned' \in SUBSET (Users \ members') /\ muted' \in SUBSET Users
  BY <1>7, SameGuild
<1>11. allow' \in SUBSET Entries
  BY <1>7 DEF IndInv, TypeOK
<1> QED BY <1>6, <1>8, <1>9, <1>10, <1>11 DEF IndInv, TypeOK

(* A management command, seen from its task and the table.                 *)
ManageStep(x) == ManageUser(x) \/ ManageRole(x)

(* The entry a statement is about.                                         *)
Entry(x) ==
  IF manage[x].stage = "user" THEN UserEntry(manage[x].user) ELSE RoleEntry(manage[x].role)

LEMMA ManageStepKeeps ==
  ASSUME IndInv, NEW x \in Managements, ManageStep(x)
  PROVE  /\ manage[x].stage \in {"user", "role"}
         /\ Entry(x) \in Entries
         /\ manage' = [manage EXCEPT ![x] = manage'[x]]
         /\ manage'[x] = [stage |-> manage'[x].stage, op |-> manage[x].op,
              user |-> manage[x].user, role |-> manage[x].role]
         /\ \/ /\ allow' = Applied(manage[x].op, Entry(x))
               /\ manage'[x].stage =
                    IF manage[x].stage = "user" /\ manage[x].role # None
                    THEN "role" ELSE "done"
            \/ /\ allow' \in {allow, Applied(manage[x].op, Entry(x))}
               /\ manage'[x].stage = "error"
         /\ UNCHANGED <<guild, cache, attempt>>
<1> DEFINE t == manage[x]
           next == IF t.stage = "user" /\ t.role # None THEN "role" ELSE "done"
<1>1. TypeOK /\ ManageShape(x) /\ t \in ManageStates
  BY DEF IndInv, TypeOK
<1>2. t.stage \in {"user", "role"} /\ Statement(x, Entry(x), next)
  BY DEF ManageStep, ManageUser, ManageRole, Entry
<1>3. Entry(x) \in Entries
  BY <1>1, <1>2, Constants DEF Entry, ManageShape, ManageStates
<1>4. ASSUME NEW stage, Goes(x, stage)
      PROVE  /\ manage' = [manage EXCEPT ![x] = manage'[x]]
             /\ manage'[x] = [stage |-> manage'[x].stage, op |-> t.op,
                  user |-> t.user, role |-> t.role]
             /\ manage'[x].stage = stage
  <2>1. /\ manage' = [manage EXCEPT ![x] = manage'[x]]
        /\ manage'[x] = [stage |-> stage, op |-> t.op,
             user |-> t.user, role |-> t.role]
    BY <1>1, <1>4, GoesKeeps
  <2>2. manage'[x].stage = stage
    BY <2>1
  <2> QED BY <2>1, <2>2
<1>5. UNCHANGED <<guild, cache, attempt>>
  BY <1>2 DEF Statement
<1>6. CASE allow' = Applied(t.op, Entry(x)) /\ Goes(x, next)
  BY <1>2, <1>3, <1>4, <1>5, <1>6
<1>7. CASE allow' = Applied(t.op, Entry(x)) /\ Goes(x, "error")
  BY <1>2, <1>3, <1>4, <1>5, <1>7
<1>8. CASE UNCHANGED allow /\ Goes(x, "error")
  BY <1>2, <1>3, <1>4, <1>5, <1>8
<1> QED BY <1>2, <1>6, <1>7, <1>8 DEF Statement

LEMMA ManagePreserves ==
  ASSUME IndInv, NEW x \in Managements, ManageStep(x)
  PROVE  IndInv'
<1>1. /\ manage[x].stage \in {"user", "role"}
      /\ Entry(x) \in Entries
      /\ manage' = [manage EXCEPT ![x] = manage'[x]]
      /\ manage'[x] = [stage |-> manage'[x].stage, op |-> manage[x].op,
           user |-> manage[x].user, role |-> manage[x].role]
      /\ allow' \in {allow, Applied(manage[x].op, Entry(x))}
      /\ manage'[x].stage \in
           {IF manage[x].stage = "user" /\ manage[x].role # None
            THEN "role" ELSE "done", "error"}
      /\ UNCHANGED <<guild, cache, attempt>>
  BY ManageStepKeeps
<1>2. manage[x] \in ManageStates
  BY DEF IndInv, TypeOK
<1>3. manage'[x].stage \in ManageStages \cup ManageEnds
  BY <1>1 DEF ManageStages, ManageEnds
<1>4. manage'[x] \in ManageStates
  BY <1>1, <1>2, <1>3 DEF ManageStates
<1>5. ManageShape(x)'
  <2>1. manage'[x].stage \notin {"idle", "user"}
    BY <1>1
  <2>2. manage'[x].stage = "role" => manage'[x].role # None
    BY <1>1
  <2> QED BY <2>1, <2>2 DEF ManageShape
<1>6. /\ manage' \in [Managements -> ManageStates]
      /\ \A y \in Managements : ManageShape(y)'
  BY <1>1, <1>4, <1>5, OneManage
<1>7. allow' \in SUBSET Entries
  BY <1>1 DEF IndInv, TypeOK, Applied
<1>8. /\ attempt' \in [Attempts -> AttemptStates]
      /\ \A b \in Attempts : AttemptShape(b)' /\ Judgement(b)'
  BY <1>1, SameAttempts
<1>9. cache' \in [Users -> {{}} \cup {{held} : held \in SUBSET Roles}]
  BY <1>1, SameCache
<1>10. /\ roles' \in [Users -> SUBSET Roles] /\ members' \in SUBSET Users
       /\ banned' \in SUBSET (Users \ members') /\ muted' \in SUBSET Users
  BY <1>1, SameGuild
<1> QED BY <1>6, <1>7, <1>8, <1>9, <1>10 DEF IndInv, TypeOK

LEMMA BeginPreserves ==
  ASSUME IndInv, NEW x \in Managements, NEW op \in {"allow", "disallow"},
         NEW user \in Managed, NEW role \in ManagedRoles, Manage(x, op, user, role)
  PROVE  IndInv'
<1> DEFINE first == IF user # None THEN "user" ELSE IF role # None THEN "role" ELSE "done"
           t == [stage |-> first, op |-> op, user |-> user, role |-> role]
<1>1. manage' = [manage EXCEPT ![x] = t]
  BY DEF Manage
<1>2. manage'[x] = t
  BY <1>1 DEF IndInv, TypeOK
<1>3. t \in ManageStates
  BY Constants DEF ManageStates, ManageStages, ManageEnds
<1>4. ManageShape(x)'
  BY <1>2 DEF ManageShape
<1>5. /\ manage' \in [Managements -> ManageStates]
      /\ \A y \in Managements : ManageShape(y)'
  <2>1. manage' = [manage EXCEPT ![x] = manage'[x]] /\ manage'[x] \in ManageStates
    BY <1>1, <1>2, <1>3
  <2> QED BY <1>4, <2>1, OneManage
<1>6. UNCHANGED <<allow, guild, cache, attempt>>
  BY DEF Manage
<1>7. /\ attempt' \in [Attempts -> AttemptStates]
      /\ \A b \in Attempts : AttemptShape(b)' /\ Judgement(b)'
  BY <1>6, SameAttempts
<1>8. cache' \in [Users -> {{}} \cup {{held} : held \in SUBSET Roles}]
  BY <1>6, SameCache
<1>9. /\ roles' \in [Users -> SUBSET Roles] /\ members' \in SUBSET Users
      /\ banned' \in SUBSET (Users \ members') /\ muted' \in SUBSET Users
  BY <1>6, SameGuild
<1>10. allow' \in SUBSET Entries
  BY <1>6 DEF IndInv, TypeOK
<1> QED BY <1>5, <1>7, <1>8, <1>9, <1>10 DEF IndInv, TypeOK

PeopleStep(u) ==
  \/ \E held \in SUBSET Roles : SetRoles(u, held)
  \/ Notice(u) \/ Leave(u) \/ Join(u) \/ TimeoutEnds(u)

LEMMA PeoplePreserve ==
  ASSUME IndInv, NEW u \in Shifting, PeopleStep(u)
  PROVE  IndInv'
<1>1. TypeOK /\ u \in Users
  BY Constants DEF IndInv
<1>2. UNCHANGED <<allow, attempt, manage>>
  BY DEF PeopleStep, SetRoles, Notice, Leave, Join, TimeoutEnds
<1>3. /\ attempt' \in [Attempts -> AttemptStates]
      /\ \A b \in Attempts : AttemptShape(b)' /\ Judgement(b)'
  BY <1>2, SameAttempts
<1>4. /\ manage' \in [Managements -> ManageStates]
      /\ \A y \in Managements : ManageShape(y)'
  BY <1>2, SameManage
<1>5. /\ roles' \in [Users -> SUBSET Roles] /\ members' \in SUBSET Users
      /\ banned' \in SUBSET (Users \ members') /\ muted' \in SUBSET Users
  <2>1. CASE \E held \in SUBSET Roles : SetRoles(u, held)
    BY <1>1, <2>1 DEF SetRoles, TypeOK
  <2>2. CASE Notice(u)
    BY <2>2, SameGuild DEF Notice
  <2>3. CASE Leave(u)
    BY <1>1, <2>3, RemovedTyped DEF Leave, TypeOK
  <2>4. CASE Join(u)
    BY <1>1, <2>4 DEF Join, TypeOK
  <2>5. CASE TimeoutEnds(u)
    BY <1>1, <2>5 DEF TimeoutEnds, TypeOK
  <2> QED BY <2>1, <2>2, <2>3, <2>4, <2>5 DEF PeopleStep
<1>6. cache' \in [Users -> {{}} \cup {{held} : held \in SUBSET Roles}]
  <2>1. CASE Notice(u)
    <3>1. {roles[u]} \in {{held} : held \in SUBSET Roles}
      BY <1>1 DEF TypeOK
    <3> QED BY <1>1, <2>1, <3>1 DEF Notice, TypeOK
  <2>2. CASE ~Notice(u)
    BY <2>2, SameCache DEF PeopleStep, SetRoles, Leave, Join, TimeoutEnds
  <2> QED BY <2>1, <2>2
<1>7. allow' \in SUBSET Entries
  BY <1>2 DEF IndInv, TypeOK
<1> QED BY <1>3, <1>4, <1>5, <1>6, <1>7 DEF IndInv, TypeOK

LEMMA RestartPreserves ==
  ASSUME IndInv, Restart
  PROVE  IndInv'
<1>1. TypeOK
  BY DEF IndInv
<1>2. ASSUME NEW a \in Attempts
      PROVE  /\ attempt'[a] \in AttemptStates
             /\ AttemptShape(a)' /\ Judgement(a)'
  <2>1. AttemptShape(a) /\ Judgement(a) /\ attempt[a] \in AttemptStates
    BY <1>1 DEF IndInv, TypeOK
  <2>2. CASE attempt[a].stage \in AttemptStages
    <3>1. attempt'[a] = [attempt[a] EXCEPT !.stage = "lost"]
      BY <2>2 DEF Restart
    <3>2. /\ attempt'[a] \in AttemptStates /\ SameRequest(attempt[a], attempt'[a])
          /\ attempt'[a].stage = "lost"
      BY <2>1, <3>1 DEF AttemptStates, AttemptEnds, SameRequest
    <3>3. attempt[a].stage # "idle"
      BY <2>2 DEF AttemptStages
    <3> QED BY <2>1, <3>2, <3>3 DEF AttemptShape, Judgement, SameRequest
  <2>3. CASE attempt[a].stage \notin AttemptStages
    <3>1. attempt'[a] = attempt[a]
      BY <2>3 DEF Restart
    <3> QED BY <2>1, <3>1 DEF AttemptShape, Judgement
  <2> QED BY <2>2, <2>3
<1>3. ASSUME NEW x \in Managements
      PROVE  manage'[x] \in ManageStates /\ ManageShape(x)'
  <2>1. ManageShape(x) /\ manage[x] \in ManageStates
    BY <1>1 DEF IndInv, TypeOK
  <2>2. CASE manage[x].stage \in ManageStages
    <3>1. manage'[x] = [manage[x] EXCEPT !.stage = "lost"]
      BY <2>2 DEF Restart
    <3>2. manage'[x] \in ManageStates /\ manage'[x].stage = "lost"
      BY <2>1, <3>1 DEF ManageStates, ManageEnds
    <3> QED BY <3>2 DEF ManageShape
  <2>3. CASE manage[x].stage \notin ManageStages
    <3>1. manage'[x] = manage[x]
      BY <2>3 DEF Restart
    <3> QED BY <2>1, <3>1 DEF ManageShape
  <2> QED BY <2>2, <2>3
<1>4. /\ attempt' \in [Attempts -> AttemptStates]
      /\ manage' \in [Managements -> ManageStates]
  BY <1>2, <1>3 DEF Restart
<1>5. /\ roles' \in [Users -> SUBSET Roles] /\ members' \in SUBSET Users
      /\ banned' \in SUBSET (Users \ members') /\ muted' \in SUBSET Users
  BY SameGuild DEF Restart
<1>6. /\ allow' \in SUBSET Entries
      /\ cache' \in [Users -> {{}} \cup {{held} : held \in SUBSET Roles}]
  BY <1>1 DEF Restart, TypeOK
<1> QED BY <1>2, <1>3, <1>4, <1>5, <1>6 DEF IndInv, TypeOK

(* Every step is one of these.                                             *)
LEMMA NextSplit ==
  ASSUME Next
  PROVE  \/ \E x \in Managements, op \in {"allow", "disallow"}, user \in Managed,
              role \in ManagedRoles : Manage(x, op, user, role)
         \/ \E x \in Managements : ManageStep(x)
         \/ \E a \in Attempts, command \in Commands, actor \in Users :
              \E target \in Aims(command) : Invoke(a, command, actor, target)
         \/ \E a \in Attempts : CommandStep(a)
         \/ \E u \in Shifting : PeopleStep(u)
         \/ Restart
BY DEF Next, Step, ManageStep, CommandStep, PeopleStep

LEMMA StepPreserves ==
  ASSUME IndInv, [Next]_vars
  PROVE  IndInv'
<1>1. CASE UNCHANGED vars
  BY <1>1 DEF vars, IndInv, TypeOK, AttemptShape, Judgement, ManageShape
<1>2. CASE Next
  BY <1>2, NextSplit, BeginPreserves, ManagePreserves, InvokePreserves,
     CommandPreserves, PeoplePreserve, RestartPreserves
<1> QED BY <1>1, <1>2

(* The invariant the other proofs rest on: each task has the shape of its  *)
(* stage, and no punishment is about to be carried out that was not judged.*)
THEOREM Invariance == Spec => []IndInv
<1>1. Init => IndInv
  BY InitTyped
<1>2. IndInv /\ [Next]_vars => IndInv'
  BY StepPreserves
<1> QED BY <1>1, <1>2, PTL DEF Spec

(* The type invariant holds for every guild and every set of invocations.  *)
THEOREM TypeCorrect == Spec => []TypeOK
<1>1. IndInv => TypeOK
  BY DEF IndInv
<1> QED BY <1>1, Invariance, PTL

-----------------------------------------------------------------------------
(* The promise of the gate.                                                *)

LEMMA InitKeeps ==
  ASSUME Init
  PROVE  Gate!PromiseInit
<1>1. \A a \in Attempts : Deed(attempt[a]) = Gate!NoDeed
  <2>1. Standing("idle") = "unsent"
    BY DEF Standing
  <2> QED BY <2>1 DEF Init, IdleAttempt, Deed, Gate!NoDeed
<1>2. Deeds = [a \in Attempts |-> Gate!NoDeed]
  BY <1>1 DEF Deeds
<1>3. /\ allow \subseteq Entries /\ members \subseteq Users
      /\ banned \subseteq Users /\ muted \subseteq Users
  BY Constants DEF Init
<1> QED BY <1>2, <1>3 DEF Gate!PromiseInit

(* A task that goes on with the same request moves its deed, or leaves it. *)
LEMMA DeedMoves ==
  ASSUME NEW a \in Attempts, attempt \in [Attempts -> AttemptStates],
         attempt' = [attempt EXCEPT ![a] = attempt'[a]],
         SameRequest(attempt[a], attempt'[a]),
         attempt[a].stage # "idle", attempt'[a].stage # "idle"
  PROVE  /\ Gate!Stands(a, Standing(attempt'[a].stage))
         /\ Deeds[a] = Deed(attempt[a])
         /\ Standing(attempt'[a].stage) = Standing(attempt[a].stage) => Deeds' = Deeds
<1> DEFINE t == attempt[a]
           u == attempt'[a]
<1>1. Deeds[a] = Deed(t)
  BY DEF Deeds
<1>2. Credentials(u) = Credentials(t)
  BY DEF Credentials, SameRequest
<1>3. Deed(u) = [at |-> Standing(u.stage), command |-> t.command, actor |-> t.actor,
                 target |-> t.target, credentials |-> Credentials(t)]
  BY <1>2 DEF Deed, SameRequest
<1>4. Deed(t) = [at |-> Standing(t.stage), command |-> t.command, actor |-> t.actor,
                 target |-> t.target, credentials |-> Credentials(t)]
  BY DEF Deed
<1>5. [Deed(t) EXCEPT !.at = Standing(u.stage)] =
        [at |-> Standing(u.stage), command |-> t.command, actor |-> t.actor,
         target |-> t.target, credentials |-> Credentials(t)]
  BY <1>4
<1>6. \A b \in Attempts : b # a => attempt'[b] = attempt[b]
  OBVIOUS
<1>7. Deeds' = [b \in Attempts |-> Deed(attempt'[b])]
  BY DEF Deeds
<1>8. Deeds' = [Deeds EXCEPT ![a] = Deed(u)]
  <2>1. Deeds = [b \in Attempts |-> Deed(attempt[b])]
    BY DEF Deeds
  <2> DEFINE old(b) == Deed(attempt[b])
             new(b) == Deed(attempt'[b])
  <2>2. new(a) = Deed(u) /\ \A b \in Attempts : b # a => new(b) = old(b)
    BY <1>6
  <2>3. Deeds = [b \in Attempts |-> old(b)] /\ Deeds' = [b \in Attempts |-> new(b)]
    BY <1>7, <2>1
  <2> HIDE DEF old, new
  <2> QED BY <2>2, <2>3
<1>9. Deeds' = [Deeds EXCEPT ![a] = [Deeds[a] EXCEPT !.at = Standing(u.stage)]]
  BY <1>1, <1>3, <1>5, <1>8
<1>10. Standing(u.stage) = Standing(t.stage) => Deeds' = Deeds
  <2>1. SUFFICES ASSUME Standing(u.stage) = Standing(t.stage)
                 PROVE  Deeds' = Deeds
    OBVIOUS
  <2>2. Deed(u) = Deeds[a]
    BY <1>1, <1>3, <1>4, <2>1
  <2>3. Deeds = [b \in Attempts |-> Deed(attempt[b])]
    BY DEF Deeds
  <2> QED BY <1>8, <2>2, <2>3
<1> QED BY <1>1, <1>9, <1>10 DEF Gate!Stands

LEMMA Closes ==
  ASSUME NEW a \in Attempts, Gate!Stands(a, "closed"), UNCHANGED <<allow, guild>>,
         Deeds[a].at \in {"pending", "admitted"}
  PROVE  Gate!PromiseNext
<1>1. Deeds' = [Deeds EXCEPT ![a] = [Deeds[a] EXCEPT !.at = "closed"]]
  BY DEF Gate!Stands
<1>2. Deeds = [b \in Attempts |-> Deeds[b]]
  BY DEF Deeds
<1>3. Deeds' = [b \in Attempts |->
         IF b \in {a} THEN [Deeds[b] EXCEPT !.at = "closed"] ELSE Deeds[b]]
  BY <1>1, <1>2
<1>4. Gate!Close({a})
  BY <1>3 DEF Gate!Close, Gate!guild, guild
<1>5. {a} \in SUBSET Attempts
  OBVIOUS
<1> QED BY <1>4, <1>5 DEF Gate!PromiseNext

LEMMA AccessVerdict ==
  ASSUME TypeOK, NEW a \in Attempts, CheckAccess(a)
  PROVE  \/ IsAllowed(a) /\ attempt'[a].stage \in {"act", "resolve", "invalid"}
         \/ ~IsAllowed(a) /\ attempt'[a].stage = "denied"
         \/ attempt'[a].stage = "error"
<1>1. ASSUME NEW stage, Stands(a, stage)
      PROVE  attempt'[a].stage = stage
  <2>1. attempt'[a] = [stage |-> stage, command |-> attempt[a].command,
          actor |-> attempt[a].actor, target |-> attempt[a].target,
          held |-> attempt[a].held, seen |-> attempt[a].seen]
    BY <1>1, StandsKeeps
  <2> QED BY <2>1
<1>2. AfterAccess(attempt[a].command) \subseteq {"act", "resolve", "invalid"}
  BY DEF AfterAccess
<1>3. ASSUME NEW next \in AfterAccess(attempt[a].command), Stands(a, next)
      PROVE  attempt'[a].stage \in {"act", "resolve", "invalid"}
  BY <1>1, <1>2, <1>3
<1>4. CASE ~IsAllowed(a) /\ Stands(a, "denied")
  BY <1>1, <1>4
<1>5. CASE Stands(a, "error")
  BY <1>1, <1>5
<1> QED BY <1>3, <1>4, <1>5 DEF CheckAccess

LEMMA ActVerdict ==
  ASSUME TypeOK, NEW a \in Attempts, Act(a)
  PROVE  \/ /\ Effect(attempt[a].command, attempt[a].target)
            /\ attempt'[a].stage \in {"done", "unconfirmed"}
         \/ UNCHANGED guild /\ attempt'[a].stage = "error"
<1>1. ASSUME NEW stage, Stands(a, stage)
      PROVE  attempt'[a].stage = stage
  <2>1. attempt'[a] = [stage |-> stage, command |-> attempt[a].command,
          actor |-> attempt[a].actor, target |-> attempt[a].target,
          held |-> attempt[a].held, seen |-> attempt[a].seen]
    BY <1>1, StandsKeeps
  <2> QED BY <2>1
<1>2. CASE Stands(a, "done")
  BY <1>1, <1>2 DEF Act
<1>3. CASE Stands(a, "unconfirmed")
  BY <1>1, <1>3 DEF Act
<1>4. CASE Stands(a, "error")
  BY <1>1, <1>4 DEF Act
<1> QED BY <1>2, <1>3, <1>4 DEF Act

LEMMA EffectCarries ==
  ASSUME NEW u, NEW command, Effect(command, u)
  PROVE  Gate!Carries(command, u)
BY DEF Effect, Kick, Ban, Unban, Mute, Unmute, Removed, guild, Gate!Carries, Gate!guild

LEMMA CommandKeeps ==
  ASSUME IndInv, NEW a \in Attempts, CommandStep(a)
  PROVE  [Gate!PromiseNext]_Gate!promiseVars
<1> DEFINE t == attempt[a]
           u == attempt'[a]
<1>1. /\ attempt' = [attempt EXCEPT ![a] = u]
      /\ SameRequest(t, u)
      /\ Steps(t, u)
  BY CommandStepKeeps
<1>2. TypeOK /\ AttemptShape(a) /\ Judgement(a)
  BY DEF IndInv
<1>3. t.stage # "idle" /\ u.stage # "idle"
  BY <1>1 DEF Steps, AfterAccess
<1>4. /\ Gate!Stands(a, Standing(u.stage)) /\ Deeds[a] = Deed(t)
      /\ Standing(u.stage) = Standing(t.stage) => Deeds' = Deeds
  BY <1>1, <1>2, <1>3, DeedMoves DEF TypeOK
<1>5. /\ Deeds[a].at = Standing(t.stage) /\ Deeds[a].command = t.command
      /\ Deeds[a].actor = t.actor /\ Deeds[a].target = t.target
      /\ Deeds[a].credentials = Credentials(t)
  BY <1>3, <1>4 DEF Deed
<1>6. UNCHANGED allow
  BY DEF CommandStep, CheckAccess, Resolve, Authorize, Act
<1>7. /\ Standing("access") = "pending" /\ Standing("resolve") = "admitted"
      /\ Standing("authorize") = "admitted" /\ Standing("act") = "admitted"
      /\ Standing("done") = "performed" /\ Standing("unconfirmed") = "performed"
      /\ Standing("denied") = "denied" /\ Standing("invalid") = "closed"
      /\ Standing("refused") = "closed" /\ Standing("error") = "closed"
  BY DEF Standing
<1>8. ASSUME UNCHANGED guild, Standing(u.stage) = "closed",
             Standing(t.stage) \in {"pending", "admitted"}
      PROVE  Gate!PromiseNext
  BY <1>4, <1>5, <1>6, <1>8, Closes
<1>9. CASE CheckAccess(a)
  <2>1. UNCHANGED guild /\ t.stage = "access"
    BY <1>9 DEF CheckAccess
  <2>2. CASE IsAllowed(a) /\ u.stage \in {"act", "resolve"}
    <3>1. Gate!Admit(a)
      BY <1>4, <1>5, <1>6, <1>7, <2>1, <2>2 DEF IsAllowed, Gate!Admit, Gate!guild, guild
    <3> QED BY <3>1 DEF Gate!PromiseNext
  <2>3. CASE u.stage = "invalid"
    BY <1>7, <1>8, <2>1, <2>3
  <2>4. CASE ~IsAllowed(a) /\ u.stage = "denied"
    <3>1. Gate!Deny(a)
      BY <1>4, <1>5, <1>6, <1>7, <2>1, <2>4 DEF IsAllowed, Gate!Deny, Gate!guild, guild
    <3> QED BY <3>1 DEF Gate!PromiseNext
  <2>5. CASE u.stage = "error"
    BY <1>7, <1>8, <2>1, <2>5
  <2> QED BY <1>2, <1>9, <2>2, <2>3, <2>4, <2>5, AccessVerdict
<1>10. CASE Resolve(a) \/ Authorize(a)
  <2>1. UNCHANGED guild /\ t.stage \in {"resolve", "authorize"}
    BY <1>10 DEF Resolve, Authorize
  <2>2. u.stage \in {"act", "authorize", "invalid", "refused", "error"}
    BY <1>1, <2>1 DEF Steps
  <2>3. CASE u.stage \in {"act", "authorize"}
    <3>1. Deeds' = Deeds
      BY <1>4, <1>7, <2>1, <2>3
    <3> QED BY <1>6, <2>1, <3>1 DEF Gate!promiseVars, guild
  <2>4. CASE u.stage \in {"invalid", "refused", "error"}
    BY <1>7, <1>8, <2>1, <2>4
  <2> QED BY <2>2, <2>3, <2>4
<1>11. CASE Act(a)
  <2>1. t.stage = "act"
    BY <1>11 DEF Act
  <2>2. CASE Effect(t.command, t.target) /\ u.stage \in {"done", "unconfirmed"}
    <3>1. Gate!Carries(t.command, t.target)
      BY <2>2, EffectCarries
    <3>2. t.command \in Punishments => t.target \notin {Owner, Bot} \cup {t.actor}
      BY <1>2, <2>1 DEF Judgement
    <3>3. Gate!Stands(a, "performed") /\ Deeds[a].at = "admitted"
      BY <1>4, <1>5, <1>7, <2>1, <2>2
    <3>4. Gate!Perform(a)
      BY <1>5, <1>6, <3>1, <3>2, <3>3 DEF Gate!Perform
    <3> QED BY <3>4 DEF Gate!PromiseNext
  <2>3. CASE UNCHANGED guild /\ u.stage = "error"
    BY <1>7, <1>8, <2>1, <2>3
  <2> QED BY <1>2, <1>11, <2>2, <2>3, ActVerdict
<1> QED BY <1>9, <1>10, <1>11 DEF CommandStep

LEMMA InvokeKeeps ==
  ASSUME IndInv, NEW a \in Attempts, NEW command \in Commands,
         NEW actor \in Users, NEW target \in Aims(command), Invoke(a, command, actor, target)
  PROVE  Gate!PromiseNext
<1> DEFINE u == attempt'[a]
           deed == [at |-> "pending", command |-> command, actor |-> actor,
                    target |-> target, credentials |-> Credentials(u)]
<1>1. TypeOK /\ attempt[a] = IdleAttempt
  BY DEF IndInv, AttemptShape, Invoke
<1>2. attempt' = [attempt EXCEPT ![a] = u]
      /\ u.stage = "access" /\ u.command = command /\ u.actor = actor
      /\ u.target = target /\ u.held = roles[actor]
  BY <1>1 DEF Invoke, TypeOK
<1>3. Deed(IdleAttempt) = Gate!NoDeed
  <2>1. Standing("idle") = "unsent"
    BY DEF Standing
  <2> QED BY <2>1 DEF IdleAttempt, Deed, Gate!NoDeed
<1>4. Deeds[a] = Gate!NoDeed
  BY <1>1, <1>3 DEF Deeds
<1>5. Credentials(u) \in SUBSET Entries
  <2>1. u.held \subseteq Roles
    BY <1>1, <1>2 DEF TypeOK
  <2> QED BY <1>2, <2>1, Constants DEF Credentials
<1>6. Deed(u) = deed
  <2>1. Standing("access") = "pending"
    BY DEF Standing
  <2> QED BY <1>2, <2>1 DEF Deed
<1>7. Deeds' = [Deeds EXCEPT ![a] = deed]
  <2> DEFINE old(b) == Deed(attempt[b])
             new(b) == Deed(attempt'[b])
  <2>1. \A b \in Attempts : b # a => attempt'[b] = attempt[b]
    BY <1>1, <1>2 DEF TypeOK
  <2>2. new(a) = deed /\ \A b \in Attempts : b # a => new(b) = old(b)
    BY <1>6, <2>1
  <2>3. Deeds = [b \in Attempts |-> old(b)] /\ Deeds' = [b \in Attempts |-> new(b)]
    BY DEF Deeds
  <2> HIDE DEF old, new, deed
  <2> QED BY <2>2, <2>3
<1>8. UNCHANGED <<members, banned, muted, allow>>
  BY DEF Invoke, guild
<1>9. Gate!Submit(a)
  <2>1. Deeds'[a] = deed
    BY <1>7 DEF Deeds
  <2>2. target \in Users \cup {None}
    BY Constants
  <2>3. deed \in Gate!Requests
    BY <1>5, <2>2 DEF Gate!Requests
  <2> HIDE DEF deed
  <2> QED BY <1>4, <1>7, <1>8, <2>1, <2>3 DEF Gate!Submit, Gate!guild
<1> QED BY <1>9 DEF Gate!PromiseNext

LEMMA SameDeeds ==
  ASSUME attempt' = attempt
  PROVE  Deeds' = Deeds
BY DEF Deeds

LEMMA ManageKeeps ==
  ASSUME IndInv, NEW x \in Managements, ManageStep(x)
  PROVE  [Gate!PromiseNext]_Gate!promiseVars
<1>1. /\ UNCHANGED <<guild, cache, attempt>>
      /\ \/ UNCHANGED allow
         \/ allow' = Applied(manage[x].op, Entry(x))
      /\ Entry(x) \in Entries
  BY ManageStepKeeps
<1>2. Deeds' = Deeds
  BY <1>1, SameDeeds
<1>3. CASE UNCHANGED allow
  BY <1>1, <1>2, <1>3 DEF Gate!promiseVars, guild
<1>4. CASE allow' = Applied(manage[x].op, Entry(x))
  <2>1. Gate!Grant(Entry(x)) \/ Gate!Revoke(Entry(x))
    BY <1>1, <1>2, <1>4 DEF Applied, Gate!Grant, Gate!Revoke, Gate!guild, guild
  <2> QED BY <1>1, <2>1 DEF Gate!PromiseNext
<1> QED BY <1>1, <1>3, <1>4

LEMMA PeopleKeep ==
  ASSUME IndInv, NEW u \in Shifting, PeopleStep(u)
  PROVE  [Gate!PromiseNext]_Gate!promiseVars
<1>1. UNCHANGED <<allow, attempt>> /\ UNCHANGED banned
  BY DEF PeopleStep, SetRoles, Notice, Leave, Join, TimeoutEnds, guild
<1>2. Deeds' = Deeds
  BY <1>1, SameDeeds
<1>3. members' \subseteq Users
  BY PeoplePreserve DEF IndInv, TypeOK
<1>4. muted' \subseteq muted
  BY DEF PeopleStep, SetRoles, Notice, Leave, Join, TimeoutEnds, guild
<1>5. Gate!Drift
  BY <1>1, <1>2, <1>3, <1>4 DEF Gate!Drift
<1> QED BY <1>5 DEF Gate!PromiseNext

LEMMA RestartKeeps ==
  ASSUME IndInv, Restart
  PROVE  Gate!PromiseNext
<1> DEFINE closing == {a \in Attempts : attempt[a].stage \in AttemptStages}
           closed(a) == [Deed(attempt[a]) EXCEPT !.at = "closed"]
<1>1. attempt \in [Attempts -> AttemptStates]
  BY DEF IndInv, TypeOK
<1>2. ASSUME NEW a \in closing
      PROVE  /\ Deed(attempt'[a]) = closed(a)
             /\ Deed(attempt[a]).at \in {"pending", "admitted"}
  <2> DEFINE t == attempt[a]
             u == attempt'[a]
  <2>1. t \in AttemptStates /\ t.stage \in AttemptStages
    BY <1>1
  <2>2. u = [t EXCEPT !.stage = "lost"]
    BY DEF Restart
  <2>3. u.stage = "lost" /\ SameRequest(t, u)
    BY <2>1, <2>2 DEF AttemptStates, SameRequest
  <2>4. t.stage # "idle" /\ u.stage # "idle"
    BY <2>1, <2>3 DEF AttemptStages
  <2>5. Credentials(u) = Credentials(t)
    BY <2>3 DEF Credentials, SameRequest
  <2>6. Standing("lost") = "closed" /\ Standing(t.stage) \in {"pending", "admitted"}
    BY <2>1 DEF Standing, AttemptStages
  <2>7. Deed(t) = [at |-> Standing(t.stage), command |-> t.command, actor |-> t.actor,
                   target |-> t.target, credentials |-> Credentials(t)]
    BY <2>4 DEF Deed
  <2>8. Deed(u) = [at |-> "closed", command |-> t.command, actor |-> t.actor,
                   target |-> t.target, credentials |-> Credentials(t)]
    BY <2>3, <2>4, <2>5, <2>6 DEF Deed, SameRequest
  <2>9. closed(a) = [at |-> "closed", command |-> t.command, actor |-> t.actor,
                     target |-> t.target, credentials |-> Credentials(t)]
    BY <2>7
  <2> QED BY <2>6, <2>7, <2>8, <2>9
<1>3. ASSUME NEW a \in Attempts, a \notin closing
      PROVE  Deed(attempt'[a]) = Deed(attempt[a])
  BY <1>3 DEF Restart
<1>4. /\ Deeds = [a \in Attempts |-> Deed(attempt[a])]
      /\ Deeds' = [a \in Attempts |-> Deed(attempt'[a])]
  BY DEF Deeds
<1>5. \A a \in closing : Deeds[a].at \in {"pending", "admitted"}
  BY <1>2, <1>4
<1>6. Deeds' = [a \in Attempts |->
         IF a \in closing THEN [Deeds[a] EXCEPT !.at = "closed"] ELSE Deeds[a]]
  <2> DEFINE old(a) == Deed(attempt[a])
             new(a) == Deed(attempt'[a])
  <2>1. \A a \in Attempts :
          new(a) = IF a \in closing THEN [old(a) EXCEPT !.at = "closed"] ELSE old(a)
    BY <1>2, <1>3
  <2>2. Deeds = [a \in Attempts |-> old(a)] /\ Deeds' = [a \in Attempts |-> new(a)]
    BY <1>4
  <2> HIDE DEF old, new, closing
  <2> QED BY <2>1, <2>2
<1>7. Gate!Close(closing)
  BY <1>5, <1>6 DEF Restart, Gate!Close, Gate!guild, guild
<1>8. closing \in SUBSET Attempts
  OBVIOUS
<1> QED BY <1>7, <1>8 DEF Gate!PromiseNext

LEMMA BeginKeeps ==
  ASSUME UNCHANGED <<allow, guild, cache, attempt>>
  PROVE  UNCHANGED Gate!promiseVars
BY SameDeeds DEF Gate!promiseVars, guild

LEMMA StepKeeps ==
  ASSUME IndInv, [Next]_vars
  PROVE  [Gate!PromiseNext]_Gate!promiseVars
<1>1. CASE UNCHANGED vars
  BY <1>1, BeginKeeps DEF vars, guild
<1>2. CASE \E x \in Managements, op \in {"allow", "disallow"}, user \in Managed,
              role \in ManagedRoles : Manage(x, op, user, role)
  BY <1>2, BeginKeeps DEF Manage
<1>3. CASE Next
  BY <1>2, <1>3, NextSplit, ManageKeeps, InvokeKeeps, CommandKeeps, PeopleKeep,
     RestartKeeps
<1> QED BY <1>1, <1>3

(* The moderation commands keep the promise of the gate: whatever the      *)
(* cache, the database and the people do, a command changes the guild only *)
(* after its invoker was found on the list, at most once, by what it is    *)
(* for, and never against its invoker, the owner or the bot.               *)
THEOREM GateKept == Spec => KeepsGate
<1>1. Init => Gate!PromiseInit
  BY InitKeeps
<1>2. IndInv /\ [Next]_vars => [Gate!PromiseNext]_Gate!promiseVars
  BY StepKeeps
<1> QED BY <1>1, <1>2, Invariance, PTL DEF Spec, KeepsGate, Gate!Promise

-----------------------------------------------------------------------------
(* The roles a punishment is judged by, in a process of any age.           *)

(* What a command has learnt of the ranks has been so since the start of   *)
(* the process.                                                            *)
RankInv(a) ==
  /\ attempt[a].stage = "authorize" => attempt[a].seen \in had[attempt[a].target]
  /\ attempt[a].stage = "act" /\ attempt[a].command \in Punishments =>
       OnceOutranked(attempt[a].actor, attempt[a].target)

(* So is what the cache holds, and what Discord would answer.              *)
HistInv ==
  /\ \A u \in Users : cache[u] \subseteq had[u]
  /\ \A u \in members : roles[u] \in had[u]
  /\ \A a \in Attempts : RankInv(a)

LEMMA TaskMoves ==
  ASSUME IndInv, Next, NEW a \in Attempts
  PROVE  \/ attempt'[a] = attempt[a]
         \/ CommandStep(a)
         \/ attempt'[a].stage \in {"access", "lost"}
<1>1. attempt \in [Attempts -> AttemptStates]
  BY DEF IndInv, TypeOK
<1>2. CASE attempt' = attempt
  BY <1>2
<1>3. ASSUME NEW b \in Attempts, NEW command, NEW actor, NEW target,
             Invoke(b, command, actor, target)
      PROVE  attempt'[a] = attempt[a] \/ attempt'[a].stage = "access"
  BY <1>1, <1>3 DEF Invoke
<1>4. ASSUME NEW b \in Attempts, CommandStep(b)
      PROVE  attempt'[a] = attempt[a] \/ CommandStep(a)
  <2>1. attempt' = [attempt EXCEPT ![b] = attempt'[b]]
    BY <1>4, CommandStepKeeps
  <2> QED BY <1>1, <1>4, <2>1
<1>5. CASE Restart
  <2>1. CASE attempt[a].stage \in AttemptStages
    <3>1. attempt'[a] = [attempt[a] EXCEPT !.stage = "lost"]
      BY <1>5, <2>1 DEF Restart
    <3> QED BY <1>1, <3>1 DEF AttemptStates
  <2>2. CASE attempt[a].stage \notin AttemptStages
    BY <1>5, <2>2 DEF Restart
  <2> QED BY <2>1, <2>2
<1>6. ASSUME NEW x \in Managements, ManageStep(x)
      PROVE  attempt' = attempt
  BY <1>6 DEF ManageStep, ManageUser, ManageRole, Statement
<1>7. ASSUME NEW x \in Managements, NEW op, NEW user, NEW role, Manage(x, op, user, role)
      PROVE  attempt' = attempt
  BY <1>7 DEF Manage
<1>8. ASSUME NEW u \in Shifting, PeopleStep(u)
      PROVE  attempt' = attempt
  BY <1>8 DEF PeopleStep, SetRoles, Notice, Leave, Join, TimeoutEnds
<1> QED BY <1>2, <1>3, <1>4, <1>5, <1>6, <1>7, <1>8, NextSplit

(* Whoever is asked for a member gives roles it has had.                   *)
LEMMA HadRoles ==
  ASSUME HistInv, NEW u \in Users, NEW held \in MemberRoles(u)
  PROVE  held \in had[u]
BY DEF HistInv, MemberRoles

(* A history that grows takes no reason away.                              *)
LEMMA RanksGrow ==
  ASSUME NEW u \in Users, NEW v \in Users, OnceOutranked(u, v),
         \A w \in Users : had[w] \subseteq had'[w]
  PROVE  \/ u = Owner
         \/ \E mine \in had'[u], theirs \in had'[v] : Highest(mine) > Highest(theirs)
BY DEF OnceOutranked

LEMMA Remembered ==
  ASSUME Remember
  PROVE  /\ \A u \in Users : had[u] \subseteq had'[u]
         /\ \A u \in members' \cap Users : roles'[u] \in had'[u]
BY DEF Remember

(* Who a command under way is about.                                       *)
LEMMA AboutUsers ==
  ASSUME IndInv, NEW a \in Attempts
  PROVE  /\ attempt[a].stage # "idle" => attempt[a].actor \in Users
         /\ attempt[a].stage \in {"resolve", "authorize"} => attempt[a].target \in Users
         /\ attempt[a].stage = "act" /\ attempt[a].command \in Punishments =>
              attempt[a].target \in Users
BY DEF IndInv, AttemptShape, Judgement, Aims, Punishments

LEMMA JudgedOnce ==
  ASSUME IndInv, HistInv, NEW a \in Attempts, CommandStep(a),
         \A w \in Users : had[w] \subseteq had'[w]
  PROVE  RankInv(a)'
<1> DEFINE t == attempt[a]
           u == attempt'[a]
<1>1. SameRequest(t, u) /\ Steps(t, u) /\ TypeOK
  BY CommandStepKeeps DEF IndInv
<1>2. RankInv(a)
  BY DEF HistInv
<1>3. SUFFICES ASSUME u.stage \in {"authorize", "act"}
               PROVE  RankInv(a)'
  BY DEF RankInv
<1>4. CASE t.stage = "access"
  BY <1>1, <1>3, <1>4 DEF Steps, SameRequest, RankInv, Punishments, AfterAccess
<1>5. CASE t.stage = "resolve"
  <2>1. CASE u.stage = "act"
    BY <1>1, <1>5, <2>1 DEF Steps, SameRequest, RankInv, Punishments
  <2>2. CASE u.stage = "authorize"
    <3>1. Resolve(a) /\ ~Stands(a, "invalid") /\ ~Stands(a, "error")
      <4>1. Resolve(a)
        BY <1>5 DEF CommandStep, CheckAccess, Authorize, Act
      <4>2. ASSUME NEW stage \in {"invalid", "error"}, Stands(a, stage)
            PROVE  u.stage = stage
        <5>1. u = [stage |-> stage, command |-> t.command, actor |-> t.actor,
                   target |-> t.target, held |-> t.held, seen |-> t.seen]
          BY <1>1, <4>2, StandsKeeps
        <5> QED BY <5>1
      <4> QED BY <2>2, <4>1, <4>2
    <3>2. PICK seen \in MemberRoles(t.target) :
            attempt' = [attempt EXCEPT ![a] = [@ EXCEPT !.seen = seen, !.stage =
              IF t.command = "unmute" THEN "act" ELSE "authorize"]]
      BY <3>1 DEF Resolve
    <3>3. t.target \in Users
      BY <1>5, AboutUsers
    <3>4. seen \in had'[t.target]
      BY <3>3, HadRoles
    <3>5. u = [t EXCEPT !.seen = seen, !.stage =
                 IF t.command = "unmute" THEN "act" ELSE "authorize"]
      BY <1>1, <3>2 DEF TypeOK
    <3>6. u.seen = seen
      BY <1>1, <3>5 DEF TypeOK, AttemptStates
    <3> QED BY <1>1, <2>2, <3>4, <3>6 DEF RankInv, SameRequest
  <2> QED BY <1>3, <2>1, <2>2
<1>6. CASE t.stage = "authorize"
  <2>1. u.stage = "act" /\ t.seen \in had[t.target]
    BY <1>1, <1>2, <1>3, <1>6 DEF Steps, RankInv
  <2>2. PICK mine \in MemberRoles(t.actor) : Allowed(t.actor, t.target, mine, t.seen)
    <3>1. ASSUME NEW stage \in {"refused", "error"}
          PROVE  ~Stands(a, stage)
      <4>1. SUFFICES ASSUME Stands(a, stage) PROVE FALSE
        OBVIOUS
      <4>2. u = [stage |-> stage, command |-> t.command, actor |-> t.actor,
                 target |-> t.target, held |-> t.held, seen |-> t.seen]
        BY <1>1, <4>1, StandsKeeps
      <4> QED BY <2>1, <4>2
    <3>2. Authorize(a)
      BY <1>6 DEF CommandStep, CheckAccess, Resolve, Act
    <3> QED BY <3>1, <3>2 DEF Authorize
  <2>3. t.actor \in Users /\ t.target \in Users
    BY <1>6, AboutUsers
  <2>4. mine \in had[t.actor]
    BY <2>3, HadRoles
  <2>5. OnceOutranked(t.actor, t.target)
    BY <2>1, <2>2, <2>4 DEF Allowed, OnceOutranked
  <2>6. \/ t.actor = Owner
        \/ \E high \in had'[t.actor], theirs \in had'[t.target] :
             Highest(high) > Highest(theirs)
    BY <2>3, <2>5, RanksGrow
  <2> QED BY <1>1, <2>1, <2>6 DEF RankInv, SameRequest, OnceOutranked
<1>7. CASE t.stage = "act"
  BY <1>1, <1>3, <1>7 DEF Steps
<1> QED BY <1>1, <1>4, <1>5, <1>6, <1>7 DEF Steps

(* The cache is only ever given what a member is.                          *)
LEMMA CacheFills ==
  ASSUME IndInv, Step, NEW u \in Users
  PROVE  cache'[u] \subseteq cache[u] \cup {roles[v] : v \in members \cap {u}}
<1>1. CASE cache' = cache
  BY <1>1
<1>2. ASSUME NEW v \in Shifting, Notice(v)
      PROVE  cache'[u] \subseteq cache[u] \cup {roles[w] : w \in members \cap {u}}
  <2>1. cache \in [Users -> {{}} \cup {{held} : held \in SUBSET Roles}]
    BY DEF IndInv, TypeOK
  <2>2. v \in members /\ cache' = [cache EXCEPT ![v] = {roles[v]}]
    BY <1>2 DEF Notice
  <2>3. CASE u = v
    BY <2>1, <2>2, <2>3
  <2>4. CASE u # v
    BY <2>1, <2>2, <2>4
  <2> QED BY <2>3, <2>4
<1>3. \/ cache' = cache
      \/ \E v \in Shifting : Notice(v)
  BY DEF Step, Manage, ManageUser, ManageRole, Statement, Invoke, CheckAccess, Resolve,
     Authorize, Act, SetRoles, Leave, Join, TimeoutEnds
<1> QED BY <1>1, <1>2, <1>3

LEMMA RememberPreserves ==
  ASSUME IndInv, IndInv', HistInv, Step, Remember
  PROVE  HistInv'
<1>1. /\ \A u \in Users : had[u] \subseteq had'[u]
      /\ \A u \in members' \cap Users : roles'[u] \in had'[u]
  BY Remembered
<1>2. ASSUME NEW u \in Users
      PROVE  cache'[u] \subseteq had'[u]
  <2>1. cache[u] \subseteq had[u] /\ (u \in members => roles[u] \in had[u])
    BY DEF HistInv
  <2> QED BY <1>1, <2>1, CacheFills
<1>3. \A u \in members' : roles'[u] \in had'[u]
  BY <1>1 DEF IndInv, TypeOK
<1>4. ASSUME NEW a \in Attempts
      PROVE  RankInv(a)'
  <2>1. Next
    BY DEF Next
  <2>2. CASE attempt'[a] = attempt[a]
    <3>1. RankInv(a)
      BY DEF HistInv
    <3>2. attempt[a].stage = "authorize" => attempt[a].seen \in had'[attempt[a].target]
      BY <1>1, <3>1, AboutUsers DEF RankInv
    <3>3. attempt[a].stage = "act" /\ attempt[a].command \in Punishments =>
            OnceOutranked(attempt[a].actor, attempt[a].target)'
      <4> DEFINE actor == attempt[a].actor
                 target == attempt[a].target
      <4>1. SUFFICES ASSUME attempt[a].stage = "act", attempt[a].command \in Punishments
                     PROVE  \/ actor = Owner
                            \/ \E mine \in had'[actor], theirs \in had'[target] :
                                 Highest(mine) > Highest(theirs)
        BY <2>2 DEF OnceOutranked
      <4>2. actor \in Users /\ target \in Users
        BY <4>1, AboutUsers
      <4>3. OnceOutranked(actor, target)
        BY <3>1, <4>1 DEF RankInv
      <4> QED BY <1>1, <4>2, <4>3, RanksGrow
    <3> QED BY <2>2, <3>2, <3>3 DEF RankInv, OnceOutranked
  <2>3. CASE CommandStep(a)
    BY <1>1, <2>3, JudgedOnce
  <2>4. CASE attempt'[a].stage \in {"access", "lost"}
    BY <2>4 DEF RankInv
  <2> QED BY <2>1, <2>2, <2>3, <2>4, TaskMoves
<1> QED BY <1>2, <1>3, <1>4 DEF HistInv

(* A restart forgets the cache and the commands along with the history.    *)
LEMMA ForgetPreserves ==
  ASSUME IndInv, Restart, Forget
  PROVE  HistInv'
<1>1. attempt \in [Attempts -> AttemptStates] /\ members \subseteq Users
  BY DEF IndInv, TypeOK
<1>2. ASSUME NEW a \in Attempts
      PROVE  attempt'[a].stage \notin {"authorize", "act"}
  <2>1. CASE attempt[a].stage \in AttemptStages
    <3>1. attempt'[a] = [attempt[a] EXCEPT !.stage = "lost"]
      BY <2>1 DEF Restart
    <3>2. attempt'[a].stage = "lost"
      BY <1>1, <3>1 DEF AttemptStates
    <3> QED BY <3>2
  <2>2. CASE attempt[a].stage \notin AttemptStages
    BY <2>2 DEF Restart, AttemptStages
  <2> QED BY <2>1, <2>2
<1>3. \A u \in Users : cache'[u] = {}
  BY DEF Restart
<1>4. members' = members /\ roles' = roles
  BY DEF Restart, guild
<1>5. \A u \in members : roles[u] \in had'[u]
  BY <1>1 DEF Forget
<1> QED BY <1>2, <1>3, <1>4, <1>5 DEF HistInv, RankInv

LEMMA HistoryPreserved ==
  ASSUME IndInv, HistInv, [HistoryNext]_<<vars, had>>
  PROVE  IndInv' /\ HistInv'
<1>1. [Next]_vars
  BY DEF HistoryNext, Next
<1>2. IndInv'
  BY <1>1, StepPreserves
<1>3. CASE UNCHANGED <<vars, had>>
  <2>1. /\ cache' = cache /\ members' = members /\ roles' = roles
        /\ attempt' = attempt /\ had' = had
    BY <1>3 DEF vars
  <2> QED BY <1>2, <2>1 DEF HistInv, RankInv, OnceOutranked
<1>4. CASE HistoryNext
  BY <1>2, <1>4, RememberPreserves, ForgetPreserves DEF HistoryNext
<1> QED BY <1>2, <1>3, <1>4

(* Who kicks, bans or mutes somebody is the owner or has been strictly     *)
(* above what the target has been, since the process started: with any     *)
(* changes of roles, departures and returns between the events the cache   *)
(* saw, the awaits of a command, and restarts.                             *)
THEOREM RankAlwaysOnceHeld == HistorySpec => RankOnceHeld
<1>1. Init /\ HistoryInit => IndInv /\ HistInv
  <2> SUFFICES ASSUME Init, HistoryInit PROVE IndInv /\ HistInv
    OBVIOUS
  <2>1. IndInv
    BY InitTyped
  <2>2. \A u \in Users : cache[u] = {}
    BY DEF Init
  <2>3. \A u \in members : roles[u] \in had[u]
    BY DEF Init, HistoryInit
  <2>4. \A a \in Attempts : RankInv(a)
    BY DEF Init, IdleAttempt, RankInv
  <2> QED BY <2>1, <2>2, <2>3, <2>4 DEF HistInv
<1>2. IndInv /\ HistInv /\ [HistoryNext]_<<vars, had>> => IndInv' /\ HistInv'
  BY HistoryPreserved
<1>3. HistInv => \A a \in Attempts :
         Performs(a) /\ attempt[a].command \in Punishments =>
           OnceOutranked(attempt[a].actor, attempt[a].target)
  BY DEF HistInv, RankInv, Performs
<1> QED BY <1>1, <1>2, <1>3, PTL DEF HistorySpec, RankOnceHeld

-----------------------------------------------------------------------------
(* What /allow and /disallow report.                                       *)

(* The entries a management command has dealt with.                        *)
Made(x) ==
  {UserEntry(u) : u \in {v \in {manage[x].user} \ {None} :
                           manage[x].stage \in {"role", "done"}}}
    \cup {RoleEntry(r) : r \in {q \in {manage[x].role} \ {None} :
                                  manage[x].stage = "done"}}

(* No command of the other direction names the entry.                      *)
Agreed(x, e) == \A y \in Managements : e \in Names(y) => manage[y].op = manage[x].op

MadeSo(x) ==
  \A e \in Made(x) : Agreed(x, e) => (e \in allow <=> manage[x].op = "allow")

LEMMA StatementMakes ==
  ASSUME IndInv, NEW y \in Managements, ManageStep(y)
  PROVE  /\ \A x \in Managements : Names(x)' = Names(x) /\ manage'[x].op = manage[x].op
         /\ \A x \in Managements : x # y => Made(x)' = Made(x)
         /\ \/ /\ allow' = Applied(manage[y].op, Entry(y))
               /\ Made(y)' \subseteq Made(y) \cup {Entry(y)}
            \/ allow' \in {allow, Applied(manage[y].op, Entry(y))} /\ Made(y)' = {}
         /\ Entry(y) \in Names(y)
<1> DEFINE t == manage[y]
           u == manage'[y]
<1>1. /\ t.stage \in {"user", "role"}
      /\ manage' = [manage EXCEPT ![y] = u]
      /\ u = [stage |-> u.stage, op |-> t.op, user |-> t.user, role |-> t.role]
      /\ \/ /\ allow' = Applied(t.op, Entry(y))
            /\ u.stage = IF t.stage = "user" /\ t.role # None THEN "role" ELSE "done"
         \/ allow' \in {allow, Applied(t.op, Entry(y))} /\ u.stage = "error"
  BY ManageStepKeeps
<1>2. manage \in [Managements -> ManageStates] /\ ManageShape(y)
  BY DEF IndInv, TypeOK
<1>3. u.op = t.op /\ u.user = t.user /\ u.role = t.role
  BY <1>1
<1>4. \A x \in Managements : x # y => manage'[x] = manage[x]
  BY <1>1, <1>2
<1>5. Entry(y) \in Names(y)
  BY <1>1, <1>2 DEF Entry, Names, ManageShape
<1>6. CASE /\ allow' = Applied(t.op, Entry(y))
           /\ u.stage = IF t.stage = "user" /\ t.role # None THEN "role" ELSE "done"
  <2>1. Made(y)' \subseteq Made(y) \cup {Entry(y)}
    <3>1. CASE t.stage = "user"
      BY <1>3, <1>6, <3>1 DEF Made, Entry
    <3>2. CASE t.stage = "role"
      BY <1>3, <1>6, <3>2 DEF Made, Entry
    <3> QED BY <1>1, <3>1, <3>2
  <2> QED BY <1>3, <1>4, <1>5, <1>6, <2>1 DEF Names, Made
<1>7. CASE allow' \in {allow, Applied(t.op, Entry(y))} /\ u.stage = "error"
  <2>1. Made(y)' = {}
    BY <1>7 DEF Made
  <2> QED BY <1>3, <1>4, <1>5, <1>7, <2>1 DEF Names, Made
<1> QED BY <1>1, <1>6, <1>7

LEMMA StatementSo ==
  ASSUME IndInv, \A x \in Managements : MadeSo(x), NEW y \in Managements, ManageStep(y)
  PROVE  \A x \in Managements : MadeSo(x)'
<1> SUFFICES ASSUME NEW x \in Managements, NEW e \in Made(x)', Agreed(x, e)'
             PROVE  e \in allow' <=> manage'[x].op = "allow"
  BY DEF MadeSo
<1>1. /\ \A z \in Managements : Names(z)' = Names(z) /\ manage'[z].op = manage[z].op
      /\ \A z \in Managements : z # y => Made(z)' = Made(z)
      /\ \/ /\ allow' = Applied(manage[y].op, Entry(y))
            /\ Made(y)' \subseteq Made(y) \cup {Entry(y)}
         \/ allow' \in {allow, Applied(manage[y].op, Entry(y))} /\ Made(y)' = {}
      /\ Entry(y) \in Names(y)
  BY StatementMakes
<1>2. Agreed(x, e)
  BY <1>1 DEF Agreed
<1>3. CASE e = Entry(y)
  <2>1. manage[y].op = manage[x].op
    BY <1>1, <1>2, <1>3 DEF Agreed
  <2>2. CASE allow' = Applied(manage[y].op, Entry(y))
    BY <1>1, <1>3, <2>1, <2>2 DEF Applied
  <2>3. CASE allow' = allow /\ allow' # Applied(manage[y].op, Entry(y))
    <3>1. e \in Made(x)
      BY <1>1, <2>3
    <3>2. e \in allow <=> manage[x].op = "allow"
      BY <1>2, <3>1 DEF MadeSo
    <3> QED BY <1>1, <2>3, <3>2
  <2> QED BY <1>1, <2>2, <2>3
<1>4. CASE e # Entry(y)
  <2>1. e \in Made(x)
    BY <1>1, <1>4
  <2>2. e \in allow <=> manage[x].op = "allow"
    BY <1>2, <2>1 DEF MadeSo
  <2>3. e \in allow' <=> e \in allow
    BY <1>1, <1>4 DEF Applied
  <2> QED BY <1>1, <2>2, <2>3
<1> QED BY <1>3, <1>4

(* A command that begins names more, and has dealt with nothing.           *)
LEMMA BeginSo ==
  ASSUME IndInv, \A x \in Managements : MadeSo(x),
         NEW y \in Managements, NEW op, NEW user, NEW role, Manage(y, op, user, role)
  PROVE  \A x \in Managements : MadeSo(x)'
<1> DEFINE first == IF user # None THEN "user" ELSE IF role # None THEN "role" ELSE "done"
<1> SUFFICES ASSUME NEW x \in Managements, NEW e \in Made(x)', Agreed(x, e)'
             PROVE  e \in allow' <=> manage'[x].op = "allow"
  BY DEF MadeSo
<1>1. manage \in [Managements -> ManageStates] /\ manage[y] = IdleManage
  BY DEF IndInv, TypeOK, ManageShape, Manage
<1>2. manage' = [manage EXCEPT ![y] =
                   [stage |-> first, op |-> op, user |-> user, role |-> role]]
  BY DEF Manage
<1>3. \A z \in Managements : z # y => manage'[z] = manage[z]
  BY <1>1, <1>2
<1>4. Names(y) = {}
  BY <1>1 DEF Names, IdleManage
<1>5. Made(y)' = {}
  <2>1. manage'[y] = [stage |-> first, op |-> op, user |-> user, role |-> role]
    BY <1>1, <1>2
  <2>2. /\ manage'[y].stage = first /\ manage'[y].user = user
        /\ manage'[y].role = role
    BY <2>1
  <2> QED BY <2>2 DEF Made
<1>6. x # y
  BY <1>5
<1>7. e \in Made(x)
  BY <1>3, <1>6 DEF Made
<1>8. \A z \in Managements : z # y => Names(z)' = Names(z)
  BY <1>3 DEF Names
<1>9. Agreed(x, e)
  BY <1>3, <1>4, <1>6, <1>8 DEF Agreed
<1>10. e \in allow <=> manage[x].op = "allow"
  BY <1>7, <1>9 DEF MadeSo
<1> QED BY <1>3, <1>6, <1>10 DEF Manage

(* A restart leaves the table, and forgets what was half done.             *)
LEMMA RestartSo ==
  ASSUME IndInv, \A x \in Managements : MadeSo(x), Restart
  PROVE  \A x \in Managements : MadeSo(x)'
<1> SUFFICES ASSUME NEW x \in Managements, NEW e \in Made(x)', Agreed(x, e)'
             PROVE  e \in allow' <=> manage'[x].op = "allow"
  BY DEF MadeSo
<1>1. ASSUME NEW z \in Managements
      PROVE  /\ manage'[z].op = manage[z].op /\ manage'[z].user = manage[z].user
             /\ manage'[z].role = manage[z].role
             /\ manage'[z].stage = manage[z].stage \/ manage'[z].stage = "lost"
  <2>1. manage[z] \in ManageStates
    BY DEF IndInv, TypeOK
  <2>2. CASE manage[z].stage \in ManageStages
    <3>1. manage'[z] = [manage[z] EXCEPT !.stage = "lost"]
      BY <2>2 DEF Restart
    <3> QED BY <2>1, <3>1 DEF ManageStates
  <2>3. CASE manage[z].stage \notin ManageStages
    BY <2>3 DEF Restart
  <2> QED BY <2>2, <2>3
<1>2. \A z \in Managements : Names(z)' = Names(z)
  BY <1>1 DEF Names
<1>3. Made(x)' \subseteq Made(x)
  BY <1>1 DEF Made
<1>4. Agreed(x, e)
  BY <1>1, <1>2 DEF Agreed
<1>5. e \in allow <=> manage[x].op = "allow"
  BY <1>3, <1>4 DEF MadeSo
<1> QED BY <1>1, <1>5 DEF Restart

LEMMA SameSo ==
  ASSUME \A x \in Managements : MadeSo(x), UNCHANGED <<allow, manage>>
  PROVE  \A x \in Managements : MadeSo(x)'
BY DEF MadeSo, Made, Agreed, Names

LEMMA StepSo ==
  ASSUME IndInv, \A x \in Managements : MadeSo(x), [Next]_vars
  PROVE  \A x \in Managements : MadeSo(x)'
<1>1. CASE UNCHANGED vars
  BY <1>1, SameSo DEF vars
<1>2. ASSUME NEW a \in Attempts, CommandStep(a)
      PROVE  UNCHANGED <<allow, manage>>
  BY <1>2 DEF CommandStep, CheckAccess, Resolve, Authorize, Act
<1>3. ASSUME NEW a \in Attempts, NEW command, NEW actor, NEW target,
             Invoke(a, command, actor, target)
      PROVE  UNCHANGED <<allow, manage>>
  BY <1>3 DEF Invoke
<1>4. ASSUME NEW u \in Shifting, PeopleStep(u)
      PROVE  UNCHANGED <<allow, manage>>
  BY <1>4 DEF PeopleStep, SetRoles, Notice, Leave, Join, TimeoutEnds
<1>5. ASSUME NEW y \in Managements, NEW op, NEW user, NEW role, Manage(y, op, user, role)
      PROVE  \A x \in Managements : MadeSo(x)'
  BY <1>5, BeginSo
<1>6. CASE Next
  BY <1>2, <1>3, <1>4, <1>5, <1>6, NextSplit, StatementSo, RestartSo, SameSo
<1> QED BY <1>1, <1>6

(* What /allow and /disallow report is so, for any number of them, with    *)
(* failures between their statements, lost answers and restarts.           *)
THEOREM ReportsAlwaysHold == Spec => []ReportsHold
<1> DEFINE AllSo == \A x \in Managements : MadeSo(x)
<1>1. Init => AllSo
  BY DEF Init, IdleManage, MadeSo, Made
<1>2. IndInv /\ AllSo /\ [Next]_vars => AllSo'
  BY StepSo
<1>3. AllSo => ReportsHold
  <2> SUFFICES ASSUME AllSo, NEW x \in Managements, manage[x].stage = "done",
                      NEW e \in Names(x), Agreed(x, e)
               PROVE  e \in allow <=> manage[x].op = "allow"
    BY DEF ReportsHold, Agreed
  <2>1. e \in Made(x)
    BY DEF Names, Made
  <2> QED BY <2>1 DEF MadeSo
<1> HIDE DEF AllSo
<1> QED BY <1>1, <1>2, <1>3, Invariance, PTL DEF Spec
=============================================================================
