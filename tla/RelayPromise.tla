---------------------------- MODULE RelayPromise ----------------------------
(***************************************************************************)
(* What the bridge promises, with no table, webhook or await: channels and *)
(* chats are linked one to one, and a message that arrives at one end is   *)
(* settled once.  One fit to be relayed is bound to the end its own end is *)
(* linked to at that instant, and shown there, once, unless a failure      *)
(* stops it.  A message is turned away only at an instant where its end is *)
(* linked to nothing, and ignored only if it is not fit.                   *)
(***************************************************************************)
EXTENDS Sequences

CONSTANTS Channels, Chats, Messages, None

VARIABLES links,        \* the linked pairs <<channel, chat>>
          fate,         \* per message: where it stands, and its two ends
          shown,        \* per message: the ends that got it, each time they did
          unfit         \* the messages that are not to be relayed

promiseVars == <<links, fate, shown, unfit>>

Ends == Channels \cup Chats

Unsent == [at |-> "unsent", from |-> None, to |-> None]

Partners(end) == {c \in Channels : <<c, end>> \in links}
                   \cup {s \in Chats : <<end, s>> \in links}

PromiseInit ==
  /\ links = {} /\ unfit = {}
  /\ fate = [m \in Messages |-> Unsent] /\ shown = [m \in Messages |-> <<>>]

(* A link never gives an end a second partner.                             *)
AddLink(c, s) ==
  /\ Partners(c) = {} /\ Partners(s) = {}
  /\ links' = links \cup {<<c, s>>}
  /\ UNCHANGED <<fate, shown, unfit>>

DropLink(c, s) ==
  /\ <<c, s>> \in links
  /\ links' = links \ {<<c, s>>}
  /\ UNCHANGED <<fate, shown, unfit>>

Arrive(m) ==
  /\ fate[m].at = "unsent"
  /\ \E end \in Ends :
       fate' = [fate EXCEPT ![m] = [at |-> "arrived", from |-> end, to |-> None]]
  /\ unfit' \in {unfit, unfit \cup {m}}
  /\ UNCHANGED <<links, shown>>

Bind(m) ==
  /\ fate[m].at = "arrived" /\ m \notin unfit
  /\ \E end \in Partners(fate[m].from) :
       fate' = [fate EXCEPT ![m] =
                  [at |-> "bound", from |-> fate[m].from, to |-> end]]
  /\ UNCHANGED <<links, shown, unfit>>

Settle(m, there) ==
  /\ fate' = [fate EXCEPT ![m] = [@ EXCEPT !.at = there]]
  /\ UNCHANGED <<links, unfit>>

Deliver(m) ==
  /\ fate[m].at = "bound" /\ Settle(m, "delivered")
  /\ shown' = [shown EXCEPT ![m] = Append(@, fate[m].to)]

Dismiss(m) ==
  /\ fate[m].at = "arrived" /\ Partners(fate[m].from) = {} /\ Settle(m, "dismissed")
  /\ UNCHANGED shown

Ignore(m) ==
  fate[m].at = "arrived" /\ m \in unfit /\ Settle(m, "ignored") /\ UNCHANGED shown

(* An error, or a crash that takes everything under way with it.           *)
Fail(failing) ==
  /\ \A m \in failing : fate[m].at \in {"arrived", "bound"}
  /\ fate' = [m \in Messages |->
       IF m \in failing THEN [fate[m] EXCEPT !.at = "failed"] ELSE fate[m]]
  /\ UNCHANGED <<links, shown, unfit>>

PromiseNext ==
  \/ \E c \in Channels, s \in Chats : AddLink(c, s) \/ DropLink(c, s)
  \/ \E m \in Messages :
       Arrive(m) \/ Bind(m) \/ Deliver(m) \/ Dismiss(m) \/ Ignore(m)
  \/ \E failing \in SUBSET Messages : Fail(failing)

Promise == PromiseInit /\ [][PromiseNext]_promiseVars
=============================================================================
