------------------------ MODULE NotificationDelivery ------------------------
(***************************************************************************)
(* What notifications promise their readers, without pool, streams and     *)
(* caches: an event that commits is delivered once and to all its          *)
(* addressees, or dropped for all of them, and never to an account that is *)
(* gone; one that does not commit is delivered to nobody; a notification   *)
(* its reader removed does not return.                                     *)
(*                                                                         *)
(* NotificationPipeline implements it.                                     *)
(***************************************************************************)
CONSTANTS Users, Events

VARIABLES
  accounts,    \* accounts there are
  fate,        \* event -> what became of it
  addressees,  \* event -> accounts it is for
  inbox        \* pairs of an event and an account

delivery == <<accounts, fate, addressees, inbox>>

Fates == {"idle", "open", "aborted", "pending", "dropped", "delivered"}

Init ==
  /\ accounts = Users /\ inbox = {}
  /\ fate = [v \in Events |-> "idle"]
  /\ addressees = [v \in Events |-> {}]

Becomes(v, from, to) == fate[v] = from /\ fate' = [fate EXCEPT ![v] = to]

(* The addressees are settled when the event is published.                 *)
Publish(v) ==
  /\ Becomes(v, "idle", "open")
  /\ \E who \in SUBSET accounts : addressees' = [addressees EXCEPT ![v] = who]
  /\ UNCHANGED <<accounts, inbox>>

Settle(v) ==
  /\ \/ Becomes(v, "open", "pending")
     \/ Becomes(v, "open", "aborted")
     \/ Becomes(v, "pending", "dropped")
  /\ UNCHANGED <<accounts, addressees, inbox>>

Deliver(v) ==
  /\ Becomes(v, "pending", "delivered")
  /\ addressees[v] \subseteq accounts
  /\ inbox' = inbox \cup ({v} \X addressees[v])
  /\ UNCHANGED <<accounts, addressees>>

Remove(n) ==
  /\ inbox' = inbox \ {n}
  /\ UNCHANGED <<accounts, fate, addressees>>

CloseAccount(u) ==
  /\ accounts' = accounts \ {u}
  /\ inbox' = {n \in inbox : n[2] # u}
  /\ UNCHANGED <<fate, addressees>>

(* What is under way is lost as a whole.                                   *)
AfterCrash(f) ==
  CASE f = "open" -> "aborted" [] f = "pending" -> "dropped" [] OTHER -> f

Crash ==
  /\ fate' = [v \in Events |-> AfterCrash(fate[v])]
  /\ UNCHANGED <<accounts, addressees, inbox>>

Next ==
  \/ \E v \in Events : Publish(v) \/ Settle(v) \/ Deliver(v)
  \/ \E n \in inbox : Remove(n)
  \/ \E u \in Users : CloseAccount(u)
  \/ Crash

Spec == Init /\ [][Next]_delivery
=============================================================================
