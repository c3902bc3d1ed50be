--------------------------- MODULE OutboxDelivery ---------------------------
(***************************************************************************)
(* What the outbox promises the rest of the portal, without workers,       *)
(* claims, locks or rows: an accepted event is tried at most Budget times, *)
(* it counts as sent only when its message is in the topic, and it is      *)
(* buried only when its budget is used up. Outbox implements this.         *)
(***************************************************************************)
EXTENDS Naturals

CONSTANTS
  Events,
  Budget(_)   \* the attempts an event is granted

VARIABLES
  phase,   \* "none", "open", "sent" or "dead"
  tries,   \* attempts made so far
  copies   \* copies of the message in the topic

deliveryVars == <<phase, tries, copies>>

DeliveryInit ==
  /\ phase = [e \in Events |-> "none"]
  /\ tries = [e \in Events |-> 0]
  /\ copies = [e \in Events |-> 0]

Accept(e) ==
  /\ phase[e] = "none"
  /\ phase' = [phase EXCEPT ![e] = "open"]
  /\ UNCHANGED <<tries, copies>>

Try(e) ==
  /\ phase[e] = "open"
  /\ tries[e] < Budget(e)
  /\ tries' = [tries EXCEPT ![e] = @ + 1]
  /\ copies'[e] \in Nat
  /\ copies'[e] >= copies[e]
  /\ copies' = [copies EXCEPT ![e] = copies'[e]]
  /\ UNCHANGED phase

Confirm(e) ==
  /\ phase[e] = "open"
  /\ copies[e] > 0
  /\ phase' = [phase EXCEPT ![e] = "sent"]
  /\ UNCHANGED <<tries, copies>>

Bury(e) ==
  /\ phase[e] = "open"
  /\ tries[e] = Budget(e)
  /\ phase' = [phase EXCEPT ![e] = "dead"]
  /\ UNCHANGED <<tries, copies>>

DeliveryNext == \E e \in Events : Accept(e) \/ Try(e) \/ Confirm(e) \/ Bury(e)

DeliverySpec == DeliveryInit /\ [][DeliveryNext]_deliveryVars
=============================================================================
