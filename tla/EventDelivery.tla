---------------------------- MODULE EventDelivery ----------------------------
(***************************************************************************)
(* What the outbox promises of the domain events (packages/events/src/     *)
(* outbox.ts 5-19): an event that was written down stays owed until every  *)
(* consumer's queue was given it and its webhooks are enqueued, and it is  *)
(* owed once.  How often an event is sent, by whom, and what fails on the  *)
(* way are EventOutbox's matter, which implements this specification.      *)
(***************************************************************************)
CONSTANTS Events, Consumers, Webhooks

VARIABLES
  owed,     \* the events written down and not yet known to be sent
  settled,  \* the events known to be sent
  given,    \* the <<consumer, event>> whose queue was given the event
  hooked    \* the events whose webhooks are enqueued

deliveryVars == <<owed, settled, given, hooked>>

DeliveryInit == owed = {} /\ settled = {} /\ given = {} /\ hooked = {}

Owe(e) ==
  /\ e \notin owed \cup settled
  /\ owed' = owed \cup {e}
  /\ UNCHANGED <<settled, given, hooked>>

Hand(e, cs) ==
  /\ given' = given \cup (cs \X {e})
  /\ UNCHANGED <<owed, settled, hooked>>

Hook(e) ==
  /\ e \in Webhooks
  /\ hooked' = hooked \cup {e}
  /\ UNCHANGED <<owed, settled, given>>

Settle(e) ==
  /\ e \in owed
  /\ Consumers \X {e} \subseteq given
  /\ e \in Webhooks => e \in hooked
  /\ owed' = owed \ {e}
  /\ settled' = settled \cup {e}
  /\ UNCHANGED <<given, hooked>>

DeliveryNext ==
  \E e \in Events : \/ Owe(e) \/ Hook(e) \/ Settle(e)
                    \/ \E cs \in SUBSET Consumers : Hand(e, cs)

DeliverySpec == DeliveryInit /\ [][DeliveryNext]_deliveryVars
=============================================================================
