---------------------------- MODULE MCEventOutbox ----------------------------
(***************************************************************************)
(* Two events: a ticket's, published with webhooks, and another.  The      *)
(* ticket's is recorded with its change, or for liveness by publish as the *)
(* other is.                                                               *)
(***************************************************************************)
EXTENDS EventOutbox

CONSTANTS ticket, other, sla, notify

MCNotify == {<<notify, ticket>>}
=============================================================================
