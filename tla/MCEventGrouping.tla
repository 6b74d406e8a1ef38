-------------------------- MODULE MCEventGrouping --------------------------
(***************************************************************************)
(* Two alarms of one CI, as model values.                                  *)
(***************************************************************************)
EXTENDS EventGrouping
=============================================================================
