---------------------------- MODULE MCCheckAlerts ----------------------------
(***************************************************************************)
(* Two alerts, followed from pending to the sink's list and back.          *)
(***************************************************************************)
EXTENDS CheckAlerts

CONSTANTS a1, a2

MCAlerts == {a1, a2}
=============================================================================
