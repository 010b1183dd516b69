--------------------------- MODULE MCAlertDelivery ---------------------------
(***************************************************************************)
(* A group of two alerts: a notification that carries a firing and a       *)
(* resolved one, and a suppression of one of them.                         *)
(***************************************************************************)
EXTENDS AlertDelivery

CONSTANTS a1, a2

MCAlerts == {a1, a2}
=============================================================================
