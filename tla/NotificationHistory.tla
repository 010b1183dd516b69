------------------------- MODULE NotificationHistory -------------------------
(***************************************************************************)
(* What the alert sink promises, with no thread and no lock in sight: a    *)
(* history of the last Capacity notified alerts, to which a notification   *)
(* is added whole or not at all, and a listing of what is firing that      *)
(* reads the history at one instant.  AlertSink is shown to implement it.  *)
(***************************************************************************)
EXTENDS ReceivedAlerts

CONSTANTS
  Clients,        \* connections, each served by a handler thread of its own
  Batches         \* the alert lists a well-formed notification can carry

VARIABLES
  history,        \* the retained alerts, oldest first
  listing         \* per client: the last /alerts/firing answer made for it

Init == /\ history = <<>>
        /\ listing = [c \in Clients |-> {}]

Accept(batch) == /\ history' = Retained(history \o batch)
                 /\ UNCHANGED listing

Answer(c) == /\ listing' = [listing EXCEPT ![c] = Firing(history)]
             /\ UNCHANGED history

(* The history lives in memory only: a restart loses it.                   *)
Forget == /\ history' = <<>>
          /\ UNCHANGED listing

Next == \/ \E batch \in Batches : Accept(batch)
        \/ \E c \in Clients : Answer(c)
        \/ Forget

Spec == Init /\ [][Next]_<<history, listing>>
=============================================================================
