--------------------------- MODULE ReceivedAlerts ---------------------------
(***************************************************************************)
(* The data of the alert sink: one received alert, the key it is           *)
(* deduplicated under, and what a list of received alerts says is firing.  *)
(* Constant level: NotificationHistory and AlertSink both build on it.     *)
(***************************************************************************)
EXTENDS Naturals, Sequences

CONSTANTS
  Fingerprints,   \* label fingerprints Alertmanager puts into a notification
  NoFingerprint,  \* the empty string, what a payload without the field gives
  Identities,     \* "alertname/instance", the key used without a fingerprint
  Capacity        \* entries the ring buffer keeps (DEFAULT_CAPACITY is 500)

ASSUME CapacityIsPositive == Capacity \in Nat \ {0}

(* One alert of a notification.  Every reader of the store treats a status
   other than "firing" like "resolved", so two values are enough.          *)
Alert == [ fingerprint : Fingerprints \cup {NoFingerprint},
           identity    : Identities,
           status      : {"firing", "resolved"} ]

Keys == Fingerprints \cup Identities

Key(a) == IF a.fingerprint = NoFingerprint THEN a.identity ELSE a.fingerprint

(* Entry i is the last one under its key: the one the dictionary that
   firing() fills from the oldest entry to the newest ends up holding.     *)
IsNewest(s, i) == \A j \in DOMAIN s : j > i => Key(s[j]) # Key(s[i])

(* AlertStore.firing() as a set: the newest entry of every key, kept when it
   is firing.  The answer's order is that of first appearance; no reader
   depends on it.                                                          *)
Firing(s) == { s[i] : i \in { j \in DOMAIN s : /\ IsNewest(s, j)
                                               /\ s[j].status = "firing" } }

(* The last Capacity entries of a list, all of it when it is shorter.      *)
Retained(s) ==
  IF Len(s) <= Capacity THEN s ELSE SubSeq(s, Len(s) - Capacity + 1, Len(s))
=============================================================================
