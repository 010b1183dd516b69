----------------------------- MODULE MCAlertSink -----------------------------
(***************************************************************************)
(* Small instances of AlertSink for TLC: two connections, a buffer of two  *)
(* entries, and the notifications that make the cases: an alert that fires *)
(* and resolves, a batch larger than the buffer, an empty batch, an alert  *)
(* without a fingerprint.                                                  *)
(***************************************************************************)
EXTENDS AlertSink

CONSTANTS c1, c2, f1, f2, i1

MCClients      == {c1, c2}
MCFingerprints == {f1, f2}
MCIdentities   == {i1}

Fires(f)    == [fingerprint |-> f, identity |-> i1, status |-> "firing"]
Resolves(f) == [fingerprint |-> f, identity |-> i1, status |-> "resolved"]

MCBatches == { <<>>,
               << Fires(f1) >>,
               << Resolves(f1) >>,
               << Fires(f2), Fires(NoFingerprint) >>,
               << Fires(f1), Fires(f2), Resolves(f1) >> }
=============================================================================
