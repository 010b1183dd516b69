---------------------------- MODULE MCAlertRouting ----------------------------
(***************************************************************************)
(* Alerts of two targets of the blackbox probe, of the sample application  *)
(* and of the monitoring itself: every inhibition rule has its sources and *)
(* targets on the same and on different objects.                           *)
(***************************************************************************)
EXTENDS AlertRouting

CONSTANTS items, health, app, prom, none

Alert(name, job, instance) ==
  [alertname |-> name, job |-> job, instance |-> instance]

ProbeAlerts ==
  { Alert("ProbeFailed", "blackbox-http", items),
    Alert("ProbeSlow", "blackbox-http", items),
    Alert("ProbeSlow", "blackbox-http", health) }

AppAlerts ==
  { Alert("TargetDown", "sample-app", app),
    Alert("ErrorBudgetBurnFast", "sample-app", none),
    Alert("ErrorBudgetBurnSlow", "sample-app", none),
    Alert("TrafficDropped", "sample-app", none) }

MetaAlerts == { Alert("TargetDown", "prometheus", prom) }

MCAlerts == ProbeAlerts \cup AppAlerts \cup MetaAlerts
=============================================================================
