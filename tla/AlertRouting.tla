----------------------------- MODULE AlertRouting -----------------------------
(***************************************************************************)
(* alertmanager.yml as it acts on the alerts of prometheus/rules: which    *)
(* firing alert reaches which receiver, given the other alerts that fire   *)
(* and the hour of the week in Moscow.                                     *)
(*                                                                         *)
(* An alert is a record of the three labels the file looks at.  Its        *)
(* severity is a constant of its rule, so a matcher on the severity is a   *)
(* set of alert names; a matcher on the name is one anyway.                *)
(***************************************************************************)
EXTENDS Naturals

CONSTANTS
  Alerts,     \* the alerts there may be: [alertname, job, instance]
  NoInstance  \* the instance of an alert aggregated over its job

VARIABLES
  firing,     \* the alerts Alertmanager holds as firing
  day,        \* 0 is Monday
  hour        \* the intervals of the file all begin and end on the hour

vars == << firing, day, hour >>

CriticalRules ==
  { "ErrorBudgetBurnFast", "LatencyBudgetBurnFast", "TargetDown", "ProbeFailed",
    "DiskWillFillSoon", "PrometheusRuleEvaluationFailing",
    "AlertmanagerNotificationsFailing" }

WarningRules ==
  { "ErrorBudgetBurnSlow", "HighErrorRatio", "LatencyBudgetBurnSlow",
    "TrafficDropped", "ProbeSlow", "DiskSpaceLow", "MemoryPressure" }

MetaJobs == { "prometheus", "alertmanager" }

(* The metric-derived alerts TargetDown speaks for.                        *)
BlindedRules ==
  { "ErrorBudgetBurnFast", "ErrorBudgetBurnSlow", "LatencyBudgetBurnFast",
    "LatencyBudgetBurnSlow", "HighErrorRatio", "TrafficDropped" }

(* Alerts have these names only, and no rule of a monitoring job is a
   ticket: what such a job exports feeds no warning's expression.          *)
ASSUME AlertsAssumption ==
  /\ \A a \in Alerts : a.alertname \in CriticalRules \cup WarningRules
  /\ \A a \in Alerts : a.job \in MetaJobs => a.alertname \in CriticalRules

-----------------------------------------------------------------------------
(* Slips: the definition of the same name without the suffix, as a plausible
   edit of the file would have it.                                         *)

(* source_matchers and target_matchers of the first rule swapped.          *)
InhibitRulesSwapped ==
  { [source |-> WarningRules,   target |-> CriticalRules, equal |-> {"job"}],
    [source |-> {"TargetDown"}, target |-> BlindedRules,  equal |-> {"job"}],
    [source |-> {"ProbeFailed"}, target |-> {"ProbeSlow"}, equal |-> {"instance"}] }

(* The interval before midnight left out.                                  *)
OutOfHoursNoEvening == day \in {5, 6} \/ hour < 9

(* end_time "24:00" for "09:00".                                           *)
OutOfHoursAllDay == day \in {5, 6} \/ hour \in 0..23

-----------------------------------------------------------------------------
InhibitRules ==
  { [source |-> CriticalRules,  target |-> WarningRules, equal |-> {"job"}],
    [source |-> {"TargetDown"}, target |-> BlindedRules, equal |-> {"job"}],
    [source |-> {"ProbeFailed"}, target |-> {"ProbeSlow"}, equal |-> {"instance"}] }

(* s keeps t from being notified.  (No name is on both sides of a rule, so
   Alertmanager's exception for such alerts never applies.)                *)
Inhibits(s, t) == \E r \in InhibitRules : /\ s.alertname \in r.source
                                          /\ t.alertname \in r.target
                                          /\ \A l \in r.equal : s[l] = t[l]

Inhibited(a) == \E s \in firing : Inhibits(s, a)

OutOfHours == day \in {5, 6} \/ hour >= 20 \/ hour < 9

(* The first child route whose matchers match; none has "continue".        *)
Route(a) == IF a.job \in MetaJobs THEN "meta"
            ELSE IF a.alertname \in CriticalRules THEN "critical"
            ELSE IF a.alertname \in WarningRules THEN "warning"
            ELSE "default"

Receiver == [ meta     |-> "pager",   critical |-> "pager",
              warning  |-> "tickets", default  |-> "fallback" ]

(* Only the route of the warnings has a mute_time_intervals.               *)
Muted(a) == Route(a) = "warning" /\ OutOfHours

(* a is in its group's next notification.                                  *)
Notified(a) == a \in firing /\ ~Inhibited(a) /\ ~Muted(a)

Paged(a) == Notified(a) /\ Receiver[Route(a)] = "pager"

-----------------------------------------------------------------------------
Init == firing = {} /\ day \in 0..6 /\ hour \in 0..23

Fire(a) == /\ a \notin firing
           /\ firing' = firing \cup {a}
           /\ UNCHANGED << day, hour >>

Resolve(a) == /\ a \in firing
              /\ firing' = firing \ {a}
              /\ UNCHANGED << day, hour >>

PassHour == /\ hour' = (hour + 1) % 24
            /\ day'  = IF hour = 23 THEN (day + 1) % 7 ELSE day
            /\ UNCHANGED firing

Next == PassHour \/ \E a \in Alerts : Fire(a) \/ Resolve(a)

Spec == Init /\ [][Next]_vars

(* Time passes; no alert has to fire or to resolve.                        *)
FairSpec == Spec /\ WF_vars(PassHour)

-----------------------------------------------------------------------------
(* Type correctness.                                                       *)
TypeOK == firing \subseteq Alerts /\ day \in 0..6 /\ hour \in 0..23

(* Nothing is suppressed into silence: whatever an inhibition rule hides,
   at any hour, is hidden behind an alert that is itself being paged for.
   A suppressor may be suppressed too (ErrorBudgetBurnFast by TargetDown),
   and the chain still ends in a page.                                     *)
HiddenBehindAPage ==
  \A a \in firing : Inhibited(a) => \E s \in firing : Inhibits(s, a) /\ Paged(s)

(* "A ticket for the next working day" (alerting.yml), "it does not wake
   anyone at night" (runbooks.md, ErrorBudgetBurnSlow): out of hours only
   critical alerts are notified.                                           *)
NightIsQuiet ==
  \A a \in firing : Notified(a) /\ (day \in {5, 6} \/ hour \notin 9..19)
                      => a.alertname \in CriticalRules

(* A warning that keeps firing, with no critical alert of its job or its
   instance to speak for it, becomes a ticket: no mute lasts for ever.     *)
TicketComes ==
  \A a \in Alerts :
    a.alertname \in WarningRules /\ a \in firing
      ~> a \notin firing \/ Inhibited(a) \/ Notified(a)

(* "A warning is suppressed by Alertmanager when there is already a critical
   for the same object" (README, "Inhibition instead of switching rules
   off"; runbooks.md, DiskWillFillSoon: "for the same instance").          *)
SuppressedForTheSameObject ==
  \A a \in firing : a.alertname \in WarningRules /\ Inhibited(a) =>
    \E s \in firing : /\ s.alertname \in CriticalRules
                      /\ s.job = a.job
                      /\ a.instance \in {NoInstance, s.instance}
=============================================================================
