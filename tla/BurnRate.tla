------------------------------ MODULE BurnRate ------------------------------
(***************************************************************************)
(* A scenario seen through the windows of the recording rules and the      *)
(* alerting rules of the sample application: at every evaluation each rule *)
(* looks at the requests of its windows, and fires once its expression has *)
(* held at every evaluation for its "for".                                 *)
(*                                                                         *)
(* Time is in seconds from the start of the run.  A rate is the number of  *)
(* requests in the window over its length, as if the counters were read at *)
(* every instant; requests are counted in tenths.                          *)
(***************************************************************************)
EXTENDS ScenarioCatalogue, Integers

CONSTANTS
  Interval,    \* evaluation_interval, seconds: 15 in prometheus.yml, and up to
               \* a minute, Prometheus's default
  Priors,      \* the healthy traffic there may have been before the run:
               \* a rate, in tenths per second, and for how long: [rate, span]
  Horizon      \* bound: seconds evaluated after the run, less than what the
               \* longest window takes to forget it

ASSUME BurnRateAssumption ==
  /\ Interval \in 1..60 /\ Horizon \in Nat /\ Horizon <= 4 * 3600
  /\ Priors \subseteq [rate : 0..250, span : Nat]   \* as busy as any scenario

VARIABLES
  scenario,    \* the scenario that runs
  prior,       \* the healthy traffic before it
  t,           \* the time of the last evaluation
  since,       \* per rule: when its expression began to hold, Never if it does not
  fired        \* history: the rules that have been firing

vars == << scenario, prior, t, since, fired >>

Never == -1

Minutes(n) == 60 * n
Hours(n)   == 3600 * n

-----------------------------------------------------------------------------
(* f[1] + ... + f[n].                                                      *)
Total(f, n) ==
  LET upTo[i \in 0..n] == IF i = 0 THEN 0 ELSE upTo[i - 1] + f[i] IN upTo[n]

(* Phase i of the run lasts from Start(i) to Start(i + 1).                 *)
Phases   == SCENARIOS[scenario]
Start(i) == Total([j \in DOMAIN Phases |-> Phases[j].duration], i - 1)
Duration == Start(Len(Phases) + 1)

LeastOf(x, y)    == IF x <= y THEN x ELSE y
GreatestOf(x, y) == IF x >= y THEN x ELSE y

(* How much of the window (from, to] lies between a and b.                 *)
Overlap(from, to, a, b) ==
  GreatestOf(0, LeastOf(to, b) - GreatestOf(from, a))

(* The requests of a window that ends at u.                                *)
Requests(window, u) ==
  prior.rate * Overlap(u - window, u, -prior.span, 0)
  + Total([i \in DOMAIN Phases |->
             Phases[i].rps * Overlap(u - window, u, Start(i), Start(i + 1))],
          Len(Phases))

(* Those of them that a fault of the given kind made bad.  It is in force
   from the start of its phase to the end of the phase or of its ttl.      *)
Bad(kind, window, u) ==
  LET Of(i) ==
        LET fault == Phases[i].fault
            end   == Start(i) + LeastOf(Phases[i].duration, fault.ttl)
        IN  IF fault.kind # kind THEN 0
            ELSE (Phases[i].rps * Overlap(u - window, u, Start(i), end) * fault.share[1])
                   \div fault.share[2]
  IN  Total([i \in DOMAIN Phases |-> Of(i)], Len(Phases))

-----------------------------------------------------------------------------
(* Slips: the definition of the same name without the suffix, as a plausible
   edit of the rules would have it.                                        *)

(* A slow ratio whose numerator takes the failed requests for slow ones.   *)
RatioAboveOfAnyFault(kind, window, threshold, u) ==
  (Bad("errors", window, u) + Bad("latency", window, u)) * threshold[2]
    > threshold[1] * Requests(window, u)

(* The page without its short window.                                      *)
PageWindowsLong == << Hours(1), Hours(1) >>

(* The baseline of TrafficDropped over an hour.                            *)
BaselineHour == Hours(1)

-----------------------------------------------------------------------------
(* job:...:ratio_rate<window> > threshold.  Without requests there is no
   ratio, and nothing is above the threshold.                              *)
RatioAbove(kind, window, threshold, u) ==
  Bad(kind, window, u) * threshold[2] > threshold[1] * Requests(window, u)

PageWindows   == << Hours(1), Minutes(5) >>
TicketWindows == << Hours(6), Minutes(30) >>

(* 14.4 and 6 times an error budget of 0.1%, and of 1%.                    *)
BurnRules ==
  [ ErrorBudgetBurnFast   |-> [kind |-> "errors",  windows |-> PageWindows,
                               threshold |-> << 9, 625 >>, for |-> Minutes(2)],
    ErrorBudgetBurnSlow   |-> [kind |-> "errors",  windows |-> TicketWindows,
                               threshold |-> << 3, 500 >>, for |-> Minutes(15)],
    LatencyBudgetBurnFast |-> [kind |-> "latency", windows |-> PageWindows,
                               threshold |-> << 18, 125 >>, for |-> Minutes(2)],
    LatencyBudgetBurnSlow |-> [kind |-> "latency", windows |-> TicketWindows,
                               threshold |-> << 3, 50 >>, for |-> Minutes(15)] ]

Pages == { "ErrorBudgetBurnFast", "LatencyBudgetBurnFast" }
Rules == DOMAIN BurnRules \cup { "TrafficDropped" }

Baseline == Hours(6)

(* rate5m < 0.25 * rate over the baseline, which is above 1 request/s.     *)
TrafficIsDown(u) ==
  /\ Requests(Minutes(5), u) * 4 * (Baseline \div Minutes(5)) < Requests(Baseline, u)
  /\ Requests(Baseline, u) > 10 * Baseline

(* The expression of a rule, at u.                                         *)
Holds(rule, u) ==
  IF rule = "TrafficDropped" THEN TrafficIsDown(u)
  ELSE LET r == BurnRules[rule]
       IN  \A i \in 1..2 : RatioAbove(r.kind, r.windows[i], r.threshold, u)

For(rule) == IF rule = "TrafficDropped" THEN Minutes(10) ELSE BurnRules[rule].for

Firing(rule) == since[rule] # Never /\ t - since[rule] >= For(rule)

(* activeAt after an evaluation at u.                                      *)
Since(holds, at, u) == IF ~holds THEN Never ELSE IF at = Never THEN u ELSE at

-----------------------------------------------------------------------------
Init ==
  /\ scenario \in DOMAIN SCENARIOS
  /\ prior \in Priors
  /\ t = 0 /\ since = [r \in Rules |-> Never] /\ fired = {}

(* The next evaluation of the rules.                                       *)
Evaluate ==
  /\ t < Duration + Horizon
  /\ t' = t + Interval
  /\ since' = [r \in Rules |-> Since(Holds(r, t'), since[r], t')]
  /\ fired' = fired \cup { r \in Rules : Firing(r)' }
  /\ UNCHANGED << scenario, prior >>

Spec == Init /\ [][Evaluate]_vars

-----------------------------------------------------------------------------
(* The six hours before the run had more requests than six hours at the rate
   the run begins with.                                                    *)
BusierBefore == Requests(Hours(6), 0) > Phases[1].rps * Hours(6)

(* "Each scenario runs long enough for the alerts it names in expected_alerts
   to actually reach the firing state" (scenarios.py): by its end they have
   been firing, whether the service was idle or busy before it.  There is one
   exception.  latency_spike halves the rate of the demo's steady traffic,
   and once that has filled more of the six-hour window than the run itself
   ever could, half an hour of slow requests need not be 6% of it.         *)
ExpectedAlertsFire ==
  t >= Duration =>
    \A r \in ExpectedAlerts[scenario] :
      r \in fired \/ (r = "LatencyBudgetBurnSlow" /\ BusierBefore)

(* And no other rule has been: the baseline is silent, errors are not slow,
   and of a traffic that vanishes "only TrafficDropped notices".           *)
NothingElseFires == t <= Duration => fired \subseteq ExpectedAlerts[scenario]

(* "The short 5m window makes the alert resolve quickly once the incident is
   over" (alerting.yml; "in about 5 minutes", runbooks.md): five minutes after
   the end of a faulty phase no page is firing, and half an hour after it no
   ticket, though their long windows are still full of the incident.       *)
BurnRulesClearQuickly ==
  \A r \in DOMAIN BurnRules : \A i \in DOMAIN Phases :
    Firing(r) /\ Phases[i].fault.kind = BurnRules[r].kind
      => t <= Start(i + 1) + (IF r \in Pages THEN Minutes(5) ELSE Minutes(30))

(* "With a 1h baseline the alert would resolve itself an hour after the
   outage started, exactly when someone finally looks at it" (alerting.yml):
   TrafficDropped stays until traffic is back, and here it never is.       *)
OutageIsNotForgotten ==
  [][Firing("TrafficDropped") => Firing("TrafficDropped")']_vars
=============================================================================
