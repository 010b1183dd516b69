-------------------------- MODULE ScenarioCatalogue --------------------------
(***************************************************************************)
(* The catalogue of load scenarios.  Durations and times to live are       *)
(* seconds, rates tenths of a request per second.  Of a fault, share is    *)
(* the part of the requests that it makes bad for its objective: 0.35 of   *)
(* them fail, and all of them are slower than 300 ms at 700 +/- 200 ms.    *)
(***************************************************************************)
EXTENDS Naturals, Sequences

NoFault == [kind |-> "none",  share |-> << 0, 1 >>, ttl |-> 0]
Clear   == [kind |-> "clear", share |-> << 0, 1 >>, ttl |-> 0]

(* Slip: a time to live of five minutes, whatever is asked for.            *)
ErrorsBrief(ttl) == [kind |-> "errors", share |-> << 7, 20 >>, ttl |-> 300]

Errors(ttl)  == [kind |-> "errors",  share |-> << 7, 20 >>, ttl |-> ttl]
Latency(ttl) == [kind |-> "latency", share |-> << 1, 1 >>,  ttl |-> ttl]

Phase(duration, rps, fault) ==
  [duration |-> duration, rps |-> rps, fault |-> fault]

BaselineSeconds == 300

SCENARIOS ==
  [ normal        |-> << Phase(1800, 200, NoFault) >>,
    error_burst   |-> << Phase(BaselineSeconds, 200, Clear),
                         Phase(1500, 200, Errors(1500)),
                         Phase(600, 200, Clear) >>,
    latency_spike |-> << Phase(BaselineSeconds, 100, Clear),
                         Phase(1800, 100, Latency(1800)),
                         Phase(600, 100, Clear) >>,
    traffic_drop  |-> << Phase(1200, 250, Clear), Phase(1800, 2, NoFault) >> ]

ExpectedAlerts ==
  [ normal        |-> {},
    error_burst   |-> { "ErrorBudgetBurnFast", "ErrorBudgetBurnSlow" },
    latency_spike |-> { "LatencyBudgetBurnFast", "LatencyBudgetBurnSlow" },
    traffic_drop  |-> { "TrafficDropped" } ]
=============================================================================
