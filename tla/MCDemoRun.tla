------------------------------ MODULE MCDemoRun ------------------------------
(***************************************************************************)
(* A run of both bursts, the one after the other, with two workers, after  *)
(* a run that left an error fault behind or none.                          *)
(***************************************************************************)
EXTENDS DemoRun

MCBurst == << [duration |-> 1, period |-> 1, fault |-> "clear"],
              [duration |-> 2, period |-> 1, fault |-> "errors"],
              [duration |-> 1, period |-> 1, fault |-> "clear"],
              [duration |-> 1, period |-> 1, fault |-> "latency"] >>

MCBurstBoundary == << 1, 3, 4, 5 >>

MCLatency == { [delay |-> 2, jitter |-> 1] }

MCLeftovers == { NoErrors, [ratio |-> "always", left |-> 2] }
=============================================================================
