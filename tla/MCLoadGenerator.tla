-------------------------- MODULE MCLoadGenerator --------------------------
(***************************************************************************)
(* Small instances of LoadGenerator for TLC: two phases at two rates, both *)
(* with a call at the target, the first long enough for a held-up          *)
(* dispatcher to owe four slots; and a scenario whose second phase has a   *)
(* fault.                                                                  *)
(***************************************************************************)
EXTENDS LoadGenerator

MCPhases == << [duration |-> 4, period |-> 1, fault |-> "errors"],
               [duration |-> 4, period |-> 2, fault |-> "clear"] >>

MCBoundary == << 4, 8 >>

MCTwoPhases == << [duration |-> 2, period |-> 1, fault |-> "none"],
                  [duration |-> 2, period |-> 2, fault |-> "latency"] >>

MCTwoPhasesBoundary == << 2, 4 >>
=============================================================================
