----------------------------- MODULE MCSampleApp -----------------------------
(***************************************************************************)
(* Small instances of SampleApp for TLC: two requests at a time, a latency *)
(* fault with jitter that straddles the objective, a short time to live.   *)
(***************************************************************************)
EXTENDS SampleApp, TLC

CONSTANTS r1, r2

MCRequests == {r1, r2}

MCLatencyFaults == { [delay |-> 2, jitter |-> 1] }

MCRatios == { "sometimes", "always" }

MCSymmetry == Permutations(MCRequests)
=============================================================================
