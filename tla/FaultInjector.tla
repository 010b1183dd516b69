---------------------------- MODULE FaultInjector ----------------------------
(***************************************************************************)
(* The faults the sample application can be told to have: added latency    *)
(* and 5xx answers, each with a time to live.  Every caller runs on the    *)
(* one event loop of the process and none awaits inside a call, so a call  *)
(* is one step and the injector's lock is never waited for.                *)
(*                                                                         *)
(* A fault keeps the ticks it has left; the code keeps expires_at and asks *)
(* whether it is still ahead of the clock.                                 *)
(***************************************************************************)
EXTENDS Integers

CONSTANTS
  LatencyFaults,  \* the [delay, jitter] that may be injected, in ticks
  Ratios,         \* the error ratios: "never" 0, "always" 1, "sometimes" between
  Ttls            \* the times to live, in ticks

(* What inject_latency and inject_errors do not refuse.                    *)
ASSUME FaultsAreValid ==
  /\ LatencyFaults \subseteq [delay : Nat, jitter : Nat]
  /\ \A f \in LatencyFaults : f.jitter <= f.delay
  /\ Ratios \subseteq { "never", "sometimes", "always" }
  /\ Ttls \subseteq Nat \ {0}

VARIABLES
  latency,   \* FaultInjector._latency: [delay, jitter, left]
  errors     \* FaultInjector._errors: [ratio, left]

faults == << latency, errors >>

NoLatency == [delay |-> 0, jitter |-> 0, left |-> 0]
NoErrors  == [ratio |-> "never", left |-> 0]

-----------------------------------------------------------------------------
(* Slips: the definition of the same name without the suffix, as a plausible
   edit of the code would have it.                                         *)

(* clear() that forgets the second fault.                                  *)
ClearLatencyOnly == latency' = NoLatency /\ UNCHANGED errors

(* state() that does not look at the expiry of the error fault.            *)
ExpireLatencyOnly ==
  /\ latency' = [latency EXCEPT !.left = IF @ > 0 THEN @ - 1 ELSE 0]
  /\ UNCHANGED errors

-----------------------------------------------------------------------------
InitFaults == latency = NoLatency /\ errors = NoErrors

(* A new fault replaces the one of its kind, whatever it had left.         *)
InjectLatency(f, ttl) ==
  /\ latency' = [delay |-> f.delay, jitter |-> f.jitter, left |-> ttl]
  /\ UNCHANGED errors

InjectErrors(ratio, ttl) ==
  /\ errors' = [ratio |-> ratio, left |-> ttl]
  /\ UNCHANGED latency

Clear == latency' = NoLatency /\ errors' = NoErrors

(* A tick passes; a fault with nothing left is as good as none (state).    *)
Expire ==
  /\ latency' = [latency EXCEPT !.left = IF @ > 0 THEN @ - 1 ELSE 0]
  /\ errors'  = [errors EXCEPT !.left = IF @ > 0 THEN @ - 1 ELSE 0]

(* next_delay_seconds: what it may return now.                             *)
Delays == IF latency.left = 0 THEN {0}
          ELSE (latency.delay - latency.jitter) .. (latency.delay + latency.jitter)

(* next_error_status: whether it may return a status, now.                 *)
Draws == IF errors.left = 0 \/ errors.ratio = "never" THEN {FALSE}
         ELSE IF errors.ratio = "always" THEN {TRUE} ELSE {FALSE, TRUE}

Healthy == latency.left = 0 /\ errors.left = 0
=============================================================================
