------------------------------- MODULE DemoRun -------------------------------
(***************************************************************************)
(* A run of the load generator against the sample application: arming a    *)
(* phase puts its fault into the target's FaultInjector, whose times to    *)
(* live run out while the generator goes its way, stops, or has stopped.   *)
(***************************************************************************)
EXTENDS LoadGenerator, FaultInjector

CONSTANT Leftovers   \* error faults an earlier run may have left behind

(* The bound on the clock does not cut the scenario short.                 *)
ASSUME DemoAssumption ==
  /\ Leftovers \subseteq [ ratio : {"never"} \cup Ratios, left : Nat ]
  /\ \A i \in PhaseIds : Boundary[i] <= MaxClock

demoVars == << vars, faults >>

(* A scenario has one kind of each fault; its payload is a constant.       *)
TheLatency == CHOOSE f \in LatencyFaults : TRUE

-----------------------------------------------------------------------------
(* Slips: the definition of the same name without the suffix, as a plausible
   edit of the scenarios would have it.                                    *)

(* ttl_seconds a little less than duration_seconds.                        *)
TtlShort(i) == Phases[i].duration - 1

-----------------------------------------------------------------------------
(* ttl_seconds of a phase's fault: its duration_seconds, in every scenario. *)
Ttl(i) == Phases[i].duration

(* What the request of arm() does at the target.                           *)
Apply(i) == \/ Phases[i].fault = "clear"   /\ Clear
            \/ Phases[i].fault = "errors"  /\ InjectErrors("always", Ttl(i))
            \/ Phases[i].fault = "latency" /\ InjectLatency(TheLatency, Ttl(i))

DemoInit == Init /\ latency = NoLatency /\ errors \in Leftovers

(* A call that fails may have been carried out: the target's answer was lost
   or came after the timeout.                                              *)
Arm == \/ ArmAccepted /\ Apply(phase)
       \/ ArmRefused  /\ (Apply(phase) \/ UNCHANGED faults)

(* The target's clock goes on when the run is over, or the bound reached.  *)
Time == \/ Tick /\ Expire
        \/ (pc \in Ended \/ clock = MaxClock) /\ Expire /\ UNCHANGED vars

(* The dispatcher's steps, of which only arming reaches the target.        *)
Dispatching ==
  \/ Arm
  \/ /\ \/ LeaveLoop \/ BeginSlot \/ OfferSlot \/ Pace \/ WakeUp
        \/ PutShutdown \/ AllShutdownsPut \/ PoolExit
     /\ UNCHANGED faults

Working(w) == Work(w) /\ UNCHANGED faults

DemoNext == \/ Time \/ Dispatching
            \/ \E w \in Workers : Working(w)
            \/ Stop /\ UNCHANGED faults

DemoSpec == DemoInit /\ [][DemoNext]_demoVars

(* As in LoadGenerator: the threads are scheduled, calls end, time passes.  *)
DemoFairSpec == /\ DemoSpec
                /\ WF_demoVars(Time)
                /\ WF_demoVars(Dispatching)
                /\ \A w \in Workers : WF_demoVars(Working(w))

-----------------------------------------------------------------------------
InForce(fault) == CASE fault = "clear"   -> Healthy
                    [] fault = "errors"  -> errors.left > 0
                    [] fault = "latency" -> latency.left > 0
                    [] OTHER             -> TRUE

(* The traffic of a phase meets the phase's fault and, in a phase that clears,
   none: a fault armed late, left over from another run, or about to run out
   never makes a slot of one phase look like another's.                    *)
TrafficMeetsItsFault ==
  pc = "offer" /\ phase = PhaseAt(clock) => InForce(Phases[phase].fault)

(* "Every fault carries a TTL: a demo that leaves the service broken because
   someone forgot to run the cleanup command is worse than no demo"
   (faults.py): however a run ends (played to the end, stopped in the middle
   of a fault, hung because arming failed), the target heals by itself.    *)
TargetHeals == <>[]Healthy
=============================================================================
