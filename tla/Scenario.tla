------------------------------ MODULE Scenario ------------------------------
(***************************************************************************)
(* The timeline of a load scenario: a sequence of phases, each with a      *)
(* duration, the time between two request slots (1/rps) and the fault to   *)
(* arm when it starts.  Times are whole ticks; a tick is as fine as the    *)
(* instance wants it.                                                      *)
(***************************************************************************)
EXTENDS Integers, Sequences

CONSTANTS
  Phases,    \* sequence of [duration, period, fault]
  Boundary   \* Boundary[i]: when phase i ends, counted from the start

NoFault == "none"
Faults  == {NoFault, "clear", "errors", "latency"}

(* Phase.__post_init__ and Scenario.__post_init__ refuse anything else.    *)
ASSUME PhasesAreValid ==
  /\ Phases # <<>>
  /\ Phases \in Seq([ duration : Nat \ {0}, period : Nat \ {0},
                      fault : Faults ])

(* phase_at adds the durations up on its way; here the sums are given and
   assumed to be just that.                                                *)
ASSUME BoundaryIsRunningSum ==
  /\ Boundary \in [1..Len(Phases) -> Nat]
  /\ \A i \in 1..Len(Phases) :
       Boundary[i] = Phases[i].duration + (IF i = 1 THEN 0 ELSE Boundary[i-1])

PhaseIds == 1..Len(Phases)
NoPhase  == 0

(* The first phase that ends after the given time, as the loop finds it.   *)
IsFirstAfter(i, elapsed) ==
  /\ elapsed < Boundary[i]
  /\ \A j \in PhaseIds : j < i => elapsed >= Boundary[j]

PhaseAt(elapsed) ==
  IF \E i \in PhaseIds : IsFirstAfter(i, elapsed)
    THEN CHOOSE i \in PhaseIds : IsFirstAfter(i, elapsed)
    ELSE NoPhase

HasFault(i) == Phases[i].fault # NoFault
=============================================================================
