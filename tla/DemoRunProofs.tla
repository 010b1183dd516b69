---------------------------- MODULE DemoRunProofs ----------------------------
(***************************************************************************)
(* The load generator with the target it breaks, proved with TLAPS for     *)
(* every scenario whose faults live as long as their phases: it is still   *)
(* the load generator, and the traffic of a phase meets the phase's fault. *)
(***************************************************************************)
EXTENDS DemoRun, LoadGeneratorProofs

-----------------------------------------------------------------------------
(* Whatever it does to the target, the generator goes its own way: what is
   proved of LoadGenerator holds of it.                                    *)
THEOREM IsALoadGenerator == DemoSpec => Spec
<1>1. DemoInit => Init  BY DEF DemoInit
<1>2. [DemoNext]_demoVars => [Next]_vars
  <2>1. SUFFICES ASSUME [DemoNext]_demoVars  PROVE [Next]_vars  OBVIOUS
  <2>2. CASE Time  BY <2>2 DEF Time, Next
  <2>3. CASE Dispatching  BY <2>3 DEF Dispatching, Arm, Next, Dispatch
  <2>4. CASE \E w \in Workers : Working(w)  BY <2>4 DEF Working, Next
  <2>5. CASE Stop  BY <2>5 DEF Next
  <2>6. CASE UNCHANGED demoVars  BY <2>6 DEF demoVars
  <2>7. QED  BY <2>1, <2>2, <2>3, <2>4, <2>5, <2>6 DEF DemoNext
<1>3. QED  BY <1>1, <1>2, PTL DEF DemoSpec, Spec

(* A run against a target hands its statistics over only when every slot is
   accounted for (run).                                                    *)
THEOREM NothingAbandonedInADemo == DemoSpec => []NothingAbandoned
BY IsALoadGenerator, NothingLeftBehind, PTL

-----------------------------------------------------------------------------
(* The faults are records with a time to live.                             *)
FaultsKnown ==
  /\ \E r : \E n \in Nat : errors = [ratio |-> r, left |-> n]
  /\ \E d, j : \E n \in Nat : latency = [delay |-> d, jitter |-> j, left |-> n]

(* The fault of the phase armed last has time enough left to be in force up
   to the phase's end; and if that phase clears, there is none.            *)
Playing == InIteration \cup {"arm"}

LastArmed == armed[Len(armed)]

Lasts(kind, left) ==
  Phases[LastArmed].fault = kind => clock + left >= Boundary[LastArmed]

FaultsLast ==
  armed # <<>> /\ pc \in Playing =>
    /\ clock < MaxClock => /\ Lasts("errors", errors.left)
                          /\ Lasts("latency", latency.left)
    /\ Phases[LastArmed].fault = "clear" => Healthy

(* Time takes a tick from what is left, and gives nothing back.            *)
LEMMA ExpireStep ==
  ASSUME FaultsKnown, Expire
  PROVE  /\ FaultsKnown'
         /\ errors.left \in Nat /\ latency.left \in Nat
         /\ errors'.left = IF errors.left > 0 THEN errors.left - 1 ELSE 0
         /\ latency'.left = IF latency.left > 0 THEN latency.left - 1 ELSE 0
<1>1. PICK r : \E n \in Nat : errors = [ratio |-> r, left |-> n]
      BY DEF FaultsKnown
<1>2. PICK d, j : \E n \in Nat : latency = [delay |-> d, jitter |-> j, left |-> n]
      BY DEF FaultsKnown
<1>3. PICK n \in Nat : errors = [ratio |-> r, left |-> n]  BY <1>1
<1>4. PICK m \in Nat : latency = [delay |-> d, jitter |-> j, left |-> m]  BY <1>2
<1>5. errors' = [ratio |-> r, left |-> IF n > 0 THEN n - 1 ELSE 0]
      BY <1>3 DEF Expire
<1>6. latency' = [delay |-> d, jitter |-> j, left |-> IF m > 0 THEN m - 1 ELSE 0]
      BY <1>4 DEF Expire
<1>7. (IF n > 0 THEN n - 1 ELSE 0) \in Nat /\ (IF m > 0 THEN m - 1 ELSE 0) \in Nat
      OBVIOUS
<1>8. FaultsKnown'  BY <1>5, <1>6, <1>7 DEF FaultsKnown
<1>9. QED  BY <1>3, <1>4, <1>5, <1>6, <1>8

(* A fault of phase i lives as long as the phase.                          *)
LEMMA ApplyStep ==
  ASSUME NEW i \in PhaseIds, FaultsKnown, Apply(i)
  PROVE  /\ FaultsKnown'
         /\ Phases[i].fault = "errors"  => errors'.left = Phases[i].duration
         /\ Phases[i].fault = "latency" => latency'.left = Phases[i].duration
         /\ Phases[i].fault = "clear"   => Healthy'
<1>1. Phases[i].duration \in Nat  BY TimelineShape
<1>2. CASE Phases[i].fault = "clear" /\ Clear
      BY <1>2 DEF Clear, FaultsKnown, Healthy, NoErrors, NoLatency
<1>3. CASE Phases[i].fault = "errors" /\ InjectErrors("always", Ttl(i))
      BY <1>1, <1>3 DEF InjectErrors, FaultsKnown, Ttl
<1>4. CASE Phases[i].fault = "latency" /\ InjectLatency(TheLatency, Ttl(i))
      BY <1>1, <1>4 DEF InjectLatency, FaultsKnown, Ttl
<1>5. QED  BY <1>2, <1>3, <1>4 DEF Apply

(* The steps that neither touch the target nor let time pass.              *)
Elsewhere == /\ UNCHANGED << faults, clock, armed >>
             /\ pc' \in Playing => pc \in Playing

LEMMA DemoStepCases ==
  ASSUME [DemoNext]_demoVars
  PROVE  Time \/ Arm \/ Elsewhere
<1> USE DEF dispatcher, history, workers, Playing, InIteration
<1>1. (Stop /\ UNCHANGED faults) => Elsewhere  BY DEF Stop, Elsewhere
<1>2. (LeaveLoop /\ UNCHANGED faults) => Elsewhere  BY DEF LeaveLoop, Elsewhere
<1>3. (BeginSlot /\ UNCHANGED faults) => Elsewhere  BY DEF BeginSlot, Elsewhere
<1>4. (OfferSlot /\ UNCHANGED faults) => Elsewhere  BY DEF OfferSlot, Elsewhere
<1>5. (Pace /\ UNCHANGED faults) => Elsewhere  BY DEF Pace, Elsewhere
<1>6. (WakeUp /\ UNCHANGED faults) => Elsewhere  BY DEF WakeUp, Elsewhere
<1>7. (PutShutdown /\ UNCHANGED faults) => Elsewhere
      BY DEF PutShutdown, Elsewhere
<1>8. (AllShutdownsPut /\ UNCHANGED faults) => Elsewhere
      BY DEF AllShutdownsPut, Elsewhere
<1>9. (PoolExit /\ UNCHANGED faults) => Elsewhere  BY DEF PoolExit, Elsewhere
<1>10. ASSUME NEW w \in Workers, Working(w)  PROVE Elsewhere
       BY <1>10 DEF Working, Work, Get, Answered, Crashed, Elsewhere
<1>11. UNCHANGED demoVars => Elsewhere  BY DEF demoVars, vars, Elsewhere
<1>12. QED
       BY <1>1, <1>2, <1>3, <1>4, <1>5, <1>6, <1>7, <1>8, <1>9, <1>10, <1>11
       DEF DemoNext, Dispatching

LEMMA FaultsInductive == DemoSpec => [](FaultsKnown /\ FaultsLast)
<1>1. DemoInit => FaultsKnown /\ FaultsLast
  <2>1. SUFFICES ASSUME DemoInit PROVE FaultsKnown /\ FaultsLast  OBVIOUS
  <2>2. errors \in [ ratio : {"never"} \cup Ratios, left : Nat ]
        BY <2>1, DemoAssumption DEF DemoInit
  <2>3. FaultsKnown  BY <2>1, <2>2 DEF DemoInit, FaultsKnown, NoLatency
  <2>4. QED  BY <2>1, <2>3 DEF DemoInit, Init, FaultsLast
<1>2. /\ TypeOK /\ PhaseKnown /\ ArmingInv /\ FaultsKnown /\ FaultsLast
      /\ [DemoNext]_demoVars
      => FaultsKnown' /\ FaultsLast'
  <2>1. SUFFICES ASSUME TypeOK, PhaseKnown, ArmingInv, FaultsKnown, FaultsLast,
                        [DemoNext]_demoVars
                 PROVE  FaultsKnown' /\ FaultsLast'
        OBVIOUS
  <2>2. clock \in Nat /\ now \in Nat /\ now <= clock /\ armed \in Seq(PhaseIds)
        BY <2>1 DEF TypeOK, ArmingInv
  <2>3. armed # <<>> => LastArmed \in PhaseIds /\ Boundary[LastArmed] \in Nat
        BY <2>2, PhasesType DEF LastArmed
  <2>4. MaxClock \in Nat  BY WorkersAssumption
  <2>5. CASE Tick /\ Expire
    <3>1. clock' = clock + 1 /\ UNCHANGED << armed, pc >>
          BY <2>5 DEF Tick, dispatcher, history
    <3>2. LastArmed' = LastArmed  BY <3>1 DEF LastArmed
    <3>3. /\ FaultsKnown' /\ errors.left \in Nat /\ latency.left \in Nat
          /\ errors'.left = IF errors.left > 0 THEN errors.left - 1 ELSE 0
          /\ latency'.left = IF latency.left > 0 THEN latency.left - 1 ELSE 0
          BY <2>1, <2>5, ExpireStep
    <3>4. ASSUME armed # <<>>, clock' < MaxClock, pc \in Playing
          PROVE  /\ Lasts("errors", errors.left)'
                 /\ Lasts("latency", latency.left)'
      <4>1. clock < MaxClock  BY <2>2, <2>4, <3>1, <3>4
      <4>2. Lasts("errors", errors.left) /\ Lasts("latency", latency.left)
            BY <2>1, <3>4, <4>1 DEF FaultsLast
      <4> DEFINE b == Boundary[LastArmed]
      <4>3. b \in Nat  BY <2>3, <3>4
      <4>4. \A l, m \in Nat : m = (IF l > 0 THEN l - 1 ELSE 0) /\ clock + l >= b
                              => clock' + m >= b
            BY <2>2, <3>1, <4>3
      <4>5. errors'.left \in Nat /\ latency'.left \in Nat  BY <3>3
      <4> HIDE DEF b
      <4>6. QED  BY <3>1, <3>2, <3>3, <4>2, <4>4, <4>5 DEF Lasts, b
    <3>5. Healthy => Healthy'  BY <3>3 DEF Healthy
    <3>6. QED  BY <2>1, <3>1, <3>2, <3>3, <3>4, <3>5 DEF FaultsLast
  <2>6. CASE (pc \in Ended \/ clock = MaxClock) /\ Expire /\ UNCHANGED vars
    <3>1. UNCHANGED << armed, pc, clock >>
          BY <2>6 DEF vars, dispatcher, history
    <3>2. LastArmed' = LastArmed  BY <3>1 DEF LastArmed
    <3>3. /\ FaultsKnown'
          /\ Healthy => Healthy'
          BY <2>1, <2>6, ExpireStep DEF Healthy
    <3>4. ~(pc' \in Playing /\ clock' < MaxClock)
          BY <2>2, <2>4, <2>6, <3>1 DEF Playing, InIteration, Ended
    <3>5. QED  BY <2>1, <3>1, <3>2, <3>3, <3>4 DEF FaultsLast
  <2>7. CASE ArmAccepted /\ Apply(phase)
    <3>1. /\ pc = "arm" /\ armed' = Append(armed, phase) /\ clock' = clock
          /\ phase \in PhaseIds
          BY <2>1, <2>7 DEF ArmAccepted, PhaseKnown
    <3>2. LastArmed' = phase  BY <2>2, <3>1 DEF LastArmed
    <3>3. /\ FaultsKnown'
          /\ Phases[phase].fault = "errors"  => errors'.left = Phases[phase].duration
          /\ Phases[phase].fault = "latency" => latency'.left = Phases[phase].duration
          /\ Phases[phase].fault = "clear"   => Healthy'
          BY <2>1, <2>7, <3>1, ApplyStep
    <3>4. clock + Phases[phase].duration >= Boundary[phase]
      <4>1. IsFirstAfter(phase, now)
            BY <2>1, <3>1, PhasesType, PhaseAtIsFirst DEF ArmingInv
      <4>2. Phases[phase].duration \in Nat  BY <3>1, TimelineShape
      <4>3. CASE phase = 1  BY <2>2, <4>2, <4>3, TimelineShape
      <4>4. CASE phase # 1
        <5> DEFINE q == phase - 1
        <5>1. q \in PhaseIds /\ q + 1 = phase /\ q < phase
              BY <3>1, <4>4, PhasesType DEF PhaseIds
        <5> HIDE DEF q
        <5>2. Boundary[phase] = Phases[phase].duration + Boundary[q]
              BY <3>1, <5>1, TimelineShape
        <5>3. now >= Boundary[q] /\ Boundary[q] \in Nat
              BY <4>1, <5>1, PhasesType DEF IsFirstAfter
        <5>4. QED  BY <2>2, <4>2, <5>2, <5>3
      <4>5. QED  BY <4>3, <4>4
    <3>5. QED  BY <3>1, <3>2, <3>3, <3>4 DEF FaultsLast, Lasts
  <2>8. CASE ArmRefused /\ (Apply(phase) \/ UNCHANGED faults)
    <3>1. pc = "arm" /\ pc' = "join"  BY <2>8 DEF ArmRefused
    <3>2. FaultsKnown'
      <4>1. phase \in PhaseIds  BY <2>1, <3>1 DEF PhaseKnown
      <4>2. QED  BY <2>1, <2>8, <4>1, ApplyStep DEF FaultsKnown, faults
    <3>3. QED  BY <3>1, <3>2 DEF FaultsLast, Playing, InIteration
  <2>9. CASE Elsewhere
    <3>1. /\ UNCHANGED << errors, latency, clock, armed >>
          /\ pc' \in Playing => pc \in Playing
          BY <2>9 DEF Elsewhere, faults
    <3>2. QED
          BY <2>1, <3>1 DEF FaultsKnown, FaultsLast, Lasts, LastArmed, Healthy
  <2>10. QED
         BY <2>1, <2>5, <2>6, <2>7, <2>8, <2>9, DemoStepCases DEF Time, Arm
<1>3. QED
  BY <1>1, <1>2, IsALoadGenerator, TypeInductive, ArmingInductive, PTL
  DEF DemoSpec

(* However late a fault is armed, whatever an earlier run left behind and
   whenever the answer of the target is lost: a slot of a phase meets the
   phase's fault, for every scenario whose times to live are its durations
   (SCENARIOS, arm, FaultInjector).                                        *)
THEOREM TrafficMeetsFault == DemoSpec => []TrafficMeetsItsFault
<1>1. /\ TypeOK /\ PhaseKnown /\ FaultPrecedesTraffic /\ FaultsKnown /\ FaultsLast
      => TrafficMeetsItsFault
  <2>1. SUFFICES ASSUME TypeOK, PhaseKnown, FaultPrecedesTraffic, FaultsKnown,
                        FaultsLast, pc = "offer", phase = PhaseAt(clock)
                 PROVE  InForce(Phases[phase].fault)
        BY DEF TrafficMeetsItsFault
  <2>2. phase \in PhaseIds /\ phase # NoPhase /\ clock \in Nat
        BY <2>1, PhasesType DEF PhaseKnown, TypeOK
  <2>3. /\ clock < Boundary[phase] /\ Boundary[phase] \in Nat
        /\ Boundary[phase] <= MaxClock /\ MaxClock \in Nat
        BY <2>1, <2>2, PhaseAtIsFirst, PhasesType, DemoAssumption,
           WorkersAssumption
        DEF IsFirstAfter
  <2>4. clock < MaxClock  BY <2>2, <2>3
  <2>5. CASE ~HasFault(phase)
        BY <2>5 DEF HasFault, NoFault, InForce
  <2>6. CASE HasFault(phase)
    <3>1. armed # <<>> /\ LastArmed = phase
          BY <2>1, <2>6 DEF FaultPrecedesTraffic, LastArmed
    <3>2. /\ Phases[phase].fault = "errors"  => clock + errors.left >= Boundary[phase]
          /\ Phases[phase].fault = "latency" => clock + latency.left >= Boundary[phase]
          /\ Phases[phase].fault = "clear" => Healthy
          BY <2>1, <2>4, <3>1 DEF FaultsLast, Playing, InIteration, Lasts
    <3>3. errors.left \in Nat /\ latency.left \in Nat
          BY <2>1 DEF FaultsKnown
    <3>4. \A n \in Nat : clock + n >= Boundary[phase] => n > 0
          BY <2>2, <2>3
    <3>5. QED  BY <3>2, <3>3, <3>4 DEF InForce
  <2>7. QED  BY <2>5, <2>6
<1>2. QED
  BY <1>1, IsALoadGenerator, TypeInductive, FaultBeforeTraffic,
     FaultsInductive, PTL
=============================================================================
