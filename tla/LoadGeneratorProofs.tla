------------------------- MODULE LoadGeneratorProofs -------------------------
(***************************************************************************)
(* What LoadGenerator.run does for every scenario, every number of workers *)
(* and every delay, proved with TLAPS: the type invariant, the arming of   *)
(* the faults, the pacing of the request slots, and the end of the run.    *)
(***************************************************************************)
EXTENDS LoadGenerator, FiniteSetTheorems, TLAPS

-----------------------------------------------------------------------------
(* The scenario's timeline.                                                *)
LEMMA PhasesType ==
  /\ Len(Phases) \in Nat \ {0}
  /\ \A i \in PhaseIds : Phases[i].period \in Nat \ {0}
  /\ \A i \in PhaseIds : Boundary[i] \in Nat
  /\ NoPhase \notin PhaseIds
<1> DEFINE APhase == [ duration : Nat \ {0}, period : Nat \ {0}, fault : Faults ]
<1>1. Phases \in Seq(APhase) /\ Phases # <<>>
      BY PhasesAreValid
<1>2. \A q \in APhase : q.period \in Nat \ {0}
      OBVIOUS
<1> HIDE DEF APhase
<1>3. Len(Phases) \in Nat \ {0} /\ \A i \in 1..Len(Phases) : Phases[i] \in APhase
      BY <1>1
<1>4. Boundary \in [PhaseIds -> Nat]  BY BoundaryIsRunningSum DEF PhaseIds
<1>5. QED  BY <1>2, <1>3, <1>4 DEF PhaseIds, NoPhase

LEMMA PhaseAtType ==
  \A e : PhaseAt(e) \in PhaseIds \cup {NoPhase}
BY DEF PhaseAt

LEMMA PhaseAtIsFirst ==
  \A e : PhaseAt(e) # NoPhase => IsFirstAfter(PhaseAt(e), e)
BY DEF PhaseAt

(* Time only moves a scenario forward.                                     *)
LEMMA PhaseAtMonotone ==
  ASSUME NEW d \in Nat, NEW e \in Nat, d <= e,
         PhaseAt(d) # NoPhase, PhaseAt(e) # NoPhase
  PROVE  PhaseAt(d) <= PhaseAt(e)
<1> DEFINE i == PhaseAt(d)
           j == PhaseAt(e)
<1>1. i \in PhaseIds /\ j \in PhaseIds /\ i \in Int /\ j \in Int
      BY PhaseAtType DEF PhaseIds
<1>2. IsFirstAfter(i, d) /\ IsFirstAfter(j, e)  BY PhaseAtIsFirst
<1> HIDE DEF i, j
<1>3. Boundary[j] \in Nat  BY <1>1, PhasesType
<1>4. j < i => d >= Boundary[j]  BY <1>1, <1>2 DEF IsFirstAfter
<1>5. e < Boundary[j]  BY <1>2 DEF IsFirstAfter
<1>6. i <= j  BY <1>1, <1>3, <1>4, <1>5
<1>7. QED  BY <1>6 DEF i, j

LEMMA CapacityType == Capacity \in Nat \ {0}
<1>1. NumWorkers \in Nat \ {0} /\ QueueSlack \in Nat \ {0}
      BY WorkersAssumption
<1>2. \A m, n \in Nat \ {0} : m * n \in Nat \ {0}  BY SMT
<1>3. QED  BY <1>1, <1>2 DEF Capacity

-----------------------------------------------------------------------------
(* While the dispatcher is inside an iteration it knows the phase.  TypeOK
   is inductive only together with this.                                   *)
PhaseKnown == pc \in {"arm", "offer", "pace"} => phase \in PhaseIds

LEMMA TypeInductive == Spec => [](TypeOK /\ PhaseKnown)
<1> USE DEF dispatcher, history, workers
<1>1. Init => TypeOK /\ PhaseKnown
  <2>1. SUFFICES ASSUME Init  PROVE TypeOK /\ PhaseKnown
        OBVIOUS
  <2>2. /\ queue = <<>> /\ armed = <<>> /\ opens = <<>>
        /\ worker = [w \in Workers |-> "get"]
        BY <2>1 DEF Init
  <2>3. /\ queue \in Seq({"slot", "shutdown"}) /\ Len(queue) <= Capacity
        /\ armed \in Seq(PhaseIds)
        /\ opens \in Seq(Nat) /\ Len(opens) <= 3
        /\ worker \in [Workers -> {"get", "send", "exited"}]
        BY <2>2, CapacityType
  <2>4. shutdowns \in 0..NumWorkers  BY <2>1, WorkersAssumption DEF Init
  <2>5. QED  BY <2>1, <2>3, <2>4 DEF Init, TypeOK, PhaseKnown
<1>2. TypeOK /\ PhaseKnown /\ [Next]_vars => TypeOK' /\ PhaseKnown'
  <2>1. SUFFICES ASSUME TypeOK, PhaseKnown, [Next]_vars
                 PROVE  TypeOK' /\ PhaseKnown'
        OBVIOUS
  <2> DEFINE Good == TypeOK' /\ PhaseKnown'
  <2>2. ASSUME Tick  PROVE Good
    <3>1. clock' \in Nat
      <4>1. clock \in Nat /\ clock' = clock + 1  BY <2>1, <2>2 DEF TypeOK, Tick
      <4>2. QED  BY <4>1
    <3>2. QED  BY <2>1, <2>2, <3>1 DEF TypeOK, PhaseKnown, Tick
  <2>3. ASSUME Stop  PROVE Good
        BY <2>1, <2>3 DEF TypeOK, PhaseKnown, Stop
  <2>4. ASSUME LeaveLoop  PROVE Good
        BY <2>1, <2>4 DEF TypeOK, PhaseKnown, LeaveLoop, Late, StopSeen
  <2>5. ASSUME BeginSlot  PROVE Good
        BY <2>1, <2>5, PhaseAtType DEF TypeOK, PhaseKnown, BeginSlot, Late,
                                       StopSeen, Arms
  <2>6. ASSUME ArmAccepted  PROVE Good
    <3>1. armed' = Append(armed, phase) /\ pc = "arm"  BY <2>6 DEF ArmAccepted
    <3>2. armed \in Seq(PhaseIds) /\ phase \in PhaseIds
          BY <2>1, <3>1 DEF TypeOK, PhaseKnown
    <3>3. armed' \in Seq(PhaseIds)  BY <3>1, <3>2
    <3>4. QED  BY <2>1, <2>6, <3>2, <3>3 DEF TypeOK, PhaseKnown, ArmAccepted
  <2>7. ASSUME ArmRefused  PROVE Good
        BY <2>1, <2>7 DEF TypeOK, PhaseKnown, ArmRefused
  <2>8. ASSUME OfferSlot  PROVE Good
    <3>1. /\ pc = "offer" /\ pc' = "pace" /\ opened' = opened + 1
          /\ afterStop' = IF stop THEN afterStop + 1 ELSE afterStop
          /\ opens' = IF Len(opens) < 3 THEN Append(opens, clock)
                                        ELSE << opens[2], opens[3], clock >>
          /\ IF Len(queue) < Capacity
               THEN queue' = Append(queue, "slot") /\ dropped' = dropped
               ELSE dropped' = dropped + 1 /\ queue' = queue
          BY <2>8 DEF OfferSlot, RoomLeft
    <3>2. UNCHANGED << clock, stop, now, phase, current, nextSlot, shutdowns,
                       failed, worker, sent, crashed, armed, due, slipped >>
          BY <2>8 DEF OfferSlot, RoomLeft
    <3>3. /\ clock \in Nat /\ opened \in Nat /\ afterStop \in Nat
          /\ dropped \in Nat
          /\ opens \in Seq(Nat) /\ Len(opens) <= 3
          /\ queue \in Seq({"slot", "shutdown"}) /\ Len(queue) <= Capacity
          BY <2>1 DEF TypeOK
    <3>4. queue' \in Seq({"slot", "shutdown"}) /\ Len(queue') <= Capacity
      <4>1. CASE Len(queue) < Capacity
        <5>1. queue' = Append(queue, "slot")  BY <3>1, <4>1
        <5>2. QED  BY <3>3, <4>1, <5>1, CapacityType
      <4>2. CASE ~(Len(queue) < Capacity)  BY <3>1, <3>3, <4>2
      <4>3. QED  BY <4>1, <4>2
    <3>5. opens' \in Seq(Nat) /\ Len(opens') <= 3
      <4>1. CASE Len(opens) < 3  BY <3>1, <3>3, <4>1
      <4>2. CASE Len(opens) = 3
        <5>1. opens' = << opens[2], opens[3], clock >>  BY <3>1, <4>2
        <5>2. opens[2] \in Nat /\ opens[3] \in Nat
          <6>1. opens \in Seq(Nat)  BY <3>3
          <6>2. \A k \in 1..Len(opens) : opens[k] \in Nat  BY <6>1
          <6>3. QED  BY <4>2, <6>2
        <5>3. QED  BY <3>3, <5>1, <5>2
      <4>3. Len(opens) \in Nat /\ Len(opens) <= 3  BY <3>3
      <4>4. \A n \in Nat : n <= 3 => n < 3 \/ n = 3  OBVIOUS
      <4>5. Len(opens) < 3 \/ Len(opens) = 3
        <5> HIDE <2>1
        <5>1. QED  BY <4>3, <4>4
      <4>6. QED  BY <4>1, <4>2, <4>5
    <3>6. opened' \in Nat /\ dropped' \in Nat /\ afterStop' \in Nat
          BY <3>1, <3>3
    <3>7. QED
          BY <2>1, <3>1, <3>2, <3>4, <3>5, <3>6 DEF TypeOK, PhaseKnown
  <2>9. ASSUME Pace  PROVE Good
    <3>1. /\ pc = "pace" /\ pc' \in {"sleep", "loop"}
          /\ nextSlot' = Max2(nextSlot + Phases[phase].period, now)
          /\ due' = due + Phases[phase].period
          /\ UNCHANGED << clock, stop, now, phase, current, shutdowns, failed,
                          queue, worker, sent, crashed, dropped, opened, armed,
                          slipped, opens, afterStop >>
          BY <2>9 DEF Pace, NextSlot, MustSleep
    <3>2. Phases[phase].period \in Nat
          BY <2>1, <3>1, PhasesType DEF PhaseKnown
    <3>3. nextSlot \in Nat /\ now \in Nat /\ due \in Nat  BY <2>1 DEF TypeOK
    <3>4. nextSlot' \in Nat /\ due' \in Nat
          BY <3>1, <3>2, <3>3 DEF Max2
    <3>5. QED  BY <2>1, <3>1, <3>4 DEF TypeOK, PhaseKnown
  <2>10. ASSUME WakeUp  PROVE Good
        BY <2>1, <2>10 DEF TypeOK, PhaseKnown, WakeUp
  <2>11. ASSUME PutShutdown  PROVE Good
    <3>1. /\ pc = "drain" /\ pc' = pc /\ phase' = phase
          /\ shutdowns < NumWorkers /\ shutdowns' = shutdowns + 1
          /\ Len(queue) < Capacity /\ queue' = Append(queue, "shutdown")
          BY <2>11 DEF PutShutdown, PutSentinel, RoomLeft
    <3>2. shutdowns \in 0..NumWorkers /\ queue \in Seq({"slot", "shutdown"})
          BY <2>1 DEF TypeOK
    <3>3. shutdowns' \in 0..NumWorkers  BY <3>1, <3>2, WorkersAssumption
    <3>4. queue' \in Seq({"slot", "shutdown"}) /\ Len(queue') <= Capacity
          BY <3>1, <3>2, CapacityType
    <3>5. UNCHANGED << clock, stop, now, current, nextSlot, failed, worker,
                       sent, crashed, dropped, opened, armed, due, slipped,
                       opens, afterStop >>
          BY <2>11 DEF PutShutdown, PutSentinel, RoomLeft
    <3>6. QED  BY <2>1, <3>1, <3>3, <3>4, <3>5 DEF TypeOK, PhaseKnown
  <2>12. ASSUME AllShutdownsPut  PROVE Good
        BY <2>1, <2>12 DEF TypeOK, PhaseKnown, AllShutdownsPut
  <2>13. ASSUME PoolExit  PROVE Good
        BY <2>1, <2>13 DEF TypeOK, PhaseKnown, PoolExit, Ended, PoolIsOver
  <2>14. ASSUME NEW w \in Workers, Get(w)  PROVE Good
    <3>1. queue # <<>> /\ queue' = Tail(queue)  BY <2>14 DEF Get
    <3>2. queue \in Seq({"slot", "shutdown"}) /\ Len(queue) <= Capacity
          BY <2>1 DEF TypeOK
    <3>3. queue' \in Seq({"slot", "shutdown"}) /\ Len(queue') <= Capacity
          BY <3>1, <3>2, CapacityType
    <3>4. worker' \in [Workers -> {"get", "send", "exited"}]
          BY <2>1, <2>14 DEF TypeOK, Get
    <3>5. UNCHANGED << clock, stop, pc, now, phase, current, nextSlot,
                       shutdowns, failed, sent, crashed, dropped, opened,
                       armed, due, slipped, opens, afterStop >>
          BY <2>14 DEF Get
    <3>6. QED  BY <2>1, <3>3, <3>4, <3>5 DEF TypeOK, PhaseKnown
  <2>15. ASSUME NEW w \in Workers, Answered(w)  PROVE Good
        BY <2>1, <2>15 DEF TypeOK, PhaseKnown, Answered
  <2>16. ASSUME NEW w \in Workers, Crashed(w)  PROVE Good
        BY <2>1, <2>16 DEF TypeOK, PhaseKnown, Crashed
  <2>17. CASE UNCHANGED vars  BY <2>1, <2>17 DEF TypeOK, PhaseKnown, vars
  <2>18. QED
        BY <2>1, <2>2, <2>3, <2>4, <2>5, <2>6, <2>7, <2>8, <2>9, <2>10,
           <2>11, <2>12, <2>13, <2>14, <2>15, <2>16, <2>17
        DEF Next, Dispatch, Work, Over
<1>3. QED  BY <1>1, <1>2, PTL DEF Spec

(* Every variable stays in its type, and the slot queue never outgrows
   maxsize, however slow the workers and however many they are (run).      *)
THEOREM TypeCorrect == Spec => []TypeOK
BY TypeInductive, PTL

-----------------------------------------------------------------------------
(* The steps that have no part in arming and pacing: those of the workers
   and the signal handler, and the dispatcher's once it has left its loop.  *)
Aside ==
  /\ UNCHANGED << clock, now, phase, current, nextSlot, armed, due, opens,
                  afterStop >>
  /\ pc' = pc \/ pc' \in {"drain", "join"} \cup Ended
  /\ slipped => slipped'
  /\ stop => stop'

LEMMA StepCases ==
  ASSUME TypeOK, [Next]_vars
  PROVE  \/ Tick \/ BeginSlot \/ ArmAccepted \/ OfferSlot \/ Pace \/ WakeUp
         \/ Aside
<1> USE DEF dispatcher, history, workers
<1>1. Stop => Aside  BY DEF Stop, Aside
<1>2. LeaveLoop => Aside  BY DEF TypeOK, LeaveLoop, Aside, StopSeen
<1>3. ArmRefused => Aside  BY DEF ArmRefused, Aside
<1>4. PutShutdown => Aside  BY DEF PutShutdown, Aside, PutSentinel, RoomLeft
<1>5. AllShutdownsPut => Aside  BY DEF AllShutdownsPut, Aside
<1>6. PoolExit => Aside  BY DEF PoolExit, Aside, Ended, PoolIsOver
<1>7. ASSUME NEW w \in Workers, Work(w)  PROVE Aside
      BY <1>7 DEF Work, Get, Answered, Crashed, Aside
<1>8. UNCHANGED vars => Aside  BY DEF vars, Aside
<1>9. QED
      BY <1>1, <1>2, <1>3, <1>4, <1>5, <1>6, <1>7, <1>8
      DEF Next, Dispatch, Over

-----------------------------------------------------------------------------
(* Arming.  Outside "arm" the phase of the iteration is the one dealt with,
   and what was armed so far belongs to phases up to it.                   *)
InIteration == {"loop", "offer", "pace", "sleep"}

ArmingInv ==
  /\ now <= clock
  /\ phase # NoPhase => phase = PhaseAt(now)
  /\ pc \in InIteration => current = phase
  /\ pc = "arm" => current < phase
  /\ \A i \in DOMAIN armed : armed[i] <= current
  /\ ArmedOnceInOrder
  /\ pc \in InIteration /\ phase # NoPhase /\ HasFault(phase)
       => armed # <<>> /\ armed[Len(armed)] = phase

LEMMA ArmingInductive == Spec => []ArmingInv
<1> USE DEF dispatcher, history, workers
<1>1. Init => ArmingInv
  BY DEF Init, ArmingInv, ArmedOnceInOrder, NoPhase
<1>2. TypeOK /\ PhaseKnown /\ ArmingInv /\ [Next]_vars => ArmingInv'
  <2>1. SUFFICES ASSUME TypeOK, PhaseKnown, ArmingInv, [Next]_vars
                 PROVE  ArmingInv'
        OBVIOUS
  <2>2. /\ now \in Nat /\ clock \in Nat /\ armed \in Seq(PhaseIds)
        /\ phase \in PhaseIds \cup {NoPhase}
        /\ current \in PhaseIds \cup {NoPhase}
        BY <2>1 DEF TypeOK
  <2>3. CASE Tick
    <3>1. clock' = clock + 1 /\ UNCHANGED << now, phase, pc, current, armed >>
          BY <2>3 DEF Tick
    <3>2. now' <= clock'  BY <2>1, <2>2, <3>1 DEF ArmingInv
    <3>3. QED  BY <2>1, <3>1, <3>2 DEF ArmingInv, ArmedOnceInOrder
  <2>4. CASE BeginSlot
    <3>1. /\ pc = "loop" /\ now' = clock /\ clock' = clock /\ armed' = armed
          /\ phase' = PhaseAt(clock) /\ phase' # NoPhase
          BY <2>4 DEF BeginSlot, StopSeen, Arms
    <3>2. phase' \in PhaseIds  BY <3>1, PhaseAtType
    <3>3. current = phase  BY <2>1, <3>1 DEF ArmingInv, InIteration
    <3>4. current <= phase'
      <4>1. CASE phase = NoPhase
            BY <3>2, <3>3, <4>1 DEF NoPhase, PhaseIds
      <4>2. CASE phase # NoPhase
        <5>1. phase = PhaseAt(now) /\ now <= clock
              BY <2>1, <4>2 DEF ArmingInv
        <5>2. QED  BY <2>2, <3>1, <3>3, <4>2, <5>1, PhaseAtMonotone
      <4>3. QED  BY <4>1, <4>2
    <3>5. current \in Nat /\ phase' \in Nat
          BY <2>2, <3>2 DEF PhaseIds, NoPhase
    <3>6. now' <= clock'  BY <2>2, <3>1
    <3>7. CASE phase' # current /\ HasFault(phase')
      <4>1. pc' = "arm" /\ current' = current  BY <2>4, <3>7 DEF BeginSlot,
                                                                 StopSeen, Arms
      <4>2. current' < phase'  BY <3>4, <3>5, <3>7, <4>1
      <4>3. QED
            BY <2>1, <3>1, <3>6, <4>1, <4>2
            DEF ArmingInv, ArmedOnceInOrder, InIteration
    <3>8. CASE ~(phase' # current /\ HasFault(phase'))
      <4>1. pc' = "offer" /\ current' = phase'  BY <2>4, <3>8 DEF BeginSlot,
                                                                  StopSeen, Arms
      <4>2. \A i \in DOMAIN armed' : armed'[i] <= current'
        <5>1. TAKE i \in DOMAIN armed'
        <5>2. armed[i] <= current  BY <2>1, <3>1 DEF ArmingInv
        <5>3. armed[i] \in PhaseIds  BY <2>2, <3>1
        <5>4. armed[i] \in Nat  BY <5>3 DEF PhaseIds
        <5>5. QED  BY <3>1, <3>4, <3>5, <4>1, <5>2, <5>4
      <4>3. HasFault(phase') => armed' # <<>> /\ armed'[Len(armed')] = phase'
        <5>1. SUFFICES ASSUME HasFault(phase')
                       PROVE  armed' # <<>> /\ armed'[Len(armed')] = phase'
              OBVIOUS
        <5>2. phase' = phase /\ phase # NoPhase  BY <3>1, <3>3, <3>8, <5>1
        <5>3. HasFault(phase)  BY <5>1, <5>2
        <5>4. QED  BY <2>1, <3>1, <5>2, <5>3 DEF ArmingInv, InIteration
      <4>4. QED
            BY <2>1, <3>1, <3>6, <4>1, <4>2, <4>3
            DEF ArmingInv, ArmedOnceInOrder, InIteration, HasFault
    <3>9. QED  BY <3>7, <3>8
  <2>5. CASE ArmAccepted
    <3>1. /\ pc = "arm" /\ pc' = "offer" /\ current' = phase
          /\ armed' = Append(armed, phase)
          /\ UNCHANGED << clock, now, phase >>
          BY <2>5 DEF ArmAccepted
    <3>2. current < phase /\ phase \in PhaseIds
          BY <2>1, <3>1 DEF ArmingInv, PhaseKnown
    <3>3. current \in Nat /\ phase \in Nat
          BY <2>2, <3>2 DEF PhaseIds, NoPhase
    <3>4. \A i \in DOMAIN armed : armed[i] \in Nat /\ armed[i] < phase
      <4>1. TAKE i \in DOMAIN armed
      <4>2. armed[i] \in PhaseIds /\ armed[i] <= current
            BY <2>1, <2>2 DEF ArmingInv
      <4>3. armed[i] \in Nat  BY <4>2 DEF PhaseIds
      <4>4. QED  BY <3>2, <3>3, <4>2, <4>3
    <3>5. /\ armed' # <<>> /\ Len(armed') = Len(armed) + 1
          /\ armed'[Len(armed')] = phase
          /\ \A i \in 1..Len(armed) : armed'[i] = armed[i]
          /\ DOMAIN armed' = 1..(Len(armed) + 1) /\ DOMAIN armed = 1..Len(armed)
          /\ Len(armed) \in Nat
          BY <2>2, <3>1, <3>2
    <3>6. \A i \in DOMAIN armed' : armed'[i] <= current'
      <4>1. TAKE i \in DOMAIN armed'
      <4>2. CASE i = Len(armed) + 1  BY <3>1, <3>3, <3>5, <4>2
      <4>3. CASE i \in 1..Len(armed)
        <5>1. armed'[i] = armed[i]  BY <3>5, <4>3
        <5>2. armed[i] \in Nat /\ armed[i] < phase  BY <3>4, <3>5, <4>3
        <5>3. QED  BY <3>1, <3>3, <5>1, <5>2
      <4>4. QED  BY <3>5, <4>2, <4>3
    <3>7. ArmedOnceInOrder'
      <4>1. SUFFICES ASSUME NEW i \in DOMAIN armed', NEW j \in DOMAIN armed',
                            i < j
                     PROVE  armed'[i] < armed'[j]
            BY DEF ArmedOnceInOrder
      <4>2. i \in 1..Len(armed)  BY <3>5, <4>1
      <4>3. armed'[i] = armed[i] /\ armed[i] < phase  BY <3>4, <3>5, <4>2
      <4>4. CASE j = Len(armed) + 1  BY <3>5, <4>3, <4>4
      <4>5. CASE j \in 1..Len(armed)
        <5>1. armed'[j] = armed[j]  BY <3>5, <4>5
        <5>2. armed[i] < armed[j]
              BY <2>1, <3>5, <4>1, <4>2, <4>5 DEF ArmingInv, ArmedOnceInOrder
        <5>3. QED  BY <4>3, <5>1, <5>2
      <4>6. QED  BY <3>5, <4>4, <4>5
    <3>8. QED
          BY <2>1, <3>1, <3>5, <3>6, <3>7 DEF ArmingInv, InIteration
  <2>6. CASE OfferSlot \/ Pace \/ WakeUp
    <3>1. /\ UNCHANGED << now, clock, phase, current, armed >>
          /\ pc \in InIteration /\ pc' \in InIteration
          BY <2>6 DEF OfferSlot, Pace, WakeUp, InIteration,
                      RoomLeft, NextSlot, MustSleep
    <3>2. QED
          BY <2>1, <3>1 DEF ArmingInv, ArmedOnceInOrder, InIteration
  <2>7. CASE Aside
    <3>1. /\ UNCHANGED << now, clock, phase, current, armed >>
          /\ pc' = pc \/ pc' \in {"drain", "join", "returned", "raised"}
          BY <2>7 DEF Aside, Ended
    <3>2. QED
          BY <2>1, <3>1 DEF ArmingInv, ArmedOnceInOrder, InIteration
  <2>8. QED
        BY <2>1, <2>3, <2>4, <2>5, <2>6, <2>7, StepCases
<1>3. QED  BY <1>1, <1>2, TypeInductive, PTL DEF Spec

(* No phase arms its fault twice and none arms it out of turn, for every
   scenario and however the clock jumps between two looks at it (run).     *)
THEOREM ArmsOnceInOrder == Spec => []ArmedOnceInOrder
<1>1. ArmingInv => ArmedOnceInOrder  BY DEF ArmingInv
<1>2. QED  BY <1>1, ArmingInductive, PTL

(* The fault of a phase is in force before the phase's first request slot
   is opened, and no later phase's fault has replaced it (run, arm).       *)
THEOREM FaultBeforeTraffic == Spec => []FaultPrecedesTraffic
<1>1. PhaseKnown /\ ArmingInv => FaultPrecedesTraffic
  BY PhasesType DEF PhaseKnown, ArmingInv, InIteration, FaultPrecedesTraffic
<1>2. QED  BY <1>1, ArmingInductive, TypeInductive, PTL

-----------------------------------------------------------------------------
(* When slots are opened: never ahead of the schedule, never in bursts,    *)
(* without drift, and not after a stop.                                    *)
AboutToOffer == {"arm", "offer"}

(* The clock, the iteration's reading of it and the deadline of its slot.  *)
PacingInv ==
  /\ now <= clock
  /\ nextSlot >= due
  /\ pc \in AboutToOffer \cup {"pace"} => now >= nextSlot
  /\ pc = "loop" => clock >= nextSlot

LEMMA PaceStep ==
  ASSUME TypeOK, PhaseKnown, Pace
  PROVE  /\ phase \in PhaseIds
         /\ Phases[phase].period \in Nat \ {0}
         /\ nextSlot \in Nat /\ now \in Nat /\ due \in Nat /\ clock \in Nat
         /\ nextSlot' = Max2(nextSlot + Phases[phase].period, now)
         /\ nextSlot' \in Nat
         /\ nextSlot' >= nextSlot + Phases[phase].period
         /\ nextSlot' >= now
         /\ due' = due + Phases[phase].period
         /\ pc = "pace"
         /\ pc' = IF nextSlot' > clock THEN "sleep" ELSE "loop"
         /\ UNCHANGED << clock, now, phase, opens, slipped, stop, afterStop >>
<1> USE DEF dispatcher, history, workers
<1>1. /\ pc = "pace"
      /\ nextSlot' = Max2(nextSlot + Phases[phase].period, now)
      /\ due' = due + Phases[phase].period
      /\ pc' = IF nextSlot' > clock THEN "sleep" ELSE "loop"
      /\ UNCHANGED << clock, now, phase, opens, slipped, stop, afterStop >>
      BY DEF Pace, NextSlot, MustSleep
<1>2. phase \in PhaseIds /\ Phases[phase].period \in Nat \ {0}
      BY <1>1, PhasesType DEF PhaseKnown
<1>3. nextSlot \in Nat /\ now \in Nat /\ due \in Nat /\ clock \in Nat
      BY DEF TypeOK
<1>4. /\ nextSlot' \in Nat
      /\ nextSlot' >= nextSlot + Phases[phase].period
      /\ nextSlot' >= now
      BY <1>1, <1>2, <1>3 DEF Max2
<1>5. QED  BY <1>1, <1>2, <1>3, <1>4

LEMMA PacingInductive == Spec => []PacingInv
<1> USE DEF dispatcher, history, workers
<1>1. Init => PacingInv  BY DEF Init, PacingInv, AboutToOffer
<1>2. TypeOK /\ PhaseKnown /\ PacingInv /\ [Next]_vars => PacingInv'
  <2>1. SUFFICES ASSUME TypeOK, PhaseKnown, PacingInv, [Next]_vars
                 PROVE  PacingInv'
        OBVIOUS
  <2>2. clock \in Nat /\ now \in Nat /\ nextSlot \in Nat /\ due \in Nat
        BY <2>1 DEF TypeOK
  <2>3. CASE Tick
    <3>1. clock' = clock + 1 /\ UNCHANGED << now, nextSlot, due, pc >>
          BY <2>3 DEF Tick
    <3>2. QED  BY <2>1, <2>2, <3>1 DEF PacingInv
  <2>4. CASE BeginSlot
    <3>1. /\ pc = "loop" /\ now' = clock /\ pc' \in AboutToOffer
          /\ UNCHANGED << clock, nextSlot, due >>
          BY <2>4 DEF BeginSlot, AboutToOffer, StopSeen, Arms
    <3>2. QED  BY <2>1, <2>2, <3>1 DEF PacingInv, AboutToOffer
  <2>5. CASE ArmAccepted \/ OfferSlot
    <3>1. /\ pc \in AboutToOffer /\ pc' \in {"offer", "pace"}
          /\ UNCHANGED << clock, now, nextSlot, due >>
          BY <2>5 DEF ArmAccepted, OfferSlot, AboutToOffer, RoomLeft
    <3>2. QED  BY <2>1, <3>1 DEF PacingInv, AboutToOffer
  <2>6. CASE Pace
    <3>1. nextSlot' >= due'
      <4> DEFINE p == Phases[phase].period
      <4>1. p \in Nat /\ nextSlot' \in Nat /\ nextSlot' >= nextSlot + p
            /\ due' = due + p
            BY <2>1, <2>6, PaceStep
      <4>2. nextSlot >= due  BY <2>1 DEF PacingInv
      <4> HIDE DEF p
      <4>3. QED  BY <2>2, <4>1, <4>2
    <3>2. /\ clock' = clock /\ now' = now
          /\ nextSlot' \in Nat
          /\ pc' = IF nextSlot' > clock THEN "sleep" ELSE "loop"
          BY <2>1, <2>6, PaceStep
    <3>3. now <= clock  BY <2>1 DEF PacingInv
    <3>4. QED  BY <2>2, <3>1, <3>2, <3>3 DEF PacingInv, AboutToOffer
  <2>7. CASE WakeUp
    <3>1. /\ pc' = "loop" /\ clock >= nextSlot
          /\ UNCHANGED << clock, now, nextSlot, due >>
          BY <2>7 DEF WakeUp
    <3>2. QED  BY <2>1, <3>1 DEF PacingInv, AboutToOffer
  <2>8. CASE Aside
    <3>1. /\ UNCHANGED << clock, now, nextSlot, due >>
          /\ pc' = pc \/ pc' \in {"drain", "join", "returned", "raised"}
          BY <2>8 DEF Aside, Ended
    <3>2. QED  BY <2>1, <3>1 DEF PacingInv, AboutToOffer
  <2>9. QED  BY <2>1, <2>3, <2>4, <2>5, <2>6, <2>7, <2>8, StepCases
<1>3. QED  BY <1>1, <1>2, TypeInductive, PTL DEF Spec

(* The offered load never runs ahead of the scenario's rate, whatever was
   dropped, delayed or caught up with (run: next_slot).                    *)
THEOREM NeverAhead == Spec => []NeverEarly
<1>1. TypeOK /\ PacingInv => NeverEarly
  BY DEF TypeOK, PacingInv, NeverEarly, AboutToOffer
<1>2. QED  BY <1>1, PacingInductive, TypeCorrect, PTL

-----------------------------------------------------------------------------
(* While no iteration has begun a period late, max(..., now) is never the
   second of its arguments.                                                *)
OnGrid ==
  ~slipped =>
    /\ nextSlot = due
    /\ pc \in AboutToOffer \cup {"pace"} =>
         \A i \in PhaseIds : now <= nextSlot + Phases[i].period

(* The schedule of the slots is the grid of absolute deadlines as long as
   every iteration begins within a period of its slot: no drift (run).     *)
THEOREM DriftFree == Spec => []NoDrift
<1> USE DEF dispatcher, history, workers
<1>1. Init => OnGrid  BY DEF Init, OnGrid, AboutToOffer
<1>2. TypeOK /\ PhaseKnown /\ OnGrid /\ [Next]_vars => OnGrid'
  <2>1. SUFFICES ASSUME TypeOK, PhaseKnown, OnGrid, [Next]_vars, ~slipped'
                 PROVE  /\ nextSlot' = due'
                        /\ pc' \in AboutToOffer \cup {"pace"} =>
                             \A i \in PhaseIds :
                               now' <= nextSlot' + Phases[i].period
        BY DEF OnGrid
  <2>2. clock \in Nat /\ now \in Nat /\ nextSlot \in Nat /\ due \in Nat
        BY <2>1 DEF TypeOK
  <2>3. \A i \in PhaseIds : Phases[i].period \in Nat  BY PhasesType
  <2>4. CASE Tick
    <3>1. UNCHANGED << now, nextSlot, due, pc, slipped >>  BY <2>4 DEF Tick
    <3>2. QED  BY <2>1, <3>1 DEF OnGrid
  <2>5. CASE BeginSlot
    <3>1. /\ now' = clock /\ UNCHANGED << nextSlot, due >>
          /\ ~slipped /\ ~Late
          BY <2>1, <2>5 DEF BeginSlot, StopSeen, Arms
    <3>2. \A i \in PhaseIds : clock <= nextSlot + Phases[i].period
          BY <2>2, <2>3, <3>1 DEF Late
    <3>3. QED  BY <2>1, <3>1, <3>2 DEF OnGrid
  <2>6. CASE ArmAccepted \/ OfferSlot
    <3>1. /\ pc \in AboutToOffer
          /\ UNCHANGED << now, nextSlot, due, slipped >>
          BY <2>6 DEF ArmAccepted, OfferSlot, AboutToOffer, RoomLeft
    <3>2. QED  BY <2>1, <3>1 DEF OnGrid
  <2>7. CASE Pace
    <3>1. /\ phase \in PhaseIds /\ pc = "pace" /\ slipped' = slipped
          /\ nextSlot' = Max2(nextSlot + Phases[phase].period, now)
          /\ due' = due + Phases[phase].period
          /\ pc' \in {"sleep", "loop"}
          BY <2>1, <2>7, PaceStep
    <3>2. nextSlot = due /\ now <= nextSlot + Phases[phase].period
          BY <2>1, <3>1 DEF OnGrid
    <3>3. Phases[phase].period \in Nat  BY <2>3, <3>1
    <3>4. nextSlot' = nextSlot + Phases[phase].period
          BY <2>2, <3>1, <3>2, <3>3 DEF Max2
    <3>5. QED  BY <3>1, <3>2, <3>4 DEF AboutToOffer
  <2>8. CASE WakeUp
    <3>1. pc' = "loop" /\ UNCHANGED << now, nextSlot, due, slipped >>
          BY <2>8 DEF WakeUp
    <3>2. QED  BY <2>1, <3>1 DEF OnGrid, AboutToOffer
  <2>9. CASE Aside
    <3>1. /\ UNCHANGED << now, nextSlot, due >> /\ ~slipped
          /\ pc' = pc \/ pc' \in {"drain", "join", "returned", "raised"}
          BY <2>1, <2>9 DEF Aside, Ended
    <3>2. QED  BY <2>1, <3>1 DEF OnGrid, AboutToOffer
  <2>10. QED  BY <2>1, <2>4, <2>5, <2>6, <2>7, <2>8, <2>9, StepCases
<1>3. OnGrid => NoDrift  BY DEF OnGrid, NoDrift
<1>4. QED  BY <1>1, <1>2, <1>3, TypeInductive, PTL DEF Spec

-----------------------------------------------------------------------------
(* No phase is skipped.                                                    *)
LEMMA TimelineShape ==
  /\ 1 \in PhaseIds
  /\ Boundary[1] = Phases[1].duration
  /\ \A i \in PhaseIds : i + 1 \in PhaseIds =>
       Boundary[i + 1] = Phases[i + 1].duration + Boundary[i]
  /\ \A i \in PhaseIds : Phases[i].duration \in Nat \ {0}
<1> DEFINE APhase == [ duration : Nat \ {0}, period : Nat \ {0}, fault : Faults ]
<1>1. Phases \in Seq(APhase) /\ Phases # <<>>  BY PhasesAreValid
<1>2. \A q \in APhase : q.duration \in Nat \ {0}  OBVIOUS
<1> HIDE DEF APhase
<1>3. Len(Phases) \in Nat \ {0} /\ \A i \in 1..Len(Phases) : Phases[i] \in APhase
      BY <1>1
<1>4. 1 \in PhaseIds  BY <1>3 DEF PhaseIds
<1>5. Boundary[1] = Phases[1].duration
  <2>1. Boundary[1] = Phases[1].duration + 0  BY <1>4, BoundaryIsRunningSum DEF PhaseIds
  <2>2. Phases[1].duration \in Nat  BY <1>2, <1>3, <1>4 DEF PhaseIds
  <2>3. QED  BY <2>1, <2>2
<1>6. ASSUME NEW i \in PhaseIds, i + 1 \in PhaseIds
      PROVE  Boundary[i + 1] = Phases[i + 1].duration + Boundary[i]
  <2>1. i + 1 # 1 /\ (i + 1) - 1 = i  BY <1>6 DEF PhaseIds
  <2>2. QED  BY <1>6, <2>1, BoundaryIsRunningSum DEF PhaseIds
<1>7. \A i \in PhaseIds : Phases[i].duration \in Nat \ {0}
      BY <1>2, <1>3 DEF PhaseIds
<1>8. QED  BY <1>4, <1>5, <1>6, <1>7

LEMMA PhaseAtIs ==
  ASSUME NEW e \in Nat, NEW i \in PhaseIds, IsFirstAfter(i, e)
  PROVE  PhaseAt(e) = i
<1> DEFINE k == PhaseAt(e)
<1>1. k \in PhaseIds /\ IsFirstAfter(k, e)  BY DEF PhaseAt
<1> HIDE DEF k
<1>2. i \in Int /\ k \in Int /\ Boundary[i] \in Nat /\ Boundary[k] \in Nat
      BY <1>1, PhasesType DEF PhaseIds
<1>3. ~(k < i)  BY <1>1, <1>2 DEF IsFirstAfter
<1>4. ~(i < k)  BY <1>1, <1>2 DEF IsFirstAfter
<1>5. k = i  BY <1>2, <1>3, <1>4
<1>6. QED  BY <1>5 DEF k

LongPhases ==
  \A i, j \in PhaseIds : Phases[i].duration >= 2 * Phases[j].period

(* Unless it is late, the iteration after one in a phase is in the same phase
   or the next, and the scenario ends after its last phase only.           *)
LEMMA OnePhaseOn ==
  ASSUME LongPhases, clock \in Nat, now \in Nat, nextSlot \in Nat, now <= clock,
         phase \in PhaseIds \cup {NoPhase},
         ~Late,
         phase # NoPhase => /\ phase = PhaseAt(now)
                            /\ nextSlot <= now + Phases[phase].period,
         phase = NoPhase => nextSlot = 0
  PROVE  IF PhaseAt(clock) = NoPhase THEN phase = Len(Phases)
                                     ELSE PhaseAt(clock) \in {phase, phase + 1}
<1>1. \A i \in PhaseIds : /\ Phases[i].period \in Nat \ {0} /\ Boundary[i] \in Nat
                          /\ Phases[i].duration \in Nat \ {0}
                          /\ clock <= nextSlot + Phases[i].period
  <2>1. \A i \in PhaseIds : Phases[i].period \in Nat \ {0} /\ Boundary[i] \in Nat
                            /\ Phases[i].duration \in Nat \ {0}
        BY PhasesType, TimelineShape
  <2>2. QED  BY <2>1 DEF Late
<1>2. CASE phase = NoPhase
  <2>1. 1 \in PhaseIds /\ Boundary[1] = Phases[1].duration  BY TimelineShape
  <2>2. clock <= Phases[1].period  BY <1>1, <1>2, <2>1
  <2>3. Phases[1].duration >= 2 * Phases[1].period  BY <2>1 DEF LongPhases
  <2>4. clock < Boundary[1]  BY <1>1, <2>1, <2>2, <2>3
  <2>5. IsFirstAfter(1, clock)  BY <2>4 DEF IsFirstAfter, PhaseIds
  <2>6. PhaseAt(clock) = 1  BY <2>1, <2>5, PhaseAtIs
  <2>7. QED  BY <1>2, <2>6 DEF NoPhase
<1>3. CASE phase \in PhaseIds
  <2> DEFINE p == Phases[phase].period
             b == Boundary[phase]
  <2>0. phase # NoPhase  BY <1>3, PhasesType
  <2>1. IsFirstAfter(phase, now)  BY <2>0, PhaseAtIsFirst
  <2>2. p \in Nat /\ b \in Nat /\ clock <= nextSlot + p /\ nextSlot <= now + p
        BY <1>1, <1>3, <2>0
  <2>3. now < b /\ \A j \in PhaseIds : j < phase => now >= Boundary[j]
        BY <2>1 DEF IsFirstAfter
  <2>4. \A j \in PhaseIds : j < phase => clock >= Boundary[j]
        BY <1>1, <2>3
  <2>5. CASE clock < b
    <3>1. IsFirstAfter(phase, clock)  BY <2>4, <2>5 DEF IsFirstAfter
    <3>2. PhaseAt(clock) = phase  BY <1>3, <3>1, PhaseAtIs
    <3>3. QED  BY <2>0, <3>2
  <2>6. CASE clock >= b /\ phase + 1 \in PhaseIds
    <3> DEFINE d == Phases[phase + 1].duration
               q == phase + 1
    <3>1. d \in Nat /\ Boundary[q] = d + b  BY <1>1, <1>3, <2>6, TimelineShape
    <3>2. d >= 2 * p  BY <1>3, <2>6 DEF LongPhases
    <3> HIDE DEF p, b, d
    <3>3. clock < d + b  BY <2>2, <2>3, <3>1, <3>2
    <3>4. \A j \in PhaseIds : j < q => j < phase \/ j = phase
          BY <1>3 DEF PhaseIds
    <3>5. \A j \in PhaseIds : j < q => clock >= Boundary[j]
          BY <2>4, <2>6, <3>4 DEF b
    <3>6. IsFirstAfter(q, clock)  BY <3>1, <3>3, <3>5 DEF IsFirstAfter
    <3>7. PhaseAt(clock) = q  BY <2>6, <3>6, PhaseAtIs
    <3>8. q # NoPhase  BY <2>6, PhasesType
    <3>9. QED  BY <3>7, <3>8
  <2>7. CASE clock >= b /\ phase + 1 \notin PhaseIds
    <3>1. phase = Len(Phases)  BY <1>3, <2>7, PhasesType DEF PhaseIds
    <3>2. ASSUME PhaseAt(clock) # NoPhase  PROVE PhaseAt(clock) = phase
      <4> DEFINE k == PhaseAt(clock)
      <4>1. k \in PhaseIds /\ IsFirstAfter(k, clock)
            BY <3>2, PhaseAtType, PhaseAtIsFirst
      <4> HIDE DEF k
      <4>2. clock < Boundary[k]  BY <4>1 DEF IsFirstAfter
      <4>3. ~(k < phase)  BY <1>1, <2>4, <4>1, <4>2
      <4>4. k = phase  BY <1>3, <3>1, <4>1, <4>3, PhasesType DEF PhaseIds
      <4>5. QED  BY <4>4 DEF k
    <3>3. QED  BY <3>1, <3>2
  <2>8. QED  BY <2>2, <2>5, <2>6, <2>7
<1>4. QED  BY <1>2, <1>3

(* The faults of the phases up to the k-th have been armed.                *)
Played(k) == \A i \in PhaseIds :
  i <= k /\ HasFault(i) => \E j \in DOMAIN armed : armed[j] = i

PlayedInv ==
  ~stop /\ ~slipped /\ LongPhases =>
    /\ pc \in InIteration => Played(phase)
    /\ pc = "arm" => Played(phase - 1)
    /\ pc \in {"loop", "sleep"} /\ phase = NoPhase => nextSlot = 0
    /\ pc \in {"loop", "sleep"} /\ phase # NoPhase
         => nextSlot <= now + Phases[phase].period
    /\ pc \in {"drain", "join", "returned"} /\ ~failed => Played(Len(Phases))
    /\ pc = "returned" => ~failed

LEMMA PlayedInductive == Spec => []PlayedInv
<1> USE DEF dispatcher, history, workers
<1>1. Init => PlayedInv
  <2>1. SUFFICES ASSUME Init PROVE PlayedInv  OBVIOUS
  <2>2. \A i \in PhaseIds : ~(i <= NoPhase)  BY DEF PhaseIds, NoPhase
  <2>3. QED  BY <2>1, <2>2 DEF Init, PlayedInv, Played, InIteration
<1>2. TypeOK /\ PhaseKnown /\ ArmingInv /\ PacingInv /\ PlayedInv /\ [Next]_vars
        => PlayedInv'
  <2>1. SUFFICES ASSUME TypeOK, PhaseKnown, ArmingInv, PacingInv, PlayedInv,
                        [Next]_vars, ~stop', ~slipped', LongPhases
                 PROVE  PlayedInv'
        BY DEF PlayedInv
  <2> USE DEF InIteration
  <2>2. /\ now \in Nat /\ clock \in Nat /\ armed \in Seq(PhaseIds)
        /\ nextSlot \in Nat /\ now <= clock
        /\ phase \in PhaseIds \cup {NoPhase}
        BY <2>1 DEF TypeOK, ArmingInv
  <2>3. CASE Tick
        BY <2>1, <2>3 DEF Tick, PlayedInv, Played, Ended
  <2>4. CASE Stop  BY <2>1, <2>4 DEF Stop
  <2>5. ASSUME LeaveLoop \/ BeginSlot
        PROVE  /\ Played(phase) /\ pc = "loop" /\ armed' = armed
               /\ phase = current
               /\ IF PhaseAt(clock) = NoPhase
                    THEN phase = Len(Phases)
                    ELSE PhaseAt(clock) \in {phase, phase + 1}
    <3>1. /\ pc = "loop" /\ slipped' = (slipped \/ Late) /\ stop' = stop
          /\ armed' = armed
          BY <2>5 DEF LeaveLoop, BeginSlot
    <3>2. ~slipped /\ ~Late /\ ~stop  BY <2>1, <3>1
    <3>3. /\ Played(phase)
          /\ phase = NoPhase => nextSlot = 0
          /\ phase # NoPhase => nextSlot <= now + Phases[phase].period
          BY <2>1, <3>1, <3>2 DEF PlayedInv
    <3>4. /\ phase # NoPhase => phase = PhaseAt(now)
          /\ phase = current
          BY <2>1, <3>1 DEF ArmingInv
    <3>5. QED  BY <2>1, <2>2, <3>1, <3>2, <3>3, <3>4, OnePhaseOn
  <2>6. CASE LeaveLoop
    <3>1. /\ pc' = "drain" /\ UNCHANGED << stop, armed, phase >>
          /\ PhaseAt(clock) = NoPhase
          BY <2>1, <2>6 DEF LeaveLoop, StopSeen
    <3>2. Played(Len(Phases))  BY <2>5, <2>6, <3>1
    <3>3. Played(Len(Phases))'  BY <3>1, <3>2 DEF Played
    <3>4. QED  BY <3>1, <3>3 DEF PlayedInv
  <2>7. CASE BeginSlot
    <3>1. /\ phase' = PhaseAt(clock) /\ PhaseAt(clock) # NoPhase
          /\ armed' = armed
          /\ pc' = IF Arms(phase') THEN "arm" ELSE "offer"
          BY <2>7 DEF BeginSlot
    <3>2. /\ Played(phase) /\ phase = current /\ phase' \in {phase, phase + 1}
          /\ phase' \in PhaseIds
          BY <2>5, <2>7, <3>1, PhaseAtType
    <3>3. phase \in Nat /\ phase' \in Nat  BY <2>2, <3>2 DEF PhaseIds, NoPhase
    <3>4. CASE Arms(phase')
      <4>1. phase' # phase  BY <3>2, <3>4 DEF Arms
      <4>2. phase' = phase + 1  BY <3>2, <4>1
      <4>3. phase' - 1 = phase  BY <3>3, <4>2
      <4>4. Played(phase - 1)'
        <5>1. \A i \in PhaseIds :
                i <= phase /\ HasFault(i) => \E j \in DOMAIN armed' : armed'[j] = i
              BY <3>1, <3>2 DEF Played
        <5>2. \A i \in PhaseIds :
                i <= phase' - 1 /\ HasFault(i)
                  => \E j \in DOMAIN armed' : armed'[j] = i
              BY <4>3, <5>1
        <5>3. QED  BY <5>2 DEF Played
      <4>5. QED  BY <3>1, <3>4, <4>4 DEF PlayedInv
    <3>5. CASE ~Arms(phase')
      <4>1. \A i \in PhaseIds :
              i <= phase' /\ HasFault(i) => \E j \in DOMAIN armed' : armed'[j] = i
        <5>1. SUFFICES ASSUME NEW i \in PhaseIds, i <= phase', HasFault(i)
                       PROVE  \E j \in DOMAIN armed : armed[j] = i
              BY <3>1
        <5>2. i \in Nat  BY DEF PhaseIds
        <5>3. i # phase' \/ phase' = phase  BY <3>2, <3>5, <5>1 DEF Arms
        <5>4. i <= phase  BY <3>2, <3>3, <5>1, <5>2, <5>3
        <5>5. QED  BY <3>2, <5>1, <5>4 DEF Played
      <4>2. Played(phase)'  BY <4>1 DEF Played
      <4>3. QED  BY <3>1, <3>5, <4>2 DEF PlayedInv
    <3>6. QED  BY <3>4, <3>5
  <2>8. CASE ArmAccepted
    <3>1. /\ pc = "arm" /\ pc' = "offer" /\ armed' = Append(armed, phase)
          /\ UNCHANGED << stop, slipped, phase >>
          BY <2>8 DEF ArmAccepted
    <3>2. Played(phase - 1) /\ phase \in PhaseIds
          BY <2>1, <3>1 DEF PlayedInv, PhaseKnown
    <3>3. /\ DOMAIN armed' = 1..(Len(armed) + 1) /\ DOMAIN armed = 1..Len(armed)
          /\ armed'[Len(armed) + 1] = phase /\ Len(armed) \in Nat
          /\ \A j \in DOMAIN armed : armed'[j] = armed[j]
          BY <2>2, <3>1, <3>2
    <3>4. \A i \in PhaseIds :
            i <= phase /\ HasFault(i) => \E j \in DOMAIN armed' : armed'[j] = i
      <4>1. SUFFICES ASSUME NEW i \in PhaseIds, i <= phase, HasFault(i)
                     PROVE  \E j \in DOMAIN armed' : armed'[j] = i
            OBVIOUS
      <4>2. CASE i = phase  BY <3>3, <4>2
      <4>3. CASE i # phase
        <5>1. i <= phase - 1  BY <3>2, <4>1, <4>3 DEF PhaseIds
        <5>2. PICK j \in DOMAIN armed : armed[j] = i
              BY <3>2, <4>1, <5>1 DEF Played
        <5>3. QED  BY <3>3, <5>2
      <4>4. QED  BY <4>2, <4>3
    <3>5. Played(phase)'  BY <3>1, <3>4 DEF Played
    <3>6. QED  BY <3>1, <3>5 DEF PlayedInv
  <2>9. CASE ArmRefused
        BY <2>1, <2>9 DEF ArmRefused, PlayedInv
  <2>10. CASE OfferSlot \/ WakeUp
    <3>1. UNCHANGED << stop, slipped, phase, armed, now, nextSlot, failed >>
          BY <2>10 DEF OfferSlot, WakeUp
    <3>2. \/ pc = "offer" /\ pc' = "pace"
          \/ pc = "sleep" /\ pc' = "loop"
          BY <2>10 DEF OfferSlot, WakeUp
    <3>3. QED  BY <2>1, <3>1, <3>2 DEF PlayedInv, Played
  <2>11. CASE Pace
    <3>1. /\ phase \in PhaseIds /\ Phases[phase].period \in Nat
          /\ nextSlot' = Max2(nextSlot + Phases[phase].period, now)
          /\ pc = "pace" /\ pc' \in {"sleep", "loop"}
          /\ UNCHANGED << now, phase, slipped, stop >>
          BY <2>1, <2>11, PaceStep
    <3>2. armed' = armed  BY <2>11 DEF Pace, NextSlot, MustSleep
    <3>3. now >= nextSlot  BY <2>1, <3>1 DEF PacingInv, AboutToOffer
    <3>4. nextSlot' <= now + Phases[phase].period
          BY <2>2, <3>1, <3>3 DEF Max2
    <3>5. phase # NoPhase  BY <3>1, PhasesType
    <3>6. Played(phase)  BY <2>1, <3>1 DEF PlayedInv
    <3>7. Played(phase)'  BY <3>1, <3>2, <3>6 DEF Played
    <3>8. QED  BY <3>1, <3>4, <3>5, <3>7 DEF PlayedInv
  <2>12. CASE PutShutdown \/ AllShutdownsPut
    <3>1. /\ UNCHANGED << stop, slipped, armed, failed >>
          /\ pc = "drain" /\ pc' \in {"drain", "join"}
          BY <2>12 DEF PutShutdown, AllShutdownsPut, PutSentinel, RoomLeft
    <3>2. QED  BY <2>1, <3>1 DEF PlayedInv, Played
  <2>13. CASE PoolExit
    <3>1. /\ UNCHANGED << stop, slipped, armed, failed >>
          /\ pc = "join" /\ pc' = IF failed THEN "raised" ELSE "returned"
          BY <2>13 DEF PoolExit, PoolIsOver
    <3>2. failed \in BOOLEAN  BY <2>1 DEF TypeOK
    <3>3. QED  BY <2>1, <3>1, <3>2 DEF PlayedInv, Played
  <2>14. CASE (\E w \in Workers : Work(w)) \/ UNCHANGED vars
    <3>1. UNCHANGED << stop, slipped, phase, armed, now, nextSlot, failed, pc >>
          BY <2>14 DEF Work, Get, Answered, Crashed, vars
    <3>2. QED  BY <2>1, <3>1 DEF PlayedInv, Played
  <2>15. QED
        BY <2>1, <2>3, <2>4, <2>6, <2>7, <2>8, <2>9, <2>10, <2>11, <2>12,
           <2>13, <2>14
        DEF Next, Dispatch, Over
<1>3. QED  BY <1>1, <1>2, TypeInductive, ArmingInductive, PacingInductive, PTL
           DEF Spec

(* A scenario whose phases outlast two periods is played to the end with the
   fault of each of them armed, for every scenario of that kind, unless the
   run is stopped or an iteration begins more than a period late (run).    *)
THEOREM EveryPhasePlayed == Spec => []NoPhaseSkipped
<1>1. PlayedInv => NoPhaseSkipped
  <2>1. SUFFICES ASSUME PlayedInv, pc = "returned", ~stop, ~slipped, LongPhases
                 PROVE  \A i \in PhaseIds :
                          HasFault(i) => \E j \in DOMAIN armed : armed[j] = i
        BY DEF NoPhaseSkipped, LongPhases
  <2>2. Played(Len(Phases))  BY <2>1 DEF PlayedInv
  <2>3. \A i \in PhaseIds : i <= Len(Phases)  BY PhasesType DEF PhaseIds
  <2>4. QED  BY <2>2, <2>3 DEF Played
<1>2. QED  BY <1>1, PlayedInductive, PTL

-----------------------------------------------------------------------------
(* A slot can be opened after a stop only in the iteration that had begun.  *)
StopInv ==
  /\ afterStop \in {0, 1}
  /\ ~stop => afterStop = 0
  /\ pc \in AboutToOffer => afterStop = 0

(* stop() takes effect within one request slot, wherever it finds run().   *)
THEOREM PromptStop == Spec => []StopIsPrompt
<1> USE DEF dispatcher, history, workers
<1>1. Init => StopInv  BY DEF Init, StopInv
<1>2. TypeOK /\ StopInv /\ [Next]_vars => StopInv'
  <2>1. SUFFICES ASSUME TypeOK, StopInv, [Next]_vars  PROVE StopInv'
        OBVIOUS
  <2>2. CASE Tick  BY <2>1, <2>2 DEF Tick, StopInv
  <2>3. CASE BeginSlot  BY <2>1, <2>3 DEF BeginSlot, StopInv, AboutToOffer,
                                          StopSeen, Arms
  <2>4. CASE ArmAccepted
        BY <2>1, <2>4 DEF ArmAccepted, StopInv, AboutToOffer
  <2>5. CASE OfferSlot
        BY <2>1, <2>5 DEF OfferSlot, StopInv, AboutToOffer, RoomLeft
  <2>6. CASE Pace  BY <2>1, <2>6 DEF Pace, StopInv, AboutToOffer,
                                     NextSlot, MustSleep
  <2>7. CASE WakeUp  BY <2>1, <2>7 DEF WakeUp, StopInv, AboutToOffer
  <2>8. CASE Aside
    <3>1. /\ afterStop' = afterStop /\ (stop => stop')
          /\ pc' = pc \/ pc' \in {"drain", "join", "returned", "raised"}
          BY <2>8 DEF Aside, Ended
    <3>2. stop \in BOOLEAN  BY <2>1 DEF TypeOK
    <3>3. QED  BY <2>1, <3>1, <3>2 DEF StopInv, AboutToOffer
  <2>9. QED
        BY <2>1, <2>2, <2>3, <2>4, <2>5, <2>6, <2>7, <2>8, StepCases
<1>3. StopInv => StopIsPrompt  BY DEF StopInv, StopIsPrompt
<1>4. QED  BY <1>1, <1>2, <1>3, TypeCorrect, PTL DEF Spec

-----------------------------------------------------------------------------
(* How far the deadline lies behind the last slots that were opened.       *)
APeriodAfter(t, o) == \E i \in PhaseIds : t >= o + Phases[i].period

SpacingInv ==
  LET n == Len(opens)
  IN  /\ n >= 1 => clock >= opens[n]
      /\ pc \in InIteration \cup {"arm"} /\ pc # "pace" =>
           /\ n >= 2 => nextSlot >= opens[n - 1]
           /\ n >= 3 => APeriodAfter(nextSlot, opens[1])
      /\ pc \in AboutToOffer => (n >= 1 => now >= opens[n])
      /\ pc = "pace" => /\ n >= 2 => now >= opens[n - 1]
                        /\ n >= 3 => nextSlot >= opens[1]

LEMMA SpacingInductive == Spec => []SpacingInv
<1> USE DEF dispatcher, history, workers
<1>1. Init => SpacingInv  BY DEF Init, SpacingInv, AboutToOffer
<1>2. TypeOK /\ PhaseKnown /\ PacingInv /\ SpacingInv /\ [Next]_vars
        => SpacingInv'
  <2>1. SUFFICES ASSUME TypeOK, PhaseKnown, PacingInv, SpacingInv, [Next]_vars
                 PROVE  SpacingInv'
        OBVIOUS
  <2>2. /\ clock \in Nat /\ now \in Nat /\ nextSlot \in Nat
        /\ opens \in Seq(Nat) /\ Len(opens) <= 3
        BY <2>1 DEF TypeOK
  <2>3. Len(opens) \in Nat /\ \A k \in 1..Len(opens) : opens[k] \in Nat
        BY <2>2
  <2>4. CASE Tick
    <3>1. clock' = clock + 1 /\ UNCHANGED << now, nextSlot, opens, pc >>
          BY <2>4 DEF Tick
    <3>2. Len(opens) >= 1 => clock' >= opens[Len(opens)]
      <4>1. SUFFICES ASSUME Len(opens) >= 1  PROVE clock' >= opens[Len(opens)]
            OBVIOUS
      <4>2. opens[Len(opens)] \in Nat  BY <2>3, <4>1
      <4>3. clock >= opens[Len(opens)]  BY <2>1, <4>1 DEF SpacingInv
      <4>4. QED  BY <2>2, <3>1, <4>2, <4>3
    <3>3. QED  BY <2>1, <3>1, <3>2 DEF SpacingInv, APeriodAfter
  <2>5. CASE BeginSlot
    <3>1. /\ pc = "loop" /\ now' = clock /\ pc' \in AboutToOffer
          /\ UNCHANGED << clock, nextSlot, opens >>
          BY <2>5 DEF BeginSlot, AboutToOffer, StopSeen, Arms
    <3>2. QED
          BY <2>1, <3>1
          DEF SpacingInv, APeriodAfter, AboutToOffer, InIteration
  <2>6. CASE ArmAccepted
    <3>1. /\ pc = "arm" /\ pc' = "offer"
          /\ UNCHANGED << clock, now, nextSlot, opens >>
          BY <2>6 DEF ArmAccepted
    <3>2. QED
          BY <2>1, <3>1
          DEF SpacingInv, APeriodAfter, AboutToOffer, InIteration
  <2>7. CASE OfferSlot
    <3>1. /\ pc = "offer" /\ pc' = "pace"
          /\ opens' = IF Len(opens) < 3 THEN Append(opens, clock)
                                        ELSE << opens[2], opens[3], clock >>
          /\ UNCHANGED << clock, now, nextSlot >>
          BY <2>7 DEF OfferSlot, RoomLeft
    <3>2. /\ Len(opens) >= 1 => now >= opens[Len(opens)]
          /\ Len(opens) >= 2 => nextSlot >= opens[Len(opens) - 1]
          BY <2>1, <3>1 DEF SpacingInv, AboutToOffer, InIteration
    <3>3. CASE Len(opens) < 3
      <4>1. opens' = Append(opens, clock)  BY <3>1, <3>3
      <4>2. /\ Len(opens') = Len(opens) + 1
            /\ opens'[Len(opens) + 1] = clock
            /\ \A k \in 1..Len(opens) : opens'[k] = opens[k]
            BY <2>2, <4>1
      <4>3. Len(opens') >= 2 => now' >= opens'[Len(opens') - 1]
            BY <2>3, <3>1, <3>2, <4>2
      <4>4. Len(opens') >= 3 => nextSlot' >= opens'[1]
        <5>1. SUFFICES ASSUME Len(opens') >= 3  PROVE nextSlot' >= opens'[1]
              OBVIOUS
        <5>2. Len(opens) + 1 >= 3 /\ Len(opens) < 3 /\ Len(opens) \in Nat
              BY <2>3, <3>3, <4>2, <5>1
        <5>3. \A n \in Nat : n + 1 >= 3 /\ n < 3 => n = 2  OBVIOUS
        <5>4. Len(opens) = 2  BY <5>2, <5>3
        <5>5. nextSlot >= opens[1] /\ opens'[1] = opens[1]
              BY <3>2, <4>2, <5>4
        <5>6. QED  BY <3>1, <5>5
      <4>5. clock' >= opens'[Len(opens')]  BY <2>2, <3>1, <4>2
      <4>6. QED  BY <3>1, <4>3, <4>4, <4>5 DEF SpacingInv, AboutToOffer
    <3>4. CASE Len(opens) = 3
      <4>1. opens' = << opens[2], opens[3], clock >>  BY <3>1, <3>4
      <4>2. /\ Len(opens') = 3 /\ opens'[1] = opens[2]
            /\ opens'[2] = opens[3] /\ opens'[3] = clock
            BY <4>1
      <4>3. now >= opens[3] /\ nextSlot >= opens[2]  BY <3>2, <3>4
      <4>4. /\ clock' >= opens'[3] /\ now' >= opens'[2]
            /\ nextSlot' >= opens'[1]
            BY <2>2, <3>1, <4>2, <4>3
      <4>5. QED  BY <3>1, <4>2, <4>4 DEF SpacingInv, AboutToOffer
    <3>5. \A n \in Nat : n <= 3 => n < 3 \/ n = 3  OBVIOUS
    <3>6. QED  BY <2>2, <2>3, <3>3, <3>4, <3>5
  <2>8. CASE Pace
    <3> DEFINE p == Phases[phase].period
    <3>1. /\ phase \in PhaseIds /\ p \in Nat /\ nextSlot' \in Nat
          /\ nextSlot' >= nextSlot + p /\ nextSlot' >= now
          /\ pc = "pace" /\ pc' \in {"sleep", "loop"}
          /\ UNCHANGED << clock, now, opens >>
          BY <2>1, <2>8, PaceStep
    <3>2. Len(opens) >= 2 => nextSlot' >= opens[Len(opens) - 1]
      <4>1. SUFFICES ASSUME Len(opens) >= 2
                     PROVE  nextSlot' >= opens[Len(opens) - 1]
            OBVIOUS
      <4>2. now >= opens[Len(opens) - 1]  BY <2>1, <3>1, <4>1 DEF SpacingInv
      <4>3. opens[Len(opens) - 1] \in Nat  BY <2>3, <4>1
      <4>4. QED  BY <2>2, <3>1, <4>2, <4>3
    <3>3. Len(opens) >= 3 => APeriodAfter(nextSlot', opens[1])
      <4>1. SUFFICES ASSUME Len(opens) >= 3
                     PROVE  nextSlot' >= opens[1] + p
            BY <3>1 DEF APeriodAfter
      <4>2. nextSlot >= opens[1]  BY <2>1, <3>1, <4>1 DEF SpacingInv
      <4>3. opens[1] \in Nat  BY <2>3, <4>1
      <4> HIDE DEF p
      <4>4. QED  BY <2>2, <3>1, <4>2, <4>3
    <3>4. QED
          BY <2>1, <3>1, <3>2, <3>3
          DEF SpacingInv, APeriodAfter, AboutToOffer
  <2>9. CASE WakeUp
    <3>1. /\ pc = "sleep" /\ pc' = "loop"
          /\ UNCHANGED << clock, now, nextSlot, opens >>
          BY <2>9 DEF WakeUp
    <3>2. QED
          BY <2>1, <3>1
          DEF SpacingInv, APeriodAfter, AboutToOffer, InIteration
  <2>10. CASE Aside
    <3>1. /\ UNCHANGED << clock, now, nextSlot, opens >>
          /\ pc' = pc \/ pc' \in {"drain", "join", "returned", "raised"}
          BY <2>10 DEF Aside, Ended
    <3>2. QED
          BY <2>1, <3>1
          DEF SpacingInv, APeriodAfter, AboutToOffer, InIteration
  <2>11. QED
        BY <2>1, <2>4, <2>5, <2>6, <2>7, <2>8, <2>9, <2>10, StepCases
<1>3. QED
  BY <1>1, <1>2, TypeInductive, PacingInductive, PTL DEF Spec

(* Whatever holds the dispatcher up, for however long, it never opens four
   slots within a period: what was missed stays missed (run: max(..., now)). *)
THEOREM BurstsAreBounded == Spec => []NoBurst
<1>1. TypeOK /\ PacingInv /\ SpacingInv => NoBurst
  <2>1. SUFFICES ASSUME TypeOK, PacingInv, SpacingInv, pc = "offer",
                        Len(opens) = 3
                 PROVE  \E i \in PhaseIds : clock >= opens[1] + Phases[i].period
        BY DEF NoBurst
  <2>2. /\ clock \in Nat /\ now \in Nat /\ nextSlot \in Nat
        /\ opens \in Seq(Nat)
        BY <2>1 DEF TypeOK
  <2>3. opens[1] \in Nat
    <3>1. \A k \in 1..Len(opens) : opens[k] \in Nat  BY <2>2
    <3>2. QED  BY <2>1, <3>1
  <2>4. now >= nextSlot /\ now <= clock
        BY <2>1 DEF PacingInv, AboutToOffer
  <2>5. PICK i \in PhaseIds : nextSlot >= opens[1] + Phases[i].period
        BY <2>1 DEF SpacingInv, APeriodAfter, InIteration
  <2>6. Phases[i].period \in Nat  BY PhasesType
  <2>7. clock >= opens[1] + Phases[i].period
        BY <2>2, <2>3, <2>4, <2>5, <2>6
  <2>8. QED  BY <2>7
<1>2. QED  BY <1>1, SpacingInductive, PacingInductive, TypeCorrect, PTL

-----------------------------------------------------------------------------
(* How a run ends: when it returns, no request slot is left behind.        *)
Sending == { w \in Workers : worker[w] = "send" }
Exited  == { w \in Workers : worker[w] = "exited" }

(* The queue is k slots with nothing but sentinels behind them, and every
   slot and every sentinel is accounted for.  Once a worker has met a
   sentinel no slot is left; none is added after the first sentinel.       *)
Shape(k) ==
  /\ k \in 0..Len(queue)
  /\ \A i \in 1..Len(queue) : queue[i] = (IF i <= k THEN "slot" ELSE "shutdown")
  /\ opened = sent + dropped + crashed + k + Cardinality(Sending)
  /\ shutdowns = Len(queue) - k + Cardinality(Exited)
  /\ Exited # {} => k = 0

(* Where the dispatcher is, and what it has put so far.                    *)
Control ==
  /\ pc \notin {"drain", "join"} \cup Ended => shutdowns = 0
  /\ pc = "join" => failed \/ shutdowns = NumWorkers
  /\ pc \notin {"join"} \cup Ended => ~failed

Emptied == pc = "returned" => queue = <<>> /\ Sending = {}

DrainInv == (\E k \in Nat : Shape(k)) /\ Control /\ Emptied

-----------------------------------------------------------------------------
LEMMA WorkersFinite ==
  /\ IsFiniteSet(Workers) /\ Cardinality(Workers) = NumWorkers
  /\ IsFiniteSet(Sending) /\ Cardinality(Sending) \in Nat
  /\ IsFiniteSet(Exited) /\ Cardinality(Exited) \in Nat
<1>1. NumWorkers \in Nat \ {0}  BY WorkersAssumption
<1>2. IsFiniteSet(Workers) /\ Cardinality(Workers) = NumWorkers
  <2>1. /\ IsFiniteSet(1..NumWorkers)
        /\ Cardinality(1..NumWorkers) =
             IF 1 > NumWorkers THEN 0 ELSE NumWorkers - 1 + 1
        BY <1>1, FS_Interval
  <2>2. QED  BY <1>1, <2>1 DEF Workers
<1>3. IsFiniteSet(Sending) /\ IsFiniteSet(Exited)
  <2>1. Sending \subseteq Workers /\ Exited \subseteq Workers
        BY DEF Sending, Exited
  <2>2. QED  BY <1>2, <2>1, FS_Subset
<1>4. QED  BY <1>2, <1>3, FS_CardinalityType

(* A worker's move in or out of "send" counts one.                         *)
LEMMA OneMoreSending ==
  ASSUME worker \in [Workers -> {"get", "send", "exited"}],
         NEW w \in Workers, worker[w] = "get",
         worker' = [worker EXCEPT ![w] = "send"]
  PROVE  Cardinality(Sending') = Cardinality(Sending) + 1 /\ Exited' = Exited
<1>1. Sending' = Sending \cup {w} /\ w \notin Sending  BY DEF Sending
<1>2. Exited' = Exited  BY DEF Exited
<1>3. QED  BY <1>1, <1>2, WorkersFinite, FS_AddElement

LEMMA OneLessSending ==
  ASSUME worker \in [Workers -> {"get", "send", "exited"}],
         NEW w \in Workers, worker[w] = "send",
         worker' = [worker EXCEPT ![w] = "get"]
  PROVE  Cardinality(Sending) = Cardinality(Sending') + 1 /\ Exited' = Exited
<1>1. Sending' = Sending \ {w} /\ w \in Sending  BY DEF Sending
<1>2. Exited' = Exited  BY DEF Exited
<1>3. Cardinality(Sending') = Cardinality(Sending) - 1
      BY <1>1, WorkersFinite, FS_RemoveElement
<1>4. Cardinality(Sending) \in Nat  BY WorkersFinite
<1>5. QED  BY <1>2, <1>3, <1>4

LEMMA OneMoreExited ==
  ASSUME worker \in [Workers -> {"get", "send", "exited"}],
         NEW w \in Workers, worker[w] = "get",
         worker' = [worker EXCEPT ![w] = "exited"]
  PROVE  Cardinality(Exited') = Cardinality(Exited) + 1 /\ Sending' = Sending
<1>1. Exited' = Exited \cup {w} /\ w \notin Exited  BY DEF Exited
<1>2. Sending' = Sending  BY DEF Sending
<1>3. QED  BY <1>1, <1>2, WorkersFinite, FS_AddElement

-----------------------------------------------------------------------------
(* What each kind of step does to the shape of the queue.                  *)
Counted == << queue, worker, opened, sent, dropped, crashed, shutdowns >>

ShapeTypes == /\ queue \in Seq({"slot", "shutdown"})
              /\ worker \in [Workers -> {"get", "send", "exited"}]
              /\ opened \in Nat /\ sent \in Nat /\ dropped \in Nat
              /\ crashed \in Nat /\ shutdowns \in Nat

LEMMA ShapeKept ==
  ASSUME NEW k \in Nat, Shape(k), UNCHANGED Counted
  PROVE  Shape(k)'
BY DEF Shape, Counted, Sending, Exited

LEMMA OfferShape ==
  ASSUME ShapeTypes, NEW k \in Nat, Shape(k), shutdowns = 0, OfferSlot
  PROVE  \E m \in Nat : Shape(m)'
<1> USE DEF dispatcher, history, workers
<1>1. /\ Len(queue) \in Nat /\ k <= Len(queue)
      /\ Cardinality(Sending) \in Nat /\ Cardinality(Exited) \in Nat
      /\ k \in 0..Len(queue)
      BY WorkersFinite DEF Shape, ShapeTypes
<1>2. /\ opened = sent + dropped + crashed + k + Cardinality(Sending)
      /\ 0 = Len(queue) - k + Cardinality(Exited)
      BY DEF Shape
<1>3. k = Len(queue) /\ Cardinality(Exited) = 0  BY <1>1, <1>2
<1>4. Exited = {}  BY <1>3, WorkersFinite, FS_EmptySet
<1>5. /\ opened' = opened + 1
      /\ UNCHANGED << worker, sent, crashed, shutdowns >>
      BY DEF OfferSlot, RoomLeft
<1>6. Sending' = Sending /\ Exited' = {}  BY <1>4, <1>5 DEF Sending, Exited
<1>7. CASE Len(queue) < Capacity
  <2>1. queue' = Append(queue, "slot") /\ dropped' = dropped
        BY <1>7 DEF OfferSlot, RoomLeft
  <2>2. queue \in Seq({"slot", "shutdown"})  BY DEF ShapeTypes
  <2>3. /\ Len(queue') = Len(queue) + 1
        /\ queue'[Len(queue) + 1] = "slot"
        /\ \A i \in 1..Len(queue) : queue'[i] = queue[i]
        BY <2>1, <2>2
  <2>4. \A i \in 1..Len(queue') : queue'[i] = "slot"
    <3>1. \A i \in 1..Len(queue) : queue[i] = "slot"
          BY <1>3 DEF Shape
    <3>2. QED  BY <1>1, <2>3, <3>1
  <2>5. opened' = sent' + dropped' + crashed' + (k + 1) + Cardinality(Sending')
        BY <1>1, <1>2, <1>5, <1>6, <2>1 DEF ShapeTypes
  <2>6. shutdowns' = Len(queue') - (k + 1) + Cardinality(Exited')
        BY <1>1, <1>3, <1>4, <1>5, <1>6, <2>3
  <2>7. k + 1 \in 0..Len(queue')
        /\ \A i \in 1..Len(queue') : i <= k + 1
        BY <1>1, <1>3, <2>3
  <2>8. \A i \in 1..Len(queue') :
          queue'[i] = (IF i <= k + 1 THEN "slot" ELSE "shutdown")
        BY <2>4, <2>7
  <2>9. Shape(k + 1)'  BY <1>6, <2>5, <2>6, <2>7, <2>8 DEF Shape
  <2>10. QED  BY <2>9
<1>8. CASE ~(Len(queue) < Capacity)
  <2>1. queue' = queue /\ dropped' = dropped + 1  BY <1>8 DEF OfferSlot, RoomLeft
  <2>2. opened' = sent' + dropped' + crashed' + k + Cardinality(Sending')
        BY <1>1, <1>2, <1>5, <1>6, <2>1 DEF ShapeTypes
  <2>3. Shape(k)'  BY <1>4, <1>5, <1>6, <2>1, <2>2 DEF Shape
  <2>4. QED  BY <2>3
<1>9. QED  BY <1>7, <1>8

LEMMA PutShape ==
  ASSUME ShapeTypes, NEW k \in Nat, Shape(k), PutShutdown
  PROVE  Shape(k)'
<1> USE DEF dispatcher, history, workers
<1>1. /\ queue' = Append(queue, "shutdown") /\ shutdowns' = shutdowns + 1
      /\ UNCHANGED << worker, opened, sent, dropped, crashed >>
      BY DEF PutShutdown, PutSentinel, RoomLeft
<1>2. queue \in Seq({"slot", "shutdown"}) /\ Len(queue) \in Nat
      BY DEF ShapeTypes
<1>3. /\ Len(queue') = Len(queue) + 1
      /\ queue'[Len(queue) + 1] = "shutdown"
      /\ \A i \in 1..Len(queue) : queue'[i] = queue[i]
      BY <1>1, <1>2
<1>4. Sending' = Sending /\ Exited' = Exited  BY <1>1 DEF Sending, Exited
<1>5. k \in 0..Len(queue')  BY <1>2, <1>3 DEF Shape
<1>6. \A i \in 1..Len(queue') :
        queue'[i] = (IF i <= k THEN "slot" ELSE "shutdown")
  <2>1. TAKE i \in 1..Len(queue')
  <2>2. CASE i \in 1..Len(queue)  BY <1>3, <2>2 DEF Shape
  <2>3. CASE i = Len(queue) + 1
    <3>1. ~(i <= k)  BY <1>2, <2>3 DEF Shape
    <3>2. QED  BY <1>3, <2>3, <3>1
  <2>4. QED  BY <1>2, <1>3, <2>2, <2>3
<1>7. shutdowns' = Len(queue') - k + Cardinality(Exited')
  <2>1. shutdowns = Len(queue) - k + Cardinality(Exited)  BY DEF Shape
  <2>2. Cardinality(Exited) \in Nat  BY WorkersFinite
  <2>3. QED  BY <1>1, <1>2, <1>3, <1>4, <2>1, <2>2
<1>8. QED  BY <1>1, <1>4, <1>5, <1>6, <1>7 DEF Shape

LEMMA GetShape ==
  ASSUME ShapeTypes, NEW k \in Nat, Shape(k), NEW w \in Workers, Get(w)
  PROVE  \E m \in Nat : Shape(m)'
<1> USE DEF dispatcher, history, workers
<1>1. /\ worker[w] = "get" /\ queue # <<>> /\ queue' = Tail(queue)
      /\ worker' = [worker EXCEPT ![w] =
                      IF Head(queue) = "shutdown" THEN "exited" ELSE "send"]
      /\ UNCHANGED << opened, sent, dropped, crashed, shutdowns >>
      BY DEF Get
<1>2. /\ queue \in Seq({"slot", "shutdown"}) /\ Len(queue) \in Nat
      /\ worker \in [Workers -> {"get", "send", "exited"}]
      BY DEF ShapeTypes
<1>3. /\ Len(queue') = Len(queue) - 1 /\ Len(queue) >= 1
      /\ \A i \in 1..Len(queue') : queue'[i] = queue[i + 1]
      /\ Head(queue) = queue[1]
      BY <1>1, <1>2
<1>4. /\ k \in 0..Len(queue)
      /\ \A i \in 1..Len(queue) :
           queue[i] = (IF i <= k THEN "slot" ELSE "shutdown")
      /\ opened = sent + dropped + crashed + k + Cardinality(Sending)
      /\ shutdowns = Len(queue) - k + Cardinality(Exited)
      /\ Exited # {} => k = 0
      BY DEF Shape
<1>5. Cardinality(Sending) \in Nat /\ Cardinality(Exited) \in Nat
      BY WorkersFinite
<1>6. CASE k = 0
  <2>1. Head(queue) = "shutdown"
    <3>1. 1 \in 1..Len(queue) /\ ~(1 <= k)  BY <1>2, <1>3, <1>6
    <3>2. QED  BY <1>3, <1>4, <3>1
  <2>2. worker' = [worker EXCEPT ![w] = "exited"]  BY <1>1, <2>1
  <2>3. Cardinality(Exited') = Cardinality(Exited) + 1 /\ Sending' = Sending
        BY <1>1, <1>2, <2>2, OneMoreExited
  <2>4. \A i \in 1..Len(queue') : queue'[i] = "shutdown"
    <3>1. TAKE i \in 1..Len(queue')
    <3>2. i + 1 \in 1..Len(queue) /\ ~(i + 1 <= k)  BY <1>2, <1>3, <1>6
    <3>3. QED  BY <1>3, <1>4, <3>2
  <2>5. \A i \in 1..Len(queue') :
          queue'[i] = (IF i <= k THEN "slot" ELSE "shutdown")
        BY <1>2, <1>3, <1>6, <2>4
  <2>6. shutdowns' = Len(queue') - k + Cardinality(Exited')
        BY <1>1, <1>2, <1>3, <1>4, <1>5, <2>3
  <2>7. k \in 0..Len(queue')  BY <1>2, <1>3, <1>6
  <2>8. Shape(k)'  BY <1>1, <1>4, <1>6, <2>3, <2>5, <2>6, <2>7 DEF Shape
  <2>9. QED  BY <2>8
<1>7. CASE k > 0
  <2>1. Head(queue) = "slot"
    <3>1. 1 \in 1..Len(queue) /\ 1 <= k  BY <1>2, <1>3, <1>4, <1>7
    <3>2. QED  BY <1>3, <1>4, <3>1
  <2>2. worker' = [worker EXCEPT ![w] = "send"]  BY <1>1, <2>1
  <2>3. Cardinality(Sending') = Cardinality(Sending) + 1 /\ Exited' = Exited
        BY <1>1, <1>2, <2>2, OneMoreSending
  <2>4. \A i \in 1..Len(queue') :
          queue'[i] = (IF i <= k - 1 THEN "slot" ELSE "shutdown")
    <3>1. TAKE i \in 1..Len(queue')
    <3>2. i + 1 \in 1..Len(queue) /\ (i + 1 <= k <=> i <= k - 1)
          BY <1>2, <1>3, <1>4
    <3>3. QED  BY <1>3, <1>4, <3>2
  <2>5. opened' = sent' + dropped' + crashed' + (k - 1) + Cardinality(Sending')
        BY <1>1, <1>4, <1>5, <2>3 DEF ShapeTypes
  <2>6. shutdowns' = Len(queue') - (k - 1) + Cardinality(Exited')
        BY <1>1, <1>2, <1>3, <1>4, <1>5, <2>3
  <2>7. k - 1 \in Nat /\ k - 1 \in 0..Len(queue')
        BY <1>2, <1>3, <1>4, <1>7
  <2>8. Exited' = {}  BY <1>4, <1>7, <2>3
  <2>9. Shape(k - 1)'  BY <2>4, <2>5, <2>6, <2>7, <2>8 DEF Shape
  <2>10. QED  BY <2>7, <2>9
<1>8. QED  BY <1>6, <1>7

LEMMA DoneShape ==
  ASSUME ShapeTypes, NEW k \in Nat, Shape(k), NEW w \in Workers,
         Answered(w) \/ Crashed(w)
  PROVE  Shape(k)'
<1> USE DEF dispatcher, history, workers
<1>1. /\ worker[w] = "send" /\ worker' = [worker EXCEPT ![w] = "get"]
      /\ UNCHANGED << queue, opened, dropped, shutdowns >>
      /\ \/ sent' = sent + 1 /\ crashed' = crashed
         \/ sent' = sent /\ crashed' = crashed + 1
      BY DEF Answered, Crashed
<1>2. Cardinality(Sending) = Cardinality(Sending') + 1 /\ Exited' = Exited
      BY <1>1, OneLessSending DEF ShapeTypes
<1>3. Cardinality(Sending) \in Nat  BY WorkersFinite
<1>4. Cardinality(Sending') = Cardinality(Sending) - 1
  <2>1. Sending' = Sending \ {w} /\ w \in Sending
        BY <1>1 DEF Sending, ShapeTypes
  <2>2. QED  BY <2>1, WorkersFinite, FS_RemoveElement
<1>5. opened' = sent' + dropped' + crashed' + k + Cardinality(Sending')
  <2>1. opened = sent + dropped + crashed + k + Cardinality(Sending)
        BY DEF Shape
  <2>2. QED  BY <1>1, <1>3, <1>4, <2>1 DEF ShapeTypes
<1>6. QED  BY <1>1, <1>2, <1>5 DEF Shape

-----------------------------------------------------------------------------
LEMMA TypesOfShape == TypeOK => ShapeTypes
BY WorkersAssumption DEF TypeOK, ShapeTypes

LEMMA ControlKept ==
  ASSUME TypeOK, Control, [Next]_vars
  PROVE  Control'
<1> USE DEF dispatcher, history, workers, Control, Ended
<1>1. CASE Tick  BY <1>1 DEF Tick
<1>2. CASE Stop  BY <1>2 DEF Stop
<1>3. CASE LeaveLoop  BY <1>3 DEF LeaveLoop, StopSeen
<1>4. CASE BeginSlot  BY <1>4 DEF BeginSlot, StopSeen, Arms
<1>5. CASE ArmAccepted  BY <1>5 DEF ArmAccepted
<1>6. CASE ArmRefused  BY <1>6 DEF ArmRefused
<1>7. CASE OfferSlot
  <2>1. pc = "offer" /\ pc' = "pace" /\ UNCHANGED << shutdowns, failed >>
        BY <1>7 DEF OfferSlot, RoomLeft
  <2>2. QED  BY <2>1
<1>8. CASE Pace
  <2>1. pc = "pace" /\ pc' \in {"sleep", "loop"}
        /\ UNCHANGED << shutdowns, failed >>
        BY <1>8 DEF Pace, NextSlot, MustSleep
  <2>2. QED  BY <2>1
<1>9. CASE WakeUp  BY <1>9 DEF WakeUp
<1>10. CASE PutShutdown
  <2>1. pc = "drain" /\ pc' = "drain" /\ UNCHANGED failed
        BY <1>10 DEF PutShutdown, PutSentinel, RoomLeft
  <2>2. QED  BY <2>1
<1>11. CASE AllShutdownsPut  BY <1>11 DEF AllShutdownsPut
<1>12. CASE PoolExit  BY <1>12 DEF PoolExit, PoolIsOver
<1>13. CASE \E w \in Workers : Work(w)
  <2>1. UNCHANGED << pc, shutdowns, failed >>
        BY <1>13 DEF Work, Get, Answered, Crashed
  <2>2. QED  BY <2>1
<1>14. CASE Over \/ UNCHANGED vars  BY <1>14 DEF Over, vars
<1>15. QED
  BY <1>1, <1>2, <1>3, <1>4, <1>5, <1>6, <1>7, <1>8, <1>9, <1>10, <1>11,
     <1>12, <1>13, <1>14 DEF Next, Dispatch

LEMMA ShapeStep ==
  ASSUME ShapeTypes, Control, NEW k \in Nat, Shape(k), [Next]_vars
  PROVE  \E m \in Nat : Shape(m)'
<1> USE DEF dispatcher, history, workers
<1>1. CASE OfferSlot
  <2>1. shutdowns = 0  BY <1>1 DEF OfferSlot, Control, Ended, RoomLeft
  <2>2. QED  BY <1>1, <2>1, OfferShape
<1>2. CASE PutShutdown
  <2>1. Shape(k)'  BY <1>2, PutShape
  <2>2. QED  BY <2>1
<1>3. CASE \E w \in Workers : Work(w)
  <2>1. PICK w \in Workers : Work(w)  BY <1>3
  <2>2. CASE Get(w)  BY <2>2, GetShape
  <2>3. CASE Answered(w) \/ Crashed(w)
    <3>1. Shape(k)'  BY <2>3, DoneShape
    <3>2. QED  BY <3>1
  <2>4. QED  BY <2>1, <2>2, <2>3 DEF Work
<1>4. CASE UNCHANGED Counted
  <2>1. Shape(k)'  BY <1>4, ShapeKept
  <2>2. QED  BY <2>1
<1>5. OfferSlot \/ PutShutdown \/ (\E w \in Workers : Work(w))
      \/ UNCHANGED Counted
  BY DEF Next, Dispatch, Tick, Stop, LeaveLoop, BeginSlot, ArmAccepted,
         ArmRefused, Pace, WakeUp, AllShutdownsPut, PoolExit, Over, vars,
         Counted, StopSeen, Arms, NextSlot, MustSleep, PoolIsOver
<1>6. QED  BY <1>1, <1>2, <1>3, <1>4, <1>5

(* Leaving the pool: every worker has met a sentinel, so no slot is left and
   every sentinel was taken.                                               *)
LEMMA EmptiedAtExit ==
  ASSUME ShapeTypes, Control, NEW k \in Nat, Shape(k), PoolExit
  PROVE  Emptied'
<1> USE DEF dispatcher, history, workers
<1>1. /\ pc = "join" /\ \A w \in Workers : worker[w] = "exited"
      /\ pc' = (IF failed THEN "raised" ELSE "returned")
      /\ UNCHANGED << queue, worker >>
      BY DEF PoolExit, PoolIsOver
<1>2. SUFFICES ASSUME pc' = "returned"
               PROVE  queue = <<>> /\ Sending = {}
      BY <1>1 DEF Emptied, Sending
<1>3. shutdowns = NumWorkers  BY <1>1, <1>2 DEF Control
<1>4. Exited = Workers /\ Sending = {}  BY <1>1 DEF Exited, Sending
<1>5. NumWorkers \in Nat \ {0} /\ Cardinality(Exited) = NumWorkers
      BY <1>4, WorkersFinite, WorkersAssumption
<1>6. Exited # {}
  <2>1. 1 \in Workers  BY <1>5 DEF Workers
  <2>2. QED  BY <1>4, <2>1
<1>7. k = 0 /\ shutdowns = Len(queue) - k + Cardinality(Exited)
      BY <1>6 DEF Shape
<1>8. queue \in Seq({"slot", "shutdown"}) /\ Len(queue) \in Nat
      BY DEF ShapeTypes
<1>9. Len(queue) = 0  BY <1>3, <1>5, <1>7, <1>8
<1>10. queue = <<>>  BY <1>8, <1>9
<1>11. QED  BY <1>4, <1>10

LEMMA EmptiedKept ==
  ASSUME ShapeTypes, Emptied, [Next]_vars, ~PoolExit
  PROVE  Emptied'
<1> USE DEF dispatcher, history, workers
<1>1. SUFFICES ASSUME pc' = "returned"
               PROVE  queue' = <<>> /\ Sending' = {}
      BY DEF Emptied
<1>2. CASE \E w \in Workers : Work(w)
  <2>1. PICK w \in Workers : Work(w)  BY <1>2
  <2>2. pc' = pc  BY <2>1 DEF Work, Get, Answered, Crashed
  <2>3. queue = <<>> /\ Sending = {}  BY <1>1, <2>2 DEF Emptied
  <2>4. worker[w] # "send"  BY <2>3 DEF Sending
  <2>5. QED  BY <2>1, <2>3, <2>4 DEF Work, Get, Answered, Crashed
<1>3. CASE Over \/ UNCHANGED vars
  <2>1. UNCHANGED << pc, queue, worker >>  BY <1>3 DEF Over, vars
  <2>2. QED  BY <1>1, <2>1 DEF Emptied, Sending
<1>4. CASE Tick \/ Stop \/ Dispatch
  <2>1. CASE Tick \/ Stop
    <3>1. pc \notin Ended /\ pc' = pc  BY <2>1 DEF Tick, Stop
    <3>2. QED  BY <1>1, <3>1 DEF Ended
  <2>2. CASE LeaveLoop \/ BeginSlot \/ ArmAccepted \/ ArmRefused
             \/ OfferSlot \/ Pace \/ WakeUp
             \/ PutShutdown \/ AllShutdownsPut
    <3>1. pc' \in { "loop", "arm", "offer", "pace", "sleep", "drain", "join" }
      BY <2>2 DEF LeaveLoop, BeginSlot, ArmAccepted, ArmRefused, OfferSlot,
                  Pace, WakeUp, PutShutdown, AllShutdownsPut,
                  StopSeen, Arms, RoomLeft, NextSlot, MustSleep, PutSentinel
    <3>2. QED  BY <1>1, <3>1
  <2>3. QED  BY <1>4, <2>1, <2>2 DEF Dispatch
<1>5. QED  BY <1>2, <1>3, <1>4 DEF Next

LEMMA DrainInductive == Spec => []DrainInv
<1> USE DEF dispatcher, history, workers
<1>1. Init => DrainInv
  <2>1. SUFFICES ASSUME Init  PROVE DrainInv
        OBVIOUS
  <2>2. /\ queue = <<>> /\ worker = [w \in Workers |-> "get"]
        /\ opened = 0 /\ sent = 0 /\ dropped = 0 /\ crashed = 0
        /\ shutdowns = 0 /\ pc = "loop" /\ failed = FALSE
        BY <2>1 DEF Init
  <2>3. Sending = {} /\ Exited = {}  BY <2>2 DEF Sending, Exited
  <2>4. Cardinality(Sending) = 0 /\ Cardinality(Exited) = 0
        BY <2>3, FS_EmptySet
  <2>5. Len(queue) = 0  BY <2>2
  <2>6. Shape(0)  BY <2>2, <2>3, <2>4, <2>5 DEF Shape
  <2>7. Control /\ Emptied  BY <2>2 DEF Control, Emptied, Ended
  <2>8. QED  BY <2>6, <2>7 DEF DrainInv
<1>2. TypeOK /\ DrainInv /\ [Next]_vars => DrainInv'
  <2>1. SUFFICES ASSUME TypeOK, DrainInv, [Next]_vars  PROVE DrainInv'
        OBVIOUS
  <2>2. PICK k \in Nat : Shape(k)  BY <2>1 DEF DrainInv
  <2>3. ShapeTypes /\ Control /\ Emptied  BY <2>1, TypesOfShape DEF DrainInv
  <2>4. \E m \in Nat : Shape(m)'  BY <2>1, <2>2, <2>3, ShapeStep
  <2>5. Control'  BY <2>1, <2>3, ControlKept
  <2>6. Emptied'
    <3>1. CASE PoolExit  BY <2>2, <2>3, <3>1, EmptiedAtExit
    <3>2. CASE ~PoolExit  BY <2>1, <2>3, <3>2, EmptiedKept
    <3>3. QED  BY <3>1, <3>2
  <2>7. QED  BY <2>4, <2>5, <2>6 DEF DrainInv
<1>3. QED  BY <1>1, <1>2, TypeCorrect, PTL DEF Spec

(* When run() returns, the queue is empty and every slot it opened was sent,
   dropped or lost to a broken transport, whatever the number of workers,
   the order of their steps and the moment of a stop.                      *)
THEOREM NothingLeftBehind == Spec => []NothingAbandoned
<1>1. TypeOK /\ DrainInv => NothingAbandoned
  <2>1. SUFFICES ASSUME TypeOK, DrainInv, pc = "returned"
                 PROVE  queue = <<>> /\ opened = sent + dropped + crashed
        BY DEF NothingAbandoned
  <2>2. queue = <<>> /\ Sending = {}  BY <2>1 DEF DrainInv, Emptied
  <2>3. PICK k \in Nat : Shape(k)  BY <2>1 DEF DrainInv
  <2>4. Len(queue) = 0 /\ Cardinality(Sending) = 0  BY <2>2, FS_EmptySet
  <2>5. /\ k \in 0..Len(queue)
        /\ opened = sent + dropped + crashed + k + Cardinality(Sending)
        BY <2>3 DEF Shape
  <2>6. k = 0  BY <2>4, <2>5
  <2>7. /\ opened \in Nat /\ sent \in Nat /\ dropped \in Nat
        /\ crashed \in Nat
        BY <2>1 DEF TypeOK
  <2>8. opened = sent + dropped + crashed  BY <2>4, <2>5, <2>6, <2>7
  <2>9. QED  BY <2>2, <2>8
<1>2. QED  BY <1>1, DrainInductive, TypeCorrect, PTL

(* What the end of a run rests on: nobody waits for what cannot come.  While
   put blocks on a full queue some worker is there to take from it; and when
   the pool is left, unless by arm's exception, the queue is not empty before
   every worker has met a sentinel of its own.                             *)
NobodyIsStranded ==
  /\ ~RoomLeft => \E w \in Workers : worker[w] # "exited"
  /\ pc = "join" /\ ~failed /\ queue = <<>> => PoolIsOver

(* Whatever the number of workers, the size of the queue and the moment of a
   stop: run() does not hang with a worker or the dispatcher blocked on the
   queue, but when a fault call failed.                                    *)
THEOREM NoWaitIsInVain == Spec => []NobodyIsStranded
<1>1. TypeOK /\ DrainInv => NobodyIsStranded
  <2>1. SUFFICES ASSUME TypeOK, DrainInv  PROVE NobodyIsStranded  OBVIOUS
  <2>2. PICK k \in Nat : Shape(k)  BY <2>1 DEF DrainInv
  <2>3. /\ k \in 0..Len(queue) /\ Len(queue) \in Nat
        /\ shutdowns = Len(queue) - k + Cardinality(Exited)
        /\ Exited # {} => k = 0
        /\ shutdowns \in 0..NumWorkers
        BY <2>1, <2>2 DEF Shape, TypeOK
  <2>4. /\ IsFiniteSet(Workers) /\ Cardinality(Workers) = NumWorkers
        /\ IsFiniteSet(Exited) /\ Cardinality(Exited) \in Nat
        /\ NumWorkers \in Nat \ {0} /\ Capacity \in Nat \ {0}
        BY WorkersFinite, WorkersAssumption, CapacityType
  <2>5. ASSUME ~RoomLeft, \A w \in Workers : worker[w] = "exited"  PROVE FALSE
    <3>1. Exited = Workers  BY <2>5 DEF Exited
    <3>2. Cardinality(Exited) = NumWorkers /\ Exited # {}
          BY <2>4, <3>1, FS_EmptySet
    <3>3. Len(queue) = 0  BY <2>3, <2>4, <3>2
    <3>4. QED  BY <2>4, <2>5, <3>3 DEF RoomLeft
  <2>6. ASSUME pc = "join", ~failed, queue = <<>>  PROVE PoolIsOver
    <3>1. shutdowns = NumWorkers  BY <2>1, <2>6 DEF DrainInv, Control
    <3>2. Len(queue) = 0 /\ k = 0  BY <2>3, <2>6
    <3>3. Cardinality(Exited) = Cardinality(Workers)  BY <2>3, <2>4, <3>1, <3>2
    <3>4. Exited \subseteq Workers  BY DEF Exited
    <3>5. Exited = Workers  BY <2>4, <3>3, <3>4, FS_Subset
    <3>6. QED  BY <3>5 DEF Exited, PoolIsOver
  <2>7. QED  BY <2>5, <2>6 DEF NobodyIsStranded
<1>2. QED  BY <1>1, DrainInductive, TypeCorrect, PTL
=============================================================================
