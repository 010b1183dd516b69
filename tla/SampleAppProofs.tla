--------------------------- MODULE SampleAppProofs ---------------------------
(***************************************************************************)
(* The service's metrics and faults, for every number of requests at a     *)
(* time, every fault and every order of steps.                             *)
(***************************************************************************)
EXTENDS SampleApp, FiniteSetTheorems, TLAPS

(* The requests the gauge is to count.                                     *)
Open == { r \in Requests : req[r].pc \in InProgress }

Gauge == inFlight = Cardinality(Open)

(* What TypeOK needs to be preserved: delays stay above zero, a request
   without a route never sleeps.                                           *)
Shape ==
  /\ latency.jitter <= latency.delay
  /\ \A r \in Requests : req[r].pc = "sleep" => req[r].kind # "unmatched"

Inv == TypeOK /\ Shape /\ Gauge

-----------------------------------------------------------------------------
(* What one request does to a set of requests chosen by their state.       *)
LEMMA AtMoves ==
  ASSUME NEW r \in Requests, NEW p, NEW s,
         \A q \in Requests \ {r} : req'[q] = req[q]
  PROVE  At(p, s)' = IF req'[r].pc = p /\ req'[r].status = s
                       THEN At(p, s) \cup {r} ELSE At(p, s) \ {r}
BY DEF At

LEMMA OpenMoves ==
  ASSUME NEW r \in Requests,
         \A q \in Requests \ {r} : req'[q] = req[q]
  PROVE  Open' = IF req'[r].pc \in InProgress THEN Open \cup {r} ELSE Open \ {r}
BY DEF Open, InProgress

(* Sets of requests are finite, and a request more or less counts as one.  *)
LEMMA Counting ==
  ASSUME NEW S, S \subseteq Requests, NEW r \in Requests
  PROVE  /\ IsFiniteSet(S) /\ Cardinality(S) \in Nat
         /\ r \in S => /\ Cardinality(S \cup {r}) = Cardinality(S)
                       /\ Cardinality(S \ {r}) = Cardinality(S) - 1
                       /\ Cardinality(S) > 0
         /\ r \notin S => /\ Cardinality(S \cup {r}) = Cardinality(S) + 1
                          /\ Cardinality(S \ {r}) = Cardinality(S)
<1>1. IsFiniteSet(S)  BY BoundsAssumption, FS_Subset
<1>2. Cardinality(S) \in Nat  BY <1>1, FS_CardinalityType
<1>3. Cardinality(S \cup {r}) = IF r \in S THEN Cardinality(S) ELSE Cardinality(S) + 1
  BY <1>1, FS_AddElement
<1>4. Cardinality(S \ {r}) = IF r \in S THEN Cardinality(S) - 1 ELSE Cardinality(S)
  BY <1>1, FS_RemoveElement
<1>5. Cardinality(S \ {r}) \in Nat
  BY <1>1, FS_RemoveElement, FS_CardinalityType
<1>6. r \in S => Cardinality(S) > 0  BY <1>2, <1>4, <1>5
<1>7. QED  BY <1>1, <1>2, <1>3, <1>4, <1>6

-----------------------------------------------------------------------------
(* The invariant holds at the start.                                       *)
LEMMA InitInv == Init => Inv
<1>1. SUFFICES ASSUME Init  PROVE Inv  OBVIOUS
<1>2. TypeOK
  BY <1>1, BoundsAssumption DEF Init, InitFaults, NoLatency, NoErrors, TypeOK,
     RequestStates, Idle, Kinds, Statuses, InProgress, Zeros
<1>3. Shape  BY <1>1 DEF Init, InitFaults, NoLatency, Shape, Idle
<1>4. Open = {}  BY <1>1 DEF Init, Idle, Open, InProgress
<1>5. QED  BY <1>1, <1>2, <1>3, <1>4, FS_EmptySet DEF Inv, Gauge, Init

LEMMA IdleIsTyped ==
  Idle \in RequestStates /\ Idle.pc = "idle" /\ Idle.kind = "items"
BY BoundsAssumption DEF Idle, RequestStates, InProgress, Kinds, Statuses

LEMMA DelaysAreNat ==
  ASSUME Inv  PROVE \A d \in Delays : d \in Nat
BY DEF Inv, TypeOK, Shape, Delays

(* A step of one request that stays in the middleware, and leaves the
   faults, the gauge and the history alone, keeps the invariant.           *)
LEMMA UnderWay ==
  ASSUME Inv, NEW r \in Requests,
         NEW v \in RequestStates, req' = [req EXCEPT ![r] = v],
         req[r].pc \in InProgress, v.pc \in InProgress,
         v.pc = "sleep" => v.kind # "unmatched",
         orders' \in Nat,
         UNCHANGED << faults, inFlight, requests, durations, slow, history >>
  PROVE  Inv'
<1>1. TypeOK'  BY DEF Inv, TypeOK, faults, history
<1>2. Shape'  BY DEF Inv, TypeOK, Shape, faults
<1>3. Open' = Open
  BY OpenMoves DEF Inv, TypeOK, Open
<1>4. QED  BY <1>1, <1>2, <1>3 DEF Inv, Gauge

LEMMA ServeInv ==
  ASSUME Inv, NEW r \in Requests, Serve(r)
  PROVE  Inv'
<1>0. req[r] \in RequestStates /\ orders \in Nat  BY DEF Inv, TypeOK
<1>1. CASE NoRoute(r)
  <2> DEFINE v == [req[r] EXCEPT !.pc = "respond", !.status = "rejected"]
  <2>1. v \in RequestStates  BY <1>0 DEF RequestStates, InProgress, Statuses
  <2>2. req' = [req EXCEPT ![r] = v]  BY <1>0, <1>1 DEF NoRoute, RequestStates
  <2>3. v.pc = "respond"  BY <1>0 DEF RequestStates
  <2>4. req[r].pc \in InProgress /\ v.pc \in InProgress
    BY <1>1, <2>3 DEF NoRoute, InProgress
  <2>5. orders' \in Nat /\ UNCHANGED << faults, inFlight, requests, durations, slow, history >>
    BY <1>0, <1>1 DEF NoRoute, metrics
  <2> HIDE DEF v
  <2>6. QED  BY <2>1, <2>2, <2>3, <2>4, <2>5, UnderWay
<1>2. CASE BeginSleep(r)
  <2>1. PICK d \in Delays :
          req' = [req EXCEPT ![r].pc = "sleep", ![r].wait = d, ![r].drawn = d]
    BY <1>2 DEF BeginSleep
  <2>2. d \in Nat  BY <2>1, DelaysAreNat
  <2> DEFINE v == [req[r] EXCEPT !.pc = "sleep", !.wait = d, !.drawn = d]
  <2>3. v \in RequestStates  BY <1>0, <2>2 DEF RequestStates, InProgress
  <2>4. req' = [req EXCEPT ![r] = v]  BY <1>0, <2>1 DEF RequestStates
  <2>5. v.pc = "sleep" /\ v.kind # "unmatched"
    BY <1>0, <1>2 DEF RequestStates, BeginSleep
  <2>6. req[r].pc \in InProgress /\ v.pc \in InProgress
    BY <1>2, <2>5 DEF BeginSleep, InProgress
  <2>7. orders' \in Nat /\ UNCHANGED << faults, inFlight, requests, durations, slow, history >>
    BY <1>0, <1>2 DEF BeginSleep, metrics
  <2> HIDE DEF v
  <2>8. QED  BY <2>3, <2>4, <2>5, <2>6, <2>7, UnderWay
<1>3. CASE EndSleep(r)
  <2>1. PICK fail \in BOOLEAN :
          req' = [req EXCEPT ![r] =
                    IF fail \/ req[r].kind # "order"
                      THEN [@ EXCEPT !.pc = "respond",
                              !.status = IF fail THEN "failed" ELSE Outcome[req[r].kind]]
                      ELSE [@ EXCEPT !.pc = "reserve"]]
    BY <1>3 DEF EndSleep, Draws
  <2> DEFINE s == IF fail THEN "failed" ELSE Outcome[req[r].kind]
             v == IF fail \/ req[r].kind # "order"
                    THEN [req[r] EXCEPT !.pc = "respond", !.status = s]
                    ELSE [req[r] EXCEPT !.pc = "reserve"]
  <2>2. req[r].kind \in Kinds \ {"unmatched"}
    BY <1>0, <1>3 DEF Inv, Shape, EndSleep, RequestStates
  <2>3. fail \/ req[r].kind # "order" => s \in Statuses
    BY <2>2 DEF Outcome, Kinds, Statuses
  <2>4. req' = [req EXCEPT ![r] = v]  BY <2>1
  <2> HIDE DEF s
  <2>5. v \in RequestStates  BY <1>0, <2>3 DEF RequestStates, InProgress
  <2>6. v.pc \in {"respond", "reserve"}  BY <1>0 DEF RequestStates
  <2>7. req[r].pc \in InProgress /\ v.pc \in InProgress
    BY <1>3, <2>6 DEF EndSleep, InProgress
  <2>8. orders' \in Nat /\ UNCHANGED << faults, inFlight, requests, durations, slow, history >>
    BY <1>0, <1>3 DEF EndSleep, metrics
  <2> HIDE DEF v
  <2>9. QED  BY <2>4, <2>5, <2>6, <2>7, <2>8, UnderWay
<1>4. CASE Reserve(r)
  <2> DEFINE v == [req[r] EXCEPT !.pc = "respond", !.status = "created"]
  <2>1. v \in RequestStates  BY <1>0 DEF RequestStates, InProgress, Statuses
  <2>2. req' = [req EXCEPT ![r] = v]  BY <1>0, <1>4 DEF Reserve, RequestStates,
                                                        CountOrder
  <2>3. v.pc = "respond"  BY <1>0 DEF RequestStates
  <2>4. req[r].pc \in InProgress /\ v.pc \in InProgress
    BY <1>4, <2>3 DEF Reserve, InProgress, CountOrder
  <2>5. orders' \in Nat /\ UNCHANGED << faults, inFlight, requests, durations, slow, history >>
    BY <1>0, <1>4 DEF Reserve, CountOrder
  <2> HIDE DEF v
  <2>6. QED  BY <2>1, <2>2, <2>3, <2>4, <2>5, UnderWay
<1>5. CASE Finish(r)
  <2> DEFINE v == [Idle EXCEPT !.pc = "sent", !.status = req[r].status]
  <2>1. v \in RequestStates /\ v.pc = "sent"
    BY <1>0, IdleIsTyped DEF RequestStates, InProgress
  <2>2. req' = [req EXCEPT ![r] = v]  BY <1>5 DEF Finish, Leave
  <2>3. req[r].status \in Statuses /\ req[r].pc = "respond"
    BY <1>0, <1>5 DEF RequestStates, Finish, Leave
  <2> HIDE DEF v
  <2>4. r \in Open /\ Open' = Open \ {r}
    BY <2>1, <2>2, <2>3, OpenMoves DEF Inv, TypeOK, Open, InProgress
  <2>5. Cardinality(Open') = Cardinality(Open) - 1 /\ Cardinality(Open) > 0
    BY <2>4, Counting DEF Open
  <2>6. Gauge' /\ inFlight' \in Nat
    BY <1>5, <2>5 DEF Finish, Inv, TypeOK, Gauge, Leave
  <2>7. /\ requests' \in [Statuses -> Nat]
        /\ durations' \in Nat /\ slow' \in Nat /\ delayed' \in Nat
    BY <1>5, <2>3 DEF Finish, Observe, Inv, TypeOK, Leave
  <2>8. TypeOK'
    BY <1>5, <2>1, <2>2, <2>6, <2>7 DEF Finish, faults, Inv, TypeOK, Leave
  <2>9. Shape'  BY <1>5, <2>1, <2>2 DEF Finish, faults, Inv, TypeOK, Shape,
                                        Leave
  <2>10. QED  BY <2>6, <2>8, <2>9 DEF Inv
<1>6. CASE Answer(r)
  <2>1. req' = [req EXCEPT ![r] = Idle] /\ req[r].pc = "sent"
    BY <1>6 DEF Answer
  <2>2. Open' = Open
    BY <2>1, IdleIsTyped, OpenMoves DEF Inv, TypeOK, Open, InProgress
  <2>3. Gauge'  BY <1>6, <2>2 DEF Answer, metrics, Inv, Gauge
  <2>4. answered' \in [Statuses -> Nat]
    BY <1>0, <1>6 DEF Answer, Inv, TypeOK, RequestStates
  <2>5. TypeOK'
    BY <1>6, <2>1, <2>4, IdleIsTyped DEF Answer, faults, metrics, Inv, TypeOK
  <2>6. Shape'
    BY <1>6, <2>1, IdleIsTyped DEF Answer, faults, Inv, TypeOK, Shape
  <2>7. QED  BY <2>3, <2>5, <2>6 DEF Inv
<1>7. QED  BY <1>1, <1>2, <1>3, <1>4, <1>5, <1>6 DEF Serve

LEMMA ArriveInv ==
  ASSUME Inv, NEW r \in Requests, NEW k \in Kinds, Arrive(r, k)
  PROVE  Inv'
<1> DEFINE v == [Idle EXCEPT !.pc = "routing", !.kind = k]
<1>1. v \in RequestStates /\ v.pc = "routing"
  BY IdleIsTyped DEF RequestStates, InProgress
<1>2. req' = [req EXCEPT ![r] = v] /\ req[r].pc = "idle"  BY DEF Arrive
<1> HIDE DEF v
<1>3. r \notin Open /\ Open' = Open \cup {r}
  BY <1>1, <1>2, OpenMoves DEF Inv, TypeOK, Open, InProgress
<1>4. Cardinality(Open') = Cardinality(Open) + 1  BY <1>3, Counting DEF Open
<1>5. Gauge' /\ inFlight' \in Nat  BY <1>4 DEF Arrive, Inv, TypeOK, Gauge
<1>6. TypeOK'  BY <1>1, <1>2, <1>5 DEF Arrive, faults, Inv, TypeOK
<1>7. Shape'  BY <1>1, <1>2 DEF Arrive, faults, Inv, TypeOK, Shape
<1>8. QED  BY <1>5, <1>6, <1>7 DEF Inv

(* The operator's calls: what they leave of the faults is well formed, and
   the requests and their metrics are as they were.                        *)
LEMMA ControlInv ==
  ASSUME Inv, Control
  PROVE  Inv'
<1>1. /\ latency' \in [delay : Nat, jitter : Nat, left : Nat]
      /\ latency'.jitter <= latency'.delay
  BY FaultsAreValid DEF Inv, TypeOK, Shape, Control, SetLatencyFault, SetErrorFault, ClearFaults,
     InjectLatency, InjectErrors, Clear, NoLatency
<1>2. errors' \in [ratio : {"never", "sometimes", "always"}, left : Nat]
  BY FaultsAreValid DEF Inv, TypeOK, Control, SetLatencyFault, SetErrorFault, ClearFaults,
     InjectLatency, InjectErrors, Clear, NoErrors
<1>3. UNCHANGED << req, metrics, arrived, answered, delayed, restarts >>
  BY DEF Control, SetLatencyFault, SetErrorFault, ClearFaults
<1>4. /\ injected' \in { injected \cup {"latency"}, injected \cup {"errors"}, {} }
      /\ injections' \in { injections, injections + 1 }
  BY DEF Control, SetLatencyFault, SetErrorFault, ClearFaults
<1>5. injected' \subseteq {"latency", "errors"} /\ injections' \in Nat
  BY <1>4 DEF Inv, TypeOK
<1>6. TypeOK'  BY <1>1, <1>2, <1>3, <1>5 DEF Inv, TypeOK, metrics
<1>7. Shape' /\ Gauge'
  BY <1>1, <1>3 DEF Inv, Shape, Gauge, Open, metrics
<1>8. QED  BY <1>6, <1>7 DEF Inv

LEMMA TickInv ==
  ASSUME Inv, Tick
  PROVE  Inv'
<1>1. \A r \in Requests :
        /\ req'[r] \in RequestStates
        /\ req'[r].pc = req[r].pc /\ req'[r].kind = req[r].kind
  <2>1. SUFFICES ASSUME NEW r \in Requests
                 PROVE  /\ req'[r] \in RequestStates
                        /\ req'[r].pc = req[r].pc /\ req'[r].kind = req[r].kind
    OBVIOUS
  <2>2. req[r] \in RequestStates  BY DEF Inv, TypeOK
  <2>3. req'[r] = IF req[r].pc \notin InProgress THEN req[r]
                  ELSE [req[r] EXCEPT !.wait = IF @ > 0 THEN @ - 1 ELSE 0,
                                      !.age  = IF @ < AgeCap THEN @ + 1 ELSE @]
    BY DEF Tick, Older
  <2>4. CASE req[r].pc \notin InProgress  BY <2>2, <2>3, <2>4
  <2>5. CASE req[r].pc \in InProgress
    <3> DEFINE w == IF req[r].wait > 0 THEN req[r].wait - 1 ELSE 0
               a == IF req[r].age < AgeCap THEN req[r].age + 1 ELSE req[r].age
    <3>1. w \in Nat /\ a \in 0..AgeCap  BY <2>2, BoundsAssumption DEF RequestStates
    <3>2. req'[r] = [req[r] EXCEPT !.wait = w, !.age = a]  BY <2>2, <2>3, <2>5
    <3> HIDE DEF w, a
    <3>3. QED  BY <2>2, <3>1, <3>2 DEF RequestStates
  <2>6. QED  BY <2>4, <2>5
<1>2. /\ latency' \in [delay : Nat, jitter : Nat, left : Nat]
      /\ latency'.jitter <= latency'.delay
      /\ errors' \in [ratio : {"never", "sometimes", "always"}, left : Nat]
  <2> DEFINE l == IF latency.left > 0 THEN latency.left - 1 ELSE 0
             e == IF errors.left > 0 THEN errors.left - 1 ELSE 0
  <2>1. latency' = [latency EXCEPT !.left = l] /\ errors' = [errors EXCEPT !.left = e]
    BY DEF Tick, Expire, Older
  <2>2. l \in Nat /\ e \in Nat  BY DEF Inv, TypeOK
  <2> HIDE DEF l, e
  <2>3. QED  BY <2>1, <2>2 DEF Inv, TypeOK, Shape
<1>3. req' \in [Requests -> RequestStates]  BY <1>1 DEF Tick, Older
<1>4. TypeOK'  BY <1>2, <1>3 DEF Tick, metrics, history, Inv, TypeOK, Older
<1>5. Shape'  BY <1>1, <1>2 DEF Inv, Shape
<1>6. Open' = Open  BY <1>1 DEF Open
<1>7. QED  BY <1>4, <1>5, <1>6 DEF Tick, metrics, Inv, Gauge, Older

LEMMA RestartInv ==
  ASSUME Inv, Restart
  PROVE  Inv'
<1>1. TypeOK'
  BY IdleIsTyped DEF Restart, Clear, NoLatency, NoErrors, Zeros, Inv, TypeOK
<1>2. Shape'  BY IdleIsTyped DEF Restart, Clear, NoLatency, Shape
<1>3. Open' = {}  BY IdleIsTyped DEF Restart, Open, InProgress
<1>4. QED  BY <1>1, <1>2, <1>3, FS_EmptySet DEF Restart, Inv, Gauge

LEMMA Invariant == Spec => []Inv
<1>1. Inv /\ [Next]_vars => Inv'
  <2>1. SUFFICES ASSUME Inv, [Next]_vars  PROVE Inv'  OBVIOUS
  <2>2. CASE \E r \in Requests : Serve(r) \/ \E k \in Kinds : Arrive(r, k)
    BY <2>1, <2>2, ServeInv, ArriveInv
  <2>3. CASE Control  BY <2>1, <2>3, ControlInv
  <2>4. CASE Tick  BY <2>1, <2>4, TickInv
  <2>5. CASE Restart  BY <2>1, <2>5, RestartInv
  <2>6. CASE UNCHANGED vars
    BY <2>1, <2>6 DEF vars, faults, metrics, history, Inv, TypeOK, Shape, Gauge, Open
  <2>7. QED  BY <2>1, <2>2, <2>3, <2>4, <2>5, <2>6 DEF Next
<1>2. QED  BY <1>1, InitInv, PTL DEF Spec

(* Whatever the order of the steps, the state is well typed: no metric and
   no gauge is ever below zero.                                            *)
THEOREM TypeCorrect == Spec => []TypeOK
<1>1. Inv => TypeOK  BY DEF Inv
<1>2. QED  BY <1>1, Invariant, PTL

-----------------------------------------------------------------------------
(* Counting one more request of status s adds one to the sum of the series. *)
LEMMA CountedGrows ==
  ASSUME requests \in [Statuses -> Nat], NEW s \in Statuses,
         requests' = [requests EXCEPT ![s] = @ + 1]
  PROVE  Counted' = Counted + 1
<1>1. \A t \in Statuses : requests[t] \in Nat
                       /\ requests'[t] = IF t = s THEN requests[t] + 1 ELSE requests[t]
  OBVIOUS
<1>2. "ok" \in Statuses /\ "created" \in Statuses /\ "rejected" \in Statuses
      /\ "failed" \in Statuses /\ s \in {"ok", "created", "rejected", "failed"}
  BY DEF Statuses
<1>3. QED  BY <1>1, <1>2 DEF Counted

(* Every request is in the gauge or in one series of the counter, and the
   counter and the histogram agree, however requests and faults interleave. *)
THEOREM CountedOnce == Spec => []EveryRequestIsCountedOnce
<1>1. Init => EveryRequestIsCountedOnce
  BY DEF Init, Zeros, Statuses, EveryRequestIsCountedOnce, Counted
<1>2. Inv /\ EveryRequestIsCountedOnce /\ [Next]_vars => EveryRequestIsCountedOnce'
  <2>1. SUFFICES ASSUME Inv, EveryRequestIsCountedOnce, [Next]_vars
                 PROVE  EveryRequestIsCountedOnce'
    OBVIOUS
  <2>2. inFlight \in Nat /\ arrived \in Nat /\ durations \in Nat
        /\ requests \in [Statuses -> Nat]
    BY <2>1 DEF Inv, TypeOK
  <2>3. ASSUME NEW r \in Requests, NEW k \in Kinds, Arrive(r, k)
        PROVE  EveryRequestIsCountedOnce'
    <3>1. arrived' = arrived + 1 /\ inFlight' = inFlight + 1
          /\ UNCHANGED << requests, durations >>
      BY <2>3 DEF Arrive
    <3>2. Counted' = Counted  BY <3>1 DEF Counted
    <3>3. arrived = durations + inFlight /\ durations = Counted
      BY <2>1 DEF EveryRequestIsCountedOnce
    <3>4. QED  BY <2>2, <3>1, <3>2, <3>3 DEF EveryRequestIsCountedOnce
  <2>4. ASSUME NEW r \in Requests, Finish(r)
        PROVE  EveryRequestIsCountedOnce'
    <3>1. req[r].status \in Statuses  BY <2>1 DEF Inv, TypeOK, RequestStates
    <3>2. /\ requests' = [requests EXCEPT ![req[r].status] = @ + 1]
          /\ durations' = durations + 1 /\ inFlight' = inFlight - 1
          /\ arrived' = arrived
      BY <2>4 DEF Finish, Observe, Leave
    <3>3. Counted' = Counted + 1  BY <2>2, <3>1, <3>2, CountedGrows
    <3>4. arrived = durations + inFlight /\ durations = Counted
      BY <2>1 DEF EveryRequestIsCountedOnce
    <3>5. QED  BY <2>2, <3>2, <3>3, <3>4 DEF EveryRequestIsCountedOnce
  <2>5. CASE Restart
    BY <2>5 DEF Restart, Zeros, Statuses, EveryRequestIsCountedOnce, Counted
  <2>6. CASE UNCHANGED << arrived, inFlight, requests, durations >>
    BY <2>1, <2>6 DEF EveryRequestIsCountedOnce, Counted
  <2>7. CASE \E r \in Requests : NoRoute(r) \/ BeginSleep(r) \/ EndSleep(r)
                                \/ Reserve(r) \/ Answer(r)
    BY <2>6, <2>7 DEF NoRoute, BeginSleep, EndSleep, Reserve, Answer, metrics, history,
                      CountOrder
  <2>8. CASE Control \/ Tick \/ UNCHANGED vars
    BY <2>6, <2>8 DEF Control, SetLatencyFault, SetErrorFault, ClearFaults, Tick, vars,
       metrics, history, Older
  <2>9. QED  BY <2>1, <2>3, <2>4, <2>5, <2>7, <2>8 DEF Next, Serve
<1>3. QED  BY <1>1, <1>2, Invariant, PTL DEF Spec

-----------------------------------------------------------------------------
(* A step of one request leaves the state of the others alone.             *)
LEMMA OthersStay ==
  ASSUME Inv, NEW r \in Requests,
         Serve(r) \/ \E k \in Kinds : Arrive(r, k)
  PROVE  \A q \in Requests \ {r} : req'[q] = req[q]
<1>1. req \in [Requests -> RequestStates]  BY DEF Inv, TypeOK
<1>2. QED
  BY <1>1 DEF Serve, NoRoute, BeginSleep, EndSleep, Reserve, Finish, Answer, Arrive,
              CountOrder, Leave

(* Where a request goes, and with what status.                             *)
LEMMA Goes ==
  ASSUME Inv, NEW r \in Requests
  PROVE  /\ \A k \in Kinds : Arrive(r, k) =>
                req[r].pc = "idle" /\ req'[r].pc = "routing"
         /\ NoRoute(r) => /\ req[r].pc = "routing" /\ req'[r].pc = "respond"
                          /\ req'[r].status = "rejected"
         /\ BeginSleep(r) => req[r].pc = "routing" /\ req'[r].pc = "sleep"
         /\ EndSleep(r) => /\ req[r].pc = "sleep"
                           /\ \/ req'[r].pc = "reserve"
                              \/ /\ req'[r].pc = "respond"
                                 /\ req'[r].status \in {"ok", "rejected", "failed"}
         /\ Reserve(r) => /\ req[r].pc = "reserve" /\ req'[r].pc = "respond"
                          /\ req'[r].status = "created"
         /\ Finish(r) => /\ req[r].pc = "respond" /\ req'[r].pc = "sent"
                         /\ req'[r].status = req[r].status
         /\ Answer(r) => req[r].pc = "sent" /\ req'[r].pc = "idle"
<1>1. req \in [Requests -> RequestStates] /\ req[r] \in RequestStates
  BY DEF Inv, TypeOK
<1>2. \A k \in Kinds : Arrive(r, k) => req[r].pc = "idle" /\ req'[r].pc = "routing"
  BY <1>1 DEF Arrive, Idle
<1>3. NoRoute(r) => /\ req[r].pc = "routing" /\ req'[r].pc = "respond"
                    /\ req'[r].status = "rejected"
  BY <1>1 DEF NoRoute, RequestStates
<1>4. BeginSleep(r) => req[r].pc = "routing" /\ req'[r].pc = "sleep"
  BY <1>1 DEF BeginSleep, RequestStates
<1>5. ASSUME EndSleep(r)
      PROVE  /\ req[r].pc = "sleep"
             /\ \/ req'[r].pc = "reserve"
                \/ /\ req'[r].pc = "respond"
                   /\ req'[r].status \in {"ok", "rejected", "failed"}
  <2>1. req[r].pc = "sleep"  BY <1>5 DEF EndSleep
  <2>2. req[r].kind \in Kinds \ {"unmatched"}
    BY <1>1, <2>1 DEF Inv, Shape, RequestStates
  <2>3. req[r].kind # "order" => Outcome[req[r].kind] \in {"ok", "rejected"}
    BY <2>2 DEF Outcome, Kinds
  <2>4. PICK fail \in BOOLEAN :
          req' = [req EXCEPT ![r] =
                    IF fail \/ req[r].kind # "order"
                      THEN [@ EXCEPT !.pc = "respond",
                              !.status = IF fail THEN "failed" ELSE Outcome[req[r].kind]]
                      ELSE [@ EXCEPT !.pc = "reserve"]]
    BY <1>5 DEF EndSleep, Draws
  <2>5. CASE fail \/ req[r].kind # "order"
    BY <1>1, <2>1, <2>3, <2>4, <2>5 DEF RequestStates
  <2>6. CASE ~(fail \/ req[r].kind # "order")
    BY <1>1, <2>1, <2>4, <2>6 DEF RequestStates
  <2>7. QED  BY <2>5, <2>6
<1>6. Reserve(r) => /\ req[r].pc = "reserve" /\ req'[r].pc = "respond"
                    /\ req'[r].status = "created"
  BY <1>1 DEF Reserve, RequestStates, CountOrder
<1>7. Finish(r) => /\ req[r].pc = "respond" /\ req'[r].pc = "sent"
                   /\ req'[r].status = req[r].status
  BY <1>1 DEF Finish, Idle, Leave
<1>8. Answer(r) => req[r].pc = "sent" /\ req'[r].pc = "idle"
  BY <1>1 DEF Answer, Idle
<1>9. QED  BY <1>2, <1>3, <1>4, <1>5, <1>6, <1>7, <1>8

(* How many requests are at a point, when r is the one that moves.         *)
LEMMA AtCounts ==
  ASSUME NEW r \in Requests, NEW p, NEW s
  PROVE  /\ Cardinality(At(p, s)) \in Nat
         /\ Cardinality(At(p, s) \cup {r})
              = IF r \in At(p, s) THEN Cardinality(At(p, s)) ELSE Cardinality(At(p, s)) + 1
         /\ Cardinality(At(p, s) \ {r})
              = IF r \in At(p, s) THEN Cardinality(At(p, s)) - 1 ELSE Cardinality(At(p, s))
<1>1. At(p, s) \subseteq Requests  BY DEF At
<1>2. QED  BY <1>1, Counting

(* Steps that are of no request keep every point and status.               *)
LEMMA PointsStay ==
  ASSUME Inv, Control \/ Tick \/ UNCHANGED vars, NEW p, NEW s
  PROVE  At(p, s)' = At(p, s) /\ UNCHANGED metrics
<1>1. \A r \in Requests : req'[r].pc = req[r].pc /\ req'[r].status = req[r].status
  <2>1. CASE Tick
    <3>1. SUFFICES ASSUME NEW r \in Requests
                   PROVE  req'[r].pc = req[r].pc /\ req'[r].status = req[r].status
      OBVIOUS
    <3>2. req[r] \in RequestStates  BY DEF Inv, TypeOK
    <3>3. \/ req'[r] = req[r]
          \/ \E w, a : req'[r] = [req[r] EXCEPT !.wait = w, !.age = a]
      BY <2>1 DEF Tick, Older
    <3>4. QED  BY <3>2, <3>3 DEF RequestStates
  <2>2. CASE Control \/ UNCHANGED vars
    BY <2>2 DEF Control, SetLatencyFault, SetErrorFault, ClearFaults, vars
  <2>3. QED  BY <2>1, <2>2
<1>2. QED
  BY <1>1 DEF At, Control, SetLatencyFault, SetErrorFault, ClearFaults, Tick, vars,
     metrics, history, Older

-----------------------------------------------------------------------------
(* ORDERS_CREATED is ahead of the 201s by the orders placed and on their
   way out, for every number of orders at a time.                          *)
THEOREM OrdersAgree == Spec => []OrdersAreAccounted
<1> DEFINE Placed == At("respond", "created")
<1>1. Init => OrdersAreAccounted
  <2>1. SUFFICES ASSUME Init  PROVE OrdersAreAccounted  OBVIOUS
  <2>2. Placed = {}  BY <2>1 DEF Init, Idle, At
  <2>3. QED  BY <2>1, <2>2, FS_EmptySet DEF Init, Zeros, Statuses, OrdersAreAccounted
<1>2. Inv /\ OrdersAreAccounted /\ [Next]_vars => OrdersAreAccounted'
  <2>1. SUFFICES ASSUME Inv, OrdersAreAccounted, [Next]_vars
                 PROVE  OrdersAreAccounted'
    OBVIOUS
  <2>2. orders \in Nat /\ requests \in [Statuses -> Nat] /\ "created" \in Statuses
    BY <2>1 DEF Inv, TypeOK, Statuses
  <2>3. CASE Placed' = Placed /\ UNCHANGED << orders, requests >>
    BY <2>1, <2>3 DEF OrdersAreAccounted
  <2>4. ASSUME NEW r \in Requests,
               NoRoute(r) \/ BeginSleep(r) \/ EndSleep(r) \/ Answer(r)
                 \/ \E k \in Kinds : Arrive(r, k)
        PROVE  OrdersAreAccounted'
    <3>1. \A q \in Requests \ {r} : req'[q] = req[q]
      BY <2>1, <2>4, OthersStay DEF Serve
    <3>2. ~(req'[r].pc = "respond" /\ req'[r].status = "created")
          /\ req[r].pc # "respond"
      BY <2>1, <2>4, Goes
    <3>3. Placed' = Placed  BY <3>1, <3>2, AtMoves DEF At
    <3>4. UNCHANGED << orders, requests >>
      BY <2>4 DEF NoRoute, BeginSleep, EndSleep, Answer, Arrive, metrics
    <3>5. QED  BY <2>3, <3>3, <3>4
  <2>5. ASSUME NEW r \in Requests, Reserve(r)
        PROVE  OrdersAreAccounted'
    <3>1. Placed' = Placed \cup {r}
      BY <2>1, <2>5, OthersStay, Goes, AtMoves DEF Serve
    <3>2. r \notin Placed  BY <2>1, <2>5, Goes DEF At
    <3>3. Cardinality(Placed') = Cardinality(Placed) + 1 /\ Cardinality(Placed) \in Nat
      <4>1. /\ Cardinality(Placed) \in Nat
            /\ Cardinality(Placed \cup {r})
                 = IF r \in Placed THEN Cardinality(Placed) ELSE Cardinality(Placed) + 1
        BY AtCounts, Zenon
      <4>2. QED  BY <3>1, <3>2, <4>1, Zenon
    <3>4. orders' = orders + 1 /\ UNCHANGED requests  BY <2>5 DEF Reserve,
                                                                  CountOrder
    <3>5. QED  BY <2>1, <2>2, <3>3, <3>4 DEF OrdersAreAccounted
  <2>6. ASSUME NEW r \in Requests, Finish(r)
        PROVE  OrdersAreAccounted'
    <3>1. Placed' = Placed \ {r}
      BY <2>1, <2>6, OthersStay, Goes, AtMoves DEF Serve
    <3>2. r \in Placed <=> req[r].status = "created"  BY <2>1, <2>6, Goes DEF At
    <3>3. /\ Cardinality(Placed') = IF req[r].status = "created"
                                      THEN Cardinality(Placed) - 1 ELSE Cardinality(Placed)
          /\ Cardinality(Placed) \in Nat
      <4>1. /\ Cardinality(Placed) \in Nat
            /\ Cardinality(Placed \ {r})
                 = IF r \in Placed THEN Cardinality(Placed) - 1 ELSE Cardinality(Placed)
        BY AtCounts, Zenon
      <4>2. QED  BY <3>1, <3>2, <4>1, Zenon
    <3>4. requests' = [requests EXCEPT ![req[r].status] = @ + 1] /\ orders' = orders
      BY <2>6 DEF Finish, Observe, Leave
    <3>5. requests'["created"] = IF req[r].status = "created"
                                   THEN requests["created"] + 1 ELSE requests["created"]
      BY <2>2, <3>4
    <3>6. QED  BY <2>1, <2>2, <3>3, <3>4, <3>5 DEF OrdersAreAccounted
  <2>7. CASE Restart
    <3>1. Placed' = {}  BY <2>7 DEF Restart, Idle, At
    <3>2. QED
      BY <2>7, <3>1, FS_EmptySet DEF Restart, Zeros, Statuses, OrdersAreAccounted
  <2>8. CASE Control \/ Tick \/ UNCHANGED vars
    BY <2>1, <2>3, <2>8, PointsStay DEF metrics
  <2>9. QED  BY <2>1, <2>4, <2>5, <2>6, <2>7, <2>8 DEF Next, Serve
<1>3. QED  BY <1>1, <1>2, Invariant, PTL DEF Spec

(* No client ever holds a response that the counter does not show yet.     *)
THEOREM AnswersAgree == Spec => []AnswersAreCounted
<1> DEFINE Sent(s) == At("sent", s)
<1>1. Init => AnswersAreCounted
  <2>1. SUFFICES ASSUME Init, NEW s \in Statuses
                 PROVE  requests[s] = answered[s] + Cardinality(Sent(s))
    BY DEF AnswersAreCounted
  <2>2. Sent(s) = {}  BY <2>1 DEF Init, Idle, At
  <2>3. QED  BY <2>1, <2>2, FS_EmptySet DEF Init, Zeros
<1>2. Inv /\ AnswersAreCounted /\ [Next]_vars => AnswersAreCounted'
  <2>1. SUFFICES ASSUME Inv, AnswersAreCounted, [Next]_vars, NEW s \in Statuses
                 PROVE  (requests[s] = answered[s] + Cardinality(Sent(s)))'
    BY DEF AnswersAreCounted
  <2>2. requests \in [Statuses -> Nat] /\ answered \in [Statuses -> Nat]
    BY <2>1 DEF Inv, TypeOK
  <2>3. requests[s] = answered[s] + Cardinality(Sent(s))
    BY <2>1 DEF AnswersAreCounted
  <2>4. CASE Sent(s)' = Sent(s) /\ UNCHANGED << requests, answered >>
    BY <2>3, <2>4
  <2>5. ASSUME NEW r \in Requests,
               NoRoute(r) \/ BeginSleep(r) \/ EndSleep(r) \/ Reserve(r)
                 \/ \E k \in Kinds : Arrive(r, k)
        PROVE  (requests[s] = answered[s] + Cardinality(Sent(s)))'
    <3>1. \A q \in Requests \ {r} : req'[q] = req[q]
      BY <2>1, <2>5, OthersStay DEF Serve
    <3>2. req'[r].pc # "sent" /\ req[r].pc # "sent"  BY <2>1, <2>5, Goes
    <3>3. Sent(s)' = Sent(s)  BY <3>1, <3>2, AtMoves DEF At
    <3>4. UNCHANGED << requests, answered >>
      BY <2>5 DEF NoRoute, BeginSleep, EndSleep, Reserve, Arrive, metrics, history,
                  CountOrder
    <3>5. QED  BY <2>4, <3>3, <3>4
  <2>6. ASSUME NEW r \in Requests, Finish(r)
        PROVE  (requests[s] = answered[s] + Cardinality(Sent(s)))'
    <3>1. Sent(s)' = IF req[r].status = s THEN Sent(s) \cup {r} ELSE Sent(s) \ {r}
      BY <2>1, <2>6, OthersStay, Goes, AtMoves DEF Serve
    <3>2. r \notin Sent(s)  BY <2>1, <2>6, Goes DEF At
    <3>3. /\ Cardinality(Sent(s)') = IF req[r].status = s
                                       THEN Cardinality(Sent(s)) + 1 ELSE Cardinality(Sent(s))
          /\ Cardinality(Sent(s)) \in Nat
      <4>1. /\ Cardinality(Sent(s)) \in Nat
            /\ Cardinality(Sent(s) \cup {r})
                 = IF r \in Sent(s) THEN Cardinality(Sent(s)) ELSE Cardinality(Sent(s)) + 1
            /\ Cardinality(Sent(s) \ {r})
                 = IF r \in Sent(s) THEN Cardinality(Sent(s)) - 1 ELSE Cardinality(Sent(s))
        BY AtCounts, Zenon
      <4>2. QED  BY <3>1, <3>2, <4>1, Zenon
    <3>4. requests' = [requests EXCEPT ![req[r].status] = @ + 1] /\ answered' = answered
      BY <2>6 DEF Finish, Observe, Leave
    <3>5. requests'[s] = IF req[r].status = s THEN requests[s] + 1 ELSE requests[s]
      BY <2>2, <3>4
    <3>6. QED  BY <2>2, <2>3, <3>3, <3>4, <3>5
  <2>7. ASSUME NEW r \in Requests, Answer(r)
        PROVE  (requests[s] = answered[s] + Cardinality(Sent(s)))'
    <3>1. Sent(s)' = Sent(s) \ {r}
      BY <2>1, <2>7, OthersStay, Goes, AtMoves DEF Serve
    <3>2. r \in Sent(s) <=> req[r].status = s  BY <2>1, <2>7, Goes DEF At
    <3>3. /\ Cardinality(Sent(s)') = IF req[r].status = s
                                       THEN Cardinality(Sent(s)) - 1 ELSE Cardinality(Sent(s))
          /\ Cardinality(Sent(s)) \in Nat
      <4>1. /\ Cardinality(Sent(s)) \in Nat
            /\ Cardinality(Sent(s) \ {r})
                 = IF r \in Sent(s) THEN Cardinality(Sent(s)) - 1 ELSE Cardinality(Sent(s))
        BY AtCounts, Zenon
      <4>2. QED  BY <3>1, <3>2, <4>1, Zenon
    <3>4. answered' = [answered EXCEPT ![req[r].status] = @ + 1] /\ requests' = requests
      BY <2>7 DEF Answer, metrics
    <3>5. answered'[s] = IF req[r].status = s THEN answered[s] + 1 ELSE answered[s]
      BY <2>2, <3>4
    <3>6. QED  BY <2>2, <2>3, <3>3, <3>4, <3>5
  <2>8. CASE Restart
    <3>1. Sent(s)' = {}  BY <2>8 DEF Restart, Idle, At
    <3>2. QED  BY <2>8, <3>1, FS_EmptySet DEF Restart, Zeros
  <2>9. CASE Control \/ Tick \/ UNCHANGED vars
    <3>1. Sent(s)' = Sent(s) /\ UNCHANGED metrics  BY <2>1, <2>9, PointsStay
    <3>2. UNCHANGED answered
      BY <2>9 DEF Control, SetLatencyFault, SetErrorFault, ClearFaults, Tick, vars, history,
                  Older
    <3>3. QED  BY <2>4, <3>1, <3>2 DEF metrics
  <2>10. QED  BY <2>1, <2>5, <2>6, <2>7, <2>8, <2>9 DEF Next, Serve
<1>3. QED  BY <1>1, <1>2, Invariant, PTL DEF Spec

-----------------------------------------------------------------------------
(* A request's clock runs from before its delay: what it was given, less
   what it has still to sleep, has passed on the clock (which stops at
   AgeCap).                                                                *)
Clocked(q) ==
  /\ q.pc = "routing" => q.drawn = 0 /\ q.wait = 0
  /\ q.pc \in {"reserve", "respond"} => q.wait = 0
  /\ q.pc \in InProgress => q.drawn <= q.wait + q.age \/ q.age = AgeCap

AllClocked == \A r \in Requests : Clocked(req[r])

LEMMA ClockedServe ==
  ASSUME Inv, NEW r \in Requests, Clocked(req[r]),
         Serve(r) \/ \E k \in Kinds : Arrive(r, k)
  PROVE  Clocked(req'[r])
<1>1. req \in [Requests -> RequestStates] /\ req[r] \in RequestStates
  BY DEF Inv, TypeOK
<1>2. CASE \E k \in Kinds : Arrive(r, k)
  <2>1. PICK k \in Kinds : req' = [req EXCEPT ![r] = [Idle EXCEPT !.pc = "routing", !.kind = k]]
    BY <1>2 DEF Arrive
  <2>2. req'[r] = [Idle EXCEPT !.pc = "routing", !.kind = k]  BY <1>1, <2>1
  <2>3. /\ req'[r].pc = "routing" /\ req'[r].drawn = 0
        /\ req'[r].wait = 0 /\ req'[r].age = 0
    BY <2>2 DEF Idle
  <2>4. QED  BY <2>3 DEF Clocked
<1>3. CASE NoRoute(r)
  <2>1. /\ req'[r].pc = "respond" /\ req'[r].drawn = req[r].drawn
        /\ req'[r].wait = req[r].wait /\ req'[r].age = req[r].age
    BY <1>1, <1>3 DEF NoRoute, RequestStates
  <2>2. req[r].drawn = 0 /\ req[r].wait = 0
    BY <1>3 DEF NoRoute, Clocked, InProgress
  <2>3. QED  BY <1>1, <2>1, <2>2 DEF Clocked, RequestStates
<1>4. CASE BeginSleep(r)
  <2>1. PICK d \in Delays :
          req' = [req EXCEPT ![r].pc = "sleep", ![r].wait = d, ![r].drawn = d]
    BY <1>4 DEF BeginSleep
  <2>2. d \in Nat  BY <2>1, DelaysAreNat
  <2>3. /\ req'[r].pc = "sleep" /\ req'[r].drawn = d /\ req'[r].wait = d
        /\ req'[r].age = req[r].age
    BY <1>1, <2>1 DEF RequestStates
  <2>4. req[r].age \in Nat  BY <1>1 DEF RequestStates
  <2>5. QED  BY <2>2, <2>3, <2>4 DEF Clocked
<1>5. CASE EndSleep(r)
  <2>1. /\ req'[r].pc \in {"reserve", "respond"} /\ req'[r].drawn = req[r].drawn
        /\ req'[r].wait = req[r].wait /\ req'[r].age = req[r].age
    BY <1>1, <1>5 DEF EndSleep, RequestStates
  <2>2. req[r].pc = "sleep" /\ req[r].wait = 0  BY <1>5 DEF EndSleep
  <2>3. QED  BY <2>1, <2>2 DEF Clocked, InProgress
<1>6. CASE Reserve(r)
  <2>1. /\ req'[r].pc = "respond" /\ req'[r].drawn = req[r].drawn
        /\ req'[r].wait = req[r].wait /\ req'[r].age = req[r].age
    BY <1>1, <1>6 DEF Reserve, RequestStates, CountOrder
  <2>2. req[r].pc = "reserve"  BY <1>6 DEF Reserve, CountOrder
  <2>3. QED  BY <2>1, <2>2 DEF Clocked, InProgress
<1>7. CASE Finish(r) \/ Answer(r)
  <2>1. req'[r].pc \in {"sent", "idle"}  BY <1>7, Goes
  <2>2. QED  BY <2>1 DEF Clocked, InProgress
<1>8. QED  BY <1>2, <1>3, <1>4, <1>5, <1>6, <1>7 DEF Serve

LEMMA ClockedTick ==
  ASSUME Inv, NEW r \in Requests, Clocked(req[r]), Tick
  PROVE  Clocked(req'[r])
<1>1. req[r] \in RequestStates  BY DEF Inv, TypeOK
<1>2. CASE req[r].pc \notin InProgress
  BY <1>2 DEF Tick, Older
<1>3. CASE req[r].pc \in InProgress
  <2> DEFINE w == IF req[r].wait > 0 THEN req[r].wait - 1 ELSE 0
             a == IF req[r].age < AgeCap THEN req[r].age + 1 ELSE req[r].age
  <2>1. req'[r] = [req[r] EXCEPT !.wait = w, !.age = a]  BY <1>3 DEF Tick,
                                                                     Older
  <2>2. /\ req'[r].pc = req[r].pc /\ req'[r].drawn = req[r].drawn
        /\ req'[r].wait = w /\ req'[r].age = a
    BY <1>1, <2>1 DEF RequestStates
  <2>3. /\ req[r].wait \in Nat /\ req[r].drawn \in Nat /\ req[r].age \in 0..AgeCap
        /\ AgeCap \in Nat
    BY <1>1, BoundsAssumption DEF RequestStates
  <2>4. QED  BY <1>3, <2>2, <2>3 DEF Clocked
<1>4. QED  BY <1>2, <1>3

(* No injected latency above the objective is missing from the slow part of
   the histogram, for every fault, objective and number of requests.       *)
THEOREM LatencySeen == Spec => []InjectedLatencyIsSeen
<1> DEFINE Seen == AllClocked /\ InjectedLatencyIsSeen
<1>1. Init => Seen
  BY DEF Init, Idle, AllClocked, Clocked, InProgress, InjectedLatencyIsSeen
<1>2. Inv /\ Seen /\ [Next]_vars => Seen'
  <2>1. SUFFICES ASSUME Inv, Seen, [Next]_vars  PROVE Seen'  OBVIOUS
  <2>2. ASSUME NEW r \in Requests, Serve(r) \/ \E k \in Kinds : Arrive(r, k)
        PROVE  AllClocked'
    BY <2>1, <2>2, ClockedServe, OthersStay DEF AllClocked
  <2>3. slow \in Nat /\ delayed \in Nat  BY <2>1 DEF Inv, TypeOK
  <2>4. ASSUME UNCHANGED << slow, delayed >>  PROVE InjectedLatencyIsSeen'
    BY <2>1, <2>4 DEF InjectedLatencyIsSeen
  <2>5. ASSUME NEW r \in Requests, Serve(r) \/ \E k \in Kinds : Arrive(r, k)
        PROVE  InjectedLatencyIsSeen'
    <3>1. CASE Finish(r)
      <4>1. req[r] \in RequestStates /\ AgeCap \in Nat /\ Objective \in Nat
            /\ AgeCap > Objective
        BY <2>1, BoundsAssumption DEF Inv, TypeOK
      <4>2. req[r].drawn <= req[r].age \/ req[r].age = AgeCap
        BY <2>1, <3>1, <4>1 DEF Finish, AllClocked, Clocked, InProgress, RequestStates,
                                Leave
      <4>3. req[r].drawn > Objective => req[r].age > Objective
        BY <4>1, <4>2 DEF RequestStates
      <4>4. /\ slow' = IF req[r].age > Objective THEN slow + 1 ELSE slow
            /\ delayed' = IF req[r].drawn > Objective THEN delayed + 1 ELSE delayed
        BY <3>1 DEF Finish, Observe, Leave
      <4>5. QED  BY <2>1, <2>3, <4>3, <4>4 DEF InjectedLatencyIsSeen
    <3>2. CASE ~Finish(r)
      BY <2>4, <2>5, <3>2 DEF Serve, NoRoute, BeginSleep, EndSleep, Reserve, Answer,
         Arrive, metrics, history, CountOrder
    <3>3. QED  BY <3>1, <3>2
  <2>6. CASE Restart
    BY <2>6 DEF Restart, Idle, AllClocked, Clocked, InProgress, InjectedLatencyIsSeen
  <2>7. CASE Tick
    <3>1. AllClocked'  BY <2>1, <2>7, ClockedTick DEF AllClocked
    <3>2. QED  BY <2>4, <2>7, <3>1 DEF Tick, metrics, history, Older
  <2>8. CASE Control \/ UNCHANGED vars
    <3>1. UNCHANGED << req, slow, delayed >>
      BY <2>8 DEF Control, SetLatencyFault, SetErrorFault, ClearFaults, vars, metrics,
         history
    <3>2. QED  BY <2>1, <2>4, <3>1 DEF AllClocked
  <2>9. QED  BY <2>1, <2>2, <2>5, <2>6, <2>7, <2>8 DEF Next
<1>3. QED  BY <1>1, <1>2, Invariant, PTL DEF Spec

-----------------------------------------------------------------------------
(* A fault that is in force was injected since the faults were cleared.    *)
Armed == /\ latency.left # 0 => "latency" \in injected
         /\ errors.left # 0 => "errors" \in injected

LEMMA ArmedInvariant == Spec => []Armed
<1>1. Init => Armed  BY DEF Init, InitFaults, NoLatency, NoErrors, Armed
<1>2. Inv /\ Armed /\ [Next]_vars => Armed'
  <2>1. SUFFICES ASSUME Inv, Armed, [Next]_vars  PROVE Armed'  OBVIOUS
  <2>2. CASE UNCHANGED << faults, injected >>
    BY <2>1, <2>2 DEF faults, Armed
  <2>3. ASSUME NEW r \in Requests, Serve(r) \/ \E k \in Kinds : Arrive(r, k)
        PROVE  Armed'
    BY <2>2, <2>3 DEF Serve, NoRoute, BeginSleep, EndSleep, Reserve, Finish, Answer,
       Arrive, history, CountOrder, Leave
  <2>4. CASE Control
    BY <2>1, <2>4 DEF Control, SetLatencyFault, SetErrorFault, ClearFaults,
       InjectLatency, InjectErrors, Clear, NoLatency, NoErrors, Armed
  <2>5. CASE Tick
    <3> DEFINE l == IF latency.left > 0 THEN latency.left - 1 ELSE 0
               e == IF errors.left > 0 THEN errors.left - 1 ELSE 0
    <3>1. latency' = [latency EXCEPT !.left = l] /\ errors' = [errors EXCEPT !.left = e]
      BY <2>5 DEF Tick, Expire, Older
    <3>2. latency'.left = l /\ errors'.left = e  BY <2>1, <3>1 DEF Inv, TypeOK
    <3>3. latency.left \in Nat /\ errors.left \in Nat  BY <2>1 DEF Inv, TypeOK
    <3>4. /\ latency'.left # 0 => latency.left # 0
          /\ errors'.left # 0 => errors.left # 0
      BY <3>2, <3>3
    <3>5. injected' = injected  BY <2>5 DEF Tick, history, Older
    <3>6. QED  BY <2>1, <3>4, <3>5 DEF Armed
  <2>6. CASE Restart
    BY <2>6 DEF Restart, Clear, NoLatency, NoErrors, Armed
  <2>7. CASE UNCHANGED vars  BY <2>2, <2>7 DEF vars, history
  <2>8. QED  BY <2>1, <2>3, <2>4, <2>5, <2>6, <2>7 DEF Next
<1>3. QED  BY <1>1, <1>2, Invariant, PTL DEF Spec

(* Once the faults are cleared no request fails and none is delayed, those
   asleep in apply_faults included, until a fault is injected again.       *)
THEOREM ClearEffective == Spec => ClearIsEffective
<1> DEFINE Step == \A r \in Requests :
                     /\ req'[r].status = "failed" /\ req[r].status # "failed"
                          => "errors" \in injected
                     /\ req'[r].drawn > req[r].drawn => "latency" \in injected
<1>1. Inv /\ Armed /\ [Next]_vars => Step
  <2>1. SUFFICES ASSUME Inv, Armed, [Next]_vars, NEW r \in Requests
                 PROVE  /\ req'[r].status = "failed" /\ req[r].status # "failed"
                             => "errors" \in injected
                        /\ req'[r].drawn > req[r].drawn => "latency" \in injected
    OBVIOUS
  <2>2. req \in [Requests -> RequestStates] /\ req[r] \in RequestStates
    BY <2>1 DEF Inv, TypeOK
  <2>3. CASE req'[r].status = req[r].status /\ req'[r].drawn = req[r].drawn
    BY <2>2, <2>3 DEF RequestStates
  <2>4. CASE \/ req'[r] = Idle
             \/ \E k \in Kinds : req'[r] = [Idle EXCEPT !.pc = "routing", !.kind = k]
             \/ req'[r] = [Idle EXCEPT !.pc = "sent", !.status = req[r].status]
    <3>1. req'[r].drawn = 0 /\ req'[r].status \in { "ok", req[r].status }
      <4>1. CASE req'[r] = Idle  BY <4>1 DEF Idle
      <4>2. CASE \E k \in Kinds : req'[r] = [Idle EXCEPT !.pc = "routing", !.kind = k]
        BY <4>2 DEF Idle
      <4>3. CASE req'[r] = [Idle EXCEPT !.pc = "sent", !.status = req[r].status]
        BY <4>3 DEF Idle
      <4>4. QED  BY <2>4, <4>1, <4>2, <4>3
    <3>2. req[r].drawn \in Nat  BY <2>2 DEF RequestStates
    <3>3. QED  BY <3>1, <3>2
  <2>5. CASE BeginSleep(r)
    <3>1. PICK d \in Delays :
            req' = [req EXCEPT ![r].pc = "sleep", ![r].wait = d, ![r].drawn = d]
      BY <2>5 DEF BeginSleep
    <3>2. req'[r].status = req[r].status /\ req'[r].drawn = d
      BY <2>2, <3>1 DEF RequestStates
    <3>3. latency.left = 0 => d = 0  BY <3>1 DEF Delays
    <3>4. QED  BY <2>1, <2>2, <3>2, <3>3 DEF Armed, RequestStates
  <2>6. CASE EndSleep(r)
    <3>1. PICK fail \in Draws :
            req' = [req EXCEPT ![r] =
                      IF fail \/ req[r].kind # "order"
                        THEN [@ EXCEPT !.pc = "respond",
                                !.status = IF fail THEN "failed" ELSE Outcome[req[r].kind]]
                        ELSE [@ EXCEPT !.pc = "reserve"]]
      BY <2>6 DEF EndSleep
    <3>2. req'[r].drawn = req[r].drawn  BY <2>2, <3>1 DEF RequestStates
    <3>3. errors.left = 0 => ~fail  BY <3>1 DEF Draws
    <3>4. CASE fail
      BY <2>1, <2>2, <3>2, <3>3, <3>4 DEF Armed, RequestStates
    <3>5. CASE ~fail
      <4>1. req[r].kind \in Kinds \ {"unmatched"}
        BY <2>1, <2>2, <2>6 DEF Inv, Shape, EndSleep, RequestStates
      <4>2. req[r].kind # "order" => Outcome[req[r].kind] # "failed"
        BY <4>1 DEF Outcome, Kinds
      <4>3. req'[r].status = "failed" => req[r].status = "failed"
        BY <2>2, <3>1, <3>5, <4>2 DEF RequestStates
      <4>4. QED  BY <2>2, <3>2, <4>3 DEF RequestStates
    <3>6. QED  BY <3>4, <3>5
  <2>7. CASE NoRoute(r) \/ Reserve(r)
    BY <2>2, <2>7 DEF NoRoute, Reserve, RequestStates, CountOrder
  <2>8. CASE Finish(r) \/ Answer(r) \/ \E k \in Kinds : Arrive(r, k)
    BY <2>2, <2>4, <2>8 DEF Finish, Answer, Arrive, Leave
  <2>9. ASSUME NEW q \in Requests, q # r, Serve(q) \/ \E k \in Kinds : Arrive(q, k)
        PROVE  req'[r] = req[r]
    BY <2>1, <2>9, OthersStay
  <2>10. CASE Tick
    <3>1. CASE req[r].pc \notin InProgress  BY <2>3, <2>10, <3>1 DEF Tick,
                                                                     Older
    <3>2. CASE req[r].pc \in InProgress
      <4>1. PICK w, a : req'[r] = [req[r] EXCEPT !.wait = w, !.age = a]
        BY <2>10, <3>2 DEF Tick, Older
      <4>2. QED  BY <2>2, <2>3, <4>1 DEF RequestStates
    <3>3. QED  BY <3>1, <3>2
  <2>11. CASE Restart  BY <2>4, <2>11 DEF Restart
  <2>12. CASE Control \/ UNCHANGED vars
    BY <2>3, <2>12 DEF Control, SetLatencyFault, SetErrorFault, ClearFaults, vars
  <2>13. CASE \E q \in Requests : Serve(q) \/ \E k \in Kinds : Arrive(q, k)
    BY <2>3, <2>5, <2>6, <2>7, <2>8, <2>9, <2>13 DEF Serve
  <2>14. QED  BY <2>1, <2>10, <2>11, <2>12, <2>13 DEF Next
<1>2. QED  BY <1>1, Invariant, ArmedInvariant, PTL DEF Spec, ClearIsEffective
=============================================================================
