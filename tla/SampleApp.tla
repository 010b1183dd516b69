------------------------------ MODULE SampleApp ------------------------------
(***************************************************************************)
(* The service under observation: the requests in progress on its event    *)
(* loop, the faults they meet and the metrics they leave behind.           *)
(*                                                                         *)
(* A step is what the loop does between two awaits; a scrape of /metrics   *)
(* is such a step too, so what it reads is a state of this module.         *)
(***************************************************************************)
EXTENDS FaultInjector, FiniteSets

CONSTANTS
  Requests,       \* requests that can be in progress at a time
  Objective,      \* the SLO's latency threshold, in ticks (0.3 s)
  AgeCap,         \* bound: a duration above the threshold, where ages stop
  MaxArrivals,    \* bound: requests between two starts of the process
  MaxInjections,  \* bound: faults injected over a behaviour
  MaxRestarts     \* bound: restarts over a behaviour

ASSUME BoundsAssumption ==
  /\ IsFiniteSet(Requests)
  /\ Objective \in Nat /\ AgeCap \in Nat /\ AgeCap > Objective

VARIABLES
  req,         \* per request: [pc, kind, wait, age, drawn, status], where pc is
               \* the await it is at, wait what is left of apply_faults' sleep,
               \* age perf_counter() - started, drawn the delay it was given
  inFlight,    \* REQUESTS_IN_FLIGHT
  requests,    \* REQUESTS by status
  durations,   \* REQUEST_DURATION's count
  slow,        \* the part of it above the bucket of the objective
  orders,      \* ORDERS_CREATED
  arrived,     \* history: requests that entered the middleware
  answered,    \* history: responses written to clients, by status
  delayed,     \* history: finished requests given more than the objective
  injected,    \* history: kinds of fault injected since all were cleared
  injections,  \* history: faults injected
  restarts     \* history: restarts

metrics == << inFlight, requests, durations, slow, orders >>
history == << arrived, answered, delayed, injected, injections, restarts >>
vars == << faults, req, metrics, history >>

(* What is asked for: the catalog, an order, something a handler turns down
   with a 4xx, a path without a route.  Statuses: 200, 201, 4xx and 5xx.   *)
Kinds    == { "items", "order", "unknown", "unmatched" }
Statuses == { "ok", "created", "rejected", "failed" }

(* What a handler without an await of its own answers.                     *)
Outcome == [ items |-> "ok", unknown |-> "rejected" ]

InProgress == { "routing", "sleep", "reserve", "respond" }

Zeros == [s \in Statuses |-> 0]

Idle == [ pc |-> "idle", kind |-> "items", wait |-> 0, age |-> 0, drawn |-> 0,
          status |-> "ok" ]

-----------------------------------------------------------------------------
(* Slips: the definition of the same name without the suffix, as a plausible
   edit of the code would have it.                                         *)

(* A finally that does not observe the failures.                           *)
ObserveButFailures(age, status) ==
  IF status = "failed" THEN UNCHANGED << requests, durations, slow >>
  ELSE /\ requests'  = [requests EXCEPT ![status] = @ + 1]
       /\ durations' = durations + 1
       /\ slow'      = IF age > Objective THEN slow + 1 ELSE slow

(* The status left at the 500 that dispatch begins with.                   *)
ObserveAsFailed(age, status) ==
  /\ requests'  = [requests EXCEPT !["failed"] = @ + 1]
  /\ durations' = durations + 1
  /\ slow'      = IF age > Objective THEN slow + 1 ELSE slow

(* The gauge decremented in the try as well as in the finally.             *)
LeaveTwice == inFlight' = inFlight - 2

(* ORDERS_CREATED.inc(payload.quantity).                                   *)
CountOrderByQuantity == orders' = orders + 2

(* started taken once the dependency is through.                           *)
OlderAwake(q) == IF q.age < AgeCap /\ q.pc # "sleep" THEN q.age + 1 ELSE q.age

-----------------------------------------------------------------------------
(* What dispatch's finally does to the metrics for a request that took age
   and is answered with status (observe_request).                          *)
Observe(age, status) ==
  /\ requests'  = [requests EXCEPT ![status] = @ + 1]
  /\ durations' = durations + 1
  /\ slow'      = IF age > Objective THEN slow + 1 ELSE slow

Leave      == inFlight' = inFlight - 1
CountOrder == orders' = orders + 1

(* The time dispatch's timer shows a tick later.                           *)
Older(q) == IF q.age < AgeCap THEN q.age + 1 ELSE q.age

-----------------------------------------------------------------------------
Init ==
  /\ InitFaults
  /\ req = [r \in Requests |-> Idle]
  /\ inFlight = 0 /\ requests = Zeros /\ durations = 0 /\ slow = 0 /\ orders = 0
  /\ arrived = 0 /\ answered = Zeros /\ delayed = 0
  /\ injected = {} /\ injections = 0 /\ restarts = 0

(* dispatch up to call_next.  The uninstrumented paths change nothing.     *)
Arrive(r, k) ==
  /\ req[r].pc = "idle"
  /\ arrived < MaxArrivals
  /\ req'      = [req EXCEPT ![r] = [Idle EXCEPT !.pc = "routing", !.kind = k]]
  /\ inFlight' = inFlight + 1
  /\ arrived'  = arrived + 1
  /\ UNCHANGED << faults, requests, durations, slow, orders,
                  answered, delayed, injected, injections, restarts >>

(* No route matches: 404, and no dependency has run.                       *)
NoRoute(r) ==
  /\ req[r].pc = "routing" /\ req[r].kind = "unmatched"
  /\ req' = [req EXCEPT ![r].pc = "respond", ![r].status = "rejected"]
  /\ UNCHANGED << faults, metrics, history >>

(* apply_faults: the delay is drawn, then slept.  (The base latency is less
   than a tick.)                                                           *)
BeginSleep(r) ==
  /\ req[r].pc = "routing" /\ req[r].kind # "unmatched"
  /\ \E d \in Delays :
       req' = [req EXCEPT ![r].pc = "sleep", ![r].wait = d, ![r].drawn = d]
  /\ UNCHANGED << faults, metrics, history >>

(* apply_faults after its sleep: the error is drawn now, from the faults as
   they are now.  A handler runs on to its end, but for an order.          *)
EndSleep(r) ==
  /\ req[r].pc = "sleep" /\ req[r].wait = 0
  /\ \E fail \in Draws :
       req' = [req EXCEPT ![r] =
                 IF fail \/ req[r].kind # "order"
                   THEN [@ EXCEPT !.pc = "respond",
                           !.status = IF fail THEN "failed" ELSE Outcome[req[r].kind]]
                   ELSE [@ EXCEPT !.pc = "reserve"]]
  /\ UNCHANGED << faults, metrics, history >>

(* create_order after its own sleep.                                       *)
Reserve(r) ==
  /\ req[r].pc = "reserve"
  /\ req' = [req EXCEPT ![r].pc = "respond", ![r].status = "created"]
  /\ CountOrder
  /\ UNCHANGED << faults, inFlight, requests, durations, slow, history >>

(* dispatch once call_next has given it the response: the finally.         *)
Finish(r) ==
  /\ req[r].pc = "respond"
  /\ req' = [req EXCEPT ![r] = [Idle EXCEPT !.pc = "sent", !.status = req[r].status]]
  /\ Leave
  /\ Observe(req[r].age, req[r].status)
  /\ delayed' = IF req[r].drawn > Objective THEN delayed + 1 ELSE delayed
  /\ UNCHANGED << faults, orders, arrived, answered, injected, injections, restarts >>

(* The server writes the response out.                                     *)
Answer(r) ==
  /\ req[r].pc = "sent"
  /\ req' = [req EXCEPT ![r] = Idle]
  /\ answered' = [answered EXCEPT ![req[r].status] = @ + 1]
  /\ UNCHANGED << faults, metrics, arrived, delayed, injected, injections, restarts >>

Serve(r) == \/ NoRoute(r) \/ BeginSleep(r) \/ EndSleep(r)
            \/ Reserve(r) \/ Finish(r) \/ Answer(r)

-----------------------------------------------------------------------------
(* POST /faults/latency and /faults/errors.                                *)
SetLatencyFault(f, ttl) ==
  /\ injections < MaxInjections
  /\ InjectLatency(f, ttl)
  /\ injected'   = injected \cup {"latency"}
  /\ injections' = injections + 1
  /\ UNCHANGED << req, metrics, arrived, answered, delayed, restarts >>

SetErrorFault(ratio, ttl) ==
  /\ injections < MaxInjections
  /\ InjectErrors(ratio, ttl)
  /\ injected'   = injected \cup {"errors"}
  /\ injections' = injections + 1
  /\ UNCHANGED << req, metrics, arrived, answered, delayed, restarts >>

(* DELETE /faults.                                                         *)
ClearFaults ==
  /\ Clear
  /\ injected' = {}
  /\ UNCHANGED << req, metrics, arrived, answered, delayed, injections, restarts >>

Control == \/ \E ttl \in Ttls : \/ \E f \in LatencyFaults : SetLatencyFault(f, ttl)
                                \/ \E ratio \in Ratios : SetErrorFault(ratio, ttl)
           \/ ClearFaults

(* Time passes: every sleep and every fault has a tick less to go, every
   request in the middleware is a tick older.                              *)
Tick ==
  /\ Expire
  /\ req' = [r \in Requests |->
               IF req[r].pc \notin InProgress THEN req[r]
               ELSE [req[r] EXCEPT !.wait = IF @ > 0 THEN @ - 1 ELSE 0,
                                   !.age  = Older(req[r])]]
  /\ UNCHANGED << metrics, history >>

(* The process stops and starts: requests, faults and metrics are gone, and
   the history is of the new process.                                      *)
Restart ==
  /\ restarts < MaxRestarts
  /\ restarts' = restarts + 1
  /\ Clear
  /\ req' = [r \in Requests |-> Idle]
  /\ inFlight' = 0 /\ requests' = Zeros /\ durations' = 0 /\ slow' = 0
  /\ orders' = 0
  /\ arrived' = 0 /\ answered' = Zeros /\ delayed' = 0 /\ injected' = {}
  /\ UNCHANGED injections

Next == \/ \E r \in Requests : Serve(r) \/ \E k \in Kinds : Arrive(r, k)
        \/ Control \/ Tick \/ Restart

Spec == Init /\ [][Next]_vars

-----------------------------------------------------------------------------
RequestStates ==
  [ pc : InProgress \cup {"idle", "sent"}, kind : Kinds, wait : Nat,
    age : 0..AgeCap, drawn : Nat, status : Statuses ]

(* Type correctness; in particular no counter or gauge goes below zero.    *)
TypeOK ==
  /\ latency \in [delay : Nat, jitter : Nat, left : Nat]
  /\ errors \in [ratio : {"never", "sometimes", "always"}, left : Nat]
  /\ req \in [Requests -> RequestStates]
  /\ inFlight \in Nat /\ durations \in Nat /\ slow \in Nat /\ orders \in Nat
  /\ requests \in [Statuses -> Nat] /\ answered \in [Statuses -> Nat]
  /\ arrived \in Nat /\ delayed \in Nat
  /\ injected \subseteq {"latency", "errors"}
  /\ injections \in Nat /\ restarts \in Nat

At(point, s) == { r \in Requests : req[r].pc = point /\ req[r].status = s }

Counted == requests["ok"] + requests["created"] + requests["rejected"]
           + requests["failed"]

(* At any scrape, every request that came in is either in the gauge or in
   exactly one series of the counter, and in the histogram if it is in the
   counter: the error ratio and the slow ratio have the same denominator,
   whatever way the request ended (observe_request; recording.yml divides by
   the histogram's count, and README.md has the latency SLO over all requests).
   The docstring of metrics.py gives for the missing status label an SLO "that
   only counts successful requests"; the histogram counts the failed as well. *)
EveryRequestIsCountedOnce ==
  /\ arrived = Counted + inFlight
  /\ durations = Counted

(* ORDERS_CREATED runs ahead of the 201s in the counter by the orders that
   are placed and not yet through the middleware, and by nothing else.     *)
OrdersAreAccounted ==
  orders = requests["created"] + Cardinality(At("respond", "created"))

(* Whoever holds a response finds it in the metrics, under its own status
   (the tests read the counter right after the response).                  *)
AnswersAreCounted ==
  \A s \in Statuses : requests[s] = answered[s] + Cardinality(At("sent", s))

(* The latency-spike scenario counts on every request with an injected delay
   being "past the 300 ms objective" (scenarios.py): the histogram has each
   of them above it, so the slow ratio cannot miss an injected latency.    *)
InjectedLatencyIsSeen == slow >= delayed

(* DELETE /faults takes effect at once, for the requests under way too: no
   request is failed, and none is given a delay, unless such a fault was
   injected after the last clear (and the last start).                     *)
ClearIsEffective ==
  [][\A r \in Requests :
       /\ req'[r].status = "failed" /\ req[r].status # "failed"
            => "errors" \in injected
       /\ req'[r].drawn > req[r].drawn => "latency" \in injected]_vars
=============================================================================
