---------------------------- MODULE LoadGenerator ----------------------------
(***************************************************************************)
(* LoadGenerator.run: one dispatcher thread opens a request slot every     *)
(* 1/rps seconds and hands it to a pool of workers through a bounded       *)
(* queue; when a phase of the scenario starts it first arms the phase's    *)
(* fault at the target.  A signal handler may ask it to stop at any time.  *)
(*                                                                         *)
(* Time is a clock that may advance between any two steps, so a step may   *)
(* take as long as the scheduler, the network or the target make it take.  *)
(***************************************************************************)
EXTENDS Scenario

CONSTANTS
  NumWorkers,   \* size of the thread pool
  QueueSlack,   \* queue places per worker (_QUEUE_SLACK is 4)
  ArmMayFail,   \* whether the target may refuse, or not answer, a fault call
  MaxClock      \* bound: the last instant of the clock

ASSUME WorkersAssumption ==
  /\ NumWorkers \in Nat \ {0}
  /\ QueueSlack \in Nat \ {0}
  /\ ArmMayFail \in BOOLEAN
  /\ MaxClock \in Nat

VARIABLES
  clock,        \* time.monotonic() - started
  stop,         \* _stop, the event the signal handler sets
  pc,           \* where the dispatcher is in run()
  now,          \* run()'s local: the clock as read at the top of the loop
  phase,        \* run()'s local: the phase of this iteration
  current,      \* run()'s local: the phase whose start has been dealt with
  nextSlot,     \* run()'s local next_slot, relative to started
  shutdowns,    \* sentinels put by the last loop of run()
  queue,        \* slots: FIFO of "slot" (None in the code) and "shutdown"
  worker,       \* per worker: "get", "send" or "exited"
  sent,         \* Stats.sent
  dropped,      \* Stats.dropped
  failed,       \* whether run() is unwinding from arm's RuntimeError
  opened,       \* history: slots opened
  crashed,      \* history: requests whose transport raised
  armed,        \* history: phases whose fault the target accepted, in order
  due,          \* history: when the next slot is due if no time is ever lost
  slipped,      \* history: whether an iteration ever began a period late
  opens,        \* history: when the last three slots were opened
  afterStop     \* history: slots opened since the stop was asked for

dispatcher == << pc, now, phase, current, nextSlot, shutdowns, failed >>
history    == << opened, armed, due, slipped, opens, afterStop >>
workers    == << worker, sent, crashed >>
vars == << clock, stop, dispatcher, queue, workers, dropped, history >>

Workers  == 1..NumWorkers
Capacity == NumWorkers * QueueSlack

Ended == {"returned", "raised"}

Max2(a, b) == IF a >= b THEN a ELSE b

(* An iteration begins more than a period (the shortest one) after its slot
   was due.                                                                *)
Late == \E i \in PhaseIds : clock > nextSlot + Phases[i].period

-----------------------------------------------------------------------------
(* Slips: the definition of the same name without the suffix, as a plausible
   edit of the code would have it.  Each is what one property is there to
   catch; none is part of the specification.                               *)

(* queue.Queue() without maxsize.                                          *)
RoomLeftAlways == TRUE

(* The pool left with shutdown(wait=False).                                *)
PoolIsOverAtOnce == TRUE

(* "phase is not current" left out; "current is None" in its place.        *)
ArmsEverySlot(p) == HasFault(p)
ArmsFirstOnly(p) == current = NoPhase /\ HasFault(p)

(* The event only looked at between phases, not between slots.             *)
StopSeenBetweenPhases == stop /\ PhaseAt(clock) # current

(* next_slot += 1 / rps, and every lost slot is caught up with.            *)
NextSlotCatchesUp == nextSlot + Phases[phase].period

(* next_slot = now + 1 / rps: the fixed sleep the comment warns of.        *)
NextSlotDrifts == now + Phases[phase].period

(* remaining computed from the slot before.                                *)
MustSleepTooLittle == nextSlot > clock

(* put_nowait for the sentinels too, queue.Full swallowed.                 *)
PutSentinelNoWait ==
  queue' = IF Len(queue) < Capacity THEN Append(queue, "shutdown") ELSE queue

-----------------------------------------------------------------------------
RoomLeft   == Len(queue) < Capacity
PoolIsOver == \A w \in Workers : worker[w] = "exited"
StopSeen   == stop
Arms(p)    == p # current /\ HasFault(p)

(* One period on, or up to now when the loop has fallen behind by more.    *)
NextSlot  == Max2(nextSlot + Phases[phase].period, now)
MustSleep == NextSlot > clock

(* put blocks while the queue is full.                                     *)
PutSentinel == RoomLeft /\ queue' = Append(queue, "shutdown")

-----------------------------------------------------------------------------
Init ==
  /\ clock = 0 /\ stop = FALSE
  /\ pc = "loop" /\ now = 0 /\ phase = NoPhase /\ current = NoPhase
  /\ nextSlot = 0 /\ shutdowns = 0 /\ failed = FALSE
  /\ queue = <<>> /\ worker = [w \in Workers |-> "get"]
  /\ sent = 0 /\ dropped = 0 /\ crashed = 0
  /\ opened = 0 /\ armed = <<>> /\ due = 0 /\ slipped = FALSE
  /\ opens = <<>> /\ afterStop = 0

(* Time passes, as long as run() is there to notice.                       *)
Tick == /\ clock < MaxClock
        /\ pc \notin Ended
        /\ clock' = clock + 1
        /\ UNCHANGED << stop, dispatcher, queue, workers, dropped, history >>

(* The signal handler: stop() sets the event.                              *)
Stop == /\ ~stop
        /\ pc \notin Ended
        /\ stop' = TRUE
        /\ UNCHANGED << clock, dispatcher, queue, workers, dropped, history >>

(* The head of the while loop.                                             *)
LeaveLoop ==
  /\ pc = "loop"
  /\ StopSeen \/ PhaseAt(clock) = NoPhase
  /\ pc' = "drain"
  /\ slipped' = (slipped \/ Late)
  /\ UNCHANGED << clock, stop, now, phase, current, nextSlot, shutdowns, failed,
                  queue, workers, dropped, opened, armed, due, opens, afterStop >>

BeginSlot ==
  /\ pc = "loop"
  /\ ~StopSeen
  /\ PhaseAt(clock) # NoPhase
  /\ now'     = clock
  /\ phase'   = PhaseAt(clock)
  /\ slipped' = (slipped \/ Late)
  /\ IF Arms(phase')
       THEN pc' = "arm"   /\ UNCHANGED current
       ELSE pc' = "offer" /\ current' = phase'
  /\ UNCHANGED << clock, stop, nextSlot, shutdowns, failed, queue, workers,
                  dropped, opened, armed, due, opens, afterStop >>

(* arm: the target answers with a status below 400.                        *)
ArmAccepted ==
  /\ pc = "arm"
  /\ armed'   = Append(armed, phase)
  /\ current' = phase
  /\ pc'      = "offer"
  /\ UNCHANGED << clock, stop, now, phase, nextSlot, shutdowns, failed, queue,
                  workers, dropped, opened, due, slipped, opens, afterStop >>

(* arm: a status of 400 or above, or none at all (599).  RuntimeError
   leaves the with block, whose exit waits for the pool's threads.         *)
ArmRefused ==
  /\ ArmMayFail
  /\ pc = "arm"
  /\ failed' = TRUE
  /\ pc'     = "join"
  /\ UNCHANGED << clock, stop, now, phase, current, nextSlot, shutdowns, queue,
                  workers, dropped, history >>

(* put_nowait, and record_dropped when the queue is full.                  *)
OfferSlot ==
  /\ pc = "offer"
  /\ IF RoomLeft THEN queue' = Append(queue, "slot") /\ UNCHANGED dropped
                 ELSE dropped' = dropped + 1 /\ UNCHANGED queue
  /\ pc' = "pace"
  /\ opened' = opened + 1
  /\ afterStop' = IF stop THEN afterStop + 1 ELSE afterStop
  /\ opens' = IF Len(opens) < 3 THEN Append(opens, clock)
                                ELSE << opens[2], opens[3], clock >>
  /\ UNCHANGED << clock, stop, now, phase, current, nextSlot, shutdowns, failed,
                  workers, armed, due, slipped >>

(* next_slot moves on; sleep only if that instant is still ahead.          *)
Pace ==
  /\ pc = "pace"
  /\ nextSlot' = NextSlot
  /\ due'      = due + Phases[phase].period
  /\ pc'       = IF MustSleep THEN "sleep" ELSE "loop"
  /\ UNCHANGED << clock, stop, now, phase, current, shutdowns, failed, queue,
                  workers, dropped, opened, armed, slipped, opens, afterStop >>

(* time.sleep returns when its time is over or later, never earlier: a
   signal does not cut it short.                                           *)
WakeUp ==
  /\ pc = "sleep"
  /\ clock >= nextSlot
  /\ pc' = "loop"
  /\ UNCHANGED << clock, stop, now, phase, current, nextSlot, shutdowns, failed,
                  queue, workers, dropped, history >>

(* One sentinel per worker.                                                *)
PutShutdown ==
  /\ pc = "drain"
  /\ shutdowns < NumWorkers
  /\ PutSentinel
  /\ shutdowns' = shutdowns + 1
  /\ UNCHANGED << clock, stop, pc, now, phase, current, nextSlot, failed,
                  workers, dropped, history >>

AllShutdownsPut ==
  /\ pc = "drain"
  /\ shutdowns = NumWorkers
  /\ pc' = "join"
  /\ UNCHANGED << clock, stop, now, phase, current, nextSlot, shutdowns, failed,
                  queue, workers, dropped, history >>

(* The pool's __exit__ is shutdown(wait=True): it returns, and lets an
   exception go on, once every worker thread has ended.                    *)
PoolExit ==
  /\ pc = "join"
  /\ PoolIsOver
  /\ pc' = IF failed THEN "raised" ELSE "returned"
  /\ UNCHANGED << clock, stop, now, phase, current, nextSlot, shutdowns, failed,
                  queue, workers, dropped, history >>

-----------------------------------------------------------------------------
(* A worker takes the head of the queue, and blocks while there is none.   *)
Get(w) ==
  /\ worker[w] = "get"
  /\ queue # <<>>
  /\ queue'  = Tail(queue)
  /\ worker' = [worker EXCEPT ![w] =
                  IF Head(queue) = "shutdown" THEN "exited" ELSE "send"]
  /\ UNCHANGED << clock, stop, dispatcher, sent, crashed, dropped, history >>

(* _send_one returns: any status, 599 included, is recorded.               *)
Answered(w) ==
  /\ worker[w] = "send"
  /\ worker' = [worker EXCEPT ![w] = "get"]
  /\ sent'   = sent + 1
  /\ UNCHANGED << clock, stop, dispatcher, queue, crashed, dropped, history >>

(* _send_one raises: the worker logs it and goes on.                       *)
Crashed(w) ==
  /\ worker[w] = "send"
  /\ worker'  = [worker EXCEPT ![w] = "get"]
  /\ crashed' = crashed + 1
  /\ UNCHANGED << clock, stop, dispatcher, queue, sent, dropped, history >>

Work(w) == Get(w) \/ Answered(w) \/ Crashed(w)

Dispatch == \/ LeaveLoop \/ BeginSlot
            \/ ArmAccepted \/ ArmRefused
            \/ OfferSlot \/ Pace \/ WakeUp
            \/ PutShutdown \/ AllShutdownsPut \/ PoolExit

(* run() is over.  With this step a deadlock is a hang and nothing else.   *)
Over == pc \in Ended /\ UNCHANGED vars

Next == Tick \/ Stop \/ Dispatch \/ (\E w \in Workers : Work(w)) \/ Over

Spec == Init /\ [][Next]_vars

(* Both kinds of thread are scheduled, time passes, and every call of the
   transport ends: urlopen is given a timeout.                             *)
FairSpec == /\ Spec
            /\ WF_vars(Tick)
            /\ WF_vars(Dispatch)
            /\ \A w \in Workers : WF_vars(Work(w))

-----------------------------------------------------------------------------
(* Type correctness; in particular the slot queue never outgrows maxsize.  *)
TypeOK ==
  /\ clock \in Nat /\ now \in Nat /\ nextSlot \in Nat /\ due \in Nat
  /\ stop \in BOOLEAN /\ failed \in BOOLEAN /\ slipped \in BOOLEAN
  /\ pc \in { "loop", "arm", "offer", "pace", "sleep", "drain", "join" }
             \cup Ended
  /\ phase \in PhaseIds \cup {NoPhase}
  /\ current \in PhaseIds \cup {NoPhase}
  /\ shutdowns \in 0..NumWorkers
  /\ queue \in Seq({"slot", "shutdown"}) /\ Len(queue) <= Capacity
  /\ worker \in [Workers -> {"get", "send", "exited"}]
  /\ sent \in Nat /\ dropped \in Nat /\ crashed \in Nat
  /\ opened \in Nat /\ afterStop \in Nat
  /\ armed \in Seq(PhaseIds)
  /\ opens \in Seq(Nat) /\ Len(opens) <= 3

(* run() hands its statistics over only when they are final: by then every
   slot ever opened was sent, dropped or lost to a broken transport.  It
   takes the FIFO order that keeps every sentinel behind every slot, and the
   pool's exit that waits for the requests still in flight.                *)
NothingAbandoned ==
  pc = "returned" => /\ queue = <<>>
                     /\ opened = sent + dropped + crashed

(* A phase's fault is armed at most once and in the scenario's order,
   however often a phase is re-read and however long the target takes
   (test_each_phase_arms_its_fault_once).                                  *)
ArmedOnceInOrder ==
  \A i, j \in DOMAIN armed : i < j => armed[i] < armed[j]

(* No traffic of a phase is offered before its fault is in force: when a
   slot is about to open, the phase's own fault was the last one accepted.  *)
FaultPrecedesTraffic ==
  pc = "offer" /\ HasFault(phase) => armed # <<>> /\ armed[Len(armed)] = phase

(* A run nobody stopped, whose loop never began an iteration a period late,
   armed the fault of every phase: the scenario is really played, none of
   its faults skipped.  (A phase has to outlast two periods of any rate.)   *)
NoPhaseSkipped ==
  /\ pc = "returned" /\ ~stop /\ ~slipped
  /\ \A i, j \in PhaseIds : Phases[i].duration >= 2 * Phases[j].period
  =>
    \A i \in PhaseIds : HasFault(i) => \E j \in DOMAIN armed : armed[j] = i

(* The offered load never runs ahead of the scenario: the n-th slot opens no
   sooner than the n-th multiple of 1/rps, whatever was lost or caught up.  *)
NeverEarly == pc \in {"arm", "offer"} => now >= due

(* A dispatcher that was held up does not make good with a burst: next_slot
   = max(..., now) lets two extra slots through, and the fourth after any
   slot comes a whole period later.                                        *)
NoBurst ==
  pc = "offer" /\ Len(opens) = 3 =>
    \E i \in PhaseIds : clock >= opens[1] + Phases[i].period

(* "Absolute slot deadlines rather than a fixed sleep per iteration: the
   latter drifts" (run): as long as no iteration begins a period late, the
   lateness of the single iterations leaves no trace in the schedule.      *)
NoDrift == ~slipped => nextSlot = due

(* After stop() at most the slot of the iteration under way is opened.     *)
StopIsPrompt == afterStop <= 1

(* A run always ends, unless a fault call fails: the scenario is over some
   time, or it is stopped, the sentinels find room in the queue and every
   worker meets one.                                                       *)
RunEnds == <>(pc = "returned" \/ failed)

(* test_arming_a_fault_against_a_broken_endpoint_fails_loudly: a run whose
   fault call fails raises.                                                *)
ArmFailureIsRaised == failed ~> pc = "raised"
=============================================================================
