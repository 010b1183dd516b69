------------------------------ MODULE AlertSink ------------------------------
(***************************************************************************)
(* The webhook receiver: ThreadingHTTPServer runs WebhookHandler in one    *)
(* thread per connection, and every thread works on the one AlertStore of  *)
(* the process, a deque(maxlen) behind a lock.  A step is what a thread    *)
(* does between two points where another thread can be seen to run: it     *)
(* reads a request and parses it, takes the lock, appends one alert, lets  *)
(* the lock go, copies the deque under the lock, writes its response.      *)
(***************************************************************************)
EXTENDS ReceivedAlerts

CONSTANTS
  Clients,        \* connections, each served by a handler thread of its own
  Batches,        \* the alert lists a well-formed notification can carry
  Malformed,      \* an entry of a notification that parse_notification refuses
  NoOne,          \* the lock when no thread is inside it
  MaxRequests,    \* bound: requests read over a behaviour
  MaxRestarts     \* bound: restarts of the process over a behaviour

ASSUME BatchesCarryAlerts == Batches \subseteq Seq(Alert)
ASSUME NoOneIsNoClient    == NoOne \notin Clients

VARIABLES
  items,          \* AlertStore._items, oldest first
  lock,           \* AlertStore._lock: the thread inside the with block
  pc,             \* per thread: where its handler is
  body,           \* per thread: the entries of the notification it handles
  pending,        \* per thread: the alerts add_all has not appended yet
  added,          \* per thread: add_all's local counter
  status,         \* per thread: the last response it wrote
  snapshot,       \* per thread: the list recent() returned to firing()
  latest,         \* history: the last alert stored under each key
  requests,       \* history: requests read so far
  restarts        \* history: restarts so far

vars == << items, lock, pc, body, pending, added, status, snapshot, latest,
           requests, restarts >>

Nothing == <<>>

-----------------------------------------------------------------------------
(* Slips: the definition of the same name without the suffix, as a plausible
   edit of the code would have it.  Each is what one property is there to
   catch; none is part of the specification.                               *)

(* The deque built without maxlen.                                         *)
Append1Unbounded(s, a) == Append(s, a)

(* A full buffer that refuses the new alert instead of evicting the oldest. *)
Append1KeepsOldest(s, a) == IF Len(s) < Capacity THEN Append(s, a) ELSE s

(* add_all's return inside its loop.                                       *)
AllAddedAfterOne(c) == pending[c] = Nothing \/ added[c] > 0

(* The lock acquired by hand and not given back.                           *)
ReleaseForgotten == UNCHANGED lock

(* The deque copied outside the with block.                                *)
MayCopyAtOnce == TRUE

-----------------------------------------------------------------------------
(* deque(maxlen=Capacity).append: a full deque drops its oldest entry.     *)
Append1(s, a) ==
  IF Len(s) < Capacity THEN Append(s, a) ELSE Append(Tail(s), a)

(* What a client may send: the entries of a well-formed notification, with
   or without one that parse_notification refuses (an entry that is no
   object, or has no alertname).  A body that is no notification at all,
   missing or oversized is the one-entry case of the latter: 400, and
   nothing stored.                                                         *)
Bodies == Batches \cup { Append(b, Malformed) : b \in Batches }
                  \cup { <<Malformed>> \o b : b \in Batches }

WellFormed(b) == \A i \in DOMAIN b : b[i] # Malformed

AllAdded(c) == pending[c] = Nothing

(* The two with blocks: how add_all leaves its own, and when recent enters
   and leaves its own.                                                     *)
Release == lock' = NoOne
MayCopy == lock = NoOne

-----------------------------------------------------------------------------
Init ==
  /\ items    = <<>>
  /\ lock     = NoOne
  /\ pc       = [c \in Clients |-> "idle"]
  /\ body     = [c \in Clients |-> Nothing]
  /\ pending  = [c \in Clients |-> Nothing]
  /\ added    = [c \in Clients |-> 0]
  /\ status   = [c \in Clients |-> "none"]
  /\ snapshot = [c \in Clients |-> Nothing]
  /\ latest   = [k \in Keys |-> NoOne]
  /\ requests = 0
  /\ restarts = 0

(* do_POST up to rfile.read: the connection's thread has the whole body.   *)
ReadNotification(c, b) ==
  /\ pc[c] = "idle"
  /\ requests < MaxRequests
  /\ requests' = requests + 1
  /\ pc'     = [pc EXCEPT ![c] = "parse"]
  /\ body'   = [body EXCEPT ![c] = b]
  /\ status' = [status EXCEPT ![c] = "none"]
  /\ added'  = [added EXCEPT ![c] = 0]
  /\ UNCHANGED << items, lock, pending, snapshot, latest, restarts >>

(* parse_notification: one bad entry refuses the whole notification.       *)
ParseNotification(c) ==
  /\ pc[c] = "parse"
  /\ IF WellFormed(body[c])
       THEN /\ pending' = [pending EXCEPT ![c] = body[c]]
            /\ pc'      = [pc EXCEPT ![c] = "add_all"]
            /\ UNCHANGED status
       ELSE /\ status'  = [status EXCEPT ![c] = "bad request"]
            /\ pc'      = [pc EXCEPT ![c] = "idle"]
            /\ UNCHANGED pending
  /\ UNCHANGED << items, lock, body, added, snapshot, latest, requests, restarts >>

(* add_all enters its with block.                                          *)
AcquireForAdd(c) ==
  /\ pc[c] = "add_all"
  /\ lock = NoOne
  /\ lock' = c
  /\ pc'   = [pc EXCEPT ![c] = "append"]
  /\ UNCHANGED << items, body, pending, added, status, snapshot, latest,
                  requests, restarts >>

(* One turn of add_all's loop.                                             *)
AppendOne(c) ==
  /\ pc[c] = "append"
  /\ pending[c] # Nothing
  /\ LET a == Head(pending[c])
     IN  /\ items'  = Append1(items, a)
         /\ latest' = [latest EXCEPT ![Key(a)] = a]
  /\ pending' = [pending EXCEPT ![c] = Tail(@)]
  /\ added'   = [added EXCEPT ![c] = @ + 1]
  /\ UNCHANGED << lock, pc, body, status, snapshot, requests, restarts >>

(* add_all leaves its with block and returns.                              *)
ReleaseAfterAdd(c) ==
  /\ pc[c] = "append"
  /\ AllAdded(c)
  /\ Release
  /\ pc'   = [pc EXCEPT ![c] = "accepted"]
  /\ UNCHANGED << items, body, pending, added, status, snapshot, latest,
                  requests, restarts >>

(* The log lines, then 200 with the number of alerts accepted.             *)
RespondAccepted(c) ==
  /\ pc[c] = "accepted"
  /\ status' = [status EXCEPT ![c] = "ok"]
  /\ pc'     = [pc EXCEPT ![c] = "idle"]
  /\ UNCHANGED << items, lock, body, pending, added, snapshot, latest,
                  requests, restarts >>

(* do_GET on /alerts/firing: firing() calls recent() first.                *)
ReadQuery(c) ==
  /\ pc[c] = "idle"
  /\ requests < MaxRequests
  /\ requests' = requests + 1
  /\ pc'     = [pc EXCEPT ![c] = "recent"]
  /\ body'   = [body EXCEPT ![c] = Nothing]
  /\ status' = [status EXCEPT ![c] = "none"]
  /\ added'  = [added EXCEPT ![c] = 0]
  /\ UNCHANGED << items, lock, pending, snapshot, latest, restarts >>

(* recent() copies the deque inside its with block.  Every other step that
   looks at the deque needs the lock, so acquire, copy and release are one. *)
Recent(c) ==
  /\ pc[c] = "recent"
  /\ MayCopy
  /\ snapshot' = [snapshot EXCEPT ![c] = items]
  /\ pc'       = [pc EXCEPT ![c] = "firing"]
  /\ UNCHANGED << items, lock, body, pending, added, status, latest,
                  requests, restarts >>

(* The rest of firing() works on that copy; the response carries
   Firing(snapshot[c]).                                                    *)
RespondFiring(c) ==
  /\ pc[c] = "firing"
  /\ status' = [status EXCEPT ![c] = "ok"]
  /\ pc'     = [pc EXCEPT ![c] = "idle"]
  /\ UNCHANGED << items, lock, body, pending, added, snapshot, latest,
                  requests, restarts >>

(* The container is restarted: STORE is built anew and no thread survives. *)
Restart ==
  /\ restarts < MaxRestarts
  /\ restarts' = restarts + 1
  /\ items'   = <<>>
  /\ lock'    = NoOne
  /\ pc'      = [c \in Clients |-> "idle"]
  /\ body'    = [c \in Clients |-> Nothing]
  /\ pending' = [c \in Clients |-> Nothing]
  /\ added'   = [c \in Clients |-> 0]
  /\ status'  = [c \in Clients |-> "none"]
  /\ latest'  = [k \in Keys |-> NoOne]
  /\ UNCHANGED << snapshot, requests >>

(* One step of the thread that serves c, once it has a request in hand.    *)
Handle(c) == \/ ParseNotification(c)
             \/ AcquireForAdd(c)
             \/ AppendOne(c)
             \/ ReleaseAfterAdd(c)
             \/ RespondAccepted(c)
             \/ Recent(c)
             \/ RespondFiring(c)

Next == \/ \E c \in Clients : \/ \E b \in Bodies : ReadNotification(c, b)
                              \/ ReadQuery(c)
                              \/ Handle(c)
        \/ Restart

Spec == Init /\ [][Next]_vars

(* The operating system runs every runnable thread.  The lock is not fair,
   but the requests of a behaviour are finitely many, so a thread waiting
   for it finds it free for good once the others are done.                 *)
FairSpec == Spec /\ \A c \in Clients : WF_vars(Handle(c))

-----------------------------------------------------------------------------
(* Type correctness: a thread is at one of the handler's points, only known
   clients hold the lock, and the deque never outgrows its maxlen.         *)
TypeOK ==
  /\ items \in Seq(Alert) /\ Len(items) <= Capacity
  /\ lock \in Clients \cup {NoOne}
  /\ pc \in [Clients -> { "idle", "parse", "add_all", "append", "accepted",
                          "recent", "firing" }]
  /\ body \in [Clients -> Seq(Alert \cup {Malformed})]
  /\ pending \in [Clients -> Seq(Alert)]
  /\ added \in [Clients -> Nat]
  /\ status \in [Clients -> { "none", "ok", "bad request" }]
  /\ snapshot \in [Clients -> Seq(Alert)]
  /\ latest \in [Keys -> Alert \cup {NoOne}]
  /\ requests \in Nat
  /\ restarts \in Nat

(* firing() says "the newest notification wins and resolved alerts disappear
   from the list" (store.py): whatever was evicted meanwhile, no alert is
   listed on the strength of a notification that a later one superseded.   *)
ListedIsLatest == \A a \in Firing(items) : latest[Key(a)] = a

(* A response tells the truth about the store: Alertmanager, which gives a
   notification up on 200 and on 400, is told 200 only after every alert of
   it was appended, and 400 only when none was (do_POST).                  *)
ResponseTellsStore ==
  \A c \in Clients :
    /\ status[c] = "ok" => added[c] = Len(body[c])
    /\ status[c] = "bad request" => added[c] = 0

(* The deque belongs to the lock's holder: a thread is inside add_all's with
   block exactly when the lock names it, so no two ever append in turns.   *)
LockGuardsAppends == \A c \in Clients : pc[c] = "append" <=> lock = c

(* The threads implement the promise: a notification enters the history
   whole, at the moment its thread gets the lock, and every /alerts/firing
   answer is that of one history that really was.                          *)
Promise == INSTANCE NotificationHistory WITH
  history <- IF lock = NoOne THEN items ELSE Retained(items \o pending[lock]),
  listing <- [c \in Clients |-> Firing(snapshot[c])]

ImplementsHistory == Promise!Spec

(* No handler is stuck: every request a thread has read is answered, or its
   thread dies with the process (with one lock and a leak, none would be). *)
EveryRequestAnswered == \A c \in Clients : pc[c] # "idle" ~> pc[c] = "idle"
=============================================================================
