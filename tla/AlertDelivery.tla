---------------------------- MODULE AlertDelivery ----------------------------
(***************************************************************************)
(* One group of alerts on its way from Alertmanager to the sink, and what  *)
(* the sink lists as firing.  Alertmanager is modelled from what           *)
(* alertmanager.yml asks of it: a group is flushed at intervals, whatever  *)
(* is muted or inhibited is left out, resolved alerts are sent once, and   *)
(* what is still firing is repeated.  The sink is NotificationHistory with *)
(* room for everything, so that of its history the listing is enough.      *)
(***************************************************************************)
EXTENDS Naturals

CONSTANTS
  Alerts,       \* the alerts of the group
  MaySuppress,  \* whether alerts may be muted or inhibited
  MaxChanges,   \* bound: alerts that begin to fire or resolve
  MaxTrouble    \* bound: POSTs given up and restarts of the sink

ASSUME DeliveryAssumption ==
  MaySuppress \in BOOLEAN /\ MaxChanges \in Nat /\ MaxTrouble \in Nat

VARIABLES
  firing,       \* the alerts Alertmanager holds as firing
  suppressed,   \* the alerts that are muted or inhibited now
  pool,         \* the group: firing, or resolved and not flushed since
  told,         \* the notification log: what the last accepted POST called firing
  post,         \* the POST under way: [at, firing, resolved, gone], where gone
                \* are the alerts that leave the group if it is accepted
  late,         \* POSTs given up that their handler threads may yet store
  listed,       \* /alerts/firing
  changes, trouble

group == << firing, suppressed, pool, told >>
vars  == << group, post, late, listed, changes, trouble >>

NoPost == [at |-> "idle", firing |-> {}, resolved |-> {}, gone |-> {}]

-----------------------------------------------------------------------------
(* Slips: the definition of the same name without the suffix, as a plausible
   edit of the configuration or the code would have it.                    *)

(* send_resolved: false.                                                   *)
ResolvedNotSent == {}

(* repeat_interval longer than anyone waits.                               *)
NeedsNoRepeat(f, r, repeat) == ~(f \subseteq told) \/ r \cap told # {}

(* The 200 written before the alerts are stored.                           *)
AcceptedAtOnce == post.at # "idle"

(* A resolved alert forgotten although it fires again.                     *)
KeptButRefired == pool \ post.gone

-----------------------------------------------------------------------------
(* What the next notification would carry.                                 *)
FiringSent   == (pool \cap firing) \ suppressed
ResolvedSent == pool \ (firing \cup suppressed)

(* Whether it is due: news, or the same again after the repeat_interval.   *)
Needs(f, r, repeat) ==
  ~(f \subseteq told) \/ r \cap told # {} \/ (repeat /\ f # {})

(* The newest notification wins, resolved alerts disappear (firing()).     *)
Merged(m) == (listed \ m.resolved) \cup m.firing

Accepted == post.at = "stored"

(* The group once the POST is accepted.                                    *)
Kept == pool \ (post.gone \ firing)

-----------------------------------------------------------------------------
Init == /\ firing = {} /\ suppressed = {} /\ pool = {} /\ told = {}
        /\ post = NoPost /\ late = {} /\ listed = {}
        /\ changes = 0 /\ trouble = 0

Fire(a) ==
  /\ a \notin firing /\ changes < MaxChanges
  /\ firing' = firing \cup {a} /\ pool' = pool \cup {a}
  /\ changes' = changes + 1
  /\ UNCHANGED << suppressed, told, post, late, listed, trouble >>

Resolve(a) ==
  /\ a \in firing /\ changes < MaxChanges
  /\ firing' = firing \ {a}
  /\ changes' = changes + 1
  /\ UNCHANGED << suppressed, pool, told, post, late, listed, trouble >>

(* Hours and other alerts come and go.                                     *)
Suppress(a) ==
  /\ MaySuppress
  /\ suppressed' = IF a \in suppressed THEN suppressed \ {a} ELSE suppressed \cup {a}
  /\ UNCHANGED << firing, pool, told, post, late, listed, changes, trouble >>

(* group_wait or group_interval is over.  With nothing to send, what has
   resolved is forgotten at once.                                          *)
Flush(repeat) ==
  /\ post.at = "idle" /\ pool # {}
  /\ IF Needs(FiringSent, ResolvedSent, repeat)
       THEN /\ post' = [at |-> "sent", firing |-> FiringSent,
                        resolved |-> ResolvedSent, gone |-> pool \ firing]
            /\ UNCHANGED pool
       ELSE /\ pool' = pool \cap firing
            /\ UNCHANGED post
  /\ UNCHANGED << firing, suppressed, told, late, listed, changes, trouble >>

(* do_POST stores the whole notification, then answers.                    *)
Store ==
  /\ post.at = "sent"
  /\ post' = [post EXCEPT !.at = "stored"]
  /\ listed' = Merged(post)
  /\ UNCHANGED << group, late, changes, trouble >>

(* The answer arrives.                                                     *)
Accept ==
  /\ Accepted
  /\ told' = post.firing
  /\ pool' = Kept
  /\ post' = NoPost
  /\ UNCHANGED << firing, suppressed, late, listed, changes, trouble >>

(* Alertmanager waits no longer.  The thread that serves the connection may
   still store what it has not stored.                                     *)
GiveUp ==
  /\ post.at # "idle" /\ trouble < MaxTrouble
  /\ late' = IF post.at = "sent" THEN late \cup {post} ELSE late
  /\ post' = NoPost
  /\ trouble' = trouble + 1
  /\ UNCHANGED << group, listed, changes >>

StoreLate(m) ==
  /\ m \in late
  /\ late' = late \ {m}
  /\ listed' = Merged(m)
  /\ UNCHANGED << group, post, changes, trouble >>

Lose(m) ==
  /\ m \in late
  /\ late' = late \ {m}
  /\ UNCHANGED << group, post, listed, changes, trouble >>

(* The sink is restarted: the list is lost with the connections, and
   Alertmanager tries a POST without an answer again.                      *)
RestartSink ==
  /\ trouble < MaxTrouble
  /\ trouble' = trouble + 1
  /\ listed' = {} /\ late' = {}
  /\ post' = IF post.at = "idle" THEN post ELSE [post EXCEPT !.at = "sent"]
  /\ UNCHANGED << group, changes >>

Deliver == Store \/ Accept
Linger  == \E m \in late : StoreLate(m) \/ Lose(m)

Next == \/ \E a \in Alerts : Fire(a) \/ Resolve(a) \/ Suppress(a)
        \/ \E repeat \in BOOLEAN : Flush(repeat)
        \/ Deliver \/ GiveUp \/ Linger \/ RestartSink

Spec == Init /\ [][Next]_vars

(* A POST is stored, answered or given up; one given up does not linger for
   ever; and the group's timers, which have no end, find it idle again and
   again after a repeat_interval.                                          *)
FairSpec == Spec /\ WF_vars(Deliver) /\ WF_vars(Linger) /\ SF_vars(Flush(TRUE))

-----------------------------------------------------------------------------
(* Type correctness; and no firing alert is lost from its group.           *)
TypeOK ==
  /\ firing \subseteq pool /\ pool \subseteq Alerts
  /\ suppressed \subseteq Alerts /\ told \subseteq Alerts /\ listed \subseteq Alerts
  /\ \A m \in late \cup {post} :
       /\ m \in [ at : {"idle", "sent", "stored"}, firing : SUBSET Alerts,
                  resolved : SUBSET Alerts, gone : SUBSET Alerts ]
       /\ m.firing \cap m.resolved = {}
  /\ changes \in 0..MaxChanges /\ trouble \in 0..MaxTrouble

(* What Alertmanager has on record as notified is on the sink's list (until
   the next POST is stored), as long as none was given up and the sink has
   not been restarted: a 200 is a promise about the store (do_POST).       *)
ToldIsListed ==
  trouble = 0 /\ post.at # "stored" => told \subseteq listed

(* Lost answers, POSTs overtaken by later ones, restarts of a sink that keeps
   nothing: an alert that goes on firing and is not suppressed ends up on the
   list and stays there.  It takes repeat_interval (alertmanager.yml).     *)
FiringComesBack ==
  \A a \in Alerts : <>[](a \in firing /\ a \notin suppressed) => <>[](a \in listed)

(* An alert that resolved leaves the list ("resolved alerts disappear from the
   list", AlertStore.firing), when it is never suppressed itself and no
   delivery fails.  It takes send_resolved (alertmanager.yml).             *)
ResolvedLeaves ==
  \A a \in Alerts :
    [](trouble = 0 /\ a \notin suppressed)
      => [](a \notin firing => <>(a \notin listed \/ a \in firing))
=============================================================================
