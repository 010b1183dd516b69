----------------------------- MODULE CheckAlerts -----------------------------
(***************************************************************************)
(* make check-alerts, beside the delivery it looks at: Prometheus, then    *)
(* Alertmanager, then the sink are asked, one after the other, while       *)
(* alerts go on firing, resolving and being delivered between the answers. *)
(***************************************************************************)
EXTENDS AlertDelivery, Sequences

VARIABLES
  rule,       \* per alert: its state in Prometheus
  asked,      \* sources that collect has been through, 0 before it
  rows,       \* per source: the [alert, state] of its rows
  problems,   \* the sources that gave a QueryError
  garbled,    \* history: the sources that answered with another JSON than theirs
  steady      \* history: alerts every source has had to show since the start

report    == << asked, rows, problems, garbled >>
checkVars == << vars, rule, report, steady >>

(* In the order of collect's tuple.                                        *)
Sources == << "prometheus", "alertmanager", "sink" >>

SourceSet == { Sources[i] : i \in DOMAIN Sources }

-----------------------------------------------------------------------------
(* Slips: the definition of the same name without the suffix, as a plausible
   edit of the code would have it.                                         *)

(* A try around the loop instead of one in it.                             *)
AskedUntilProblem(failed) == IF failed THEN Len(Sources) ELSE asked + 1

-----------------------------------------------------------------------------
(* What a source answers: /api/v1/alerts has the pending alerts too, and
   /api/v2/alerts the suppressed ones.                                     *)
Shown ==
  [ prometheus   |-> { [alert |-> a, state |-> rule[a]] :
                         a \in { b \in Alerts : rule[b] # "inactive" } },
    alertmanager |-> { [alert |-> a, state |-> IF a \in suppressed THEN "suppressed"
                                               ELSE "active"] : a \in firing },
    sink         |-> { [alert |-> a, state |-> "firing"] : a \in listed } ]

(* Of fetch_json: the JSON its parser expects, a QueryError, or JSON of
   another shape, which makes no rows.                                     *)
Answers == { "rows", "error", "garbage" }

Names(rs) == { r.alert : r \in rs }

Everywhere == { a \in Alerts : \A s \in SourceSet : a \in Names(Shown[s]) }

(* The sources gone through once one more has answered, or failed to.      *)
Asked(failed) == asked + 1

-----------------------------------------------------------------------------
CheckInit ==
  /\ Init
  /\ rule = [a \in Alerts |-> "inactive"]
  /\ asked = 0 /\ rows = [s \in SourceSet |-> {}] /\ problems = {} /\ garbled = {}
  /\ steady = Alerts

(* The expression of the rule begins to hold, has held for its "for", holds
   no longer.                                                              *)
Evaluate(a) ==
  /\ changes < MaxChanges
  /\ \/ rule[a] = "inactive" /\ rule' = [rule EXCEPT ![a] = "pending"]
     \/ rule[a] = "pending"  /\ rule' = [rule EXCEPT ![a] = "firing"]
     \/ rule[a] # "inactive" /\ rule' = [rule EXCEPT ![a] = "inactive"]
  /\ UNCHANGED vars

(* Prometheus tells Alertmanager, and Alertmanager the sink.               *)
Delivery == /\ Next
            /\ firing' \subseteq firing \cup { a \in Alerts : rule[a] = "firing" }
            /\ firing \subseteq firing' \cup { a \in Alerts : rule[a] = "inactive" }
            /\ UNCHANGED rule

(* What the history takes in of a step that is not the check's.            *)
Watch == steady' = steady \cap Everywhere'

(* collect asks its next source, and notes a QueryError.                   *)
Ask(answer) ==
  /\ asked < Len(Sources)
  /\ LET s == Sources[asked + 1]
     IN  /\ rows' = [rows EXCEPT ![s] = IF answer = "rows" THEN Shown[s] ELSE {}]
         /\ problems' = IF answer = "error" THEN problems \cup {s} ELSE problems
         /\ garbled' = IF answer = "garbage" THEN garbled \cup {s} ELSE garbled
  /\ asked' = Asked(answer = "error")
  /\ steady' = IF asked = 0 THEN Everywhere ELSE steady
  /\ UNCHANGED << vars, rule >>

CheckNext ==
  \/ (Delivery \/ \E a \in Alerts : Evaluate(a)) /\ Watch /\ UNCHANGED report
  \/ \E answer \in Answers : Ask(answer)

CheckSpec == CheckInit /\ [][CheckNext]_checkVars

-----------------------------------------------------------------------------
Checked == asked = Len(Sources)

(* An alert that fires, and is delivered, all the while the sources are being
   asked has a row from every source that answered, whichever of the others
   did not ("they fail independently", check.py).                          *)
SteadyAlertIsShown ==
  Checked =>
    \A a \in steady : \A s \in SourceSet \ (problems \cup garbled) : a \in Names(rows[s])
=============================================================================
