------------------------- MODULE AlertDeliveryProofs -------------------------
(***************************************************************************)
(* Of AlertDelivery: its types, and that what Alertmanager has on record   *)
(* as notified is on the sink's list.  Of CheckAlerts: that looking        *)
(* changes nothing, and that a steady alert has its row from every source  *)
(* that answered.                                                          *)
(***************************************************************************)
EXTENDS CheckAlerts, TLAPS

-----------------------------------------------------------------------------
(* What a flush would send is drawn from the group, and no alert is in both
   halves of it.                                                           *)
LEMMA WhatAFlushSends ==
  ASSUME pool \subseteq Alerts
  PROVE  /\ FiringSent \in SUBSET Alerts /\ ResolvedSent \in SUBSET Alerts
         /\ pool \ firing \in SUBSET Alerts
         /\ FiringSent \cap ResolvedSent = {}
  BY DEF FiringSent, ResolvedSent

(* Type correctness of a delivery: a firing alert is never lost from its
   group, however it is flushed, answered, given up or retried, and no
   notification carries an alert both as firing and as resolved.           *)
THEOREM TypeCorrect == Spec => []TypeOK
<1>1. Init => TypeOK
  BY DeliveryAssumption DEF Init, TypeOK, NoPost
<1>2. TypeOK /\ [Next]_vars => TypeOK'
  <2> SUFFICES ASSUME TypeOK, [Next]_vars
               PROVE  TypeOK'
    OBVIOUS
  <2> USE DeliveryAssumption DEF TypeOK, group
  <2>1. ASSUME NEW a \in Alerts, Fire(a) PROVE TypeOK'
    BY <2>1 DEF Fire
  <2>2. ASSUME NEW a \in Alerts, Resolve(a) PROVE TypeOK'
    BY <2>2 DEF Resolve
  <2>3. ASSUME NEW a \in Alerts, Suppress(a) PROVE TypeOK'
    BY <2>3 DEF Suppress
  <2>4. ASSUME NEW repeat \in BOOLEAN, Flush(repeat) PROVE TypeOK'
    <3>1. CASE Needs(FiringSent, ResolvedSent, repeat)
      <4>1. post' = [at |-> "sent", firing |-> FiringSent,
                     resolved |-> ResolvedSent, gone |-> pool \ firing]
        BY <2>4, <3>1 DEF Flush
      <4>2. /\ post' \in [ at : {"idle", "sent", "stored"}, firing : SUBSET Alerts,
                           resolved : SUBSET Alerts, gone : SUBSET Alerts ]
            /\ post'.firing \cap post'.resolved = {}
        BY <4>1, WhatAFlushSends
      <4>3. UNCHANGED << firing, suppressed, pool, told, late, listed, changes, trouble >>
        BY <2>4, <3>1 DEF Flush
      <4> QED BY <4>2, <4>3
    <3>2. CASE ~Needs(FiringSent, ResolvedSent, repeat)
      BY <2>4, <3>2 DEF Flush
    <3> QED BY <3>1, <3>2
  <2>5. ASSUME Store PROVE TypeOK'
    BY <2>5 DEF Store, Merged
  <2>6. ASSUME Accept PROVE TypeOK'
    BY <2>6 DEF Accept, Kept, NoPost
  <2>7. ASSUME GiveUp PROVE TypeOK'
    BY <2>7 DEF GiveUp, NoPost
  <2>8. ASSUME NEW m \in late, StoreLate(m) PROVE TypeOK'
    BY <2>8 DEF StoreLate, Merged
  <2>9. ASSUME NEW m \in late, Lose(m) PROVE TypeOK'
    BY <2>9 DEF Lose
  <2>10. ASSUME RestartSink PROVE TypeOK'
    BY <2>10 DEF RestartSink
  <2>11. CASE UNCHANGED vars
    BY <2>11 DEF vars
  <2> QED
    BY <2>1, <2>2, <2>3, <2>4, <2>5, <2>6, <2>7, <2>8, <2>9, <2>10, <2>11
       DEF Next, Deliver, Linger
<1> QED BY <1>1, <1>2, PTL DEF Spec

-----------------------------------------------------------------------------
(* ToldIsListed is not inductive: Accept puts on record what the POST under
   way carries, so between the store and the answer that is what is listed. *)
ListedInv ==
  trouble = 0 =>
    /\ late = {}
    /\ post.at = "stored" => post.firing \subseteq listed
    /\ post.at # "stored" => told \subseteq listed

(* What Alertmanager has on record as notified is on the sink's list, for any
   alerts, whatever is muted or inhibited meanwhile: do_POST stores the whole
   notification before it answers.                                         *)
THEOREM ToldAlertsAreListed == Spec => []ToldIsListed
<1>1. Init => ListedInv
  BY DEF Init, ListedInv, NoPost
<1>2. TypeOK /\ ListedInv /\ [Next]_vars => ListedInv'
  <2> SUFFICES ASSUME TypeOK, ListedInv, [Next]_vars
               PROVE  ListedInv'
    OBVIOUS
  <2> USE DEF ListedInv, group
  <2>1. ASSUME NEW a \in Alerts, Fire(a) \/ Resolve(a) \/ Suppress(a) PROVE ListedInv'
    BY <2>1 DEF Fire, Resolve, Suppress
  <2>2. ASSUME NEW repeat \in BOOLEAN, Flush(repeat) PROVE ListedInv'
    BY <2>2 DEF Flush
  <2>3. ASSUME Store PROVE ListedInv'
    <3>1. post'.at = "stored" /\ post'.firing = post.firing
      BY <2>3 DEF Store, TypeOK
    <3>2. post.firing \subseteq listed'
      BY <2>3 DEF Store, Merged
    <3> QED BY <2>3, <3>1, <3>2 DEF Store
  <2>4. ASSUME Accept PROVE ListedInv'
    BY <2>4 DEF Accept, Accepted, NoPost
  <2>5. ASSUME GiveUp \/ RestartSink PROVE ListedInv'
    BY <2>5, DeliveryAssumption DEF GiveUp, RestartSink, TypeOK
  <2>6. ASSUME NEW m \in late, StoreLate(m) \/ Lose(m) PROVE ListedInv'
    BY <2>6 DEF StoreLate, Lose
  <2>7. CASE UNCHANGED vars
    BY <2>7 DEF vars
  <2> QED
    BY <2>1, <2>2, <2>3, <2>4, <2>5, <2>6, <2>7 DEF Next, Deliver, Linger
<1>3. ListedInv => ToldIsListed
  BY DEF ListedInv, ToldIsListed
<1> QED BY <1>1, <1>2, <1>3, TypeCorrect, PTL DEF Spec

-----------------------------------------------------------------------------
(* make check-alerts only looks: beside it the delivery is one without it. *)
THEOREM LookingChangesNothing == CheckSpec => Spec
<1>1. CheckInit => Init
  BY DEF CheckInit
<1>2. [CheckNext]_checkVars => [Next]_vars
  BY DEF CheckNext, checkVars, Delivery, Evaluate, Ask
<1> QED BY <1>1, <1>2, PTL DEF CheckSpec, Spec

(* The three sources are three.                                            *)
LEMMA SourcesAreDistinct ==
  /\ Len(Sources) = 3
  /\ \A i \in 1..3 : Sources[i] \in SourceSet
  /\ \A i, j \in 1..3 : Sources[i] = Sources[j] => i = j
  /\ \A s \in SourceSet : \E i \in 1..3 : s = Sources[i]
  BY DEF Sources, SourceSet

(* While the check is under way: every source shows the steady alerts, and
   those gone through have shown them, or failed.                          *)
CheckInv ==
  /\ asked \in 0..3 /\ DOMAIN rows = SourceSet
  /\ asked > 0 => steady \subseteq Everywhere
  /\ \A i \in 1..asked :
       Sources[i] \notin problems \cup garbled => steady \subseteq Names(rows[Sources[i]])

(* One source is asked.                                                    *)
LEMMA AskKeepsCheckInv ==
  ASSUME CheckInv, NEW answer \in Answers, Ask(answer)
  PROVE  CheckInv'
<1> USE SourcesAreDistinct DEF CheckInv
<1> DEFINE s == Sources[asked + 1]
<1>1. /\ asked < 3 /\ asked' = asked + 1
      /\ rows' = [rows EXCEPT ![s] = IF answer = "rows" THEN Shown[s] ELSE {}]
      /\ problems' = IF answer = "error" THEN problems \cup {s} ELSE problems
      /\ garbled' = IF answer = "garbage" THEN garbled \cup {s} ELSE garbled
      /\ steady' = IF asked = 0 THEN Everywhere ELSE steady
  BY DEF Ask, Asked
<1>2. Everywhere' = Everywhere
  BY DEF Ask, Everywhere, Shown, vars, group
<1>3. asked + 1 \in 1..3 /\ s \in SourceSet
  BY <1>1
<1>4. asked' \in 0..3 /\ DOMAIN rows' = SourceSet
  BY <1>1
<1>5. steady' \subseteq Everywhere
  BY <1>1
<1>6. s \notin problems' \cup garbled' => steady' \subseteq Names(rows'[s])
  <2> SUFFICES ASSUME s \notin problems' \cup garbled'
               PROVE  steady' \subseteq Names(rows'[s])
    OBVIOUS
  <2>1. answer = "rows"
    BY <1>1 DEF Answers
  <2>2. rows'[s] = Shown[s]
    BY <2>1, <1>1, <1>3
  <2>3. Everywhere \subseteq Names(Shown[s])
    BY <1>3 DEF Everywhere
  <2> QED BY <1>5, <2>2, <2>3
<1>7. ASSUME NEW i \in 1..asked', Sources[i] \notin problems' \cup garbled'
      PROVE  steady' \subseteq Names(rows'[Sources[i]])
  <2>1. CASE i = asked + 1
    BY <1>6, <1>7, <2>1
  <2>2. CASE i # asked + 1
    <3>1. i \in 1..asked /\ i \in 1..3 /\ asked # 0
      BY <1>1, <2>2
    <3>2. Sources[i] \in SourceSet /\ Sources[i] # s
      BY <3>1, <1>3
    <3>3. rows'[Sources[i]] = rows[Sources[i]] /\ steady' = steady
      BY <1>1, <3>1, <3>2
    <3>4. Sources[i] \notin problems \cup garbled
      BY <1>1, <1>7
    <3> QED BY <3>1, <3>3, <3>4
  <2> QED BY <2>1, <2>2
<1> QED BY <1>2, <1>4, <1>5, <1>7

(* An alert that fires and is delivered all the while has its row from every
   source that answered, for any alerts and whichever of the others failed:
   collect goes on after a QueryError.                                     *)
THEOREM SteadyAlertsAreShown == CheckSpec => []SteadyAlertIsShown
<1>1. CheckInit => CheckInv
  BY DEF CheckInit, CheckInv
<1>2. CheckInv /\ [CheckNext]_checkVars => CheckInv'
  <2> SUFFICES ASSUME CheckInv, [CheckNext]_checkVars
               PROVE  CheckInv'
    OBVIOUS
  <2>1. ASSUME Watch, UNCHANGED report PROVE CheckInv'
    <3>1. UNCHANGED << asked, rows, problems, garbled >>
      BY <2>1 DEF report
    <3>2. steady' \subseteq steady /\ steady' \subseteq Everywhere'
      BY <2>1 DEF Watch
    <3> QED BY <3>1, <3>2 DEF CheckInv
  <2>2. ASSUME NEW answer \in Answers, Ask(answer) PROVE CheckInv'
    BY <2>2, AskKeepsCheckInv
  <2>3. CASE UNCHANGED checkVars
    <3>1. Everywhere' = Everywhere
      BY <2>3 DEF checkVars, vars, group, Everywhere, Shown
    <3> QED BY <2>3, <3>1 DEF checkVars, report, CheckInv
  <2> QED BY <2>1, <2>2, <2>3 DEF CheckNext
<1>3. CheckInv => SteadyAlertIsShown
  <2> SUFFICES ASSUME CheckInv, Checked, NEW a \in steady,
                      NEW s \in SourceSet \ (problems \cup garbled)
               PROVE  a \in Names(rows[s])
    BY DEF SteadyAlertIsShown
  <2>1. asked = 3
    BY SourcesAreDistinct DEF Checked
  <2>2. PICK i \in 1..3 : s = Sources[i]
    BY SourcesAreDistinct
  <2> QED BY <2>1, <2>2 DEF CheckInv
<1> QED BY <1>1, <1>2, <1>3, PTL DEF CheckSpec
=============================================================================
