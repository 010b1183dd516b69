-------------------------- MODULE AlertRoutingProofs --------------------------
(***************************************************************************)
(* The routing and the inhibition rules, for every set of alerts with the  *)
(* names of prometheus/rules, whatever their jobs and instances.           *)
(***************************************************************************)
EXTENDS AlertRouting, TLAPS

(* The state is well typed at every step.                                  *)
LEMMA TypeCorrect == Spec => []TypeOK
<1>1. Init => TypeOK  BY DEF Init, TypeOK
<1>2. TypeOK /\ [Next]_vars => TypeOK'
  <2>1. SUFFICES ASSUME TypeOK, [Next]_vars  PROVE TypeOK'
        OBVIOUS
  <2>2. CASE PassHour
    <3>1. \A n \in 0..23 : (n + 1) % 24 \in 0..23  OBVIOUS
    <3>2. \A n \in 0..6 : (n + 1) % 7 \in 0..6  OBVIOUS
    <3>3. QED  BY <2>1, <2>2, <3>1, <3>2 DEF TypeOK, PassHour
  <2>3. CASE \E a \in Alerts : Fire(a) \/ Resolve(a)
    BY <2>1, <2>3 DEF TypeOK, Fire, Resolve
  <2>4. CASE UNCHANGED vars  BY <2>1, <2>4 DEF TypeOK, vars
  <2>5. QED  BY <2>1, <2>2, <2>3, <2>4 DEF Next
<1>3. QED  BY <1>1, <1>2, PTL DEF Spec

-----------------------------------------------------------------------------
(* What Inhibits says, rule by rule.                                       *)
LEMMA InhibitsByRule ==
  ASSUME NEW s, NEW t
  PROVE  Inhibits(s, t) <=>
           \/ /\ s.alertname \in CriticalRules /\ t.alertname \in WarningRules
              /\ s.job = t.job
           \/ /\ s.alertname = "TargetDown" /\ t.alertname \in BlindedRules
              /\ s.job = t.job
           \/ /\ s.alertname = "ProbeFailed" /\ t.alertname = "ProbeSlow"
              /\ s.instance = t.instance
BY DEF Inhibits, InhibitRules

(* The three kinds of name, as far as the rules tell them apart.           *)
LEMMA Names ==
  /\ CriticalRules \cap WarningRules = {}
  /\ {"TargetDown", "ProbeFailed"} \subseteq CriticalRules
  /\ "TargetDown" \notin BlindedRules /\ "ProbeFailed" \notin BlindedRules
  /\ "ProbeSlow" \in WarningRules
BY DEF CriticalRules, WarningRules, BlindedRules

(* A critical alert is silent only when it is inhibited, at any hour.      *)
LEMMA CriticalPages ==
  ASSUME NEW a \in firing, a.alertname \in CriticalRules, ~Inhibited(a)
  PROVE  Paged(a)
<1>1. Route(a) \in {"meta", "critical"}  BY DEF Route
<1>2. ~Muted(a)  BY <1>1 DEF Muted
<1>3. Receiver[Route(a)] = "pager"  BY <1>1 DEF Receiver
<1>4. QED  BY <1>2, <1>3 DEF Paged, Notified

(* Neither of the alerts that speak for others is ever inhibited itself.   *)
LEMMA SpokesmenPage ==
  ASSUME NEW a \in firing, a.alertname \in {"TargetDown", "ProbeFailed"}
  PROVE  Paged(a)
<1>1. a.alertname \notin WarningRules /\ a.alertname \notin BlindedRules
      /\ a.alertname # "ProbeSlow"
      BY Names
<1>2. ~Inhibited(a)  BY <1>1, InhibitsByRule DEF Inhibited
<1>3. QED  BY <1>2, CriticalPages, Names

(* Inhibition never makes an incident silent: each suppressed alert has a
   suppressor that is being paged for, at any hour and with any other alerts
   firing.  The one chain there is, a warning behind a critical behind
   TargetDown, is short-cut because both rules ask for the same job.       *)
THEOREM SuppressionIsSpokenFor == Spec => []HiddenBehindAPage
<1>1. HiddenBehindAPage
  <2>1. SUFFICES ASSUME NEW a \in firing, NEW s \in firing, Inhibits(s, a)
                 PROVE  \E u \in firing : Inhibits(u, a) /\ Paged(u)
        BY DEF HiddenBehindAPage, Inhibited
  <2>2. CASE s.alertname \in {"TargetDown", "ProbeFailed"}
        BY <2>1, <2>2, SpokesmenPage
  <2>3. CASE s.alertname \notin {"TargetDown", "ProbeFailed"}
    <3>1. /\ s.alertname \in CriticalRules /\ a.alertname \in WarningRules
          /\ s.job = a.job
          BY <2>1, <2>3, InhibitsByRule
    <3>2. CASE ~Inhibited(s)  BY <2>1, <3>1, <3>2, CriticalPages
    <3>3. CASE Inhibited(s)
      <4>1. PICK u \in firing : Inhibits(u, s)  BY <3>3 DEF Inhibited
      <4>2. s.alertname \notin WarningRules /\ s.alertname # "ProbeSlow"
            BY <3>1, Names
      <4>3. u.alertname = "TargetDown" /\ u.job = a.job
            BY <3>1, <4>1, <4>2, InhibitsByRule
      <4>4. Inhibits(u, a)  BY <3>1, <4>3, Names, InhibitsByRule
      <4>5. QED  BY <4>3, <4>4, SpokesmenPage
    <3>4. QED  BY <3>2, <3>3
  <2>4. QED  BY <2>2, <2>3
<1>2. QED  BY <1>1, PTL

(* No warning is notified between 20:00 and 09:00 or at the weekend.       *)
THEOREM WarningsWait == Spec => []NightIsQuiet
<1>1. TypeOK => NightIsQuiet
  <2>1. SUFFICES ASSUME TypeOK, NEW a \in firing, Notified(a),
                        day \in {5, 6} \/ hour \notin 9..19,
                        a.alertname \notin CriticalRules
                 PROVE  FALSE
        BY DEF NightIsQuiet
  <2>2. a.alertname \in WarningRules /\ a.job \notin MetaJobs
        BY <2>1, AlertsAssumption DEF TypeOK
  <2>3. Route(a) = "warning"  BY <2>1, <2>2 DEF Route
  <2>4. OutOfHours
    <3>1. \A h \in 0..23 : h \notin 9..19 => h >= 20 \/ h < 9  OBVIOUS
    <3>2. QED  BY <2>1, <3>1 DEF TypeOK, OutOfHours
  <2>5. QED  BY <2>1, <2>3, <2>4 DEF Notified, Muted
<1>2. QED  BY <1>1, TypeCorrect, PTL
=============================================================================
