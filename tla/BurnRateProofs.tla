---------------------------- MODULE BurnRateProofs ----------------------------
(***************************************************************************)
(* Of BurnRate, after healthy traffic of up to 25 requests a second and at *)
(* any evaluation interval up to a minute: the alerts a scenario names     *)
(* fire by its end, but for a slow burn that a busier past dilutes; no     *)
(* other rule does before it, and each clears when its short window says.  *)
(***************************************************************************)
EXTENDS BurnRate, TLAPS

-----------------------------------------------------------------------------
(* Total is the sum it says, for as many phases as a scenario has.         *)
LEMMA TotalOfThree ==
  ASSUME NEW f, NEW n \in 0..3, \A i \in 1..n : f[i] \in Int
  PROVE  /\ n = 0 => Total(f, n) = 0
         /\ n = 1 => Total(f, n) = f[1]
         /\ n = 2 => Total(f, n) = f[1] + f[2]
         /\ n = 3 => Total(f, n) = f[1] + f[2] + f[3]
<1> DEFINE Step(g) == [i \in 0..n |-> IF i = 0 THEN 0 ELSE g[i - 1] + f[i]]
           upTo    == CHOOSE g : g = Step(g)
           sums    == [i \in 0..n |-> IF i = 0 THEN 0 ELSE IF i = 1 THEN f[1]
                                      ELSE IF i = 2 THEN f[1] + f[2]
                                      ELSE f[1] + f[2] + f[3]]
<1>1. sums = Step(sums)
  <2>1. ASSUME NEW i \in 0..n
        PROVE  sums[i] = IF i = 0 THEN 0 ELSE sums[i - 1] + f[i]
    <3>1. CASE i = 0
      BY <3>1
    <3>2. CASE i = 1
      BY <3>2
    <3>3. CASE i = 2
      BY <3>3
    <3>4. CASE i = 3
      BY <3>4
    <3> QED BY <3>1, <3>2, <3>3, <3>4
  <2> QED BY <2>1
<1>2. upTo = Step(upTo)
  BY <1>1
<1>3. Total(f, n) = upTo[n]
  BY DEF Total
<1> HIDE DEF upTo
<1>4. /\ upTo[0] = 0
      /\ n >= 1 => upTo[1] = upTo[0] + f[1]
      /\ n >= 2 => upTo[2] = upTo[1] + f[2]
      /\ n >= 3 => upTo[3] = upTo[2] + f[3]
  BY <1>2
<1> QED BY <1>3, <1>4

-----------------------------------------------------------------------------
(* What phase i adds to the requests of a window, and to the bad ones.     *)
RequestsOf(i, window, u) ==
  Phases[i].rps * Overlap(u - window, u, Start(i), Start(i + 1))
BadOf(i, kind, window, u) ==
  IF Phases[i].fault.kind # kind THEN 0
  ELSE (Phases[i].rps
          * Overlap(u - window, u, Start(i),
                    Start(i) + LeastOf(Phases[i].duration, Phases[i].fault.ttl))
          * Phases[i].fault.share[1]) \div Phases[i].fault.share[2]

(* Those of the traffic before the run.                                    *)
Before(window, u) ==
  prior.rate * Overlap(u - window, u, -prior.span, 0)

(* A scenario of the catalogue has three phases at most, and of each the
   fields are numbers.                                                     *)
Wellformed ==
  /\ Len(Phases) \in 1..3 /\ DOMAIN Phases = 1..Len(Phases)
  /\ \A i \in 1..Len(Phases) :
       /\ Phases[i].duration \in Nat /\ Phases[i].rps \in Nat
       /\ Phases[i].fault.ttl \in Nat
       /\ Phases[i].fault.share[1] \in Nat /\ Phases[i].fault.share[2] \in Nat \ {0}

LEMMA OverlapIsNat ==
  ASSUME NEW from \in Int, NEW to \in Int, NEW a \in Int, NEW b \in Int
  PROVE  Overlap(from, to, a, b) \in Nat
  BY DEF Overlap, GreatestOf, LeastOf

(* Its boundaries are the sums of the durations.                           *)
LEMMA Starts ==
  ASSUME Wellformed
  PROVE  /\ Start(1) = 0
         /\ Start(2) = Phases[1].duration
         /\ Len(Phases) >= 2 => Start(3) = Phases[1].duration + Phases[2].duration
         /\ Len(Phases) = 3 =>
              Start(4) = Phases[1].duration + Phases[2].duration + Phases[3].duration
         /\ \A i \in 1..(Len(Phases) + 1) : Start(i) \in Nat
<1> DEFINE lengths == [j \in DOMAIN Phases |-> Phases[j].duration]
<1>1. PICK n \in 1..3 : n = Len(Phases)
  BY DEF Wellformed
<1>2. /\ \A i \in 1..n : lengths[i] = Phases[i].duration /\ Phases[i].duration \in Nat
      /\ \A i : Start(i) = Total(lengths, i - 1)
  BY <1>1 DEF Wellformed, Start
<1> HIDE DEF lengths
<1>3. /\ Total(lengths, 0) = 0
      /\ Total(lengths, 1) = lengths[1]
      /\ n >= 2 => Total(lengths, 2) = lengths[1] + lengths[2]
      /\ n = 3 => Total(lengths, 3) = lengths[1] + lengths[2] + lengths[3]
  BY <1>2, TotalOfThree
<1>4. /\ Start(1) = Total(lengths, 0) /\ Start(2) = Total(lengths, 1)
      /\ Start(3) = Total(lengths, 2) /\ Start(4) = Total(lengths, 3)
  <2>1. 1 - 1 = 0 /\ 2 - 1 = 1 /\ 3 - 1 = 2 /\ 4 - 1 = 3
    OBVIOUS
  <2> QED BY <1>2, <2>1
<1>5. /\ Start(1) = 0 /\ Start(2) = Phases[1].duration
      /\ n >= 2 => Start(3) = Phases[1].duration + Phases[2].duration
      /\ n = 3 => Start(4) = Phases[1].duration + Phases[2].duration + Phases[3].duration
  BY <1>2, <1>3, <1>4
<1>6. ASSUME NEW i \in 1..(n + 1) PROVE Start(i) \in Nat
  <2>1. i = 1 \/ i = 2 \/ (i = 3 /\ n >= 2) \/ (i = 4 /\ n = 3)
    OBVIOUS
  <2> QED BY <1>2, <1>5, <2>1
<1> QED BY <1>1, <1>5, <1>6

(* And its requests those of its phases.                                   *)
LEMMA Sums ==
  ASSUME Wellformed, NEW window \in Nat, NEW u \in Nat, NEW kind
  PROVE  /\ \A i \in 1..Len(Phases) : /\ RequestsOf(i, window, u) \in Nat
                                      /\ BadOf(i, kind, window, u) \in Nat
         /\ Len(Phases) = 1 =>
              /\ Requests(window, u) = Before(window, u) + RequestsOf(1, window, u)
              /\ Bad(kind, window, u) = BadOf(1, kind, window, u)
         /\ Len(Phases) = 2 =>
              /\ Requests(window, u)
                   = Before(window, u) + (RequestsOf(1, window, u) + RequestsOf(2, window, u))
              /\ Bad(kind, window, u)
                   = BadOf(1, kind, window, u) + BadOf(2, kind, window, u)
         /\ Len(Phases) = 3 =>
              /\ Requests(window, u)
                   = Before(window, u) + (RequestsOf(1, window, u) + RequestsOf(2, window, u)
                                            + RequestsOf(3, window, u))
              /\ Bad(kind, window, u)
                   = BadOf(1, kind, window, u) + BadOf(2, kind, window, u)
                       + BadOf(3, kind, window, u)
<1> DEFINE parts == [i \in DOMAIN Phases |-> RequestsOf(i, window, u)]
           bads  == [i \in DOMAIN Phases |-> BadOf(i, kind, window, u)]
<1>1. PICK n \in 1..3 : n = Len(Phases) /\ DOMAIN Phases = 1..n
  BY DEF Wellformed
<1>2. ASSUME NEW i \in 1..n
      PROVE  RequestsOf(i, window, u) \in Nat /\ BadOf(i, kind, window, u) \in Nat
  <2> DEFINE share == Phases[i].fault.share
             end   == Start(i) + LeastOf(Phases[i].duration, Phases[i].fault.ttl)
             over  == Overlap(u - window, u, Start(i), end)
  <2>1. Start(i) \in Nat /\ Start(i + 1) \in Nat
    BY <1>1, Starts
  <2>2. Phases[i].duration \in Nat /\ Phases[i].rps \in Nat /\ Phases[i].fault.ttl \in Nat
        /\ share[1] \in Nat /\ share[2] \in Nat \ {0}
    BY <1>1 DEF Wellformed
  <2>3. end \in Nat
    BY <2>1, <2>2 DEF LeastOf
  <2>4. /\ Overlap(u - window, u, Start(i), Start(i + 1)) \in Nat
        /\ over \in Nat
    <3> HIDE DEF end
    <3>1. /\ u - window \in Int /\ u \in Int /\ end \in Int
          /\ Start(i) \in Int /\ Start(i + 1) \in Int
      BY <2>1, <2>3
    <3>2. /\ Overlap(u - window, u, Start(i), Start(i + 1)) \in Nat
          /\ Overlap(u - window, u, Start(i), end) \in Nat
      BY <3>1, OverlapIsNat
    <3> QED BY <3>2
  <2> HIDE DEF over
  <2>5. RequestsOf(i, window, u) \in Nat
    BY <2>2, <2>4 DEF RequestsOf
  <2>6. Phases[i].rps * over * share[1] \in Nat
    BY <2>2, <2>4
  <2>7. \A x \in Nat, d \in Nat \ {0} : x \div d \in Nat
    OBVIOUS
  <2>8. (Phases[i].rps * over * share[1]) \div share[2] \in Nat
    BY <2>2, <2>6, <2>7
  <2> QED BY <2>5, <2>8 DEF BadOf, over
<1>3. Requests(window, u) = Before(window, u) + Total(parts, n)
  BY <1>1 DEF Requests, Before, RequestsOf
<1>4. Bad(kind, window, u) = Total(bads, n)
  BY <1>1 DEF Bad, BadOf
<1>5. \A i \in 1..n : /\ parts[i] = RequestsOf(i, window, u) /\ parts[i] \in Int
                      /\ bads[i] = BadOf(i, kind, window, u) /\ bads[i] \in Int
  BY <1>1, <1>2
<1> HIDE DEF parts, bads
<1>6. /\ n = 1 => Total(parts, n) = parts[1]
      /\ n = 2 => Total(parts, n) = parts[1] + parts[2]
      /\ n = 3 => Total(parts, n) = parts[1] + parts[2] + parts[3]
  BY <1>5, TotalOfThree
<1>7. /\ n = 1 => Total(bads, n) = bads[1]
      /\ n = 2 => Total(bads, n) = bads[1] + bads[2]
      /\ n = 3 => Total(bads, n) = bads[1] + bads[2] + bads[3]
  BY <1>5, TotalOfThree
<1>8. CASE n = 1
  BY <1>1, <1>2, <1>3, <1>4, <1>5, <1>6, <1>7, <1>8
<1>9. CASE n = 2
  BY <1>1, <1>2, <1>3, <1>4, <1>5, <1>6, <1>7, <1>9
<1>10. CASE n = 3
  BY <1>1, <1>2, <1>3, <1>4, <1>5, <1>6, <1>7, <1>10
<1> QED BY <1>8, <1>9, <1>10

-----------------------------------------------------------------------------
(* The scenarios of the catalogue, field by field.                         *)
LEMMA Normal ==
  ASSUME scenario = "normal"
  PROVE  /\ Wellformed /\ Len(Phases) = 1 /\ Phases[1].rps = 200
         /\ Start(1) = 0 /\ Start(2) = 1800 /\ Duration = 1800
         /\ Phases[1].fault.kind = "none"
<1> DEFINE p == Phases[1]
<1>1. /\ Len(Phases) = 1 /\ DOMAIN Phases = {1} /\ p = Phase(1800, 200, NoFault)
  BY DEF Phases, SCENARIOS
<1> HIDE DEF p
<1>2. /\ p.duration = 1800 /\ p.rps = 200 /\ p.fault.kind = "none" /\ p.fault.ttl = 0
      /\ p.fault.share[1] = 0 /\ p.fault.share[2] = 1
  BY <1>1 DEF Phase, NoFault
<1>3. Wellformed
  BY <1>1, <1>2 DEF Wellformed, p
<1>4. Start(1) = 0 /\ Start(2) = 1800
  BY <1>2, <1>3, Starts DEF p
<1>5. Duration = Start(2)
  BY <1>1 DEF Duration
<1> QED BY <1>1, <1>2, <1>3, <1>4, <1>5 DEF p

LEMMA ErrorBurst ==
  ASSUME scenario = "error_burst"
  PROVE  /\ Wellformed /\ Len(Phases) = 3 /\ \A i \in 1..3 : Phases[i].rps = 200
         /\ Start(1) = 0 /\ Start(2) = 300 /\ Start(3) = 1800 /\ Start(4) = 2400
         /\ Duration = 2400
         /\ Phases[1].fault.kind = "clear" /\ Phases[3].fault.kind = "clear"
         /\ Phases[2].fault.kind = "errors"
         /\ Phases[2].duration = 1500 /\ Phases[2].fault.ttl = 1500
         /\ Phases[2].fault.share[1] = 7 /\ Phases[2].fault.share[2] = 20
<1> DEFINE p == Phases[1]
           q == Phases[2]
           r == Phases[3]
<1>1. /\ Len(Phases) = 3 /\ DOMAIN Phases = 1..3 /\ p = Phase(300, 200, Clear)
      /\ q = Phase(1500, 200, Errors(1500)) /\ r = Phase(600, 200, Clear)
  BY DEF Phases, SCENARIOS, BaselineSeconds
<1> HIDE DEF p, q, r
<1>2. /\ p.duration = 300 /\ p.rps = 200 /\ p.fault.kind = "clear" /\ p.fault.ttl = 0
      /\ p.fault.share[1] = 0 /\ p.fault.share[2] = 1
  BY <1>1 DEF Phase, Clear
<1>3. /\ q.duration = 1500 /\ q.rps = 200 /\ q.fault.kind = "errors" /\ q.fault.ttl = 1500
      /\ q.fault.share[1] = 7 /\ q.fault.share[2] = 20
  BY <1>1 DEF Phase, Errors
<1>4. /\ r.duration = 600 /\ r.rps = 200 /\ r.fault.kind = "clear" /\ r.fault.ttl = 0
      /\ r.fault.share[1] = 0 /\ r.fault.share[2] = 1
  BY <1>1 DEF Phase, Clear
<1>5. Wellformed
  BY <1>1, <1>2, <1>3, <1>4 DEF Wellformed, p, q, r
<1>6. Start(1) = 0 /\ Start(2) = 300 /\ Start(3) = 1800 /\ Start(4) = 2400
  BY <1>1, <1>2, <1>3, <1>4, <1>5, Starts DEF p, q, r
<1>7. Duration = Start(4)
  BY <1>1 DEF Duration
<1> QED BY <1>1, <1>2, <1>3, <1>4, <1>5, <1>6, <1>7 DEF p, q, r

LEMMA LatencySpike ==
  ASSUME scenario = "latency_spike"
  PROVE  /\ Wellformed /\ Len(Phases) = 3 /\ \A i \in 1..3 : Phases[i].rps = 100
         /\ Start(1) = 0 /\ Start(2) = 300 /\ Start(3) = 2100 /\ Start(4) = 2700
         /\ Duration = 2700
         /\ Phases[1].fault.kind = "clear" /\ Phases[3].fault.kind = "clear"
         /\ Phases[2].fault.kind = "latency"
         /\ Phases[2].duration = 1800 /\ Phases[2].fault.ttl = 1800
         /\ Phases[2].fault.share[1] = 1 /\ Phases[2].fault.share[2] = 1
<1> DEFINE p == Phases[1]
           q == Phases[2]
           r == Phases[3]
<1>1. /\ Len(Phases) = 3 /\ DOMAIN Phases = 1..3 /\ p = Phase(300, 100, Clear)
      /\ q = Phase(1800, 100, Latency(1800)) /\ r = Phase(600, 100, Clear)
  BY DEF Phases, SCENARIOS, BaselineSeconds
<1> HIDE DEF p, q, r
<1>2. /\ p.duration = 300 /\ p.rps = 100 /\ p.fault.kind = "clear" /\ p.fault.ttl = 0
      /\ p.fault.share[1] = 0 /\ p.fault.share[2] = 1
  BY <1>1 DEF Phase, Clear
<1>3. /\ q.duration = 1800 /\ q.rps = 100 /\ q.fault.kind = "latency" /\ q.fault.ttl = 1800
      /\ q.fault.share[1] = 1 /\ q.fault.share[2] = 1
  BY <1>1 DEF Phase, Latency
<1>4. /\ r.duration = 600 /\ r.rps = 100 /\ r.fault.kind = "clear" /\ r.fault.ttl = 0
      /\ r.fault.share[1] = 0 /\ r.fault.share[2] = 1
  BY <1>1 DEF Phase, Clear
<1>5. Wellformed
  BY <1>1, <1>2, <1>3, <1>4 DEF Wellformed, p, q, r
<1>6. Start(1) = 0 /\ Start(2) = 300 /\ Start(3) = 2100 /\ Start(4) = 2700
  BY <1>1, <1>2, <1>3, <1>4, <1>5, Starts DEF p, q, r
<1>7. Duration = Start(4)
  BY <1>1 DEF Duration
<1> QED BY <1>1, <1>2, <1>3, <1>4, <1>5, <1>6, <1>7 DEF p, q, r

LEMMA TrafficDrop ==
  ASSUME scenario = "traffic_drop"
  PROVE  /\ Wellformed /\ Len(Phases) = 2 /\ Phases[1].rps = 250 /\ Phases[2].rps = 2
         /\ Start(1) = 0 /\ Start(2) = 1200 /\ Start(3) = 3000 /\ Duration = 3000
         /\ Phases[1].fault.kind = "clear" /\ Phases[2].fault.kind = "none"
<1> DEFINE p == Phases[1]
           q == Phases[2]
<1>1. /\ Len(Phases) = 2 /\ DOMAIN Phases = 1..2 /\ p = Phase(1200, 250, Clear)
      /\ q = Phase(1800, 2, NoFault)
  BY DEF Phases, SCENARIOS
<1> HIDE DEF p, q
<1>2. /\ p.duration = 1200 /\ p.rps = 250 /\ p.fault.kind = "clear" /\ p.fault.ttl = 0
      /\ p.fault.share[1] = 0 /\ p.fault.share[2] = 1
  BY <1>1 DEF Phase, Clear
<1>3. /\ q.duration = 1800 /\ q.rps = 2 /\ q.fault.kind = "none" /\ q.fault.ttl = 0
      /\ q.fault.share[1] = 0 /\ q.fault.share[2] = 1
  BY <1>1 DEF Phase, NoFault
<1>4. Wellformed
  BY <1>1, <1>2, <1>3 DEF Wellformed, p, q
<1>5. Start(1) = 0 /\ Start(2) = 1200 /\ Start(3) = 3000
  BY <1>1, <1>2, <1>3, <1>4, Starts DEF p, q
<1>6. Duration = Start(3)
  BY <1>1 DEF Duration
<1> QED BY <1>1, <1>2, <1>3, <1>4, <1>5, <1>6 DEF p, q

-----------------------------------------------------------------------------
(* Windows and spans.                                                      *)
LEMMA OverlapsAdd ==
  ASSUME NEW from \in Int, NEW to \in Int, NEW a \in Int, NEW b \in Int, NEW c \in Int,
         from <= to, a <= b, b <= c
  PROVE  Overlap(from, to, a, b) + Overlap(from, to, b, c) = Overlap(from, to, a, c)
  BY DEF Overlap, GreatestOf, LeastOf

LEMMA PriorIsTyped ==
  ASSUME prior \in Priors
  PROVE  prior.rate \in Nat /\ prior.rate <= 250 /\ prior.span \in Nat
  BY BurnRateAssumption

(* Of a window that reaches back before the run, that traffic has at most the
   part before it, at 25 requests a second,                                *)
LEMMA BeforeBounds ==
  ASSUME NEW window, NEW u, window \in Nat, u \in Nat, prior \in Priors
  PROVE  /\ Before(window, u) \in Nat
         /\ u <= window => Before(window, u) <= 250 * (window - u)
         /\ u >= window => Before(window, u) = 0
<1>1. prior.rate \in Nat /\ prior.rate <= 250 /\ prior.span \in Nat
  BY PriorIsTyped
<1>2. PICK o \in Nat : o = Overlap(u - window, u, -prior.span, 0)
  BY <1>1 DEF Overlap, GreatestOf, LeastOf
<1>3. Before(window, u) = prior.rate * o
  BY <1>2 DEF Before
<1>4. (u <= window => o <= window - u) /\ (u >= window => o = 0)
  BY <1>1, <1>2 DEF Overlap, GreatestOf, LeastOf
<1>5. prior.rate * o \in Nat /\ prior.rate * o <= 250 * o
  BY <1>1
<1> QED BY <1>1, <1>3, <1>4, <1>5

(* and never more than the window of the same length had when it began.    *)
LEMMA BeforeShrinks ==
  ASSUME NEW window, NEW u, window \in Nat, u \in Nat, prior \in Priors
  PROVE  Before(window, 0) \in Nat /\ Before(window, u) <= Before(window, 0)
<1>1. prior.rate \in Nat /\ prior.span \in Nat
  BY PriorIsTyped
<1>2. PICK o \in Nat : o = Overlap(u - window, u, -prior.span, 0)
  BY <1>1 DEF Overlap, GreatestOf, LeastOf
<1>3. PICK o0 \in Nat : o0 = Overlap(0 - window, 0, -prior.span, 0)
  BY <1>1 DEF Overlap, GreatestOf, LeastOf
<1>4. o <= o0
  BY <1>1, <1>2, <1>3 DEF Overlap, GreatestOf, LeastOf
<1>5. Before(window, u) = prior.rate * o /\ Before(window, 0) = prior.rate * o0
  BY <1>2, <1>3 DEF Before
<1>6. prior.rate * o <= prior.rate * o0 /\ prior.rate * o0 \in Nat
  BY <1>1, <1>4
<1> QED BY <1>5, <1>6

LEMMA RequestsAreNat ==
  ASSUME Wellformed, prior \in Priors, NEW window \in Nat, NEW u \in Nat
  PROVE  Requests(window, u) \in Nat
<1>1. Len(Phases) \in 1..3 /\ Before(window, u) \in Nat
  BY BeforeBounds DEF Wellformed
<1>2. \A i \in 1..Len(Phases) : RequestsOf(i, window, u) \in Nat
  BY Sums
<1>3. CASE Len(Phases) = 1
  BY <1>1, <1>2, <1>3, Sums
<1>4. CASE Len(Phases) = 2
  <2>1. Requests(window, u)
          = Before(window, u) + (RequestsOf(1, window, u) + RequestsOf(2, window, u))
    BY <1>4, Sums
  <2>2. RequestsOf(1, window, u) \in Nat /\ RequestsOf(2, window, u) \in Nat
    BY <1>2, <1>4
  <2> QED BY <1>1, <2>1, <2>2
<1>5. CASE Len(Phases) = 3
  <2>1. Requests(window, u)
          = Before(window, u) + (RequestsOf(1, window, u) + RequestsOf(2, window, u)
                                   + RequestsOf(3, window, u))
    BY <1>5, Sums
  <2>2. /\ RequestsOf(1, window, u) \in Nat /\ RequestsOf(2, window, u) \in Nat
        /\ RequestsOf(3, window, u) \in Nat
    BY <1>2, <1>5
  <2> QED BY <1>1, <2>1, <2>2
<1> QED BY <1>1, <1>3, <1>4, <1>5

(* Where the rate is the same in every phase, the run is one stretch of it. *)
OneRate(rps, d) ==
  /\ Wellformed /\ Phases[1].rps = rps
  /\ \A window \in Nat : \A u \in Nat :
       Requests(window, u) = Before(window, u) + rps * Overlap(u - window, u, 0, d)

LEMMA NormalRate == ASSUME scenario = "normal" PROVE OneRate(200, 1800)
<1> SUFFICES ASSUME NEW window \in Nat, NEW u \in Nat
             PROVE  Requests(window, u)
                      = Before(window, u) + 200 * Overlap(u - window, u, 0, 1800)
  BY Normal DEF OneRate
<1>1. Wellformed /\ Len(Phases) = 1
  BY Normal
<1>2. Requests(window, u) = Before(window, u) + RequestsOf(1, window, u)
  BY <1>1, Sums
<1>3. RequestsOf(1, window, u) = 200 * Overlap(u - window, u, 0, 1800)
  BY Normal DEF RequestsOf
<1> QED BY <1>2, <1>3

LEMMA ErrorBurstRate == ASSUME scenario = "error_burst" PROVE OneRate(200, 2400)
<1> SUFFICES ASSUME NEW window \in Nat, NEW u \in Nat
             PROVE  Requests(window, u)
                      = Before(window, u) + 200 * Overlap(u - window, u, 0, 2400)
  BY ErrorBurst DEF OneRate
<1> DEFINE O(a, b) == Overlap(u - window, u, a, b)
<1>1. u - window \in Int /\ u - window <= u
  OBVIOUS
<1>2. Requests(window, u) = Before(window, u) + (RequestsOf(1, window, u)
                              + RequestsOf(2, window, u) + RequestsOf(3, window, u))
  BY ErrorBurst, Sums
<1>3. /\ RequestsOf(1, window, u) = 200 * O(0, 300)
      /\ RequestsOf(2, window, u) = 200 * O(300, 1800)
      /\ RequestsOf(3, window, u) = 200 * O(1800, 2400)
  BY ErrorBurst DEF RequestsOf
<1>4. O(0, 300) \in Nat /\ O(300, 1800) \in Nat /\ O(1800, 2400) \in Nat
  BY <1>1 DEF Overlap, GreatestOf, LeastOf
<1>5. O(0, 300) + O(300, 1800) = O(0, 1800) /\ O(0, 1800) + O(1800, 2400) = O(0, 2400)
  BY <1>1, OverlapsAdd
<1> HIDE DEF O
<1>6. RequestsOf(1, window, u) + RequestsOf(2, window, u) + RequestsOf(3, window, u)
        = 200 * O(0, 2400)
  BY <1>3, <1>4, <1>5
<1> QED BY <1>2, <1>6 DEF O

LEMMA LatencySpikeRate == ASSUME scenario = "latency_spike" PROVE OneRate(100, 2700)
<1> SUFFICES ASSUME NEW window \in Nat, NEW u \in Nat
             PROVE  Requests(window, u)
                      = Before(window, u) + 100 * Overlap(u - window, u, 0, 2700)
  BY LatencySpike DEF OneRate
<1> DEFINE O(a, b) == Overlap(u - window, u, a, b)
<1>1. u - window \in Int /\ u - window <= u
  OBVIOUS
<1>2. Requests(window, u) = Before(window, u) + (RequestsOf(1, window, u)
                              + RequestsOf(2, window, u) + RequestsOf(3, window, u))
  BY LatencySpike, Sums
<1>3. /\ RequestsOf(1, window, u) = 100 * O(0, 300)
      /\ RequestsOf(2, window, u) = 100 * O(300, 2100)
      /\ RequestsOf(3, window, u) = 100 * O(2100, 2700)
  BY LatencySpike DEF RequestsOf
<1>4. O(0, 300) \in Nat /\ O(300, 2100) \in Nat /\ O(2100, 2700) \in Nat
  BY <1>1 DEF Overlap, GreatestOf, LeastOf
<1>5. O(0, 300) + O(300, 2100) = O(0, 2100) /\ O(0, 2100) + O(2100, 2700) = O(0, 2700)
  BY <1>1, OverlapsAdd
<1> HIDE DEF O
<1>6. RequestsOf(1, window, u) + RequestsOf(2, window, u) + RequestsOf(3, window, u)
        = 100 * O(0, 2700)
  BY <1>3, <1>4, <1>5
<1> QED BY <1>2, <1>6 DEF O

(* Products of rates and lengths.                                          *)
LEMMA ProductBound ==
  ASSUME NEW x, NEW y, NEW n, x \in Nat, y \in Nat, n \in Nat, x <= 4 * y
  PROVE  x * n <= 4 * (y * n) /\ x * n \in Nat
<1>1. PICK z \in Nat : 4 * y = x + z
  <2>1. 4 * y - x \in Nat /\ 4 * y = x + (4 * y - x)
    OBVIOUS
  <2> QED BY <2>1
<1>2. (x + z) * n = x * n + z * n /\ x * n \in Nat /\ z * n \in Nat
  OBVIOUS
<1>3. (4 * y) * n = 4 * (y * n) /\ y * n \in Nat
  OBVIOUS
<1> QED BY <1>1, <1>2, <1>3

LEMMA ProductGrows ==
  ASSUME NEW x, NEW m, NEW n, x \in Nat, m \in Nat, n \in Nat, m <= n
  PROVE  x * m <= x * n /\ x * m \in Nat
  OBVIOUS

(* Up to time d requests come at one rate.                                 *)
Steady(rps, d) ==
  /\ Wellformed /\ Phases[1].rps = rps
  /\ \A window \in Nat : \A u \in Nat : u <= d =>
       Requests(window, u) = Before(window, u) + rps * LeastOf(window, u)

LEMMA OverlapOfRun ==
  ASSUME NEW d \in Nat, NEW u \in Nat, u <= d, NEW window \in Nat
  PROVE  Overlap(u - window, u, 0, d) = LeastOf(window, u)
  BY DEF Overlap, GreatestOf, LeastOf

LEMMA OneRateIsSteady ==
  ASSUME NEW rps, NEW d \in Nat, OneRate(rps, d)
  PROVE  Steady(rps, d)
  BY OverlapOfRun DEF OneRate, Steady

LEMMA TrafficDropIsSteady == ASSUME scenario = "traffic_drop" PROVE Steady(250, 1200)
<1> SUFFICES ASSUME NEW window \in Nat, NEW u \in Nat, u <= 1200
             PROVE  Requests(window, u) = Before(window, u) + 250 * LeastOf(window, u)
  BY TrafficDrop DEF Steady
<1>1. u \in Nat
  OBVIOUS
<1>2. Requests(window, u)
        = Before(window, u) + (RequestsOf(1, window, u) + RequestsOf(2, window, u))
  BY <1>1, TrafficDrop, Sums
<1>3. RequestsOf(1, window, u) = 250 * LeastOf(window, u)
  <2>1. Overlap(u - window, u, 0, 1200) = LeastOf(window, u)
    BY OverlapOfRun
  <2> QED BY <2>1, TrafficDrop DEF RequestsOf
<1>4. RequestsOf(2, window, u) = 0
  <2>1. Overlap(u - window, u, 1200, 3000) = 0
    BY DEF Overlap, GreatestOf, LeastOf
  <2> QED BY <2>1, TrafficDrop DEF RequestsOf
<1>5. RequestsOf(1, window, u) + RequestsOf(2, window, u) = 250 * LeastOf(window, u)
  BY <1>3, <1>4 DEF LeastOf
<1> QED BY <1>2, <1>5

(* TrafficDropped, which compares it with itself, does not hold while the past
   was at most four times as busy: of the last five minutes at the rate of the
   run and the hours before it at no more than that, a quarter is reached. *)
LEMMA SteadyTrafficIsNotDown ==
  ASSUME NEW rps \in Nat, rps >= 63, NEW d \in Nat, Steady(rps, d), prior \in Priors,
         NEW u \in Nat, u <= d
  PROVE  ~TrafficIsDown(u)
<1> DEFINE r5 == Requests(300, u)
           r6 == Requests(21600, u)
           o5 == Overlap(u - 300, u, -prior.span, 0)
           o6 == Overlap(u - 21600, u, -prior.span, 0)
           R  == prior.rate
<1>1. TrafficIsDown(u) => r5 * 4 * 72 < r6
  BY DEF TrafficIsDown, Baseline, Hours, Minutes
<1>2. R \in Nat /\ R <= 4 * rps /\ prior.span \in Nat
  BY PriorIsTyped
<1>3. /\ r5 = R * o5 + rps * LeastOf(300, u)
      /\ r6 = R * o6 + rps * LeastOf(21600, u)
  <2>1. 300 \in Nat /\ 21600 \in Nat
    OBVIOUS
  <2> QED BY <2>1 DEF Steady, Before
<1>4. o5 \in Nat /\ o6 \in Nat
  BY <1>2 DEF Overlap, GreatestOf, LeastOf
<1> HIDE DEF r5, r6, R
<1>5. CASE u >= 300
  <2>1. LeastOf(300, u) = 300
    BY <1>2, <1>5 DEF LeastOf
  <2>2. PICK l \in Nat : l = LeastOf(21600, u) /\ o6 + l <= 21600
    BY <1>2 DEF LeastOf, Overlap, GreatestOf
  <2> HIDE DEF o5, o6
  <2>3. R * o6 \in Nat /\ R * o6 <= 4 * (rps * o6)
    BY <1>2, <1>4, ProductBound
  <2>4. rps * o6 + rps * l <= 21600 * rps /\ rps * o6 \in Nat /\ rps * l \in Nat
    <3>1. rps * (o6 + l) <= rps * 21600
      BY <1>4, <2>2
    <3> QED BY <1>4, <2>2, <3>1
  <2>5. r6 <= 86400 * rps /\ r6 \in Nat
    BY <1>3, <2>2, <2>3, <2>4
  <2>6. R * o5 \in Nat
    BY <1>2, <1>4
  <2>7. r5 >= 300 * rps /\ r5 \in Nat
    BY <1>3, <2>1, <2>6
  <2> QED BY <1>1, <2>5, <2>7
<1>6. CASE u < 300
  <2>1. /\ LeastOf(300, u) = u /\ LeastOf(21600, u) = u
        /\ o5 = LeastOf(prior.span, 300 - u) /\ o6 = LeastOf(prior.span, 21600 - u)
    BY <1>2, <1>6 DEF LeastOf, Overlap, GreatestOf
  <2> HIDE DEF o5, o6
  <2>2. CASE prior.span <= 300 - u
    <3>1. o5 = o6
      BY <1>2, <1>6, <2>1, <2>2 DEF LeastOf
    <3>2. PICK x \in Nat, y \in Nat : x = R * o5 /\ y = rps * u
      BY <1>2, <1>4
    <3>3. r5 = r6 /\ r5 \in Nat
      BY <1>3, <2>1, <3>1, <3>2
    <3> QED BY <1>1, <3>3
  <2>3. CASE ~(prior.span <= 300 - u)
    <3>1. o5 = 300 - u /\ o6 <= 21600 - u
      BY <1>2, <1>6, <2>1, <2>3 DEF LeastOf
    <3>2. PICK m \in Nat, v \in Nat : m = R * u /\ v = rps * u
      BY <1>2
    <3>3. m <= 4 * v
      BY <1>2, <3>2, ProductBound
    <3>4. m <= 299 * R
      <4>1. u <= 299
        BY <1>6
      <4>2. R * u <= R * 299
        BY <1>2, <4>1
      <4> QED BY <1>2, <3>2, <4>2
    <3>5. R * o5 = 300 * R - m
      BY <1>2, <3>1, <3>2
    <3>6. R * o6 <= 21600 * R - m /\ R * o6 \in Nat
      <4>1. R * o6 <= R * (21600 - u) /\ R * o6 \in Nat
        BY <1>2, <1>4, <3>1, ProductGrows
      <4> QED BY <1>2, <3>2, <4>1
    <3>7. r5 = 300 * R - m + v /\ r6 <= 21600 * R - m + v /\ r6 \in Int
      BY <1>2, <1>3, <2>1, <3>2, <3>5, <3>6
    <3>8. ~(r5 * 4 * 72 < r6)
      BY <1>2, <3>2, <3>3, <3>4, <3>7
    <3> QED BY <1>1, <3>8
  <2> QED BY <2>2, <2>3
<1> QED BY <1>5, <1>6

-----------------------------------------------------------------------------
(* What a fault makes bad, in every scenario.                              *)
LEMMA BadOfScenario ==
  ASSUME NEW window \in Nat, NEW u \in Nat
  PROVE  /\ scenario = "error_burst" =>
              /\ Bad("errors", window, u) = 70 * Overlap(u - window, u, 300, 1800)
              /\ Bad("latency", window, u) = 0
         /\ scenario = "latency_spike" =>
              /\ Bad("latency", window, u) = 100 * Overlap(u - window, u, 300, 2100)
              /\ Bad("errors", window, u) = 0
         /\ scenario \in { "normal", "traffic_drop" } =>
              \A kind \in { "errors", "latency" } : Bad(kind, window, u) = 0
<1>1. ASSUME scenario = "error_burst"
      PROVE  /\ Bad("errors", window, u) = 70 * Overlap(u - window, u, 300, 1800)
             /\ Bad("latency", window, u) = 0
  <2>1. ASSUME NEW kind
        PROVE  Bad(kind, window, u) = BadOf(1, kind, window, u) + BadOf(2, kind, window, u)
                                        + BadOf(3, kind, window, u)
    BY <1>1, ErrorBurst, Sums
  <2>2. /\ BadOf(1, "errors", window, u) = 0 /\ BadOf(3, "errors", window, u) = 0
        /\ \A i \in 1..3 : BadOf(i, "latency", window, u) = 0
    <3>1. /\ Phases[1].fault.kind = "clear" /\ Phases[2].fault.kind = "errors"
          /\ Phases[3].fault.kind = "clear"
      BY <1>1, ErrorBurst
    <3>2. \A i \in 1..3 : Phases[i].fault.kind # "latency"
      BY <3>1
    <3> QED BY <3>1, <3>2 DEF BadOf
  <2>3. BadOf(2, "errors", window, u)
          = (200 * Overlap(u - window, u, 300, 1800) * 7) \div 20
    BY <1>1, ErrorBurst DEF BadOf, LeastOf
  <2>4. Overlap(u - window, u, 300, 1800) \in Nat
    BY DEF Overlap, GreatestOf, LeastOf
  <2>5. (200 * Overlap(u - window, u, 300, 1800) * 7) \div 20
          = 70 * Overlap(u - window, u, 300, 1800)
    BY <2>4
  <2> QED BY <2>1, <2>2, <2>3, <2>4, <2>5
<1>2. ASSUME scenario = "latency_spike"
      PROVE  /\ Bad("latency", window, u) = 100 * Overlap(u - window, u, 300, 2100)
             /\ Bad("errors", window, u) = 0
  <2>1. ASSUME NEW kind
        PROVE  Bad(kind, window, u) = BadOf(1, kind, window, u) + BadOf(2, kind, window, u)
                                        + BadOf(3, kind, window, u)
    BY <1>2, LatencySpike, Sums
  <2>2. /\ BadOf(1, "latency", window, u) = 0 /\ BadOf(3, "latency", window, u) = 0
        /\ \A i \in 1..3 : BadOf(i, "errors", window, u) = 0
    <3>1. /\ Phases[1].fault.kind = "clear" /\ Phases[2].fault.kind = "latency"
          /\ Phases[3].fault.kind = "clear"
      BY <1>2, LatencySpike
    <3>2. \A i \in 1..3 : Phases[i].fault.kind # "errors"
      BY <3>1
    <3> QED BY <3>1, <3>2 DEF BadOf
  <2>3. BadOf(2, "latency", window, u)
          = (100 * Overlap(u - window, u, 300, 2100) * 1) \div 1
    BY <1>2, LatencySpike DEF BadOf, LeastOf
  <2>4. Overlap(u - window, u, 300, 2100) \in Nat
    BY DEF Overlap, GreatestOf, LeastOf
  <2>5. (100 * Overlap(u - window, u, 300, 2100) * 1) \div 1
          = 100 * Overlap(u - window, u, 300, 2100)
    BY <2>4
  <2> QED BY <2>1, <2>2, <2>3, <2>4, <2>5
<1>3. ASSUME scenario = "normal", NEW kind \in { "errors", "latency" }
      PROVE  Bad(kind, window, u) = 0
  <2>1. Bad(kind, window, u) = BadOf(1, kind, window, u)
    BY <1>3, Normal, Sums
  <2> QED BY <1>3, <2>1, Normal DEF BadOf
<1>4. ASSUME scenario = "traffic_drop", NEW kind \in { "errors", "latency" }
      PROVE  Bad(kind, window, u) = 0
  <2>1. Bad(kind, window, u) = BadOf(1, kind, window, u) + BadOf(2, kind, window, u)
    BY <1>4, TrafficDrop, Sums
  <2>2. Phases[1].fault.kind = "clear" /\ Phases[2].fault.kind = "none"
    BY <1>4, TrafficDrop
  <2>3. Phases[1].fault.kind # kind /\ Phases[2].fault.kind # kind
    BY <2>2
  <2> QED BY <2>1, <2>3 DEF BadOf
<1> QED BY <1>1, <1>2, <1>3, <1>4

LEMMA OneKindIsBad ==
  /\ scenario = "error_burst" => \A w, u \in Nat : Bad("latency", w, u) = 0
  /\ scenario = "latency_spike" => \A w, u \in Nat : Bad("errors", w, u) = 0
<1>1. ASSUME scenario = "error_burst", NEW w \in Nat, NEW u \in Nat
      PROVE  Bad("latency", w, u) = 0
  BY <1>1, BadOfScenario
<1>2. ASSUME scenario = "latency_spike", NEW w \in Nat, NEW u \in Nat
      PROVE  Bad("errors", w, u) = 0
  BY <1>2, BadOfScenario
<1> QED BY <1>1, <1>2

-----------------------------------------------------------------------------
(* The expressions of the rules, written out.                              *)
LEMMA HoldsOf ==
  ASSUME NEW u
  PROVE  /\ Holds("ErrorBudgetBurnFast", u) <=>
              /\ Bad("errors", 3600, u) * 625 > 9 * Requests(3600, u)
              /\ Bad("errors", 300, u) * 625 > 9 * Requests(300, u)
         /\ Holds("ErrorBudgetBurnSlow", u) <=>
              /\ Bad("errors", 21600, u) * 500 > 3 * Requests(21600, u)
              /\ Bad("errors", 1800, u) * 500 > 3 * Requests(1800, u)
         /\ Holds("LatencyBudgetBurnFast", u) <=>
              /\ Bad("latency", 3600, u) * 125 > 18 * Requests(3600, u)
              /\ Bad("latency", 300, u) * 125 > 18 * Requests(300, u)
         /\ Holds("LatencyBudgetBurnSlow", u) <=>
              /\ Bad("latency", 21600, u) * 50 > 3 * Requests(21600, u)
              /\ Bad("latency", 1800, u) * 50 > 3 * Requests(1800, u)
         /\ Holds("TrafficDropped", u) <=> TrafficIsDown(u)
<1> DEFINE Both(r) == \A i \in 1..2 : RatioAbove(r.kind, r.windows[i], r.threshold, u)
<1>1. /\ PageWindows[1] = 3600 /\ PageWindows[2] = 300
      /\ TicketWindows[1] = 21600 /\ TicketWindows[2] = 1800
  BY DEF PageWindows, TicketWindows, Hours, Minutes
<1>2. ASSUME NEW r
      PROVE  Both(r) <=> /\ RatioAbove(r.kind, r.windows[1], r.threshold, u)
                         /\ RatioAbove(r.kind, r.windows[2], r.threshold, u)
  <2>1. \A i : i \in 1..2 <=> i = 1 \/ i = 2
    OBVIOUS
  <2> QED BY <2>1, Zenon
<1> HIDE DEF Both
<1>3. ASSUME NEW rule, rule # "TrafficDropped" PROVE Holds(rule, u) <=> Both(BurnRules[rule])
  BY <1>3 DEF Holds, Both
<1>4. Holds("ErrorBudgetBurnFast", u) <=>
        /\ Bad("errors", 3600, u) * 625 > 9 * Requests(3600, u)
        /\ Bad("errors", 300, u) * 625 > 9 * Requests(300, u)
  <2> DEFINE r == BurnRules["ErrorBudgetBurnFast"]
  <2>1. r.kind = "errors" /\ r.windows = PageWindows /\ r.threshold = << 9, 625 >>
    BY DEF BurnRules
  <2> QED BY <1>1, <1>2, <1>3, <2>1 DEF RatioAbove
<1>5. Holds("ErrorBudgetBurnSlow", u) <=>
        /\ Bad("errors", 21600, u) * 500 > 3 * Requests(21600, u)
        /\ Bad("errors", 1800, u) * 500 > 3 * Requests(1800, u)
  <2> DEFINE r == BurnRules["ErrorBudgetBurnSlow"]
  <2>1. r.kind = "errors" /\ r.windows = TicketWindows /\ r.threshold = << 3, 500 >>
    BY DEF BurnRules
  <2> QED BY <1>1, <1>2, <1>3, <2>1 DEF RatioAbove
<1>6. Holds("LatencyBudgetBurnFast", u) <=>
        /\ Bad("latency", 3600, u) * 125 > 18 * Requests(3600, u)
        /\ Bad("latency", 300, u) * 125 > 18 * Requests(300, u)
  <2> DEFINE r == BurnRules["LatencyBudgetBurnFast"]
  <2>1. r.kind = "latency" /\ r.windows = PageWindows /\ r.threshold = << 18, 125 >>
    BY DEF BurnRules
  <2> QED BY <1>1, <1>2, <1>3, <2>1 DEF RatioAbove
<1>7. Holds("LatencyBudgetBurnSlow", u) <=>
        /\ Bad("latency", 21600, u) * 50 > 3 * Requests(21600, u)
        /\ Bad("latency", 1800, u) * 50 > 3 * Requests(1800, u)
  <2> DEFINE r == BurnRules["LatencyBudgetBurnSlow"]
  <2>1. r.kind = "latency" /\ r.windows = TicketWindows /\ r.threshold = << 3, 50 >>
    BY DEF BurnRules
  <2> QED BY <1>1, <1>2, <1>3, <2>1 DEF RatioAbove
<1>8. Holds("TrafficDropped", u) <=> TrafficIsDown(u)
  BY DEF Holds
<1> QED BY <1>4, <1>5, <1>6, <1>7, <1>8

LEMMA TheRules ==
  /\ DOMAIN BurnRules = { "ErrorBudgetBurnFast", "ErrorBudgetBurnSlow",
                          "LatencyBudgetBurnFast", "LatencyBudgetBurnSlow" }
  /\ Rules = DOMAIN BurnRules \cup { "TrafficDropped" }
  /\ BurnRules["ErrorBudgetBurnFast"].kind = "errors"
  /\ BurnRules["ErrorBudgetBurnSlow"].kind = "errors"
  /\ BurnRules["LatencyBudgetBurnFast"].kind = "latency"
  /\ BurnRules["LatencyBudgetBurnSlow"].kind = "latency"
  /\ For("ErrorBudgetBurnFast") = 120 /\ For("LatencyBudgetBurnFast") = 120
  /\ For("ErrorBudgetBurnSlow") = 900 /\ For("LatencyBudgetBurnSlow") = 900
  /\ For("TrafficDropped") = 600
<1>1. /\ DOMAIN BurnRules = { "ErrorBudgetBurnFast", "ErrorBudgetBurnSlow",
                              "LatencyBudgetBurnFast", "LatencyBudgetBurnSlow" }
      /\ BurnRules["ErrorBudgetBurnFast"].kind = "errors"
      /\ BurnRules["ErrorBudgetBurnSlow"].kind = "errors"
      /\ BurnRules["LatencyBudgetBurnFast"].kind = "latency"
      /\ BurnRules["LatencyBudgetBurnSlow"].kind = "latency"
  BY DEF BurnRules
<1>2. /\ For("ErrorBudgetBurnFast") = 120 /\ For("LatencyBudgetBurnFast") = 120
      /\ For("ErrorBudgetBurnSlow") = 900 /\ For("LatencyBudgetBurnSlow") = 900
      /\ For("TrafficDropped") = 600
  BY DEF For, BurnRules, Minutes
<1> QED BY <1>1, <1>2 DEF Rules

LEMMA TheScenarios ==
  /\ DOMAIN SCENARIOS = { "normal", "error_burst", "latency_spike", "traffic_drop" }
  /\ ExpectedAlerts["normal"] = {}
  /\ ExpectedAlerts["error_burst"] = { "ErrorBudgetBurnFast", "ErrorBudgetBurnSlow" }
  /\ ExpectedAlerts["latency_spike"] = { "LatencyBudgetBurnFast", "LatencyBudgetBurnSlow" }
  /\ ExpectedAlerts["traffic_drop"] = { "TrafficDropped" }
<1>1. DOMAIN SCENARIOS = { "normal", "error_burst", "latency_spike", "traffic_drop" }
  BY DEF SCENARIOS
<1> QED BY <1>1 DEF ExpectedAlerts

(* The alerts a scenario has to fire: those it names, but for the slow burn
   after a busier past.                                                    *)
Due == { r \in ExpectedAlerts[scenario] : ~(r = "LatencyBudgetBurnSlow" /\ BusierBefore) }

(* None of this depends on the time of the evaluation.                     *)
LEMMA HoldsStays ==
  ASSUME UNCHANGED << scenario, prior >>
  PROVE  /\ Phases' = Phases /\ Duration' = Duration
         /\ \A i : Start(i)' = Start(i)
         /\ \A rule, u : Holds(rule, u)' <=> Holds(rule, u)
         /\ Due' = Due
<1>1. Phases' = Phases
  BY DEF Phases
<1>2. \A i : Start(i)' = Start(i)
  BY <1>1 DEF Start
<1>3. Duration' = Duration
  BY <1>1, <1>2 DEF Duration
<1>4. \A window, u : Requests(window, u)' = Requests(window, u)
  BY <1>1, <1>2 DEF Requests
<1>5. ASSUME NEW kind, NEW window, NEW u
      PROVE  Bad(kind, window, u)' = Bad(kind, window, u)
  BY <1>1, <1>2 DEF Bad
<1>6. \A kind, window, threshold, u :
        RatioAbove(kind, window, threshold, u)' <=> RatioAbove(kind, window, threshold, u)
  BY <1>4, <1>5 DEF RatioAbove
<1>7. \A u : TrafficIsDown(u)' <=> TrafficIsDown(u)
  BY <1>4 DEF TrafficIsDown
<1>8. \A rule, u : Holds(rule, u)' <=> Holds(rule, u)
  BY <1>6, <1>7 DEF Holds
<1>9. Due' = Due
  BY <1>1, <1>4 DEF Due, BusierBefore
<1> QED BY <1>1, <1>2, <1>3, <1>8, <1>9

LEMMA ScenarioIsWellformed ==
  ASSUME scenario \in DOMAIN SCENARIOS
  PROVE  Wellformed /\ Duration \in Nat
<1>1. CASE scenario = "normal"
  BY <1>1, Normal
<1>2. CASE scenario = "error_burst"
  BY <1>2, ErrorBurst
<1>3. CASE scenario = "latency_spike"
  BY <1>3, LatencySpike
<1>4. CASE scenario = "traffic_drop"
  BY <1>4, TrafficDrop
<1> QED BY <1>1, <1>2, <1>3, <1>4, TheScenarios

-----------------------------------------------------------------------------
(* A burn-rate rule holds only while its short window has bad requests.    *)
Short(rule) == IF rule \in Pages THEN 300 ELSE 1800

LEMMA HoldsNeedsBad ==
  ASSUME Wellformed, prior \in Priors, NEW u \in Nat, NEW rule \in DOMAIN BurnRules,
         Holds(rule, u)
  PROVE  Bad(BurnRules[rule].kind, Short(rule), u) # 0
<1>1. ASSUME NEW window \in Nat PROVE Requests(window, u) \in Nat
  BY <1>1, RequestsAreNat
<1>2. PICK x \in Nat, y \in Nat : x = Requests(300, u) /\ y = Requests(1800, u)
  <2>1. 300 \in Nat /\ 1800 \in Nat
    OBVIOUS
  <2> QED BY <1>1, <2>1
<1>3. ~(0 * 625 > 9 * x) /\ ~(0 * 125 > 18 * x) /\ ~(0 * 500 > 3 * y) /\ ~(0 * 50 > 3 * y)
  BY <1>2
<1>4. CASE rule = "ErrorBudgetBurnFast"
  <2>1. Bad("errors", 300, u) * 625 > 9 * x
    BY <1>2, <1>4, HoldsOf
  <2>2. Bad("errors", 300, u) # 0
    BY <1>3, <2>1
  <2>3. Short(rule) = 300
    BY <1>4 DEF Short, Pages
  <2> QED BY <1>4, <2>2, <2>3, TheRules
<1>5. CASE rule = "LatencyBudgetBurnFast"
  <2>1. Bad("latency", 300, u) * 125 > 18 * x
    BY <1>2, <1>5, HoldsOf
  <2>2. Bad("latency", 300, u) # 0
    BY <1>3, <2>1
  <2>3. Short(rule) = 300
    BY <1>5 DEF Short, Pages
  <2> QED BY <1>5, <2>2, <2>3, TheRules
<1>6. CASE rule = "ErrorBudgetBurnSlow"
  <2>1. Bad("errors", 1800, u) * 500 > 3 * y
    BY <1>2, <1>6, HoldsOf
  <2>2. Bad("errors", 1800, u) # 0
    BY <1>3, <2>1
  <2>3. Short(rule) = 1800
    BY <1>6 DEF Short, Pages
  <2> QED BY <1>6, <2>2, <2>3, TheRules
<1>7. CASE rule = "LatencyBudgetBurnSlow"
  <2>1. Bad("latency", 1800, u) * 50 > 3 * y
    BY <1>2, <1>7, HoldsOf
  <2>2. Bad("latency", 1800, u) # 0
    BY <1>3, <2>1
  <2>3. Short(rule) = 1800
    BY <1>7 DEF Short, Pages
  <2> QED BY <1>7, <2>2, <2>3, TheRules
<1> QED BY <1>4, <1>5, <1>6, <1>7, TheRules

(* So during the run no rule holds that the scenario does not name.        *)
LEMMA UnexpectedDoesNotHold ==
  ASSUME scenario \in DOMAIN SCENARIOS, prior \in Priors, NEW u \in Nat, u <= Duration,
         NEW rule \in Rules, rule \notin ExpectedAlerts[scenario]
  PROVE  ~Holds(rule, u)
<1>1. Wellformed
  BY ScenarioIsWellformed
<1>2. ASSUME NEW r \in DOMAIN BurnRules, Bad(BurnRules[r].kind, Short(r), u) = 0
      PROVE  ~Holds(r, u)
  BY <1>1, <1>2, HoldsNeedsBad
<1>3. ASSUME NEW rps \in Nat, rps >= 63, Steady(rps, Duration) PROVE ~Holds("TrafficDropped", u)
  <2>1. Duration \in Nat
    BY ScenarioIsWellformed
  <2>2. ~TrafficIsDown(u)
    BY <1>3, <2>1, SteadyTrafficIsNotDown
  <2> QED BY <2>2, HoldsOf
<1>4. \A r : Short(r) \in Nat
  BY DEF Short
<1>5. \A r \in DOMAIN BurnRules : BurnRules[r].kind \in { "errors", "latency" }
  BY TheRules
<1>6. CASE scenario = "normal"
  <2>1. \A r \in DOMAIN BurnRules : Bad(BurnRules[r].kind, Short(r), u) = 0
    BY <1>4, <1>5, <1>6, BadOfScenario
  <2>2. ~Holds("TrafficDropped", u)
    BY <1>3, <1>6, Normal, NormalRate, OneRateIsSteady
  <2> QED BY <1>2, <2>1, <2>2, TheRules
<1>7. CASE scenario = "error_burst"
  <2>1. \A w \in Nat : Bad("latency", w, u) = 0
    BY <1>7, OneKindIsBad
  <2>2. ~Holds("TrafficDropped", u)
    BY <1>3, <1>7, ErrorBurst, ErrorBurstRate, OneRateIsSteady
  <2>3. \/ rule = "TrafficDropped"
        \/ rule \in DOMAIN BurnRules /\ BurnRules[rule].kind = "latency"
    BY <1>7, TheRules, TheScenarios
  <2> QED BY <1>2, <1>4, <2>1, <2>2, <2>3
<1>8. CASE scenario = "latency_spike"
  <2>1. \A w \in Nat : Bad("errors", w, u) = 0
    BY <1>8, OneKindIsBad
  <2>2. ~Holds("TrafficDropped", u)
    BY <1>3, <1>8, LatencySpike, LatencySpikeRate, OneRateIsSteady
  <2>3. \/ rule = "TrafficDropped"
        \/ rule \in DOMAIN BurnRules /\ BurnRules[rule].kind = "errors"
    BY <1>8, TheRules, TheScenarios
  <2> QED BY <1>2, <1>4, <2>1, <2>2, <2>3
<1>9. CASE scenario = "traffic_drop"
  <2>1. \A r \in DOMAIN BurnRules : Bad(BurnRules[r].kind, Short(r), u) = 0
    BY <1>4, <1>5, <1>9, BadOfScenario
  <2>2. rule \in DOMAIN BurnRules
    BY <1>9, TheRules, TheScenarios
  <2> QED BY <1>2, <2>1, <2>2
<1> QED BY <1>6, <1>7, <1>8, <1>9, TheScenarios

(* And a burn-rate rule not for long once the phase with its fault is over. *)
LEMMA HoldsNotForLong ==
  ASSUME scenario \in DOMAIN SCENARIOS, prior \in Priors, NEW u \in Nat,
         NEW rule \in DOMAIN BurnRules, Holds(rule, u),
         NEW i \in DOMAIN Phases, Phases[i].fault.kind = BurnRules[rule].kind
  PROVE  u <= Start(i + 1) + Short(rule)
<1>1. Bad(BurnRules[rule].kind, Short(rule), u) # 0
  BY ScenarioIsWellformed, HoldsNeedsBad
<1>2. PICK w \in Nat : w = Short(rule)
  BY DEF Short
<1>3. BurnRules[rule].kind \in { "errors", "latency" }
  BY TheRules
<1>4. CASE scenario = "error_burst"
  <2>1. BurnRules[rule].kind = "errors"
    <3>1. Bad("latency", w, u) = 0
      BY <1>4, OneKindIsBad
    <3> QED BY <1>1, <1>2, <1>3, <3>1
  <2>2. i = 2
    <3>1. i = 1 \/ i = 2 \/ i = 3
      BY <1>4, ErrorBurst DEF Wellformed
    <3> QED BY <1>4, <2>1, <3>1, ErrorBurst
  <2>3. Start(i + 1) = 1800
    BY <1>4, <2>2, ErrorBurst
  <2>4. 70 * Overlap(u - w, u, 300, 1800) # 0
    BY <1>1, <1>2, <1>4, <2>1, BadOfScenario
  <2>5. u <= 1800 + w
    BY <2>4 DEF Overlap, GreatestOf, LeastOf
  <2> QED BY <1>2, <2>3, <2>5
<1>5. CASE scenario = "latency_spike"
  <2>1. BurnRules[rule].kind = "latency"
    <3>1. Bad("errors", w, u) = 0
      BY <1>5, OneKindIsBad
    <3> QED BY <1>1, <1>2, <1>3, <3>1
  <2>2. i = 2
    <3>1. i = 1 \/ i = 2 \/ i = 3
      BY <1>5, LatencySpike DEF Wellformed
    <3> QED BY <1>5, <2>1, <3>1, LatencySpike
  <2>3. Start(i + 1) = 2100
    BY <1>5, <2>2, LatencySpike
  <2>4. 100 * Overlap(u - w, u, 300, 2100) # 0
    BY <1>1, <1>2, <1>5, <2>1, BadOfScenario
  <2>5. u <= 2100 + w
    BY <2>4 DEF Overlap, GreatestOf, LeastOf
  <2> QED BY <1>2, <2>3, <2>5
<1>6. CASE scenario \in { "normal", "traffic_drop" }
  <2>1. \A kind \in { "errors", "latency" } : Bad(kind, w, u) = 0
    BY <1>6, BadOfScenario
  <2> QED BY <1>1, <1>2, <1>3, <2>1
<1> QED BY <1>4, <1>5, <1>6, TheScenarios

-----------------------------------------------------------------------------
(* The stretch over which a rule that is due holds, whatever was before the
   run: long enough for the rule's "for" and the evaluations to come, a minute
   at its beginning and another at its end.                                *)
Begins == [ ErrorBudgetBurnFast   |-> 760,  ErrorBudgetBurnSlow   |-> 760,
            LatencyBudgetBurnFast |-> 1313, LatencyBudgetBurnSlow |-> 1698,
            TrafficDropped        |-> 1500 ]
Ends   == [ ErrorBudgetBurnFast   |-> 1800, ErrorBudgetBurnSlow   |-> 1800,
            LatencyBudgetBurnFast |-> 2100, LatencyBudgetBurnSlow |-> 2760,
            TrafficDropped        |-> 3000 ]

LEMMA StretchIsLongEnough ==
  ASSUME scenario \in DOMAIN SCENARIOS, NEW rule \in ExpectedAlerts[scenario]
  PROVE  /\ rule \in Rules /\ Begins[rule] \in Nat /\ Ends[rule] \in Nat
         /\ For(rule) \in Nat /\ Begins[rule] > 0
         /\ Begins[rule] + 60 + For(rule) + 60 <= Ends[rule]
         /\ Begins[rule] + 60 + For(rule) <= Duration
<1>1. /\ Begins["ErrorBudgetBurnFast"] = 760 /\ Ends["ErrorBudgetBurnFast"] = 1800
      /\ Begins["ErrorBudgetBurnSlow"] = 760 /\ Ends["ErrorBudgetBurnSlow"] = 1800
      /\ Begins["LatencyBudgetBurnFast"] = 1313 /\ Ends["LatencyBudgetBurnFast"] = 2100
      /\ Begins["LatencyBudgetBurnSlow"] = 1698 /\ Ends["LatencyBudgetBurnSlow"] = 2760
      /\ Begins["TrafficDropped"] = 1500 /\ Ends["TrafficDropped"] = 3000
  BY DEF Begins, Ends
<1>2. CASE scenario = "error_burst"
  <2>1. rule \in { "ErrorBudgetBurnFast", "ErrorBudgetBurnSlow" } /\ Duration = 2400
    BY <1>2, TheScenarios, ErrorBurst
  <2> QED BY <1>1, <2>1, TheRules
<1>3. CASE scenario = "latency_spike"
  <2>1. rule \in { "LatencyBudgetBurnFast", "LatencyBudgetBurnSlow" } /\ Duration = 2700
    BY <1>3, TheScenarios, LatencySpike
  <2> QED BY <1>1, <2>1, TheRules
<1>4. CASE scenario = "traffic_drop"
  <2>1. rule = "TrafficDropped" /\ Duration = 3000
    BY <1>4, TheScenarios, TrafficDrop
  <2> QED BY <1>1, <2>1, TheRules
<1>5. CASE scenario = "normal"
  BY <1>5, TheScenarios
<1> QED BY <1>2, <1>3, <1>4, <1>5, TheScenarios

LEMMA ErrorRulesHold ==
  ASSUME scenario = "error_burst", prior \in Priors, NEW u \in Nat, 760 <= u, u <= 1800
  PROVE  Holds("ErrorBudgetBurnFast", u) /\ Holds("ErrorBudgetBurnSlow", u)
<1>1. ASSUME NEW w \in Nat
      PROVE  /\ Requests(w, u) = Before(w, u) + 200 * LeastOf(w, u)
             /\ Before(w, u) \in Nat
             /\ u <= w => Before(w, u) <= 250 * (w - u)
             /\ u >= w => Before(w, u) = 0
             /\ Bad("errors", w, u) = 70 * Overlap(u - w, u, 300, 1800)
  <2>1. Steady(200, 2400) /\ u <= 2400
    BY ErrorBurstRate, OneRateIsSteady
  <2>2. Requests(w, u) = Before(w, u) + 200 * LeastOf(w, u)
    BY <2>1 DEF Steady
  <2>3. /\ Before(w, u) \in Nat
        /\ u <= w => Before(w, u) <= 250 * (w - u)
        /\ u >= w => Before(w, u) = 0
    BY BeforeBounds
  <2>4. Bad("errors", w, u) = 70 * Overlap(u - w, u, 300, 1800)
    BY BadOfScenario
  <2> QED BY <2>2, <2>3, <2>4
<1>2. /\ Overlap(u - 3600, u, 300, 1800) = u - 300
      /\ Overlap(u - 300, u, 300, 1800) = 300
      /\ Overlap(u - 21600, u, 300, 1800) = u - 300
      /\ Overlap(u - 1800, u, 300, 1800) = u - 300
      /\ LeastOf(3600, u) = u /\ LeastOf(300, u) = 300
      /\ LeastOf(21600, u) = u /\ LeastOf(1800, u) = u
  BY DEF Overlap, GreatestOf, LeastOf
<1>3. /\ Requests(3600, u) \in Nat /\ Requests(3600, u) <= 900000 - 50 * u
      /\ Bad("errors", 3600, u) = 70 * (u - 300)
  BY <1>1, <1>2
<1>4. /\ Requests(300, u) = 60000
      /\ Bad("errors", 300, u) = 21000
  BY <1>1, <1>2
<1>5. /\ Requests(21600, u) \in Nat /\ Requests(21600, u) <= 5400000 - 50 * u
      /\ Bad("errors", 21600, u) = 70 * (u - 300)
  BY <1>1, <1>2
<1>6. /\ Requests(1800, u) \in Nat /\ Requests(1800, u) <= 450000 - 50 * u
      /\ Bad("errors", 1800, u) = 70 * (u - 300)
  BY <1>1, <1>2
<1>7. /\ Bad("errors", 3600, u) * 625 > 9 * Requests(3600, u)
      /\ Bad("errors", 300, u) * 625 > 9 * Requests(300, u)
  BY <1>3, <1>4
<1>8. /\ Bad("errors", 21600, u) * 500 > 3 * Requests(21600, u)
      /\ Bad("errors", 1800, u) * 500 > 3 * Requests(1800, u)
  BY <1>5, <1>6
<1> QED BY <1>7, <1>8, HoldsOf

LEMMA LatencyPageHolds ==
  ASSUME scenario = "latency_spike", prior \in Priors, NEW u \in Nat, 1313 <= u, u <= 2100
  PROVE  Holds("LatencyBudgetBurnFast", u)
<1>1. ASSUME NEW w \in Nat
      PROVE  /\ Requests(w, u) = Before(w, u) + 100 * LeastOf(w, u)
             /\ Before(w, u) \in Nat
             /\ u <= w => Before(w, u) <= 250 * (w - u)
             /\ u >= w => Before(w, u) = 0
             /\ Bad("latency", w, u) = 100 * Overlap(u - w, u, 300, 2100)
  <2>1. Steady(100, 2700)
    BY LatencySpikeRate, OneRateIsSteady
  <2>2. Requests(w, u) = Before(w, u) + 100 * LeastOf(w, u)
    BY <2>1 DEF Steady
  <2>3. /\ Before(w, u) \in Nat
        /\ u <= w => Before(w, u) <= 250 * (w - u)
        /\ u >= w => Before(w, u) = 0
    BY BeforeBounds
  <2>4. Bad("latency", w, u) = 100 * Overlap(u - w, u, 300, 2100)
    BY BadOfScenario
  <2> QED BY <2>2, <2>3, <2>4
<1>2. /\ Overlap(u - 3600, u, 300, 2100) = u - 300
      /\ Overlap(u - 300, u, 300, 2100) = 300
      /\ LeastOf(3600, u) = u /\ LeastOf(300, u) = 300
  BY DEF Overlap, GreatestOf, LeastOf
<1>3. /\ Requests(3600, u) \in Nat /\ Requests(3600, u) <= 900000 - 150 * u
      /\ Bad("latency", 3600, u) = 100 * (u - 300)
  BY <1>1, <1>2
<1>4. /\ Requests(300, u) = 30000
      /\ Bad("latency", 300, u) = 30000
  BY <1>1, <1>2
<1>5. /\ Bad("latency", 3600, u) * 125 > 18 * Requests(3600, u)
      /\ Bad("latency", 300, u) * 125 > 18 * Requests(300, u)
  BY <1>3, <1>4
<1> QED BY <1>5, HoldsOf

(* The ticket, unless the past was busier; also for a minute after the run. *)
LEMMA LatencyTicketHolds ==
  ASSUME scenario = "latency_spike", prior \in Priors, ~BusierBefore,
         NEW u \in Nat, 1698 <= u, u <= 2760
  PROVE  Holds("LatencyBudgetBurnSlow", u)
<1> DEFINE o6 == Overlap(u - 21600, u, 0, 2700)
           o3 == Overlap(u - 1800, u, 0, 2700)
           b6 == Overlap(u - 21600, u, 300, 2100)
           b3 == Overlap(u - 1800, u, 300, 2100)
<1>1. ASSUME NEW w \in Nat, NEW v \in Nat
      PROVE  Requests(w, v) = Before(w, v) + 100 * Overlap(v - w, v, 0, 2700)
  BY LatencySpikeRate DEF OneRate
<1>2. ASSUME NEW w \in Nat
      PROVE  Bad("latency", w, u) = 100 * Overlap(u - w, u, 300, 2100)
  BY BadOfScenario
<1>3. /\ o6 \in Nat /\ o6 <= 2700 /\ o6 <= u /\ o3 \in Nat /\ o3 <= 1800
      /\ b6 \in Nat /\ b6 >= 1398 /\ (b6 >= u - 300 \/ b6 >= 1800)
      /\ b3 \in Nat /\ b3 >= 1000
  BY DEF Overlap, GreatestOf, LeastOf
<1>4. /\ Before(21600, 0) \in Nat /\ Before(21600, 0) <= 2160000
      /\ Before(21600, u) \in Nat /\ Before(21600, u) <= Before(21600, 0)
  <2>1. Requests(21600, 0) <= 2160000
    <3>1. Phases[1].rps = 100 /\ Hours(6) = 21600
      BY LatencySpike DEF Hours
    <3>2. ~(Requests(21600, 0) > 100 * 21600)
      BY <3>1 DEF BusierBefore
    <3>3. Requests(21600, 0) \in Nat
      <4>1. Wellformed
        BY LatencySpike
      <4>2. 21600 \in Nat /\ 0 \in Nat
        OBVIOUS
      <4> QED BY <4>1, <4>2, RequestsAreNat
    <3> QED BY <3>2, <3>3
  <2>2. Overlap(0 - 21600, 0, 0, 2700) = 0
    BY DEF Overlap, GreatestOf, LeastOf
  <2>3. 21600 \in Nat /\ 0 \in Nat
    OBVIOUS
  <2>4. Requests(21600, 0) = Before(21600, 0) + 100 * 0
    BY <1>1, <2>2, <2>3
  <2>5. /\ Before(21600, 0) \in Nat /\ Before(21600, u) \in Nat
        /\ Before(21600, u) <= Before(21600, 0)
    BY <2>3, BeforeBounds, BeforeShrinks
  <2> QED BY <2>1, <2>4, <2>5
<1>5. Before(1800, u) \in Nat /\ Before(1800, u) <= 25500
  <2>1. /\ Before(1800, u) \in Nat
        /\ u <= 1800 => Before(1800, u) <= 250 * (1800 - u)
        /\ u >= 1800 => Before(1800, u) = 0
    BY BeforeBounds
  <2> QED BY <2>1
<1>6. /\ Requests(21600, u) = Before(21600, u) + 100 * o6
      /\ Requests(1800, u) = Before(1800, u) + 100 * o3
      /\ Bad("latency", 21600, u) = 100 * b6 /\ Bad("latency", 1800, u) = 100 * b3
  BY <1>1, <1>2
<1> HIDE DEF o6, o3, b6, b3
<1>7. Bad("latency", 21600, u) * 50 > 3 * Requests(21600, u)
  BY <1>3, <1>4, <1>6
<1>8. Bad("latency", 1800, u) * 50 > 3 * Requests(1800, u)
  BY <1>3, <1>5, <1>6
<1> QED BY <1>7, <1>8, HoldsOf

LEMMA TrafficRuleHolds ==
  ASSUME scenario = "traffic_drop", prior \in Priors, NEW u \in Nat, 1500 <= u,
         u <= 21600
  PROVE  Holds("TrafficDropped", u)
<1>1. ASSUME NEW w \in Nat
      PROVE  /\ Before(w, u) \in Nat
             /\ u >= w => Before(w, u) = 0
             /\ Requests(w, u) = Before(w, u) + (250 * Overlap(u - w, u, 0, 1200)
                                                   + 2 * Overlap(u - w, u, 1200, 3000))
  <2>1. Wellformed /\ Len(Phases) = 2 /\ Phases[1].rps = 250
    BY TrafficDrop
  <2>2. Requests(w, u) = Before(w, u) + (RequestsOf(1, w, u) + RequestsOf(2, w, u))
    BY <2>1, Sums
  <2>3. /\ RequestsOf(1, w, u) = 250 * Overlap(u - w, u, 0, 1200)
        /\ RequestsOf(2, w, u) = 2 * Overlap(u - w, u, 1200, 3000)
    BY TrafficDrop DEF RequestsOf
  <2>4. Before(w, u) \in Nat /\ (u >= w => Before(w, u) = 0)
    BY BeforeBounds
  <2> QED BY <2>2, <2>3, <2>4
<1>3. /\ Overlap(u - 300, u, 0, 1200) = 0
      /\ Overlap(u - 300, u, 1200, 3000) <= 300
      /\ Overlap(u - 300, u, 1200, 3000) \in Nat
      /\ Overlap(u - 21600, u, 0, 1200) = 1200
      /\ Overlap(u - 21600, u, 1200, 3000) \in Nat
  BY DEF Overlap, GreatestOf, LeastOf
<1>4. Requests(300, u) <= 600 /\ Requests(300, u) \in Nat
  BY <1>1, <1>3
<1>5. Requests(21600, u) >= 300000 /\ Requests(21600, u) \in Nat
  BY <1>1, <1>3
<1>6. /\ Requests(300, u) * 4 * 72 < Requests(21600, u)
      /\ Requests(21600, u) > 10 * 21600
  BY <1>4, <1>5
<1>7. TrafficIsDown(u)
  BY <1>6 DEF TrafficIsDown, Baseline, Hours, Minutes
<1> QED BY <1>7, HoldsOf

LEMMA ExpectedHold ==
  ASSUME scenario \in DOMAIN SCENARIOS, prior \in Priors,
         NEW rule \in Due,
         NEW u \in Nat, Begins[rule] <= u, u <= Ends[rule]
  PROVE  Holds(rule, u)
<1>1. CASE scenario = "error_burst"
  <2>1. rule \in { "ErrorBudgetBurnFast", "ErrorBudgetBurnSlow" }
    BY <1>1, TheScenarios DEF Due
  <2>2. 760 <= u /\ u <= 1800
    BY <2>1 DEF Begins, Ends
  <2> QED BY <1>1, <2>1, <2>2, ErrorRulesHold
<1>2. CASE scenario = "latency_spike"
  <2>1. rule \in { "LatencyBudgetBurnFast", "LatencyBudgetBurnSlow" }
    BY <1>2, TheScenarios DEF Due
  <2>2. CASE rule = "LatencyBudgetBurnFast"
    <3>1. 1313 <= u /\ u <= 2100
      BY <2>2 DEF Begins, Ends
    <3> QED BY <1>2, <2>2, <3>1, LatencyPageHolds
  <2>3. CASE rule = "LatencyBudgetBurnSlow"
    <3>1. 1698 <= u /\ u <= 2760 /\ ~BusierBefore
      BY <2>3 DEF Begins, Ends, Due
    <3> QED BY <1>2, <2>3, <3>1, LatencyTicketHolds
  <2> QED BY <2>1, <2>2, <2>3
<1>3. CASE scenario = "traffic_drop"
  <2>1. rule = "TrafficDropped"
    BY <1>3, TheScenarios DEF Due
  <2>2. 1500 <= u /\ u <= 21600
    BY <2>1 DEF Begins, Ends
  <2> QED BY <1>3, <2>1, <2>2, TrafficRuleHolds
<1>4. CASE scenario = "normal"
  BY <1>4, TheScenarios DEF Due
<1> QED BY <1>1, <1>2, <1>3, <1>4, TheScenarios

-----------------------------------------------------------------------------
(* The requests that are left in a window after the run.                   *)
LEMMA AfterTheRun ==
  ASSUME NEW rps \in Nat, NEW d \in Nat, OneRate(rps, d), prior \in Priors,
         NEW u \in Nat, d + 300 <= u, u <= 21600
  PROVE  /\ Requests(300, u) = 0
         /\ Requests(21600, u) \in Nat /\ Requests(21600, u) >= rps * d
<1>1. ASSUME NEW w \in Nat
      PROVE  /\ Before(w, u) \in Nat
             /\ u >= w => Before(w, u) = 0
             /\ Requests(w, u) = Before(w, u) + rps * Overlap(u - w, u, 0, d)
  <2>1. Requests(w, u) = Before(w, u) + rps * Overlap(u - w, u, 0, d)
    BY DEF OneRate
  <2> QED BY <2>1, BeforeBounds
<1>2. Overlap(u - 300, u, 0, d) = 0 /\ Overlap(u - 21600, u, 0, d) = d
  BY DEF Overlap, GreatestOf, LeastOf
<1>3. Requests(300, u) = 0
  <2>1. Before(300, u) = 0 /\ Requests(300, u) = Before(300, u) + rps * 0
    BY <1>1, <1>2
  <2> QED BY <2>1
<1>4. Requests(21600, u) \in Nat /\ Requests(21600, u) >= rps * d
  <2>1. rps * d \in Nat
    OBVIOUS
  <2> QED BY <1>1, <1>2, <2>1
<1> QED BY <1>3, <1>4

(* Once traffic has been down for the length of the alert's "for" it is down
   for hours: what is left of it in five minutes is nothing or the trickle of
   the last phase, and the six hours still have the whole run.             *)
LEMMA NothingAfterTheRun ==
  ASSUME NEW rps \in Nat, NEW d \in Nat, OneRate(rps, d), rps * d > 216000,
         prior \in Priors, NEW u \in Nat, d + 300 <= u, u <= 21600
  PROVE  TrafficIsDown(u)
<1>1. PICK p \in Nat : p = rps * d
  OBVIOUS
<1>2. /\ Requests(300, u) = 0
      /\ Requests(21600, u) \in Nat /\ Requests(21600, u) >= p
  BY <1>1, AfterTheRun
<1>3. p > 216000
  BY <1>1
<1> QED BY <1>2, <1>3 DEF TrafficIsDown, Baseline, Hours, Minutes

LEMMA DownStaysDown ==
  ASSUME scenario \in DOMAIN SCENARIOS, prior \in Priors,
         NEW v \in Nat, Holds("TrafficDropped", v),
         NEW u \in Nat, v + 600 <= u, u <= Duration + Horizon + Interval
  PROVE  Holds("TrafficDropped", u)
<1>1. Horizon + Interval <= 14460 /\ Horizon \in Nat /\ Interval \in Nat
  BY BurnRateAssumption
<1>2. TrafficIsDown(v) /\ (TrafficIsDown(u) => Holds("TrafficDropped", u))
  BY HoldsOf
<1>3. CASE scenario = "traffic_drop"
  <2>1. ~(v <= 1200)
    BY <1>2, <1>3, TrafficDropIsSteady, SteadyTrafficIsNotDown
  <2>2. 1500 <= u /\ u <= 21600
    BY <1>1, <1>3, <2>1, TrafficDrop
  <2> QED BY <1>3, <2>2, TrafficRuleHolds
<1>4. ASSUME NEW rps \in Nat, rps >= 63, NEW d \in Nat, OneRate(rps, d), rps * d > 216000,
             d <= 2700, Duration = d
      PROVE  TrafficIsDown(u)
  <2>1. Steady(rps, d)
    BY <1>4, OneRateIsSteady
  <2>2. ~(v <= d)
    BY <1>2, <1>4, <2>1, SteadyTrafficIsNotDown
  <2>3. d + 300 <= u /\ u <= 21600
    BY <1>1, <1>4, <2>2
  <2> QED BY <1>4, <2>3, NothingAfterTheRun
<1>5. CASE scenario = "normal"
  <2>1. TrafficIsDown(u)
    BY <1>4, <1>5, Normal, NormalRate
  <2> QED BY <1>2, <2>1
<1>6. CASE scenario = "error_burst"
  <2>1. TrafficIsDown(u)
    BY <1>4, <1>6, ErrorBurst, ErrorBurstRate
  <2> QED BY <1>2, <2>1
<1>7. CASE scenario = "latency_spike"
  <2>1. TrafficIsDown(u)
    BY <1>4, <1>7, LatencySpike, LatencySpikeRate
  <2> QED BY <1>2, <2>1
<1> QED BY <1>3, <1>5, <1>6, <1>7, TheScenarios

-----------------------------------------------------------------------------
(* The inductive invariant.  A rule is active since an evaluation at which its
   expression held, and it held at the last one too;                       *)
TypeInv ==
  /\ scenario \in DOMAIN SCENARIOS /\ prior \in Priors
  /\ t \in Nat /\ t <= Duration + Horizon + Interval
  /\ since \in [Rules -> Nat \cup {Never}] /\ fired \subseteq Rules

SinceInv ==
  \A r \in Rules : since[r] # Never =>
    since[r] <= t /\ Holds(r, since[r]) /\ Holds(r, t)

(* those the scenario does not name are never active during it;            *)
QuietInv ==
  t <= Duration =>
    \A r \in Rules \ ExpectedAlerts[scenario] : since[r] = Never /\ r \notin fired

(* and those it has to fire are active over their stretch, from its first
   evaluation on, and have fired once their "for" is over.                 *)
FiresInv ==
  \A r \in Due :
    /\ Begins[r] <= t /\ t <= Ends[r] => since[r] # Never /\ since[r] < Begins[r] + Interval
    /\ Begins[r] + Interval + For(r) <= t => r \in fired

Inv == TypeInv /\ SinceInv /\ QuietInv /\ FiresInv

LEMMA InitInv == Init => Inv
<1> SUFFICES ASSUME Init PROVE Inv
  OBVIOUS
<1> USE DEF Init
<1>1. Duration \in Nat
  BY ScenarioIsWellformed
<1>2. Horizon \in Nat /\ Interval \in Nat
  BY BurnRateAssumption
<1>3. \A r \in Rules : since[r] = Never
  OBVIOUS
<1>4. TypeInv
  <2>1. since \in [Rules -> Nat \cup {Never}]
    OBVIOUS
  <2> QED BY <1>1, <1>2, <2>1 DEF TypeInv
<1>5. SinceInv
  BY <1>3 DEF SinceInv
<1>6. QuietInv
  BY <1>3 DEF QuietInv
<1>7. FiresInv
  <2>1. ASSUME NEW r \in Due
        PROVE  ~(Begins[r] <= t) /\ ~(Begins[r] + Interval + For(r) <= t)
    BY <1>2, <2>1, StretchIsLongEnough DEF Due
  <2> QED BY <2>1 DEF FiresInv
<1> QED BY <1>4, <1>5, <1>6, <1>7 DEF Inv

(* What one evaluation does to one rule.                                   *)
LEMMA OneEvaluation ==
  ASSUME TypeInv, Evaluate, NEW r \in Rules
  PROVE  /\ t' = t + Interval /\ t' \in Nat
         /\ since'[r] = IF ~Holds(r, t') THEN Never
                        ELSE IF since[r] = Never THEN t' ELSE since[r]
         /\ since[r] \in Nat \cup {Never}
         /\ r \in fired' <=> r \in fired \/ (since'[r] # Never /\ t' - since'[r] >= For(r))
<1>1. t' = t + Interval /\ t' \in Nat
  BY BurnRateAssumption DEF Evaluate, TypeInv
<1>2. since'[r] = Since(Holds(r, t'), since[r], t')
  BY DEF Evaluate
<1>3. since[r] \in Nat \cup {Never}
  BY DEF TypeInv
<1>4. r \in fired' <=> r \in fired \/ Firing(r)'
  BY DEF Evaluate
<1>5. Firing(r)' <=> since'[r] # Never /\ t' - since'[r] >= For(r)
  BY DEF Firing, For
<1> QED BY <1>1, <1>2, <1>3, <1>4, <1>5 DEF Since

LEMMA TypeStep == TypeInv /\ Evaluate => TypeInv'
<1> SUFFICES ASSUME TypeInv, Evaluate PROVE TypeInv'
  OBVIOUS
<1>1. UNCHANGED << scenario, prior >> /\ Duration' = Duration
  BY HoldsStays DEF Evaluate
<1>2. Duration \in Nat
  BY ScenarioIsWellformed DEF TypeInv
<1>3. t' \in Nat /\ t' <= Duration + Horizon + Interval
  BY <1>2, BurnRateAssumption DEF Evaluate, TypeInv
<1>4. since' \in [Rules -> Nat \cup {Never}]
  <2>1. \A r \in Rules : since'[r] \in Nat \cup {Never}
    BY OneEvaluation
  <2> QED BY <2>1 DEF Evaluate
<1>5. fired' \subseteq Rules
  BY DEF Evaluate, TypeInv
<1> QED BY <1>1, <1>3, <1>4, <1>5 DEF TypeInv

LEMMA SinceStep == TypeInv /\ SinceInv /\ Evaluate => SinceInv'
<1> SUFFICES ASSUME TypeInv, SinceInv, Evaluate,
                    NEW r \in Rules, since'[r] # Never
             PROVE  (since[r] <= t /\ Holds(r, since[r]) /\ Holds(r, t))'
  BY DEF SinceInv
<1>1. \A u : Holds(r, u)' <=> Holds(r, u)
  BY HoldsStays DEF Evaluate
<1>2. /\ t' = t + Interval /\ t' \in Nat
      /\ since'[r] = IF ~Holds(r, t') THEN Never
                     ELSE IF since[r] = Never THEN t' ELSE since[r]
      /\ since[r] \in Nat \cup {Never}
  BY OneEvaluation
<1>3. Holds(r, t')
  BY <1>2
<1>4. since'[r] <= t' /\ Holds(r, since'[r])
  BY <1>2, <1>3, BurnRateAssumption DEF SinceInv, TypeInv
<1> QED BY <1>1, <1>3, <1>4

LEMMA QuietStep == TypeInv /\ QuietInv /\ Evaluate => QuietInv'
<1> SUFFICES ASSUME TypeInv, QuietInv, Evaluate, t' <= Duration',
                    NEW r \in Rules, r \notin ExpectedAlerts[scenario]
             PROVE  since'[r] = Never /\ r \notin fired'
  BY DEF QuietInv, Evaluate
<1>1. Duration' = Duration /\ scenario \in DOMAIN SCENARIOS /\ prior \in Priors
  BY HoldsStays DEF Evaluate, TypeInv
<1>2. /\ t' = t + Interval /\ t' \in Nat
      /\ since'[r] = IF ~Holds(r, t') THEN Never
                     ELSE IF since[r] = Never THEN t' ELSE since[r]
      /\ r \in fired' <=> r \in fired \/ (since'[r] # Never /\ t' - since'[r] >= For(r))
  BY OneEvaluation
<1>3. ~Holds(r, t')
  BY <1>1, <1>2, UnexpectedDoesNotHold
<1>4. r \notin fired
  <2>1. t <= Duration
    <3>1. Duration \in Nat
      BY <1>1, ScenarioIsWellformed
    <3> QED BY <1>1, <1>2, <3>1, BurnRateAssumption DEF TypeInv
  <2> QED BY <2>1 DEF QuietInv
<1> QED BY <1>2, <1>3, <1>4

LEMMA FiresStep == TypeInv /\ SinceInv /\ FiresInv /\ Evaluate => FiresInv'
<1> SUFFICES ASSUME TypeInv, SinceInv, FiresInv, Evaluate PROVE FiresInv'
  OBVIOUS
<1>0. Due' = Due
  BY HoldsStays DEF Evaluate
<1> SUFFICES ASSUME NEW r \in Due
             PROVE  /\ Begins[r] <= t' /\ t' <= Ends[r] =>
                         since'[r] # Never /\ since'[r] < Begins[r] + Interval
                    /\ Begins[r] + Interval + For(r) <= t' => r \in fired'
  BY <1>0 DEF FiresInv, Evaluate, Begins, Ends, For
<1>1. scenario \in DOMAIN SCENARIOS /\ prior \in Priors
  BY DEF TypeInv
<1>2. /\ r \in Rules /\ Begins[r] \in Nat /\ Ends[r] \in Nat /\ For(r) \in Nat
      /\ Begins[r] + 60 + For(r) + 60 <= Ends[r]
  BY <1>1, StretchIsLongEnough DEF Due
<1>3. t \in Nat /\ Interval \in Nat /\ Interval <= 60 /\ Interval > 0
  BY BurnRateAssumption DEF TypeInv
<1>4. /\ t' = t + Interval /\ t' \in Nat
      /\ since'[r] = IF ~Holds(r, t') THEN Never
                     ELSE IF since[r] = Never THEN t' ELSE since[r]
      /\ since[r] \in Nat \cup {Never}
      /\ r \in fired' <=> r \in fired \/ (since'[r] # Never /\ t' - since'[r] >= For(r))
  BY <1>2, OneEvaluation
<1>5. since[r] # Never => since[r] <= t
  BY <1>2 DEF SinceInv
<1>6. /\ Begins[r] <= t /\ t <= Ends[r] => since[r] # Never /\ since[r] < Begins[r] + Interval
      /\ Begins[r] + Interval + For(r) <= t => r \in fired
  BY DEF FiresInv
<1> HIDE DEF Begins, Ends, For
<1>7. ASSUME Begins[r] <= t', t' <= Ends[r]
      PROVE  /\ since'[r] # Never /\ since'[r] < Begins[r] + Interval
             /\ since'[r] \in Nat
  <2>1. Holds(r, t')
    BY <1>1, <1>4, <1>7, ExpectedHold
  <2>2. since'[r] = IF since[r] = Never THEN t' ELSE since[r]
    BY <1>4, <2>1
  <2>3. -1 \notin Nat
    OBVIOUS
  <2>4. CASE since[r] = Never
    <3>1. t < Begins[r]
      BY <1>2, <1>3, <1>4, <1>6, <1>7, <2>4
    <3> QED BY <1>2, <1>3, <1>4, <2>2, <2>3, <2>4, <3>1 DEF Never
  <2>5. CASE since[r] # Never
    <3>1. since[r] < Begins[r] + Interval /\ since[r] \in Nat
      BY <1>2, <1>3, <1>4, <1>5, <1>6, <1>7, <2>5
    <3> QED BY <2>2, <2>5, <3>1
  <2> QED BY <2>4, <2>5
<1>8. ASSUME Begins[r] + Interval + For(r) <= t'
      PROVE  r \in fired'
  <2>1. CASE Begins[r] + Interval + For(r) <= t
    BY <1>4, <1>6, <2>1
  <2>2. CASE ~(Begins[r] + Interval + For(r) <= t)
    <3>1. Begins[r] <= t' /\ t' <= Ends[r]
      BY <1>2, <1>3, <1>4, <1>8, <2>2
    <3>2. since'[r] # Never /\ since'[r] < Begins[r] + Interval /\ since'[r] \in Nat
      BY <1>7, <3>1
    <3>3. t' - since'[r] >= For(r)
      BY <1>2, <1>3, <1>4, <1>8, <3>2
    <3> QED BY <1>4, <3>2, <3>3
  <2> QED BY <2>1, <2>2
<1> QED BY <1>7, <1>8

(* Every state of the model satisfies the invariant.                       *)
THEOREM Invariance == Spec => []Inv
<1>1. Inv /\ Evaluate => Inv'
  BY TypeStep, SinceStep, QuietStep, FiresStep DEF Inv
<1>2. Inv /\ UNCHANGED vars => Inv'
  <2> SUFFICES ASSUME Inv, UNCHANGED vars PROVE Inv'
    OBVIOUS
  <2> USE DEF vars
  <2>1. /\ Duration' = Duration /\ Due' = Due
        /\ \A r, u : Holds(r, u)' <=> Holds(r, u)
    BY HoldsStays
  <2>2. TypeInv'
    BY <2>1 DEF Inv, TypeInv
  <2>3. SinceInv'
    BY <2>1 DEF Inv, SinceInv
  <2>4. QuietInv'
    BY <2>1 DEF Inv, QuietInv
  <2>5. FiresInv'
    BY <2>1 DEF Inv, FiresInv, Begins, Ends, For
  <2> QED BY <2>2, <2>3, <2>4, <2>5 DEF Inv
<1> QED BY InitInv, <1>1, <1>2, PTL DEF Spec

-----------------------------------------------------------------------------
(* By the end of every scenario the alerts it names have fired: each holds
   over a stretch longer than its "for" and the two evaluations at its ends
   (the expressions of alerting.yml over the phases of scenarios.py).  So it is
   after healthy traffic at any rate up to 25 requests a second, but for the
   slow burn of latency_spike when the six hours before had more requests than
   its own rate gives: then the theorem claims nothing of that one alert.  *)
THEOREM ScenariosFireTheirAlerts == Spec => []ExpectedAlertsFire
<1>1. Inv => ExpectedAlertsFire
  <2> SUFFICES ASSUME Inv, t >= Duration, NEW r \in Due
               PROVE  r \in fired
    BY DEF ExpectedAlertsFire, Due
  <2>1. scenario \in DOMAIN SCENARIOS /\ t \in Nat
    BY DEF Inv, TypeInv
  <2>2. /\ Begins[r] \in Nat /\ For(r) \in Nat
        /\ Begins[r] + 60 + For(r) <= Duration
    BY <2>1, StretchIsLongEnough DEF Due
  <2>3. Interval \in Nat /\ Interval <= 60 /\ Duration \in Nat
    BY <2>1, ScenarioIsWellformed, BurnRateAssumption
  <2>4. Begins[r] + Interval + For(r) <= t
    BY <2>1, <2>2, <2>3
  <2> QED BY <2>4 DEF Inv, FiresInv
<1> QED BY <1>1, Invariance, PTL

(* And during it no other rule has, after a past as busy as any scenario.  *)
THEOREM ScenariosFireNothingElse == Spec => []NothingElseFires
<1>1. Inv => NothingElseFires
  <2> SUFFICES ASSUME Inv, t <= Duration, NEW r \in fired
               PROVE  r \in ExpectedAlerts[scenario]
    BY DEF NothingElseFires
  <2>1. r \in Rules
    BY DEF Inv, TypeInv
  <2> QED BY <2>1 DEF Inv, QuietInv
<1> QED BY <1>1, Invariance, PTL

(* A rule that fires held at the last evaluation, so its short window still
   has requests of the faulty phase: it ended no longer ago than that.     *)
THEOREM ShortWindowsClear == Spec => []BurnRulesClearQuickly
<1>1. Inv => BurnRulesClearQuickly
  <2> SUFFICES ASSUME Inv, NEW r \in DOMAIN BurnRules, NEW i \in DOMAIN Phases,
                      Firing(r), Phases[i].fault.kind = BurnRules[r].kind
               PROVE  t <= Start(i + 1) + (IF r \in Pages THEN Minutes(5) ELSE Minutes(30))
    BY DEF BurnRulesClearQuickly
  <2>1. scenario \in DOMAIN SCENARIOS /\ prior \in Priors /\ t \in Nat
    BY DEF Inv, TypeInv
  <2>2. Holds(r, t)
    <3>1. r \in Rules /\ since[r] # Never
      BY DEF Firing, Rules
    <3> QED BY <3>1 DEF Inv, SinceInv
  <2>3. t <= Start(i + 1) + Short(r)
    BY <2>1, <2>2, HoldsNotForLong
  <2>4. Short(r) = IF r \in Pages THEN Minutes(5) ELSE Minutes(30)
    BY DEF Short, Minutes
  <2> QED BY <2>3, <2>4
<1> QED BY <1>1, Invariance, PTL

(* TrafficDropped, once it fires, fires at every later evaluation: its
   expression held ten minutes ago, and from then on holds for hours.      *)
THEOREM OutageStaysReported == Spec => OutageIsNotForgotten
<1> DEFINE rule == "TrafficDropped"
<1>1. ASSUME Inv, Inv', Evaluate, Firing(rule)
      PROVE  Firing(rule)'
  <2>1. rule \in Rules
    BY DEF Rules
  <2>2. scenario \in DOMAIN SCENARIOS /\ prior \in Priors /\ t \in Nat
    BY <1>1 DEF Inv, TypeInv
  <2>3. /\ t' = t + Interval /\ t' \in Nat
        /\ since'[rule] = IF ~Holds(rule, t') THEN Never
                          ELSE IF since[rule] = Never THEN t' ELSE since[rule]
        /\ since[rule] \in Nat \cup {Never}
    BY <1>1, <2>1, OneEvaluation DEF Inv
  <2>4. /\ since[rule] # Never /\ t - since[rule] >= 600 /\ Holds(rule, since[rule])
        /\ since[rule] \in Nat
    <3>1. since[rule] # Never /\ t - since[rule] >= For(rule)
      BY <1>1 DEF Firing
    <3> QED BY <1>1, <2>1, <2>3, <3>1, TheRules DEF Inv, SinceInv
  <2>5. Interval \in Nat
    BY BurnRateAssumption
  <2>6. t' <= Duration + Horizon + Interval
    <3>1. Duration' = Duration
      BY <1>1, HoldsStays DEF Evaluate
    <3> QED BY <1>1, <3>1 DEF Inv, TypeInv
  <2>7. Holds(rule, t')
    <3>1. since[rule] + 600 <= t'
      BY <2>2, <2>3, <2>4, <2>5
    <3> QED BY <2>2, <2>3, <2>4, <2>6, <3>1, DownStaysDown
  <2>8. since'[rule] = since[rule] /\ t' - since'[rule] >= 600
    BY <2>2, <2>3, <2>4, <2>5, <2>7
  <2> QED BY <2>4, <2>8, TheRules DEF Firing, For
<1>2. ASSUME Firing(rule), UNCHANGED vars PROVE Firing(rule)'
  BY <1>2 DEF Firing, For, vars
<1>3. Inv /\ Inv' /\ [Evaluate]_vars => (Firing(rule) => Firing(rule)')
  BY <1>1, <1>2
<1> QED BY <1>3, Invariance, PTL DEF Spec, OutageIsNotForgotten
=============================================================================
