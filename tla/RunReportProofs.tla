--------------------------- MODULE RunReportProofs ---------------------------
(***************************************************************************)
(* Of RunReport, for any number of workers and slots: its types, that the  *)
(* last line is exact, and that every figure of a progress line, the       *)
(* percentiles among them, is one of the run's.  That main ends is left to *)
(* TLC.                                                                    *)
(***************************************************************************)
EXTENDS RunReport, FiniteSetTheorems, FunctionTheorems, SequenceTheorems, TLAPS

-----------------------------------------------------------------------------
(* Bucket gives one of the classes, for any answer.                        *)
LEMMA BucketIsAClass == \A o \in Outcomes : Bucket(o.status) \in Classes
  BY DEF Outcomes, Bucket, Classes

(* A reader's step stays one, whatever it is set to.                       *)
LEMMA StepIsTyped ==
  ASSUME step \in [Readers -> 0..7], NEW r, NEW k \in 0..7, step' = [step EXCEPT ![r] = k]
  PROVE  step' \in [Readers -> 0..7]
  OBVIOUS

(* Type correctness: one thread at most is inside record().                *)
THEOREM TypeCorrect == Spec => []TypeOK
<1>1. Init => TypeOK
  <2> SUFFICES ASSUME Init PROVE TypeOK
    OBVIOUS
  <2> USE RunReportAssumption DEF Init
  <2>1. byClass \in [Classes -> Nat] /\ step \in [Readers -> 0..7]
    OBVIOUS
  <2>2. latencies \in Seq(Latencies) /\ log \in Seq(Outcomes)
    OBVIOUS
  <2>3. /\ holding \in [Workers -> Outcomes \cup {Nobody}]
        /\ \A w \in Workers : holding[w] = Nobody
    OBVIOUS
  <2>4. /\ lock \in Workers \cup {Nobody} /\ busy \subseteq Workers
        /\ done \in BOOLEAN /\ code \in { "none", "0", "1" }
    OBVIOUS
  <2>5. /\ sent \in Nat /\ dropped \in Nat /\ crashed \in Nat /\ lines \in Nat
        /\ slots \in 0..MaxSlots
    OBVIOUS
  <2> HIDE DEF Init
  <2> QED BY <2>1, <2>2, <2>3, <2>4, <2>5 DEF TypeOK
<1>2. TypeOK /\ [Next]_vars => TypeOK'
  <2> SUFFICES ASSUME TypeOK, [Next]_vars
               PROVE  TypeOK'
    OBVIOUS
  <2> USE RunReportAssumption DEF TypeOK, stats, readers
  <2>1. ASSUME NEW w \in Workers, Send(w) PROVE TypeOK'
    BY <2>1 DEF Send
  <2>2. ASSUME NEW w \in Workers, NEW o \in Outcomes, BeginRecord(w, o) PROVE TypeOK'
    BY <2>2 DEF BeginRecord, Free
  <2>3. ASSUME NEW w \in Workers, EndRecord(w) PROVE TypeOK'
    <3>1. holding[w] \in Outcomes /\ lock = w
      BY <2>3 DEF EndRecord
    <3>2. byClass' \in [Classes -> Nat]
      BY <2>3, <3>1, BucketIsAClass DEF EndRecord
    <3>3. latencies' \in Seq(Latencies)
      BY <2>3, <3>1 DEF EndRecord, Outcomes
    <3>4. /\ holding' \in [Workers -> Outcomes \cup {Nobody}]
          /\ \A v \in Workers : holding'[v] # Nobody => lock' = v
      BY <2>3, <3>1 DEF EndRecord, Unlock
    <3> QED BY <2>3, <3>2, <3>3, <3>4 DEF EndRecord, Unlock
  <2>4. ASSUME NEW w \in Workers, Crash(w) PROVE TypeOK'
    BY <2>4 DEF Crash
  <2>5. ASSUME DropSlot PROVE TypeOK'
    BY <2>5 DEF DropSlot
  <2>6. ASSUME RunReturns \/ Exit PROVE TypeOK'
    BY <2>6 DEF RunReturns, Exit
  <2>7. ASSUME step' \in [Readers -> 0..7], lines' \in Nat,
               UNCHANGED << stats, busy, done, code, log, slots, crashed >>
        PROVE  TypeOK'
    BY <2>7
  <2>8. ASSUME BeginLine PROVE TypeOK'
    <3>1. step' = [step EXCEPT !["reporter"] = 1] /\ lines' = lines + 1
      BY <2>8 DEF BeginLine
    <3>2. step' \in [Readers -> 0..7]
      <4>1. step \in [Readers -> 0..7] /\ 1 \in 0..7
        OBVIOUS
      <4>2. QED BY <3>1, <4>1, StepIsTyped, Zenon
    <3>3. step' \in [Readers -> 0..7] /\ lines' \in Nat
      BY <3>1, <3>2
    <3> QED BY <2>7, <2>8, <3>3 DEF BeginLine
  <2>9. ASSUME BeginLastLine PROVE TypeOK'
    <3>1. step' = [step EXCEPT !["main"] = 1] /\ lines' = lines
      BY <2>9 DEF BeginLastLine
    <3>2. step' \in [Readers -> 0..7]
      <4>1. step \in [Readers -> 0..7] /\ 1 \in 0..7
        OBVIOUS
      <4>2. QED BY <3>1, <4>1, StepIsTyped, Zenon
    <3>3. step' \in [Readers -> 0..7] /\ lines' \in Nat
      BY <3>1, <3>2
    <3> QED BY <2>7, <2>9, <3>3 DEF BeginLastLine
  <2>10. ASSUME NEW r \in Readers, ReadFigure(r) PROVE TypeOK'
    <3>1. step[r] \in 1..6 /\ step' = [step EXCEPT ![r] = @ + 1] /\ lines' = lines
      BY <2>10 DEF ReadFigure, Figures
    <3>2. step[r] + 1 \in 0..7
      BY <3>1
    <3>3. step' \in [Readers -> 0..7] /\ lines' \in Nat
      BY <3>1, <3>2, StepIsTyped
    <3> QED BY <2>7, <2>10, <3>3 DEF ReadFigure
  <2>11. CASE UNCHANGED vars
    BY <2>11 DEF vars
  <2> QED
    BY <2>1, <2>2, <2>3, <2>4, <2>5, <2>6, <2>8, <2>9, <2>10, <2>11
       DEF Next, Work, Main, Readers
<1> QED BY <1>1, <1>2, PTL DEF Spec

-----------------------------------------------------------------------------
(* What the counts are of a log: none at first, unchanged for the requests
   recorded already, and one more of the class of the next.                *)
LEMMA NothingCounted == \A c \in Classes : CountOf(0, c) = 0
<1> SUFFICES ASSUME NEW c \in Classes PROVE CountOf(0, c) = 0
  OBVIOUS
<1>1. { i \in 1..0 : Bucket(log[i].status) = c } = {}
  OBVIOUS
<1> QED BY <1>1, FS_EmptySet DEF CountOf

LEMMA OldCountsStay ==
  ASSUME NEW o, log \in Seq(Outcomes), log' = Append(log, o)
  PROVE  \A n \in 0..Len(log) :
           /\ \A c \in Classes : CountOf(n, c)' = CountOf(n, c)
           /\ ClassesOf(n)' = ClassesOf(n)
<1> SUFFICES ASSUME NEW n \in 0..Len(log)
             PROVE  /\ \A c \in Classes : CountOf(n, c)' = CountOf(n, c)
                    /\ ClassesOf(n)' = ClassesOf(n)
  OBVIOUS
<1>1. \A i \in 1..n : log'[i] = log[i]
  OBVIOUS
<1>2. ASSUME NEW c PROVE CountOf(n, c)' = CountOf(n, c)
  <2>1. { i \in 1..n : Bucket(log'[i].status) = c }
          = { i \in 1..n : Bucket(log[i].status) = c }
    BY <1>1
  <2> QED BY <2>1 DEF CountOf
<1> QED BY <1>2 DEF ClassesOf

LEMMA OneMoreCounted ==
  ASSUME NEW n \in Nat, NEW c
  PROVE  CountOf(n + 1, c) = IF Bucket(log[n + 1].status) = c
                               THEN CountOf(n, c) + 1 ELSE CountOf(n, c)
<1> DEFINE Of(m) == { i \in 1..m : Bucket(log[i].status) = c }
<1>1. IsFiniteSet(1..n) /\ Of(n) \in SUBSET (1..n)
  BY FS_Interval
<1>2. IsFiniteSet(Of(n)) /\ n + 1 \notin Of(n)
  BY <1>1, FS_Subset
<1>3. CASE Bucket(log[n + 1].status) = c
  <2>1. Of(n + 1) = Of(n) \cup {n + 1}
    BY <1>3
  <2>2. Cardinality(Of(n) \cup {n + 1}) = Cardinality(Of(n)) + 1
    BY <1>2, FS_AddElement
  <2> QED BY <1>3, <2>1, <2>2 DEF CountOf
<1>4. CASE Bucket(log[n + 1].status) # c
  <2>1. Of(n + 1) = Of(n)
    BY <1>4
  <2> QED BY <1>4, <2>1 DEF CountOf
<1> QED BY <1>3, <1>4

-----------------------------------------------------------------------------
(* The fields of Stats are those of the log, except that whoever is inside
   record() has counted its request in sent and not yet in its class.      *)
StatsInv ==
  /\ sent = Len(log)
  /\ lock = Nobody => byClass = ClassesOf(Len(log))
  /\ lock # Nobody => /\ Len(log) > 0 /\ holding[lock] = log[Len(log)]
                      /\ holding[lock] # Nobody
                      /\ byClass = ClassesOf(Len(log) - 1)

LEMMA StatsInvStep ==
  ASSUME TypeOK, StatsInv, [Next]_vars
  PROVE  StatsInv'
<1> USE RunReportAssumption, NobodyIsNoOutcome DEF TypeOK, StatsInv
<1>1. ASSUME NEW w \in Workers, NEW o \in Outcomes, BeginRecord(w, o) PROVE StatsInv'
  <2>1. PICK n \in Nat : n = Len(log)
    OBVIOUS
  <2>2. lock = Nobody /\ lock' = w /\ w # Nobody /\ log' = Append(log, o)
    BY <1>1 DEF BeginRecord, Free
  <2>3. Len(log') = n + 1 /\ log'[Len(log')] = o /\ sent' = Len(log')
    BY <1>1, <2>1, <2>2 DEF BeginRecord
  <2>4. holding'[w] = o /\ o # Nobody
    BY <1>1 DEF BeginRecord
  <2>5. byClass' = ClassesOf(n)
    BY <1>1, <2>1, <2>2 DEF BeginRecord
  <2>6. ClassesOf(n)' = ClassesOf(n)
    BY <2>1, <2>2, OldCountsStay
  <2>7. n = Len(log') - 1
    BY <2>1, <2>3
  <2>8. byClass' = ClassesOf(Len(log) - 1)'
    BY <2>5, <2>6, <2>7 DEF ClassesOf, CountOf
  <2> QED BY <2>2, <2>3, <2>4, <2>8
<1>2. ASSUME NEW w \in Workers, EndRecord(w) PROVE StatsInv'
  <2>1. PICK n \in Nat : n + 1 = Len(log)
    <3>1. lock = w /\ w # Nobody
      BY <1>2 DEF EndRecord
    <3>2. Len(log) > 0 /\ Len(log) \in Nat
      BY <3>1
    <3>3. Len(log) - 1 \in Nat /\ (Len(log) - 1) + 1 = Len(log)
      BY <3>2
    <3> QED BY <3>3
  <2>2. /\ lock = w /\ lock' = Nobody /\ holding[w] \in Outcomes
        /\ UNCHANGED << sent, log >>
    BY <1>2 DEF EndRecord, Unlock
  <2>3. holding[w] = log[n + 1] /\ byClass = ClassesOf(n)
    BY <2>1, <2>2
  <2> DEFINE b == Bucket(log[n + 1].status)
  <2>4. b \in Classes
    BY <2>2, <2>3, BucketIsAClass
  <2>5. byClass' = [byClass EXCEPT ![b] = @ + 1]
    BY <1>2, <2>3 DEF EndRecord
  <2>6. ASSUME NEW c \in Classes PROVE byClass'[c] = CountOf(n + 1, c)
    BY <2>3, <2>4, <2>5, OneMoreCounted DEF ClassesOf
  <2>7. byClass' = ClassesOf(n + 1)
    BY <2>5, <2>6 DEF ClassesOf
  <2>8. ClassesOf(Len(log))' = ClassesOf(n + 1)
    BY <2>1, <2>2 DEF ClassesOf, CountOf
  <2> QED BY <2>2, <2>7, <2>8
<1>3. ASSUME UNCHANGED << stats, log >> PROVE StatsInv'
  BY <1>3 DEF stats, ClassesOf, CountOf
<1>4. ASSUME DropSlot PROVE StatsInv'
  BY <1>4 DEF DropSlot, ClassesOf, CountOf
<1>5. ASSUME NEW w \in Workers, Send(w) \/ Crash(w) PROVE UNCHANGED << stats, log >>
  BY <1>5 DEF Send, Crash
<1>6. ASSUME NEW r \in Readers, ReadFigure(r) PROVE UNCHANGED << stats, log >>
  BY <1>6 DEF ReadFigure
<1>7. ASSUME RunReturns \/ BeginLine \/ BeginLastLine \/ Exit PROVE UNCHANGED << stats, log >>
  BY <1>7 DEF RunReturns, BeginLine, BeginLastLine, Exit
<1>8. CASE UNCHANGED vars
  BY <1>3, <1>8 DEF vars
<1> QED
  BY <1>1, <1>2, <1>3, <1>4, <1>5, <1>6, <1>7, <1>8
     DEF Next, Work, Main, Readers

-----------------------------------------------------------------------------
(* A step of a worker, of the dispatcher or of main's Exit leaves the lines
   alone, and the log as it is or longer by one.                           *)
LogGrows == UNCHANGED log \/ \E o \in Outcomes : log' = Append(log, o)

(* line holds one value per figure, whatever it is.                        *)
LineShape ==
  /\ DOMAIN line = Readers
  /\ line = [r \in Readers |-> [f \in DOMAIN Blank |-> line[r][f]]]

LEMMA FigureIsRead ==
  ASSUME TypeOK, LineShape, NEW r \in Readers, ReadFigure(r)
  PROVE  /\ step[r] \in 1..6 /\ step'[r] = step[r] + 1
         /\ line'[r][Figures[step[r]]] = Reading[Figures[step[r]]]
         /\ Figures[step[r]] \in UnderLock => lock = Nobody
         /\ \A f \in DOMAIN Blank : f # Figures[step[r]] => line'[r][f] = line[r][f]
         /\ \A q \in Readers : q # r => line'[q] = line[q] /\ step'[q] = step[q]
         /\ LineShape' /\ UNCHANGED << stats, log >>
<1> DEFINE g == Figures[step[r]]
<1>1. /\ step[r] \in 1..6 /\ step' = [step EXCEPT ![r] = @ + 1]
      /\ line' = [line EXCEPT ![r][g] = Reading[g]]
      /\ g \in UnderLock => Free
      /\ UNCHANGED << stats, log >>
  BY DEF ReadFigure, Figures
<1>2. step \in [Readers -> 0..7] /\ DOMAIN line = Readers
  BY DEF TypeOK, LineShape
<1>3. g \in DOMAIN Blank
  BY <1>1 DEF Figures, Blank
<1>4. line[r] = [f \in DOMAIN Blank |-> line[r][f]]
  BY DEF LineShape
<1>5. /\ line'[r] = [f \in DOMAIN Blank |-> IF f = g THEN Reading[g] ELSE line[r][f]]
      /\ \A q \in Readers : q # r => line'[q] = line[q]
      /\ line' = [q \in Readers |-> line'[q]]
  BY <1>1, <1>2, <1>4
<1>6. \A q \in Readers : line'[q] = [f \in DOMAIN Blank |-> line'[q][f]]
  BY <1>5 DEF LineShape
<1>7. LineShape'
  BY <1>5, <1>6 DEF LineShape, Blank
<1> QED BY <1>1, <1>2, <1>3, <1>5, <1>7 DEF Free

-----------------------------------------------------------------------------
(* While a line is read: the classes are those of some instant, sent of one
   not before it, errors of one not before that.                           *)
FiguresInv(r) ==
  /\ step[r] > 1 =>
       \E n \in 0..Len(log) : /\ line[r].classes = ClassesOf(n)
                              /\ step[r] > 2 => n <= line[r].sent
  /\ step[r] > 2 => line[r].sent \in 0..Len(log)
  /\ step[r] = 7 => \E n \in 0..Len(log) :
                      /\ line[r].errors = << CountOf(n, "5xx"), n >>
                      /\ line[r].sent <= n

(* Requests recorded later leave the figures of a line true.               *)
LEMMA FiguresStayTrue ==
  ASSUME TypeOK, NEW r \in Readers, FiguresInv(r), LogGrows,
         step'[r] = step[r], line'[r] = line[r]
  PROVE  FiguresInv(r)'
<1>1. step[r] \in 0..7 /\ log \in Seq(Outcomes) /\ "5xx" \in Classes
  BY DEF TypeOK, Classes
<1>2. CASE UNCHANGED log
  BY <1>1, <1>2 DEF FiguresInv, ClassesOf, CountOf
<1>3. CASE \E o \in Outcomes : log' = Append(log, o)
  <2>1. /\ Len(log') = Len(log) + 1
        /\ \A n \in 0..Len(log) : /\ CountOf(n, "5xx")' = CountOf(n, "5xx")
                                  /\ ClassesOf(n)' = ClassesOf(n)
    BY <1>1, <1>3, OldCountsStay
  <2>2. step'[r] > 1 =>
          \E n \in 0..Len(log') : /\ line'[r].classes = ClassesOf(n)'
                                  /\ step'[r] > 2 => n <= line'[r].sent
    BY <1>1, <2>1 DEF FiguresInv
  <2>3. step'[r] > 2 => line'[r].sent \in 0..Len(log')
    BY <1>1, <2>1 DEF FiguresInv
  <2>4. step'[r] = 7 => \E n \in 0..Len(log') :
                          /\ line'[r].errors = << CountOf(n, "5xx")', n >>
                          /\ line'[r].sent <= n
    BY <1>1, <2>1 DEF FiguresInv
  <2> QED BY <2>2, <2>3, <2>4 DEF FiguresInv, ClassesOf, CountOf
<1> QED BY <1>2, <1>3 DEF LogGrows

(* A figure more.                                                          *)
LEMMA FigureKeepsFiguresInv ==
  ASSUME TypeOK, StatsInv, LineShape, NEW r \in Readers, FiguresInv(r), ReadFigure(r)
  PROVE  FiguresInv(r)'
<1>1. /\ step[r] \in 1..6 /\ step'[r] = step[r] + 1 /\ UNCHANGED log
      /\ line'[r][Figures[step[r]]] = Reading[Figures[step[r]]]
      /\ Figures[step[r]] \in UnderLock => lock = Nobody
      /\ \A f \in DOMAIN Blank : f # Figures[step[r]] => line'[r][f] = line[r][f]
  BY FigureIsRead
<1>2. log \in Seq(Outcomes) /\ Len(log) \in Nat /\ sent = Len(log)
  BY DEF TypeOK, StatsInv
<1> DEFINE Holds ==
      /\ step'[r] > 1 =>
           \E n \in 0..Len(log) : /\ line'[r].classes = ClassesOf(n)
                                  /\ step'[r] > 2 => n <= line'[r].sent
      /\ step'[r] > 2 => line'[r].sent \in 0..Len(log)
      /\ step'[r] = 7 => \E n \in 0..Len(log) :
                           /\ line'[r].errors = << CountOf(n, "5xx"), n >>
                           /\ line'[r].sent <= n
<1>3. Holds => FiguresInv(r)'
  BY <1>1 DEF FiguresInv, ClassesOf, CountOf
<1>4. CASE step[r] = 1
  <2>1. line'[r].classes = ClassesOf(Len(log))
    BY <1>1, <1>4 DEF Figures, UnderLock, Reading, StatsInv
  <2>2. Holds
    BY <1>1, <1>2, <1>4, <2>1 DEF FiguresInv
  <2> QED BY <1>3, <2>2
<1>5. CASE step[r] = 2
  <2>1. line'[r].sent = Len(log) /\ line'[r].classes = line[r].classes
    BY <1>1, <1>2, <1>5 DEF Figures, Reading, Blank
  <2>2. Holds
    BY <1>1, <1>2, <1>5, <2>1 DEF FiguresInv
  <2> QED BY <1>3, <2>2
<1>6. CASE step[r] \in 3..5
  <2>1. line'[r].sent = line[r].sent /\ line'[r].classes = line[r].classes
    BY <1>1, <1>6 DEF Figures, Blank
  <2>2. Holds
    BY <1>1, <1>2, <1>6, <2>1 DEF FiguresInv
  <2> QED BY <1>3, <2>2
<1>7. CASE step[r] = 6
  <2>1. /\ line'[r].errors = << CountOf(Len(log), "5xx"), Len(log) >>
        /\ line'[r].sent = line[r].sent /\ line'[r].classes = line[r].classes
    BY <1>1, <1>2, <1>7 DEF Figures, UnderLock, Reading, StatsInv, ClassesOf, Classes, Blank
  <2>2. Holds
    BY <1>1, <1>2, <1>7, <2>1 DEF FiguresInv
  <2> QED BY <1>3, <2>2
<1> QED BY <1>1, <1>4, <1>5, <1>6, <1>7

(* Of any other step: where it leaves the lines, or where it begins one.   *)
LEMMA OtherSteps ==
  ASSUME TypeOK, [Next]_vars, ~\E r \in Readers : ReadFigure(r)
  PROVE  /\ LogGrows
         /\ \A r \in Readers : \/ step'[r] = step[r] /\ line'[r] = line[r]
                               \/ step'[r] = 1 /\ line'[r] \in { line[r], Blank }
<1> USE DEF stats, readers
<1>1. ASSUME NEW w \in Workers, Send(w) \/ Crash(w) \/ EndRecord(w)
      PROVE  LogGrows /\ UNCHANGED << step, line >>
  BY <1>1 DEF Send, Crash, EndRecord, LogGrows
<1>2. ASSUME NEW w \in Workers, NEW o \in Outcomes, BeginRecord(w, o)
      PROVE  LogGrows /\ UNCHANGED << step, line >>
  BY <1>2 DEF BeginRecord, LogGrows
<1>3. ASSUME DropSlot \/ RunReturns \/ Exit \/ UNCHANGED vars
      PROVE  LogGrows /\ UNCHANGED << step, line >>
  BY <1>3 DEF DropSlot, RunReturns, Exit, vars, LogGrows
<1>4. ASSUME BeginLine \/ BeginLastLine
      PROVE  /\ LogGrows
             /\ \A r \in Readers : \/ step'[r] = step[r] /\ line'[r] = line[r]
                                   \/ step'[r] = 1 /\ line'[r] \in { line[r], Blank }
  <2>1. CASE BeginLine
    BY <2>1 DEF BeginLine, LogGrows, TypeOK
  <2>2. CASE BeginLastLine
    BY <2>2 DEF BeginLastLine, LogGrows, TypeOK
  <2> QED BY <1>4, <2>1, <2>2
<1> QED
  BY <1>1, <1>2, <1>3, <1>4 DEF Next, Work, Main, Readers

LEMMA LineShapeStep ==
  ASSUME TypeOK, LineShape, [Next]_vars, ~\E r \in Readers : ReadFigure(r)
  PROVE  LineShape'
<1> USE DEF stats, readers
<1>1. CASE UNCHANGED line
  BY <1>1 DEF LineShape, Blank
<1>2. CASE BeginLine
  <2>1. line' = [line EXCEPT !["reporter"] = Blank]
    BY <1>2 DEF BeginLine
  <2>2. line' = [r \in Readers |-> IF r = "reporter" THEN Blank ELSE line[r]]
    BY <2>1 DEF LineShape
  <2>3. Blank = [f \in DOMAIN Blank |-> Blank[f]]
    BY DEF Blank
  <2>4. \A r \in Readers : line'[r] = [f \in DOMAIN Blank |-> line'[r][f]]
    BY <2>2, <2>3 DEF LineShape
  <2>5. DOMAIN line' = Readers /\ line' = [r \in Readers |-> line'[r]]
    BY <2>2
  <2> QED BY <2>4, <2>5 DEF LineShape, Blank
<1> QED
  BY <1>1, <1>2
     DEF Next, Work, Main, Readers, Send, Crash, EndRecord, BeginRecord, DropSlot,
         RunReturns, BeginLastLine, Exit, vars

(* Everything a line says, for both readers.                               *)
ReportInv == StatsInv /\ LineShape /\ \A r \in Readers : FiguresInv(r)

LEMMA ReportInvHolds == Spec => []ReportInv
<1>1. Init => ReportInv
  <2> SUFFICES ASSUME Init PROVE ReportInv
    OBVIOUS
  <2>1. StatsInv
    BY NothingCounted DEF Init, StatsInv, ClassesOf
  <2>2. LineShape
    BY DEF Init, LineShape, Blank
  <2>3. \A r \in Readers : FiguresInv(r)
    BY DEF Init, FiguresInv
  <2> QED BY <2>1, <2>2, <2>3 DEF ReportInv
<1>2. TypeOK /\ ReportInv /\ [Next]_vars => ReportInv'
  <2> SUFFICES ASSUME TypeOK, ReportInv, [Next]_vars PROVE ReportInv'
    OBVIOUS
  <2> USE DEF ReportInv
  <2>1. StatsInv'
    BY StatsInvStep
  <2>2. CASE \E r \in Readers : ReadFigure(r)
    <3>1. PICK r \in Readers : ReadFigure(r)
      BY <2>2
    <3>2. LineShape' /\ UNCHANGED log
      BY <3>1, FigureIsRead DEF ReportInv
    <3>3. FiguresInv(r)'
      BY <3>1, FigureKeepsFiguresInv
    <3>4. ASSUME NEW q \in Readers, q # r PROVE FiguresInv(q)'
      <4>1. line'[q] = line[q] /\ step'[q] = step[q]
        BY <3>1, <3>4, FigureIsRead
      <4> QED BY <3>2, <4>1, FiguresStayTrue DEF LogGrows
    <3> QED BY <2>1, <3>2, <3>3, <3>4
  <2>3. CASE ~\E r \in Readers : ReadFigure(r)
    <3>1. LineShape'
      BY <2>3, LineShapeStep
    <3>2. ASSUME NEW r \in Readers PROVE FiguresInv(r)'
      <4>1. CASE step'[r] = step[r] /\ line'[r] = line[r]
        BY <4>1, <2>3, OtherSteps, FiguresStayTrue
      <4>2. CASE step'[r] = 1
        BY <4>2 DEF FiguresInv
      <4> QED BY <4>1, <4>2, <2>3, OtherSteps
    <3> QED BY <2>1, <3>1, <3>2
  <2> QED BY <2>2, <2>3
<1> QED BY <1>1, <1>2, TypeCorrect, PTL DEF Spec

(* Every figure of a line is that of the run at some instant, and the instants
   are in the order of the line, however requests come in between them:
   summary() has the classes before it looks at sent, and the two terms of
   the ratio under one lock.                                               *)
THEOREM LinesAreOfTheRun == Spec => []FiguresAreOfTheRun
<1>1. TypeOK /\ ReportInv => FiguresAreOfTheRun
  <2> SUFFICES ASSUME TypeOK, ReportInv, NEW r \in Readers, step[r] = 7
               PROVE  \E n \in 0..Len(log) :
                        /\ line[r].classes = ClassesOf(n)
                        /\ n <= line[r].sent /\ line[r].sent <= line[r].errors[2]
                        /\ line[r].errors[2] <= Len(log)
                        /\ line[r].errors[1] = CountOf(line[r].errors[2], "5xx")
    BY DEF FiguresAreOfTheRun
  <2>1. PICK n \in 0..Len(log) : line[r].classes = ClassesOf(n) /\ n <= line[r].sent
    BY DEF ReportInv, FiguresInv
  <2>2. PICK m \in 0..Len(log) : /\ line[r].errors = << CountOf(m, "5xx"), m >>
                                 /\ line[r].sent <= m
    BY DEF ReportInv, FiguresInv
  <2>3. /\ line[r].errors[2] = m /\ line[r].errors[1] = CountOf(m, "5xx")
        /\ m <= Len(log)
    BY <2>2 DEF TypeOK
  <2> QED BY <2>1, <2>2, <2>3
<1> QED BY <1>1, TypeCorrect, ReportInvHolds, PTL

-----------------------------------------------------------------------------
(* sorted(), for any list of numbers.  Whoever comes no later than i: i is one
   of them, and they are indices of the list.                              *)
Ahead(s, i) == { j \in DOMAIN s : s[j] < s[i] \/ (s[j] = s[i] /\ j <= i) }

LEMMA PlaceIsOne ==
  ASSUME NEW s \in Seq(Nat), NEW i \in 1..Len(s)
  PROVE  /\ IsFiniteSet(Ahead(s, i)) /\ i \in Ahead(s, i)
         /\ Place(s, i) = Cardinality(Ahead(s, i)) /\ Place(s, i) \in 1..Len(s)
<1>1. Len(s) \in Nat /\ DOMAIN s = 1..Len(s)
  OBVIOUS
<1>2. IsFiniteSet(1..Len(s)) /\ Cardinality(1..Len(s)) = Len(s)
  <2>1. 1 \in Int /\ Len(s) \in Int /\ ~(1 > Len(s)) /\ Len(s) - 1 + 1 = Len(s)
    BY <1>1
  <2> QED BY <2>1, FS_Interval
<1>3. i \in Ahead(s, i) /\ Ahead(s, i) \in SUBSET (1..Len(s))
  BY <1>1 DEF Ahead
<1>4. IsFiniteSet(Ahead(s, i)) /\ Cardinality(Ahead(s, i)) <= Len(s)
  BY <1>2, <1>3, FS_Subset
<1>5. Cardinality(Ahead(s, i)) \in Nat /\ Cardinality(Ahead(s, i)) # 0
  BY <1>3, <1>4, FS_CardinalityType, FS_EmptySet
<1>6. Place(s, i) = Cardinality(Ahead(s, i))
  BY DEF Place, Ahead
<1> QED BY <1>1, <1>3, <1>4, <1>5, <1>6

(* Of two entries the smaller comes first, of equals the earlier one.      *)
LEMMA PlacesFollowTheOrder ==
  ASSUME NEW s \in Seq(Nat), NEW i \in 1..Len(s), NEW j \in 1..Len(s),
         s[j] < s[i] \/ (s[j] = s[i] /\ j < i)
  PROVE  Place(s, j) < Place(s, i)
<1>1. s[i] \in Nat /\ s[j] \in Nat /\ DOMAIN s = 1..Len(s) /\ Len(s) \in Nat
  OBVIOUS
<1>2. Ahead(s, j) \in SUBSET Ahead(s, i)
  <2>1. \A k \in 1..Len(s) : s[k] \in Nat
    OBVIOUS
  <2> QED BY <1>1, <2>1 DEF Ahead
<1>3. i \notin Ahead(s, j)
  BY <1>1 DEF Ahead
<1>4. /\ IsFiniteSet(Ahead(s, i)) /\ i \in Ahead(s, i)
      /\ Place(s, i) = Cardinality(Ahead(s, i)) /\ Place(s, i) \in 1..Len(s)
      /\ Place(s, j) = Cardinality(Ahead(s, j)) /\ Place(s, j) \in 1..Len(s)
  BY PlaceIsOne
<1>5. /\ Cardinality(Ahead(s, j)) <= Cardinality(Ahead(s, i))
      /\ Cardinality(Ahead(s, j)) # Cardinality(Ahead(s, i))
  BY <1>2, <1>3, <1>4, FS_Subset
<1> QED BY <1>1, <1>4, <1>5

(* So no two have the same place, and every place is taken.                *)
LEMMA PlacesAreTaken ==
  ASSUME NEW s \in Seq(Nat), NEW k \in 1..Len(s)
  PROVE  \E i \in 1..Len(s) : Place(s, i) = k
<1> DEFINE All == 1..Len(s)
           P   == [i \in All |-> Place(s, i)]
<1>1. P \in [All -> All]
  BY PlaceIsOne
<1>2. ASSUME NEW i \in All, NEW j \in All, i # j PROVE P[i] # P[j]
  <2>1. s[i] \in Nat /\ s[j] \in Nat
    OBVIOUS
  <2>2. \/ s[j] < s[i] \/ (s[j] = s[i] /\ j < i)
        \/ s[i] < s[j] \/ (s[i] = s[j] /\ i < j)
    BY <1>2, <2>1
  <2>3. Place(s, i) \in 1..Len(s) /\ Place(s, j) \in 1..Len(s)
    BY PlaceIsOne
  <2>4. Place(s, j) < Place(s, i) \/ Place(s, i) < Place(s, j)
    BY <2>2, PlacesFollowTheOrder
  <2>5. Place(s, i) # Place(s, j)
    BY <2>3, <2>4
  <2> QED BY <2>5
<1>3. P \in Injection(All, All)
  BY <1>1, <1>2, Fun_IsInj
<1>4. IsFiniteSet(All)
  BY FS_Interval
<1>5. P \in Surjection(All, All)
  BY <1>3, <1>4, FS_Injection
<1>6. PICK i \in All : P[i] = k
  BY <1>5 DEF Surjection
<1> QED BY <1>6

(* The entry in place k is one of the list, and it exceeds x exactly when
   fewer than k of them do not.                                            *)
LEMMA SortedCounts ==
  ASSUME NEW s \in Seq(Nat), NEW k \in 1..Len(s), NEW x \in Nat
  PROVE  /\ \E i \in 1..Len(s) : Sorted(s)[k] = s[i]
         /\ Sorted(s)[k] <= x <=> k <= Cardinality({ i \in 1..Len(s) : s[i] <= x })
<1> DEFINE i == CHOOSE i \in DOMAIN s : Place(s, i) = k
           B == { j \in 1..Len(s) : s[j] <= x }
<1>1. Len(s) \in Nat /\ DOMAIN s = 1..Len(s) /\ k \in DOMAIN s
  OBVIOUS
<1>2. i \in 1..Len(s) /\ Place(s, i) = k
  BY <1>1, PlacesAreTaken
<1>3. Sorted(s)[k] = s[i]
  BY <1>1 DEF Sorted
<1> HIDE DEF i
<1>4. s[i] \in Nat /\ \A j \in 1..Len(s) : s[j] \in Nat
  BY <1>2
<1>5. IsFiniteSet(B) /\ Cardinality(B) \in Nat
  <2>1. IsFiniteSet(1..Len(s)) /\ B \in SUBSET (1..Len(s))
    BY <1>1, FS_Interval
  <2> QED BY <2>1, FS_Subset, FS_CardinalityType
<1>6. /\ IsFiniteSet(Ahead(s, i)) /\ i \in Ahead(s, i)
      /\ k = Cardinality(Ahead(s, i)) /\ k \in Nat
  BY <1>1, <1>2, PlaceIsOne
<1>7. CASE s[i] <= x
  <2>1. Ahead(s, i) \in SUBSET B
    BY <1>1, <1>4, <1>7 DEF Ahead
  <2>2. k <= Cardinality(B)
    BY <1>5, <1>6, <2>1, FS_Subset
  <2> QED BY <1>2, <1>3, <1>7, <2>2
<1>8. CASE ~(s[i] <= x)
  <2>1. B \in SUBSET Ahead(s, i) /\ i \notin B
    BY <1>1, <1>4, <1>8 DEF Ahead
  <2>2. Cardinality(B) <= k /\ Cardinality(B) # k
    BY <1>6, <2>1, FS_Subset
  <2>3. ~(k <= Cardinality(B))
    BY <1>5, <1>6, <2>2
  <2> QED BY <1>2, <1>3, <1>8, <2>3
<1> QED BY <1>7, <1>8

(* The ranks of the median and of the 95th percentile: within the list, and
   the least whose share is reached.                                       *)
LEMMA RankIsTheLeast ==
  ASSUME NEW n \in Nat \ {0}
  PROVE  /\ Rank(1, 2, n) \in 1..n /\ Rank(19, 20, n) \in 1..n
         /\ \A c \in Nat : Rank(1, 2, n) <= c <=> 2 * c >= n
         /\ \A c \in Nat : Rank(19, 20, n) <= c <=> 20 * c >= 19 * n
<1>1. /\ Rank(1, 2, n) = (1 * n + 2 - 1) \div 2
      /\ Rank(19, 20, n) = (19 * n + 20 - 1) \div 20
  BY DEF Rank
<1> QED BY <1>1

-----------------------------------------------------------------------------
(* The latencies are those of the log, but for that of whoever is inside
   record().                                                               *)
LatenciesInv ==
  /\ Len(latencies) = IF lock = Nobody THEN Len(log) ELSE Len(log) - 1
  /\ \A i \in 1..Len(latencies) : latencies[i] = log[i].latency

LEMMA LatenciesInvStep ==
  ASSUME TypeOK, StatsInv, LatenciesInv, [Next]_vars
  PROVE  LatenciesInv'
<1>1. /\ latencies \in Seq(Latencies) /\ log \in Seq(Outcomes)
      /\ Len(latencies) \in Nat /\ Len(log) \in Nat
      /\ Nobody \notin Workers /\ Nobody \notin Outcomes
  BY RunReportAssumption, NobodyIsNoOutcome DEF TypeOK
<1>2. ASSUME NEW w \in Workers, NEW o \in Outcomes, BeginRecord(w, o) PROVE LatenciesInv'
  <2>1. /\ lock = Nobody /\ lock' = w /\ w # Nobody /\ log' = Append(log, o)
        /\ latencies' = latencies
    BY <1>1, <1>2 DEF BeginRecord, Free
  <2>2. Len(log') = Len(log) + 1 /\ \A i \in 1..Len(log) : log'[i] = log[i]
    BY <1>1, <2>1
  <2> QED BY <1>1, <2>1, <2>2 DEF LatenciesInv
<1>3. ASSUME NEW w \in Workers, EndRecord(w) PROVE LatenciesInv'
  <2>1. /\ lock = w /\ w # Nobody /\ lock' = Nobody /\ log' = log
        /\ latencies' = Append(latencies, holding[w].latency)
    BY <1>1, <1>3 DEF EndRecord, Unlock, TypeOK
  <2>2. Len(latencies) = Len(log) - 1 /\ holding[w] = log[Len(log)]
    BY <2>1 DEF LatenciesInv, StatsInv
  <2>3. /\ Len(latencies') = Len(log) /\ latencies'[Len(log)] = log[Len(log)].latency
        /\ \A i \in 1..Len(latencies) : latencies'[i] = latencies[i]
    BY <1>1, <2>1, <2>2
  <2>4. \A i \in 1..Len(latencies') : latencies'[i] = log'[i].latency
    <3> SUFFICES ASSUME NEW i \in 1..Len(log) PROVE latencies'[i] = log[i].latency
      BY <2>1, <2>3
    <3>1. i = Len(log) \/ i \in 1..Len(latencies)
      BY <1>1, <2>2
    <3> QED BY <2>3, <3>1 DEF LatenciesInv
  <2> QED BY <2>1, <2>3, <2>4 DEF LatenciesInv
<1>4. ASSUME UNCHANGED << lock, latencies, log >> PROVE LatenciesInv'
  BY <1>4 DEF LatenciesInv
<1>5. ASSUME NEW w \in Workers, Send(w) \/ Crash(w) PROVE UNCHANGED << lock, latencies, log >>
  BY <1>5 DEF Send, Crash, stats
<1>6. ASSUME \/ DropSlot \/ RunReturns \/ BeginLine \/ BeginLastLine \/ Exit
             \/ \E r \in Readers : ReadFigure(r)
      PROVE  UNCHANGED << lock, latencies, log >>
  BY <1>6 DEF DropSlot, RunReturns, BeginLine, BeginLastLine, Exit, ReadFigure, stats
<1>7. CASE UNCHANGED vars
  BY <1>4, <1>7 DEF vars, stats
<1> QED
  BY <1>2, <1>3, <1>4, <1>5, <1>6, <1>7 DEF Next, Work, Main, Readers

(* A percentile of the first n requests of a log, 0 if there are none.     *)
NotAbove(l, n, x) == Cardinality({ i \in 1..n : l[i].latency <= x })
Nearest(l, p, num, den, n) ==
  IF n = 0 THEN p = 0
  ELSE /\ p \in { l[i].latency : i \in 1..n }
       /\ den * NotAbove(l, n, p) >= num * n
       /\ \A i \in 1..n : l[i].latency < p => ~(den * NotAbove(l, n, l[i].latency) >= num * n)

(* What percentile() returns when nobody is inside record().               *)
LEMMA PercentileIsNearest ==
  ASSUME TypeOK, LatenciesInv, lock = Nobody,
         NEW num \in Nat, NEW den \in Nat, << num, den >> \in { << 1, 2 >>, << 19, 20 >> }
  PROVE  Nearest(log, Percentile(num, den), num, den, Len(log))
<1> DEFINE n == Len(log)
           k == Rank(num, den, n)
           p == Percentile(num, den)
<1>1. latencies \in Seq(Latencies) /\ log \in Seq(Outcomes) /\ Latencies \subseteq Nat
  BY RunReportAssumption DEF TypeOK
<1>2. /\ latencies \in Seq(Nat) /\ Len(latencies) = n /\ n \in Nat
      /\ \A i \in 1..n : latencies[i] = log[i].latency /\ latencies[i] \in Nat
  <2>1. Len(latencies) = n /\ n \in Nat
    BY <1>1 DEF LatenciesInv
  <2>2. latencies \in [1..n -> Latencies]
    BY <1>1, <2>1
  <2>3. \A i \in 1..n : latencies[i] = log[i].latency /\ latencies[i] \in Nat
    BY <1>1, <2>1, <2>2 DEF LatenciesInv
  <2>4. latencies \in Seq(Nat)
    BY <1>1, SeqMonotonic
  <2> QED BY <2>1, <2>3, <2>4
<1>3. CASE n = 0
  <2>1. latencies = <<>>
    BY <1>2, <1>3
  <2> QED BY <1>3, <2>1 DEF Percentile, Nearest
<1>4. CASE n # 0
  <2>1. latencies # <<>> /\ n \in Nat \ {0}
    BY <1>2, <1>4
  <2>2. /\ k \in 1..n
        /\ \A c \in Nat : k <= c <=> den * c >= num * n
    <3>1. CASE num = 1 /\ den = 2
      <4>1. \A c \in Nat : 2 * c >= n <=> 2 * c >= 1 * n
        BY <2>1
      <4> QED BY <2>1, <3>1, <4>1, RankIsTheLeast
    <3>2. CASE num = 19 /\ den = 20
      BY <2>1, <3>2, RankIsTheLeast
    <3> QED BY <3>1, <3>2
  <2>3. p = Sorted(latencies)[k]
    BY <1>2, <2>1 DEF Percentile
  <2> HIDE DEF n, k, p
  <2>4. ASSUME NEW x \in Nat
        PROVE  /\ \E i \in 1..n : p = log[i].latency
               /\ p <= x <=> k <= NotAbove(log, n, x)
               /\ NotAbove(log, n, x) \in Nat
    <3>1. { i \in 1..n : latencies[i] <= x } = { i \in 1..n : log[i].latency <= x }
      BY <1>2
    <3>2. /\ \E i \in 1..n : p = latencies[i]
          /\ p <= x <=> k <= Cardinality({ i \in 1..n : latencies[i] <= x })
      <4>1. latencies \in Seq(Nat) /\ k \in 1..Len(latencies)
        BY <1>2, <2>2
      <4>2. /\ \E i \in 1..Len(latencies) : Sorted(latencies)[k] = latencies[i]
            /\ Sorted(latencies)[k] <= x <=>
                 k <= Cardinality({ i \in 1..Len(latencies) : latencies[i] <= x })
        BY <4>1, SortedCounts, Zenon
      <4> QED BY <1>2, <2>3, <4>2, Zenon
    <3>3. /\ IsFiniteSet(1..n)
          /\ { i \in 1..n : log[i].latency <= x } \in SUBSET (1..n)
      BY <1>2, FS_Interval
    <3>4. NotAbove(log, n, x) \in Nat
      BY <3>3, FS_Subset, FS_CardinalityType DEF NotAbove
    <3> QED BY <1>2, <3>1, <3>2, <3>4 DEF NotAbove
  <2>5. ASSUME NEW x \in Nat PROVE p <= x <=> den * NotAbove(log, n, x) >= num * n
    <3>1. /\ NotAbove(log, n, x) \in Nat
          /\ p <= x <=> k <= NotAbove(log, n, x)
      BY <2>4
    <3> QED BY <2>2, <3>1
  <2>6. p \in Nat /\ p \in { log[i].latency : i \in 1..n }
    <3>1. 0 \in Nat
      OBVIOUS
    <3>2. PICK i \in 1..n : p = log[i].latency
      BY <2>4, <3>1
    <3> QED BY <1>2, <3>2
  <2>7. p <= p
    BY <2>6
  <2>8. den * NotAbove(log, n, p) >= num * n
    BY <2>5, <2>6, <2>7
  <2>9. ASSUME NEW i \in 1..n, log[i].latency < p
        PROVE  ~(den * NotAbove(log, n, log[i].latency) >= num * n)
    <3>1. log[i].latency \in Nat
      BY <1>2
    <3>2. ~(p <= log[i].latency)
      BY <2>6, <2>9, <3>1
    <3> QED BY <2>5, <3>1, <3>2
  <2>10. Nearest(log, p, num, den, n)
    BY <1>4, <2>6, <2>8, <2>9 DEF Nearest
  <2> QED BY <2>10 DEF n, p
<1> QED BY <1>3, <1>4

(* While a line is read: p50 is that of some instant, p95 of one not before
   it.                                                                     *)
PercentilesInv(r) ==
  /\ step[r] > 4 => \E n \in 0..Len(log) : Nearest(log, line[r].p50, 1, 2, n)
  /\ step[r] > 5 => \E n, m \in 0..Len(log) : /\ n <= m
                                              /\ Nearest(log, line[r].p50, 1, 2, n)
                                              /\ Nearest(log, line[r].p95, 19, 20, m)

LEMMA OldPercentilesStay ==
  ASSUME NEW l \in Seq(Outcomes), NEW o, NEW n \in 0..Len(l), NEW p, NEW num, NEW den,
         Nearest(l, p, num, den, n)
  PROVE  Nearest(Append(l, o), p, num, den, n)
<1> DEFINE g == Append(l, o)
<1>1. n \in Nat /\ \A i \in 1..n : g[i] = l[i]
  OBVIOUS
<1> HIDE DEF g
<1>2. \A x : { i \in 1..n : g[i].latency <= x } = { i \in 1..n : l[i].latency <= x }
  BY <1>1
<1>3. \A x : NotAbove(g, n, x) = NotAbove(l, n, x)
  BY <1>2 DEF NotAbove
<1>4. { g[i].latency : i \in 1..n } = { l[i].latency : i \in 1..n }
  BY <1>1
<1>5. Nearest(g, p, num, den, n)
  BY <1>1, <1>3, <1>4 DEF Nearest
<1> QED BY <1>5 DEF g

LEMMA PercentilesStayTrue ==
  ASSUME TypeOK, NEW r \in Readers, PercentilesInv(r), LogGrows,
         step'[r] = step[r], line'[r] = line[r]
  PROVE  PercentilesInv(r)'
<1>1. log \in Seq(Outcomes) /\ Len(log) \in Nat
  BY DEF TypeOK
<1>2. CASE UNCHANGED log
  BY <1>2 DEF PercentilesInv
<1>3. CASE \E o \in Outcomes : log' = Append(log, o)
  <2>1. PICK o \in Outcomes : log' = Append(log, o)
    BY <1>3
  <2>2. \A n \in 0..Len(log) : n \in 0..Len(log')
    BY <1>1, <2>1
  <2>3. \A n \in 0..Len(log) : \A p, num, den :
          Nearest(log, p, num, den, n) => Nearest(log', p, num, den, n)
    BY <1>1, <2>1, OldPercentilesStay
  <2>4. step'[r] > 4 => \E n \in 0..Len(log') : Nearest(log', line'[r].p50, 1, 2, n)
    BY <2>2, <2>3 DEF PercentilesInv
  <2>5. step'[r] > 5 => \E n, m \in 0..Len(log') : /\ n <= m
                                                   /\ Nearest(log', line'[r].p50, 1, 2, n)
                                                   /\ Nearest(log', line'[r].p95, 19, 20, m)
    BY <2>2, <2>3 DEF PercentilesInv
  <2> QED BY <2>4, <2>5 DEF PercentilesInv
<1> QED BY <1>2, <1>3 DEF LogGrows

LEMMA FigureKeepsPercentilesInv ==
  ASSUME TypeOK, LatenciesInv, LineShape, NEW r \in Readers, PercentilesInv(r),
         ReadFigure(r)
  PROVE  PercentilesInv(r)'
<1>1. /\ step[r] \in 1..6 /\ step'[r] = step[r] + 1 /\ UNCHANGED log
      /\ line'[r][Figures[step[r]]] = Reading[Figures[step[r]]]
      /\ Figures[step[r]] \in UnderLock => lock = Nobody
      /\ \A f \in DOMAIN Blank : f # Figures[step[r]] => line'[r][f] = line[r][f]
  BY FigureIsRead
<1>2. Len(log) \in Nat
  BY DEF TypeOK
<1> DEFINE Said ==
      /\ step'[r] > 4 => \E n \in 0..Len(log) : Nearest(log, line'[r].p50, 1, 2, n)
      /\ step'[r] > 5 => \E n, m \in 0..Len(log) : /\ n <= m
                                                   /\ Nearest(log, line'[r].p50, 1, 2, n)
                                                   /\ Nearest(log, line'[r].p95, 19, 20, m)
<1>3. Said => PercentilesInv(r)'
  BY <1>1 DEF PercentilesInv
<1>4. CASE step[r] \in 1..3
  BY <1>1, <1>3, <1>4
<1>5. CASE step[r] = 4
  <2>1. lock = Nobody /\ line'[r].p50 = Percentile(1, 2)
    BY <1>1, <1>5 DEF Figures, UnderLock, Reading
  <2>2. Nearest(log, line'[r].p50, 1, 2, Len(log))
    BY <2>1, PercentileIsNearest
  <2> QED BY <1>1, <1>2, <1>3, <1>5, <2>2
<1>6. CASE step[r] = 5
  <2>1. /\ lock = Nobody /\ line'[r].p95 = Percentile(19, 20)
        /\ line'[r].p50 = line[r].p50
    BY <1>1, <1>6 DEF Figures, UnderLock, Reading, Blank
  <2>2. Nearest(log, line'[r].p95, 19, 20, Len(log))
    BY <2>1, PercentileIsNearest
  <2>3. PICK n \in 0..Len(log) : Nearest(log, line[r].p50, 1, 2, n)
    BY <1>6 DEF PercentilesInv
  <2>4. n <= Len(log) /\ Len(log) \in 0..Len(log)
    BY <1>2
  <2>5. Said
    BY <2>1, <2>2, <2>3, <2>4
  <2> QED BY <1>3, <2>5
<1>7. CASE step[r] = 6
  <2>1. line'[r].p50 = line[r].p50 /\ line'[r].p95 = line[r].p95
    BY <1>1, <1>7 DEF Figures, Blank
  <2>2. Said
    BY <1>1, <1>7, <2>1 DEF PercentilesInv
  <2> QED BY <1>3, <2>2
<1> QED BY <1>1, <1>4, <1>5, <1>6, <1>7

LEMMA PercentilesInvStep ==
  ASSUME TypeOK, ReportInv, LatenciesInv, \A r \in Readers : PercentilesInv(r), [Next]_vars
  PROVE  \A r \in Readers : PercentilesInv(r)'
<1>1. CASE \E r \in Readers : ReadFigure(r)
  <2>1. PICK r \in Readers : ReadFigure(r)
    BY <1>1
  <2>2. PercentilesInv(r)'
    BY <2>1, FigureKeepsPercentilesInv DEF ReportInv
  <2>3. ASSUME NEW q \in Readers, q # r PROVE PercentilesInv(q)'
    <3>1. line'[q] = line[q] /\ step'[q] = step[q] /\ UNCHANGED log
      BY <2>1, <2>3, FigureIsRead DEF ReportInv
    <3> QED BY <3>1, PercentilesStayTrue DEF LogGrows
  <2> QED BY <2>2, <2>3
<1>2. CASE ~\E r \in Readers : ReadFigure(r)
  <2> SUFFICES ASSUME NEW r \in Readers PROVE PercentilesInv(r)'
    OBVIOUS
  <2>1. CASE step'[r] = step[r] /\ line'[r] = line[r]
    BY <1>2, <2>1, OtherSteps, PercentilesStayTrue
  <2>2. CASE step'[r] = 1
    BY <2>2 DEF PercentilesInv
  <2> QED BY <1>2, <2>1, <2>2, OtherSteps
<1> QED BY <1>1, <1>2

(* The percentiles of a line are nearest-rank percentiles of the requests
   recorded by some instant, p95 of one not before that of p50, for any
   latencies in any order: percentile() sorts under the lock, and its rank is
   the least whose share is reached.                                       *)
THEOREM PercentilesAreOfTheRun == Spec => []PercentilesAreNearestRank
<1> DEFINE Inv == LatenciesInv /\ \A r \in Readers : PercentilesInv(r)
<1>1. Init => Inv
  BY DEF Init, LatenciesInv, PercentilesInv
<1>2. TypeOK /\ ReportInv /\ Inv /\ [Next]_vars => Inv'
  BY LatenciesInvStep, PercentilesInvStep DEF ReportInv, Readers
<1>3. TypeOK /\ Inv => PercentilesAreNearestRank
  <2> SUFFICES ASSUME TypeOK, NEW r \in Readers, PercentilesInv(r), step[r] = 7
               PROVE  \E n, m \in 0..Len(log) : /\ n <= m
                                                /\ Nearest(log, line[r].p50, 1, 2, n)
                                                /\ Nearest(log, line[r].p95, 19, 20, m)
    BY DEF PercentilesAreNearestRank, Nearest, NotAbove, IsNearestRank
  <2> QED BY DEF PercentilesInv
<1> QED BY <1>1, <1>2, <1>3, TypeCorrect, ReportInvHolds, PTL DEF Spec

-----------------------------------------------------------------------------
(* The last line: once run() has returned nobody writes Stats any more, and
   what main has read of it is what it holds.  Before that every slot used is
   sent, dropped, lost to a crash or waited for.                           *)
SlotsInv ==
  /\ IsFiniteSet(busy)
  /\ sent + dropped + crashed + Cardinality(busy) = MaxSlots - slots
  /\ done => Quiet

MainInv ==
  /\ step["main"] > 0 => done
  /\ step["main"] > 1 => line["main"].classes = ClassesOf(Len(log))
  /\ step["main"] > 2 => line["main"].sent = Len(log)
  /\ step["main"] > 3 => line["main"].dropped = dropped
  /\ step["main"] = 7 =>
       line["main"].errors = << CountOf(Len(log), "5xx"), Len(log) >>

LEMMA SlotsInvStep ==
  ASSUME TypeOK, SlotsInv, [Next]_vars
  PROVE  SlotsInv'
<1> USE RunReportAssumption, FS_CardinalityType DEF TypeOK, SlotsInv, stats, readers
<1>1. ASSUME NEW w \in Workers, Send(w) PROVE SlotsInv'
  <2>1. IsFiniteSet(busy') /\ Cardinality(busy') = Cardinality(busy) + 1
    BY <1>1, FS_AddElement DEF Send
  <2>2. Cardinality(busy) \in Nat
    OBVIOUS
  <2>3. /\ UNCHANGED << sent, dropped, crashed >>
        /\ slots' = slots - 1 /\ slots \in Nat
    BY <1>1 DEF Send
  <2>4. sent' + dropped' + crashed' + Cardinality(busy') = MaxSlots - slots'
    BY <2>1, <2>2, <2>3
  <2>5. ~done'
    BY <1>1 DEF Send
  <2> QED BY <2>1, <2>4, <2>5
<1>2. ASSUME NEW w \in Workers, NEW o \in Outcomes, BeginRecord(w, o) PROVE SlotsInv'
  <2>1. IsFiniteSet(busy') /\ Cardinality(busy') = Cardinality(busy) - 1
    BY <1>2, FS_RemoveElement DEF BeginRecord
  <2>2. Cardinality(busy) \in Nat
    OBVIOUS
  <2>3. w \in busy
    BY <1>2 DEF BeginRecord
  <2>4. ~done
    BY <2>3 DEF Quiet
  <2> QED BY <1>2, <2>1, <2>2, <2>4 DEF BeginRecord
<1>3. ASSUME NEW w \in Workers, Crash(w) PROVE SlotsInv'
  <2>1. IsFiniteSet(busy') /\ Cardinality(busy') = Cardinality(busy) - 1
    BY <1>3, FS_RemoveElement DEF Crash
  <2>2. Cardinality(busy) \in Nat
    OBVIOUS
  <2> QED BY <1>3, <2>1, <2>2 DEF Crash, Quiet
<1>4. ASSUME NEW w \in Workers, EndRecord(w) PROVE SlotsInv'
  BY <1>4 DEF EndRecord, Quiet
<1>5. ASSUME DropSlot PROVE SlotsInv'
  <2>1. Cardinality(busy) \in Nat
    OBVIOUS
  <2>2. /\ UNCHANGED << sent, crashed, busy >> /\ dropped' = dropped + 1
        /\ slots' = slots - 1 /\ slots \in Nat
    BY <1>5 DEF DropSlot
  <2>3. sent' + dropped' + crashed' + Cardinality(busy') = MaxSlots - slots'
    BY <2>1, <2>2
  <2>4. ~done'
    BY <1>5 DEF DropSlot
  <2> QED BY <2>2, <2>3, <2>4
<1>6. ASSUME RunReturns PROVE SlotsInv'
  BY <1>6 DEF RunReturns, Quiet
<1>7. ASSUME UNCHANGED << stats, busy, slots, crashed, done >> PROVE SlotsInv'
  BY <1>7 DEF Quiet
<1>8. ASSUME BeginLine \/ BeginLastLine \/ Exit \/ \E r \in Readers : ReadFigure(r)
      PROVE  UNCHANGED << stats, busy, slots, crashed, done >>
  BY <1>8 DEF BeginLine, BeginLastLine, Exit, ReadFigure
<1> QED
  BY <1>1, <1>2, <1>3, <1>4, <1>5, <1>6, <1>7, <1>8
     DEF Next, Work, Main, Readers, vars

(* run() having returned, only the readers and main go on.                 *)
LEMMA NothingAfterTheRun ==
  ASSUME TypeOK, SlotsInv, [Next]_vars, done
  PROVE  UNCHANGED << stats, log, done >>
<1> USE DEF stats, readers
<1>1. busy = {} /\ \A w \in Workers : holding[w] = Nobody
  BY DEF SlotsInv, Quiet
<1>2. ~\E w \in Workers : Work(w)
  BY <1>1 DEF Work, Send, Crash, EndRecord, BeginRecord
<1>3. ~DropSlot /\ ~RunReturns /\ ~BeginLine
  BY DEF DropSlot, RunReturns, BeginLine
<1>4. ASSUME BeginLastLine \/ Exit \/ \E r \in Readers : ReadFigure(r)
      PROVE  UNCHANGED << stats, log, done >>
  BY <1>4 DEF BeginLastLine, Exit, ReadFigure
<1>5. CASE UNCHANGED vars
  BY <1>5 DEF vars
<1> QED BY <1>2, <1>3, <1>4, <1>5 DEF Next, Main, Readers

LEMMA MainInvStep ==
  ASSUME TypeOK, SlotsInv, ReportInv, MainInv, [Next]_vars
  PROVE  MainInv'
<1> DEFINE Holds(s, l) ==
      /\ s > 1 => l.classes = ClassesOf(Len(log))
      /\ s > 2 => l.sent = Len(log)
      /\ s > 3 => l.dropped = dropped
      /\ s = 7 => l.errors = << CountOf(Len(log), "5xx"), Len(log) >>
<1> USE DEF MainInv
<1>1. "main" \in Readers /\ step["main"] \in 0..7
  BY DEF Readers, TypeOK
<1>2. ASSUME done, Holds(step'["main"], line'["main"])
      PROVE  MainInv'
  <2>1. UNCHANGED << log, dropped, done >>
    BY <1>2, NothingAfterTheRun DEF stats
  <2> QED BY <1>2, <2>1 DEF ClassesOf, CountOf
<1>3. CASE ReadFigure("main")
  <2> DEFINE s == step["main"]
  <2>1. /\ s \in 1..6 /\ step'["main"] = s + 1
        /\ line'["main"][Figures[s]] = Reading[Figures[s]]
        /\ Figures[s] \in UnderLock => lock = Nobody
        /\ \A f \in DOMAIN Blank : f # Figures[s] => line'["main"][f] = line["main"][f]
    BY <1>1, <1>3, FigureIsRead DEF ReportInv
  <2>2. done
    BY <2>1
  <2>3. CASE s = 1
    BY <1>2, <2>1, <2>2, <2>3 DEF Figures, UnderLock, Reading, ReportInv, StatsInv
  <2>4. CASE s = 2
    <3>1. /\ line'["main"].sent = sent
          /\ line'["main"].classes = line["main"].classes
      BY <2>1, <2>4 DEF Figures, Reading, Blank
    <3> QED BY <1>2, <2>1, <2>2, <2>4, <3>1 DEF ReportInv, StatsInv
  <2>5. CASE s = 3
    <3>1. /\ line'["main"].dropped = dropped
          /\ line'["main"].classes = line["main"].classes
          /\ line'["main"].sent = line["main"].sent
      BY <2>1, <2>5 DEF Figures, Reading, Blank
    <3> QED BY <1>2, <2>1, <2>2, <2>5, <3>1
  <2>6. CASE s \in 4..5
    <3>1. /\ line'["main"].dropped = line["main"].dropped
          /\ line'["main"].classes = line["main"].classes
          /\ line'["main"].sent = line["main"].sent
      BY <2>1, <2>6 DEF Figures, Blank
    <3> QED BY <1>2, <2>1, <2>2, <2>6, <3>1
  <2>7. CASE s = 6
    <3>1. /\ line'["main"].dropped = line["main"].dropped
          /\ line'["main"].classes = line["main"].classes
          /\ line'["main"].sent = line["main"].sent
      BY <2>1, <2>7 DEF Figures, Blank
    <3>2. line'["main"].errors = << CountOf(Len(log), "5xx"), Len(log) >>
      BY <2>1, <2>7 DEF Figures, UnderLock, Reading, ReportInv, StatsInv, ClassesOf, Classes
    <3> QED BY <1>2, <2>1, <2>2, <2>7, <3>1, <3>2
  <2> QED BY <2>1, <2>3, <2>4, <2>5, <2>6, <2>7
<1>4. CASE ~ReadFigure("main") /\ step'["main"] = step["main"] /\ line'["main"] = line["main"]
  <2>1. CASE step["main"] = 0
    BY <1>4, <2>1
  <2>2. CASE step["main"] > 0
    BY <1>2, <1>4, <2>2
  <2> QED BY <1>1, <2>1, <2>2
<1>5. CASE BeginLastLine
  <2>1. done /\ step'["main"] = 1
    BY <1>1, <1>5 DEF BeginLastLine, TypeOK
  <2> QED BY <1>2, <2>1
<1>6. ASSUME ~ReadFigure("main"), ~BeginLastLine
      PROVE  step'["main"] = step["main"] /\ line'["main"] = line["main"]
  <2>1. CASE ReadFigure("reporter")
    BY <2>1, FigureIsRead DEF Readers, ReportInv
  <2>2. CASE BeginLine
    BY <2>2 DEF BeginLine
  <2>3. CASE UNCHANGED << step, line >>
    BY <2>3
  <2> QED
    BY <1>6, <2>1, <2>2, <2>3
       DEF Next, Work, Main, readers, Send, Crash, EndRecord, BeginRecord, DropSlot,
           RunReturns, Exit, vars
<1> QED BY <1>3, <1>4, <1>5, <1>6

(* The last line is not torn, and with it every slot used is accounted for:
   sent, dropped or lost to a crash, for any number of workers and slots.
   run() hands Stats over when its pool is at rest.                        *)
THEOREM TheLastLineIsExact == Spec => []LastLineIsExact
<1>1. Init => SlotsInv /\ MainInv
  BY FS_EmptySet, RunReportAssumption DEF Init, SlotsInv, MainInv, Readers
<1>2. TypeOK /\ ReportInv /\ SlotsInv /\ MainInv /\ [Next]_vars => SlotsInv' /\ MainInv'
  BY SlotsInvStep, MainInvStep
<1>3. TypeOK /\ ReportInv /\ SlotsInv /\ MainInv => LastLineIsExact
  <2> SUFFICES ASSUME TypeOK, ReportInv, SlotsInv, MainInv, step["main"] = 7
               PROVE  LastLineIsExact
    BY DEF LastLineIsExact
  <2>1. busy = {} /\ Cardinality(busy) = 0
    BY FS_EmptySet DEF MainInv, SlotsInv, Quiet
  <2>2. sent + dropped + crashed = MaxSlots - slots /\ sent = Len(log)
    BY <2>1 DEF SlotsInv, ReportInv, StatsInv, TypeOK
  <2> QED BY <2>2 DEF MainInv, LastLineIsExact
<1> QED BY <1>1, <1>2, <1>3, TypeCorrect, ReportInvHolds, PTL DEF Spec
=============================================================================
