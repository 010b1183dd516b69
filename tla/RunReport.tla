------------------------------ MODULE RunReport ------------------------------
(***************************************************************************)
(* What the operator of a run is told: workers record their requests in    *)
(* Stats, the reporter thread prints a progress line now and then, and     *)
(* main prints the last one and ends with an exit code.  summary() takes   *)
(* the lock anew for every figure but two, which it reads without it.      *)
(*                                                                         *)
(* record() is two steps, since sent is read without the lock: sent, then  *)
(* the rest.  What is only touched under the lock is read in one step.     *)
(***************************************************************************)
EXTENDS Integers, Sequences, FiniteSets

CONSTANTS
  Workers,     \* the threads of the pool
  Latencies,   \* the latencies a request may have
  Nobody,      \* the lock when no thread is inside it
  MaxSlots,    \* bound: request slots of the run
  MaxLines     \* bound: progress lines

ASSUME RunReportAssumption ==
  /\ Nobody \notin Workers /\ Latencies \subseteq Nat \ {0}
  /\ MaxSlots \in Nat /\ MaxLines \in Nat

VARIABLES
  lock,        \* Stats._lock
  sent, dropped, byClass, latencies,   \* the fields of Stats
  busy,        \* the workers that wait for an answer
  holding,     \* per worker: the request it is recording, or Nobody
  step,        \* per reader: the figure summary() comes to next, 0 before it
  line,        \* per reader: the figures it has
  done,        \* main's event: run() has returned
  code,        \* main's exit code, "none" until it has one
  log,         \* history: the requests recorded, in order
  slots,       \* history: slots not used yet
  lines,       \* history: progress lines begun
  crashed      \* history: requests whose transport raised

stats   == << lock, sent, dropped, byClass, latencies, holding >>
readers == << step, line, lines >>
vars    == << stats, busy, readers, done, code, log, slots, crashed >>

(* "unreached" is the transport's 599, which is answered by no one.        *)
Outcomes == [ status : { "2xx", "4xx", "5xx", "unreached" }, latency : Latencies ]

ASSUME NobodyIsNoOutcome == Nobody \notin Outcomes

Classes  == { "2xx", "4xx", "5xx" }
Bucket(status) == IF status = "unreached" THEN "5xx" ELSE status

Readers == { "reporter", "main" }

Blank == [ classes |-> [c \in Classes |-> 0], sent |-> 0, dropped |-> 0,
           p50 |-> 0, p95 |-> 0, errors |-> << 0, 0 >> ]

-----------------------------------------------------------------------------
(* Slips: the definition of the same name without the suffix, as a plausible
   edit of the code would have it.                                         *)

(* The classes joined where they are used, after sent was read.            *)
FiguresClassesLate == << "sent", "dropped", "classes", "p50", "p95", "errors" >>

(* int(quantile * n) for math.ceil.                                        *)
RankRoundedDown(num, den, n) == IF num * n < den THEN 1 ELSE (num * n) \div den

(* The pool left with shutdown(wait=False).                                *)
QuietAtOnce == TRUE

(* A record() without its with block.                                      *)
FreeAlways == TRUE

(* The lock acquired by hand and not given back.                           *)
UnlockForgotten == UNCHANGED lock

-----------------------------------------------------------------------------
(* The figures in the order in which summary() evaluates them.             *)
Figures   == << "classes", "sent", "dropped", "p50", "p95", "errors" >>
UnderLock == { "classes", "p50", "p95", "errors" }

(* max(1, ceil(num / den * n)).                                            *)
Rank(num, den, n) == IF n = 0 THEN 1 ELSE (num * n + den - 1) \div den

(* sorted(), which is stable: where s[i] comes, and the whole.             *)
Place(s, i) == Cardinality({ j \in DOMAIN s : s[j] < s[i] \/ (s[j] = s[i] /\ j <= i) })
Sorted(s)   == [k \in DOMAIN s |-> s[CHOOSE i \in DOMAIN s : Place(s, i) = k]]

Percentile(num, den) ==
  IF latencies = <<>> THEN 0
  ELSE Sorted(latencies)[Rank(num, den, Len(latencies))]

(* What each figure reads now; an error ratio is its two terms.            *)
Reading == [ classes |-> byClass, sent |-> sent, dropped |-> dropped,
             p50 |-> Percentile(1, 2), p95 |-> Percentile(19, 20),
             errors |-> << byClass["5xx"], sent >> ]

Free   == lock = Nobody
Unlock == lock' = Nobody

(* No thread of the pool is at work any more.                              *)
Quiet == busy = {} /\ \A w \in Workers : holding[w] = Nobody

-----------------------------------------------------------------------------
Init ==
  /\ lock = Nobody /\ sent = 0 /\ dropped = 0 /\ latencies = <<>>
  /\ byClass = [c \in Classes |-> 0]
  /\ busy = {} /\ holding = [w \in Workers |-> Nobody]
  /\ step = [r \in Readers |-> 0] /\ line = [r \in Readers |-> Blank]
  /\ done = FALSE /\ code = "none"
  /\ log = <<>> /\ slots = MaxSlots /\ lines = 0 /\ crashed = 0

(* A worker takes a slot and sends its request.                            *)
Send(w) ==
  /\ ~done /\ slots > 0 /\ w \notin busy /\ holding[w] = Nobody
  /\ busy' = busy \cup {w}
  /\ slots' = slots - 1
  /\ UNCHANGED << stats, readers, done, code, log, crashed >>

(* Its answer is o: _send_one enters record()'s with block.                *)
BeginRecord(w, o) ==
  /\ w \in busy /\ Free
  /\ busy' = busy \ {w}
  /\ lock' = w
  /\ sent' = sent + 1
  /\ holding' = [holding EXCEPT ![w] = o]
  /\ log' = Append(log, o)
  /\ UNCHANGED << dropped, byClass, latencies, readers, done, code, slots,
                  crashed >>

(* The rest of record().                                                   *)
EndRecord(w) ==
  /\ holding[w] # Nobody
  /\ byClass' = [byClass EXCEPT ![Bucket(holding[w].status)] = @ + 1]
  /\ latencies' = Append(latencies, holding[w].latency)
  /\ holding' = [holding EXCEPT ![w] = Nobody]
  /\ Unlock
  /\ UNCHANGED << sent, dropped, busy, readers, done, code, log, slots, crashed >>

(* _send_one raises: the worker logs it, and nothing is recorded.          *)
Crash(w) ==
  /\ w \in busy
  /\ busy' = busy \ {w}
  /\ crashed' = crashed + 1
  /\ UNCHANGED << stats, readers, done, code, log, slots >>

(* record_dropped, by the dispatcher.                                      *)
DropSlot ==
  /\ ~done /\ slots > 0
  /\ Free
  /\ dropped' = dropped + 1
  /\ slots' = slots - 1
  /\ UNCHANGED << lock, sent, byClass, latencies, holding, busy, readers, done,
                  code, log, crashed >>

(* run() returns, at the end of the scenario or after a signal, and main
   sets the event.                                                         *)
RunReturns ==
  /\ ~done /\ Quiet
  /\ done' = TRUE
  /\ UNCHANGED << stats, busy, readers, code, log, slots, crashed >>

-----------------------------------------------------------------------------
(* done.wait times out: the reporter begins a line.                        *)
BeginLine ==
  /\ ~done /\ step["reporter"] \in {0, 7} /\ lines < MaxLines
  /\ lines' = lines + 1
  /\ step' = [step EXCEPT !["reporter"] = 1]
  /\ line' = [line EXCEPT !["reporter"] = Blank]
  /\ UNCHANGED << stats, busy, done, code, log, slots, crashed >>

(* main's own summary(), after a join that waits for a second at most.     *)
BeginLastLine ==
  /\ done /\ step["main"] = 0
  /\ step' = [step EXCEPT !["main"] = 1]
  /\ UNCHANGED << stats, busy, line, lines, done, code, log, slots, crashed >>

(* summary() gets its next figure.                                         *)
ReadFigure(r) ==
  /\ step[r] \in 1..Len(Figures)
  /\ code = "none"
  /\ LET f == Figures[step[r]]
     IN  /\ f \in UnderLock => Free
         /\ line' = [line EXCEPT ![r][f] = Reading[f]]
  /\ step' = [step EXCEPT ![r] = @ + 1]
  /\ UNCHANGED << stats, busy, lines, done, code, log, slots, crashed >>

(* main returns; the reporter is a daemon thread and ends with it.         *)
Exit ==
  /\ step["main"] = 7 /\ code = "none"
  /\ code' = IF sent = 0 THEN "1" ELSE "0"
  /\ UNCHANGED << stats, busy, readers, done, log, slots, crashed >>

Work(w) == \/ Send(w) \/ Crash(w) \/ EndRecord(w)
           \/ \E o \in Outcomes : BeginRecord(w, o)
Main      == RunReturns \/ BeginLastLine \/ ReadFigure("main") \/ Exit

Next == \/ \E w \in Workers : Work(w)
        \/ DropSlot \/ Main \/ BeginLine \/ ReadFigure("reporter")

Spec == Init /\ [][Next]_vars

(* Every thread that can run is run; the lock is contended for as long as
   there are slots left and no longer.                                     *)
FairSpec == Spec /\ WF_vars(Main) /\ \A w \in Workers : WF_vars(Work(w))

-----------------------------------------------------------------------------
(* Type correctness: one thread at most is inside record().                *)
TypeOK ==
  /\ lock \in Workers \cup {Nobody}
  /\ sent \in Nat /\ dropped \in Nat /\ crashed \in Nat /\ lines \in Nat
  /\ byClass \in [Classes -> Nat] /\ latencies \in Seq(Latencies)
  /\ busy \subseteq Workers /\ holding \in [Workers -> Outcomes \cup {Nobody}]
  /\ \A w \in Workers : holding[w] # Nobody => lock = w
  /\ step \in [Readers -> 0..7]
  /\ done \in BOOLEAN /\ code \in { "none", "0", "1" }
  /\ log \in Seq(Outcomes) /\ slots \in 0..MaxSlots

CountOf(n, c) == Cardinality({ i \in 1..n : Bucket(log[i].status) = c })

ClassesOf(n) == [c \in Classes |-> CountOf(n, c)]

(* The nearest-rank percentile by its definition: the least latency of the
   first n requests that the given share of them does not exceed.          *)
IsNearestRank(p, num, den, n) ==
  LET NotAbove(x) == Cardinality({ i \in 1..n : log[i].latency <= x })
      Enough(x)   == den * NotAbove(x) >= num * n
  IN  /\ p \in { log[i].latency : i \in 1..n }
      /\ Enough(p)
      /\ \A i \in 1..n : log[i].latency < p => ~Enough(log[i].latency)

(* A progress line may be torn, its figures read while requests come in, but
   each of them is that of the run at some instant, and the instants are in
   the order of the line: its classes never add up to more than its sent,
   and its errors% is a ratio that really was.                             *)
FiguresAreOfTheRun ==
  \A r \in Readers : step[r] = 7 =>
    \E n \in 0..Len(log) :
      /\ line[r].classes = ClassesOf(n)
      /\ n <= line[r].sent /\ line[r].sent <= line[r].errors[2]
      /\ line[r].errors[2] <= Len(log)
      /\ line[r].errors[1] = CountOf(line[r].errors[2], "5xx")

(* p50 and p95 are nearest-rank percentiles of the requests recorded by some
   instant, 0 only before the first of them (percentile's docstring).      *)
PercentilesAreNearestRank ==
  \A r \in Readers : step[r] = 7 =>
    \E n, m \in 0..Len(log) :
      /\ n <= m
      /\ IF n = 0 THEN line[r].p50 = 0 ELSE IsNearestRank(line[r].p50, 1, 2, n)
      /\ IF m = 0 THEN line[r].p95 = 0 ELSE IsNearestRank(line[r].p95, 19, 20, m)

(* The last line is not torn: run() hands Stats over when nobody writes it
   any more, and every slot used is sent, dropped or lost to a crash.  It is
   what tells "the alert did not fire" from "the load generator never
   managed to send the load" (stats.py).                                   *)
LastLineIsExact ==
  step["main"] = 7 =>
    /\ line["main"].classes = ClassesOf(Len(log))
    /\ line["main"].sent = Len(log)
    /\ line["main"].errors = << CountOf(Len(log), "5xx"), Len(log) >>
    /\ line["main"].sent + line["main"].dropped + crashed = MaxSlots - slots

(* However the reporter is placed, main ends: no thread keeps the lock, and
   summary() never waits for a lock it holds itself.                       *)
MainReturns == <>(code # "none")

(* "no requests were sent - is ... reachable?" (main): a run that reached
   its target with no request at all ends with 1.                          *)
UnreachableIsReported ==
  code # "none" /\ (\A i \in DOMAIN log : log[i].status = "unreached")
    => code = "1"
=============================================================================
