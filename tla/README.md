# Verification of observability-stack

TLA+ modules for the parts of this repository that have logic of their own,
TLC configurations that check them on small instances, and TLAPS proofs of what
matters most for every instance. Each definition is translated from the source;
`PROJECT.json` maps it to the lines it stands for.

    tlc -workers 2 -config AlertSink.cfg MCAlertSink     # a run
    tlapm AlertSinkProofs.tla                            # a module of proofs

## 1. The system and its parts

The repository is an observability demonstration that is meant to prove itself:
a service with deliberate faults, a load generator that plays scenarios against
it, Prometheus rules that must fire, an Alertmanager configuration that must
deliver, a webhook receiver that remembers what was delivered, and a command
that compares the three.

| part | state | operations | talks to |
|---|---|---|---|
| sample-app service (`sample-app/app/main.py`, `metrics.py`) | requests in progress on one event loop; gauge, counters, histogram | the API requests with their middleware and fault dependency; fault control; `/metrics` | called by the load generator, the probe and Prometheus |
| fault injector (`sample-app/app/faults.py`) | at most one latency and one error fault, with expiry | inject, clear, read state, draw a delay, draw an error | called by the service |
| load generator (`loadgen/loadgen/driver.py`) | a bounded queue of request slots, a pool of workers, a stop event | arm a fault, open a slot, pace, send, shut down; stop on a signal | calls the service |
| scenarios (`loadgen/loadgen/scenarios.py`) | constants: phases, rates, faults, times to live, expected alerts | `phase_at` | played by the driver, seen through the rules |
| statistics and command line (`stats.py`, `__main__.py`) | counts by class, latencies; the reporter thread, the exit code | record, record_dropped, summary; progress line, last line, exit | workers, reporter and main |
| alert sink (`alert-sink/alert_sink/server.py`, `store.py`, `model.py`) | a ring buffer of received alerts behind a lock | POST /webhook, GET /alerts/firing, GET /alerts | called by Alertmanager and check-alerts |
| check-alerts (`alert-sink/alert_sink/check.py`) | the rows and problems of one pass | collect three sources, tabulate | calls Prometheus, Alertmanager, the sink |
| Alertmanager configuration (`alertmanager/alertmanager.yml`) | the firing alerts, their groups, the hour | routing, inhibition, muting, flushing, repeating | between Prometheus and the sink |
| rules (`prometheus/rules/*.yml`) | windows and `for` timers | evaluate | between the metrics and Alertmanager |

### What is hard about it

* **Threads.** The sink serves every connection in a thread of its own and all
  of them share one deque (store.py:35, 44). The load generator has a
  dispatcher, workers, a progress thread and a signal handler around one queue
  (driver.py:147-181); the progress thread reads counters that workers are
  writing, some with the lock and some without (stats.py:62-72).
* **The event loop.** Requests of the service interleave at every await; faults
  are injected, cleared and expire while requests sleep under them
  (main.py:175-192), and the accounting of a request is spread over both sides
  of an await (main.py:134-163).
* **Time.** Slots are paced against a clock while any call may take long
  (driver.py:151-176); faults run out by themselves (faults.py:103-108) and are
  to last exactly as long as their phase (scenarios.py:121-127); out-of-hours
  intervals wrap past midnight (alertmanager.yml:73-83); a rule looks at two
  windows and a `for` at once (alerting.yml:22-60).
* **Failure.** One bad entry in a notification (model.py:75), a target that
  refuses a fault or whose answer is lost (driver.py:132-137), a transport that
  raises (driver.py:195-200), a POST given up by Alertmanager whose handler
  still stores it, a restart that loses what is only in memory.
* **Silence.** Inhibition rules that hide one alert behind another: if two rules
  disagree on a label, an incident is hidden behind nothing. A check that asks
  three sources one after the other while they change.

`PROJECT.json` lists each hazard at its line, with the properties that watch it.

## 2. The modules

    ReceivedAlerts          one alert, its key, what is firing, what is retained
      NotificationHistory   the promise of the sink: an atomic history
      AlertSink             the threads, the lock and the deque, implementing it
        AlertSinkProofs
    AlertDelivery           one group, from Alertmanager's flush to the listing
      CheckAlerts           make check-alerts beside a delivery in motion
        AlertDeliveryProofs
    AlertRouting            routes, inhibition, mute intervals
      AlertRoutingProofs
    Scenario                phases, faults, phase_at
      LoadGenerator         dispatcher, queue, workers, clock, stop
        LoadGeneratorProofs
        DemoRun             the generator and the target's FaultInjector together
          DemoRunProofs
    RunReport               Stats, its readers, the last line, the exit code
      RunReportProofs
    FaultInjector           the two faults and their expiry
      SampleApp             requests, faults, metrics on one event loop
        SampleAppProofs
    ScenarioCatalogue       the four scenarios and the alerts they name
      BurnRate              those scenarios through the windows of the rules
        BurnRateProofs

The `MC` modules give small instances of the module they are named after.
In every specification the operators under the heading "Slips" are plausible
bad edits of the definition they are named after; the runs are shown to notice
each of them.

### AlertSink

One step is what a handler thread does between two points at which another
thread can be seen to run. `ReadNotification`, `ParseNotification`,
`AcquireForAdd`, `AppendOne` (one turn of the loop under the lock),
`ReleaseAfterAdd` and `RespondAccepted` are `do_POST` with `add_all`;
`ReadQuery`, `Recent` (the copy under the lock) and `RespondFiring` are `do_GET`
on `/alerts/firing`. Copying under the lock is one step because every other
access to the deque needs the lock too. `Append1` is the `deque(maxlen=...)`.
`Restart` is the process: `STORE` is a module global, so everything is lost.
`latest` is history: the last alert stored under each key since the start.

`NotificationHistory` has neither threads nor lock: a notification enters whole
(`Accept`), a listing reads one instant (`Answer`), a restart forgets.
`Promise` maps AlertSink onto it: while a thread is inside `add_all`, the
abstract history is the deque with what that thread has still to append.

### AlertDelivery and CheckAlerts

AlertDelivery is a level up: notifications enter the sink whole, as AlertSink is
shown to make them, and what is modelled is how they come about and in what
order they arrive. Alertmanager is external and modelled from what
`alertmanager.yml` asks of it: `Flush` sends a group when there is news, or again
after `repeat_interval`; what is suppressed is left out (`FiringSent`,
`ResolvedSent`); what was resolved leaves the group once its POST is accepted
(`Kept`) or, with nothing to send, at once. `Store` and `Accept` are the two
halves of `do_POST`, so that an alert may fire again in between. `GiveUp` is
Alertmanager's timeout: the handler thread of a POST given up may store it late
(`StoreLate`) or never (`Lose`). `RestartSink` loses the list.

CheckAlerts adds Prometheus' view of each rule (`Evaluate`) and `collect`
(`Ask`): one source per step, with everything else moving in between, each
source answering with its rows, a `QueryError`, or JSON of another shape that
makes no rows. `steady` is history: the alerts every source has had to show
since the first was asked.

### LoadGenerator

`BeginSlot`, `ArmAccepted`/`ArmRefused`, `OfferSlot`, `Pace`, `WakeUp` are the
loop of `run()`, `LeaveLoop`, `PutShutdown`, `AllShutdownsPut`, `PoolExit` its
end; `Get`, `Answered`, `Crashed` a worker; `Stop` the signal handler. The clock
is read where the code reads it and may advance between any two steps, so
`arm`, `sleep` and the target may take as long as they please. An exception
from `arm` goes to `PoolExit` as in the code: through the `with` block of the
pool, whose exit waits for the workers. `NoFault` phases arm nothing. `due`,
`slipped`, `opens`, `afterStop`, `armed`, `opened` and `crashed` are history.
Which request is drawn from the mix is left out: no step depends on it.

### DemoRun

LoadGenerator's steps with their effect at the target: arming applies the
phase's fault to FaultInjector (`Apply`, with the time to live the scenarios
give: the duration of the phase), and `Tick` runs both clocks. A call that fails
may have been carried out. `Leftovers` are faults of an earlier run. When the
generator has ended, been stopped or hung, the target's time goes on.

### RunReport

`record()` is two steps, because `sent` is read without the lock: `BeginRecord`
takes the lock and counts the request, `EndRecord` does the rest. `summary()` is
one step per figure, in the order in which it evaluates them, each under the
lock or not as in the code (`UnderLock`). Both readers are modelled: the
reporter thread, whenever its wait times out, and main, after a join that may
time out while the reporter is in the middle of a line. The error ratio is kept
as its two terms. An unreachable target is the transport's status 599, which
`Bucket` puts among the 5xx, as `record` does. `log` is history. `sorted()` is
`Sorted`: an element's place is the number of those less than it, and of those
equal to it that stand no later; counting instead of exchanging is what lets
the percentiles be proved about.

### AlertRouting

The state is the set of firing alerts and the hour of the week; an alert is its
name, job and instance, since those are the labels the file looks at (the
severity is a constant of the rule). `Route`, `Receiver`, `InhibitRules`,
`Muted` are the file; how Alertmanager reads it (first matching child,
inhibition by any firing source, whether that source is inhibited itself or not)
is taken from its documentation as the repository's comments rely on it.
`AlertsAssumption` says which rules exist and that no warning rule fires for the
monitoring jobs.

### SampleApp and FaultInjector

A step is what the event loop does between two awaits: `Arrive` (middleware up
to `call_next`), `BeginSleep` and `EndSleep` (`apply_faults` before and after its
sleep, the second with the handler up to its end or its next await), `Reserve`
(the rest of `create_order`), `Finish` (the middleware's `finally`), `Answer`
(the server writes the response). `NoRoute` is a 404 that meets no dependency.
The fault calls are one step each. `/faults`, `/metrics` and the health endpoints
bypass the middleware, so they are in no metric. Status codes are put into four
classes: 200, 201, 4xx and 5xx. `Tick` is time: sleeps and faults run down,
requests age. One tick stands for the 0.3 s of the objective; delays shorter
than that are none. The injector's lock is left out: all its callers run on
one event loop (the Dockerfile calls the single worker "a correctness
requirement"), and none awaits inside a call.

### ScenarioCatalogue and BurnRate

The catalogue is `scenarios.py` with its numbers: seconds, tenths of a request
per second, the share of requests a fault makes bad for its objective. BurnRate
evaluates the rules at `Interval`, up to a minute: a window is the requests that
fall into it (`Requests`, `Bad`, each the `Total` of the phases and of what was
before them), a burn-rate rule is two windows, a threshold and a `for`
(`BurnRules`). What there was before the run (`Priors`) is a choice: it
dilutes the long windows. Rates are exact, without the extrapolation and the
scrape granularity of Prometheus, and offered slots are taken as sent, that is,
the target keeps up.

## 3. The runs

| run (configuration) | question | answer |
|---|---|---|
| `sink` (AlertSink.cfg) | can a stale alert be listed, or a response lie about the store? do the threads implement the atomic history, and is every request answered? | no; yes |
| `delivery` (AlertDelivery.cfg) | is what Alertmanager has on record listed? does a firing alert come back, and a resolved one leave? | yes, within the limits the properties state |
| `check_alerts` (CheckAlerts.cfg) | does a steady alert have its row from every source that answered? | yes |
| `loadgen` (LoadGenerator.cfg) | is each fault armed once, in order, before its traffic, none skipped? are slots never early, in no burst, without drift, and none after a stop? | yes |
| `loadgen_arm_failure` (LoadGeneratorArmFailure.cfg) | does a run whose fault call fails raise? | **no**, finding 1 |
| `demo` (DemoRun.cfg) | do the slots of a phase meet its fault? does every run end and the target heal? | yes; a run ends unless a fault was refused |
| `report` (RunReport.cfg) | does a torn progress line still tell figures of the run, is the last line exact, does main return? | yes |
| `report_unreachable` (RunReportUnreachable.cfg) | is a target nobody reached reported? | **no**, finding 2 |
| `routing` (AlertRouting.cfg) | is what is suppressed spoken for by a page? is the night quiet? does a warning that keeps firing become a ticket? | yes |
| `routing_scope` (AlertRoutingScope.cfg) | is a warning suppressed only by a critical alert of the same object? | **no**, finding 3 |
| `app` (SampleApp.cfg) | do gauge, counters and histogram agree at every scrape? does a clear act on requests that sleep under the fault? | yes |
| `burn_rate` (BurnRate.cfg) | do the scenarios fire the alerts they name and no other? do those clear as their short windows promise? is an outage remembered? | yes, with one exception after a busier past (section 4) |

### Bounds, and why they are enough

* *Sink*: two connections, a deque of two entries, at most three requests and
  one restart. The batches hold an alert that fires and resolves, a batch larger
  than the deque, an empty one, an alert without a fingerprint, and each with a
  refused entry before or after. Two threads are enough to interleave an append
  with a copy and with another append; the theorems hold for any number.
  Deadlock is not checked: a server whose clients send nothing rests.
* *Delivery*: two alerts, so that a notification carries one as firing and the
  other as resolved and one is suppressed without the other; four changes, which
  is an alert that fires, resolves and fires again beside another; two troubles,
  so that a POST given up is overtaken by a second one, or the sink restarts
  between the two. The check runs beside a delivery without troubles and with
  two changes: the stages from pending to the list are the point there. At rest
  there is nothing to do, so neither checks deadlock.
* *Load generator*: two phases of different rates, both with a call at the
  target, the first of four ticks, so that a held-up dispatcher owes four slots
  and a burst would show; one worker and a queue with one place.
  `MaxClock` stops the clock after the scenario is over; only the passing of
  time is bounded, not the number of steps. The target may refuse, and the run
  then hangs by finding 1, so deadlock is not checked; `RunEnds` of the demo run
  says that nothing else hangs.
* *Demo*: four phases (clear, errors, clear, latency), two workers, faults left
  over from an earlier run that outlive its first phase, lost answers, stops.
* *Report*: two workers and three slots, so that the reporter may meet a record
  under way at each of its figures, and percentiles have ranks that are not
  whole numbers; latencies may come in any order; one progress line beside the
  last one. A run that is over rests: deadlock is not checked.
* *Routing*: eight alerts over four targets, so that every inhibition rule has
  sources and targets on the same object and on different ones; every subset of
  them at each of the 168 hours of the week (43 008 states).
* *Service*: two requests at a time, three requests between starts, two
  injections, one restart. The latency fault straddles the objective through
  its jitter; errors are certain or occasional; a fault lasts two ticks.
  Symmetry over requests is used, in this run only: it checks no liveness. Ages
  stop at `AgeCap`, above the objective, where they no longer matter.
* *Burn rate*: the real scenarios at the real interval, for an hour after their
  end, after an idle service and after one, three or six hours of traffic at 5,
  10, 20 or 25 requests a second: the demo's steady rate is 20
  (slo/sample-app.yml:19), the busiest phase of the catalogue has 25, and six
  hours fill the longest window. One expected alert gives way to such a past,
  LatencyBudgetBurnSlow (`BusierBefore`; section 4). The interval is the 15 s of
  `prometheus.yml`. The theorems hold for any interval up to a minute, any rate
  before the run up to 25 a second and any span, and four hours after it: the
  six hours of the baseline forget the run some time later, and then
  TrafficDropped does resolve. What was before is healthy: a faulty scenario
  right after another is not covered.

### Fairness

* `AlertSink`: weak fairness of each handler thread, the scheduling of the
  operating system. The lock itself is not fair; requests of a behaviour are
  finitely many, so a waiting thread finds it free for good in the end.
* `AlertDelivery`: weak fairness of a POST (it is stored, answered or given up)
  and of the end of lingering handlers; strong fairness of the repeating flush:
  the group's timers have no end, and find the group idle again and again.
* `LoadGenerator` and `DemoRun`: weak fairness of the clock, of the dispatcher
  and of each worker. A worker in a request goes on because `urlopen` is given
  a timeout (driver.py:79-98). No fairness makes the target accept a fault or
  the operator press Ctrl-C.
* `RunReport`: weak fairness of main and of each worker. The reporter has none:
  main must not depend on it.
* `AlertRouting`: time passes; no alert has to fire or to resolve.

## 4. Findings

1. **A run whose fault is refused hangs.** `arm` raises inside the `with
   ThreadPoolExecutor` of `run()` (driver.py:147, 165); the pool's exit waits for
   workers that wait in `slots.get()` for sentinels nobody puts. The test
   (test_loadgen_driver.py:92) calls `arm` alone, where it does raise.
2. **An unreachable target is not reported.** main has the error line "no
   requests were sent - is ... reachable?" and exit code 1 for it
   (`__main__.py`:110-112), but a failed connection becomes status 599
   (driver.py:97-98), which is recorded as sent: `sent` is not 0, and main
   returns 0.
3. **A warning is suppressed by the critical alert of another object.** README.md
   (416-417) and docs/runbooks.md (237-238) speak of the same object and
   instance; the first inhibition rule compares only `job`
   (alertmanager.yml:50-56), so a failing probe of one URL hides the slow probe
   of another, and the rule that compares `instance` never decides anything.

Seen while modelling, and stated in the properties rather than shown by a run of
their own:

* check.py:10-12 concludes from an alert that is firing in Prometheus and
  missing in the sink that "the routing tree or an inhibition rule swallowed
  it". There are other causes: later notifications pushed it out of the ring
  buffer (store.py:26), the sink restarted and the repeat is still to come, or
  the first flush is still to come (`group_wait`). `FiringComesBack` is the part
  that is true.
* store.py:54-55 says resolved alerts disappear from the list. One that resolves
  while it is muted or inhibited is not notified as resolved and stays;
  `ResolvedLeaves` says what holds.
* scenarios.py:9-12 says that each scenario runs long enough for the alerts in
  `expected_alerts` to fire. `latency_spike` runs at 10 requests a second, half
  the demo's steady rate. After six hours of `normal` its slow requests stay
  below 5% of the six-hour window, and LatencyBudgetBurnSlow, at 6%, does not
  fire; after three hours it does. `ExpectedAlertsFire` therefore excepts this
  one alert, when the six hours before the run had more requests than six hours
  at the run's own rate (`BusierBefore`), and no other alert. Without the
  exception TLC finds the run in which only LatencyBudgetBurnFast has fired.
* metrics.py:11-13 justifies the missing `status` label of the duration
  histogram with "a latency SLO that only counts successful requests is the
  standard definition". `observe_request` (metrics.py:93-97) observes every
  request, failed ones included, recording.yml and slo/sample-app.yml divide by
  the count of all, and README.md:274-275 says the latency SLO is over all
  requests. Without the label nothing could single out the successful ones.
  `EveryRequestIsCountedOnce` states what the code does: a fast failure counts
  as a good request of the latency SLO.
* README.md:166 has both alerts of the burst go together. ErrorBudgetBurnSlow
  looks at 30 minutes and clears about half an hour after the fault, which is
  why `BurnRulesClearQuickly` allows tickets 30 minutes. README.md:200 gives
  TrafficDropped about 10 minutes; its 5-minute window must empty first, so it
  is 14 to 15.
* The scenario `normal` arms nothing and so does not clear what an earlier run
  left behind (scenarios.py:86-96), unlike the others; faults are left over only
  until their time to live is up (`TargetHeals`).
* check.py:133 prints that nothing is firing also when no source answered with
  rows; the problems are printed beside it.
* When a demo is over, traffic stops with it, and TrafficDropped fires later
  unless something else calls the service.

## 5. What is proved

For every value of the constants that meets the named assumptions of the modules:

| theorem | says |
|---|---|
| `AlertSinkProofs!TypeCorrect` | types; the deque never exceeds its capacity |
| `AlertSinkProofs!MutualExclusion` | the lock's holder, and nobody else, is in `add_all` |
| `AlertSinkProofs!NoStaleListing` | nothing is listed on a superseded notification |
| `AlertSinkProofs!ResponsesAreTrue` | 200 after every alert was stored, 400 with none |
| `AlertSinkProofs!Implements` | the threaded sink implements `NotificationHistory` |
| `AlertDeliveryProofs!TypeCorrect` | types; no firing alert is lost from its group |
| `AlertDeliveryProofs!ToldAlertsAreListed` | what Alertmanager has on record is on the list |
| `AlertDeliveryProofs!SteadyAlertsAreShown` | a steady alert has its row from every source that answered |
| `LoadGeneratorProofs!TypeCorrect`, `ArmsOnceInOrder`, `FaultBeforeTraffic`, `EveryPhasePlayed` | types; each fault at most once, in order, before its slots, and none skipped |
| `LoadGeneratorProofs!NeverAhead`, `DriftFree`, `PromptStop`, `BurstsAreBounded` | when slots may open |
| `LoadGeneratorProofs!NothingLeftBehind` | when `run()` returns every slot is accounted for |
| `LoadGeneratorProofs!NoWaitIsInVain` | nobody blocks on the queue for what cannot come, unless a fault call failed (finding 1) |
| `DemoRunProofs!TrafficMeetsFault`, `NothingAbandonedInADemo` | the slots of a phase meet its fault; the same accounting beside the target |
| `RunReportProofs!TypeCorrect`, `LinesAreOfTheRun`, `TheLastLineIsExact` | what a progress line and the last line say, for any number of workers and slots |
| `RunReportProofs!PercentilesAreOfTheRun` | p50 and p95 are nearest-rank percentiles of the latencies of an instant, whatever they are and in whatever order they came |
| `AlertRoutingProofs!SuppressionIsSpokenFor`, `WarningsWait` | for every set of alerts |
| `BurnRateProofs!ScenariosFireTheirAlerts`, `ScenariosFireNothingElse` | after healthy traffic of up to 25 requests a second: by its end a scenario has fired the alerts it names, but for a slow latency burn after a past busier than the run; and until then no other |
| `BurnRateProofs!ShortWindowsClear`, `OutageStaysReported` | pages and tickets clear as their short windows say; TrafficDropped stays |
| `SampleAppProofs!TypeCorrect`, `CountedOnce`, `OrdersAgree`, `AnswersAgree`, `LatencySeen`, `ClearEffective` | the metrics and the faults, for any number of requests at a time |

How the arguments run, and what had to be strengthened:

* **Sink.** `TypeOK` with mutual exclusion (`pc[c] = "append" <=> lock = c`) is
  inductive. `NoStaleListing` follows from a fact about one append
  (`AppendKeepsLatest`): the last entry under a key in the deque is the last
  that was stored under it, and eviction takes the oldest. The refinement rests
  on `RetainedStepwise`: keeping the last *Capacity* entries after each of a
  batch's appends is the same as keeping them once at the end. So the abstract
  history does not move while the thread appends; it moved when the thread took
  the lock.
* **Delivery.** `Accept` puts on record what the POST under way carries, so
  `ListedInv` adds that between the store and the answer that is what is listed,
  and that nothing lingers as long as no POST was given up.
* **Check.** `LookingChangesNothing`: a delivery beside the check is a delivery.
  `CheckInv`: the steady alerts are shown everywhere now, and were by the
  sources gone through, or those failed; it needs the sources to be distinct
  (`SourcesAreDistinct`), so that a later answer does not overwrite an earlier.
* **Arming.** Phases are entered in order because `PhaseAt` is monotone in the
  clock, and `current` remembers the last one: `ArmingInv` relates the two to
  the last fault armed. That none is skipped (`EveryPhasePlayed`) needs more:
  between two iterations that are not a period late the clock moves by less
  than two periods, so no phase that outlasts them lies between (`OnePhaseOn`),
  and `PlayedInv` carries that all phases up to the current one are armed.
* **Pacing.** `PacingInv`: the deadline is never before `due`, and an iteration
  begins only when its deadline has come. Bursts need the spacing of the last
  three slots (`SpacingInv`): the `max(..., now)` resets the deadline to the
  reading of the clock, and that is at most the time the slot was opened.
* **Draining.** `Shape(k)`: the queue is *k* slots followed by nothing but
  sentinels, slots opened equal those sent, dropped, crashed, queued and under
  way, and once a worker has left, *k* is 0. `Control` says how many sentinels
  have been put at each point of `run()`. With all workers gone no slot can be
  left (`EmptiedAtExit`); and as long as one is there a sentinel is on its way to
  it, so no wait is in vain (`NoWaitIsInVain`, the safety half of `RunEnds`).
* **Demo.** `IsALoadGenerator`: every step is one of the generator's or none, so
  its theorems hold. `FaultsLast`: the fault armed last is in force up to the
  end of its phase, because its time to live started no earlier than the phase
  and is as long; in a phase that clears there is none, because every slot of it
  comes after the clear (`FaultBeforeTraffic`).
* **Report.** `StatsInv`: the counters are those of the log, except that whoever
  is inside `record()` has counted its request in `sent` and not yet in its
  class. Hence what is read under a free lock is exact, and what is read without
  it is right for `sent`. Counts of a prefix of the log do not change as it
  grows (`OldCountsStay`, `OneMoreCounted`), which is what makes a line's figures
  those of earlier instants (`FiguresInv`). After `run()` has returned nobody
  writes (`NothingAfterTheRun`), so main's figures are of one instant
  (`MainInv`), and `SlotsInv` accounts for the slots.
* **Percentiles.** Places are a permutation (`PlaceIsOne`, `PlacesAreTaken`: an
  injection of a finite set into itself is onto), so the k-th of the sorted list
  has at least k elements no greater than it and fewer than k less than it
  (`SortedCounts`); `RankIsTheLeast` is the rounding up of `percentile()`. What
  was a percentile of the first n latencies stays one as the log grows
  (`OldPercentilesStay`), and `LatenciesInv` ties the list that is sorted to the
  log, but for the request that is inside `record()`.
* **Routing.** A suppressor is critical (`InhibitsByRule`, `Names`); if it is
  suppressed itself, then by `TargetDown` of the same job, which nothing
  suppresses (`SpokesmenPage`); the pager's routes have no mute interval.
* **Service.** `Gauge`: `inFlight` is the number of requests between `Arrive`
  and `Finish`, which keeps it from going negative. `AllClocked`: what a request
  was given and has slept shows on its clock. `Armed`: a fault in force is among
  those injected since the last clear. The sets of requests behind `OrdersAgree`
  and `AnswersAgree` change by at most one element per step (`AtMoves`,
  `Counting`).

* **Burn rates.** The sums over phases are unfolded for each of the four
  scenarios (`TotalOfThree`, `Sums`), and a window is bounded through the length
  of its overlap with a stretch of one rate (`OneRate`, `Steady`). A rule that
  is expected holds at every instant of a stretch of its scenario (`Begins`,
  `Ends`, `ExpectedHold`) that is longer than its `for` and two evaluations
  (`StretchIsLongEnough`): the margin is why intervals up to a minute do. One
  that is not expected has no bad request in its short window, or for
  TrafficDropped compares steady traffic with a past at most four times as busy
  (`SteadyTrafficIsNotDown`). The past takes at most 25 requests a second of a
  window's rest (`BeforeBounds`), and what it has in a window only shrinks
  (`BeforeShrinks`): for the slow burn of `latency_spike` that is bounded by
  the negation of `BusierBefore`, the exception of the property (`Due`). The
  invariant needs, beside what fired, since when each rule has been active: `FiresInv` bounds it by the first evaluation of the
  stretch, `SinceInv` says that the expression held then and at the last
  evaluation. That one gives the other two theorems: a rule that fires held
  just now, so its short window still has part of the faulty phase
  (`HoldsNotForLong`); and traffic that was down ten minutes ago stays down
  (`DownStaysDown`), since what five minutes still hold is at most the trickle
  of the last phase.

Assumptions used: positive capacity and batches of alerts (`CapacityIsPositive`,
`BatchesCarryAlerts`, `NoOneIsNoClient`); valid phases and boundaries that are
running sums (`PhasesAreValid`, `BoundaryIsRunningSum`: the checks of
`Phase.__post_init__` and the sum in `phase_at`); at least one worker and one
place (`WorkersAssumption`); a clock that is not cut short before the scenario's
end (`DemoAssumption`); bounds that are natural numbers and a lock holder that
is no worker and no answer (`RunReportAssumption`, `NobodyIsNoOutcome`,
`DeliveryAssumption`); the names of the rules (`AlertsAssumption`); an
evaluation interval of at most a minute, and before a run no more traffic than
the busiest scenario has (`BurnRateAssumption`); what `inject_latency` and
`inject_errors` accept (`FaultsAreValid`); finitely many requests at a time
(`BoundsAssumption`). TLC evaluates each of them in the runs.

**Only model-checked:** everything with fairness (`EveryRequestAnswered`,
`FiringComesBack`, `ResolvedLeaves`, `RunEnds`, `TargetHeals`, `MainReturns`,
`TicketComes`), since liveness and `ENABLED` are beyond the prover; and the three
violated claims. Every invariant and action property of the runs is a theorem.

## 6. What is not modelled

* A webhook body that is not UTF-8, which ends the handler without a response;
  `GET /alerts` and the `/healthz` endpoints, which only read.
* `group_by`: one group is delivered at a time. Groups do not touch each other's
  alerts, so two of them are two deliveries side by side.
* Errors `fetch_json` does not turn into a `QueryError` (a body that is not
  UTF-8, a connection cut in mid-answer): they end check-alerts with a
  traceback. The layout of its table and its exit code.
* Unhandled exceptions inside a handler of the service (none of the handlers
  raises anything but an `HTTPException`), and the shape of payloads.
* Rules about probes, targets, disks and the monitoring itself beyond their name
  and severity, and recording rules that only dashboards use: their metrics come
  from other programs.
* Argument parsing, `--list`, settings from the environment, logging, tracing
  (`telemetry.py`): no state that a later step depends on.
* Loki, Promtail, Tempo, blackbox and Grafana files, containers and CI:
  configuration of other programs without logic of this repository.

## 7. What is left

* Extrapolation and scrape granularity of `rate()` in BurnRate, which would turn
  the exact instants of firing into intervals.
