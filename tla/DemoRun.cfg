\* A burst, stopped or refused at any point.  Deadlock is not checked: a run
\* that is over and a target that is healthy rest.
SPECIFICATION DemoFairSpec
CONSTANTS
  Phases <- MCBurst
  Boundary <- MCBurstBoundary
  NumWorkers = 2
  QueueSlack = 1
  ArmMayFail = TRUE
  MaxClock = 5
  LatencyFaults <- MCLatency
  Ratios = {"always"}
  Ttls = {2}
  Leftovers <- MCLeftovers
CHECK_DEADLOCK FALSE
INVARIANTS
  TrafficMeetsItsFault
  NothingAbandoned
PROPERTIES
  TargetHeals
  RunEnds
