\* The target refuses to arm a fault.  Deadlock is not checked: the run is
\* to show what a refused run does not do, by name.
SPECIFICATION FairSpec
CONSTANTS
  Phases <- MCTwoPhases
  Boundary <- MCTwoPhasesBoundary
  NumWorkers = 2
  QueueSlack = 1
  ArmMayFail = TRUE
  MaxClock = 6
CHECK_DEADLOCK FALSE
PROPERTY ArmFailureIsRaised
