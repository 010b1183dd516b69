\* Arming and pacing, through a change of rate and across any delay, with one
\* worker; the target may refuse.  Deadlock is not checked: a refused run hangs
\* (see LoadGeneratorArmFailure.cfg).
SPECIFICATION Spec
CONSTANTS
  Phases <- MCPhases
  Boundary <- MCBoundary
  NumWorkers = 1
  QueueSlack = 1
  ArmMayFail = TRUE
  MaxClock = 9
CHECK_DEADLOCK FALSE
INVARIANTS
  TypeOK
  ArmedOnceInOrder
  FaultPrecedesTraffic
  NoPhaseSkipped
  NeverEarly
  NoBurst
  NoDrift
  StopIsPrompt
