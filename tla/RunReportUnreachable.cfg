\* The exit code of a run whose target was never reached.  Deadlock is not
\* checked: a run that is over rests.
SPECIFICATION Spec
CONSTANTS
  w1 = w1
  w2 = w2
  Nobody = Nobody
  Workers <- MCWorkers
  Latencies <- MCLatencies
  MaxSlots = 2
  MaxLines = 1
CHECK_DEADLOCK FALSE
INVARIANT UnreachableIsReported
