\* What the progress lines and the last line say, and whether main ends.  Deadlock is not checked: a
\* run that is over rests.
SPECIFICATION FairSpec
CONSTANTS
  w1 = w1
  w2 = w2
  Nobody = Nobody
  Workers <- MCWorkers
  Latencies <- MCLatencies
  MaxSlots = 3
  MaxLines = 1
CHECK_DEADLOCK FALSE
INVARIANTS
  TypeOK
  FiguresAreOfTheRun
  PercentilesAreNearestRank
  LastLineIsExact
PROPERTY MainReturns
