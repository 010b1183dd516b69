\* The metrics at every scrape, with faults, clears, expiries and a restart; and
\* what a clear does to the requests asleep under a fault.
SPECIFICATION Spec
CONSTANTS
  r1 = r1
  r2 = r2
  Requests <- MCRequests
  LatencyFaults <- MCLatencyFaults
  Ratios <- MCRatios
  Ttls = {2}
  Objective = 1
  AgeCap = 2
  MaxArrivals = 3
  MaxInjections = 2
  MaxRestarts = 1
SYMMETRY MCSymmetry
INVARIANTS
  TypeOK
  EveryRequestIsCountedOnce
  OrdersAreAccounted
  AnswersAreCounted
  InjectedLatencyIsSeen
PROPERTY ClearIsEffective
