\* Two alerts, POSTs given up and a restart of the sink.  Deadlock is not
\* checked: with no alert there is nothing to do.
SPECIFICATION FairSpec
CONSTANTS
  a1 = a1
  a2 = a2
  Alerts <- MCAlerts
  MaySuppress = TRUE
  MaxChanges = 4
  MaxTrouble = 2
CHECK_DEADLOCK FALSE
INVARIANTS
  TypeOK
  ToldIsListed
PROPERTIES
  FiringComesBack
  ResolvedLeaves
