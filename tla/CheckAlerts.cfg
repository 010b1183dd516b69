\* One pass of the check over a delivery in motion.  Deadlock is not checked:
\* with no alert and no check left there is nothing to do.
SPECIFICATION CheckSpec
CONSTANTS
  a1 = a1
  a2 = a2
  Alerts <- MCAlerts
  MaySuppress = TRUE
  MaxChanges = 2
  MaxTrouble = 0
CHECK_DEADLOCK FALSE
INVARIANT SteadyAlertIsShown
