\* The documented scope of the suppression, against the file.
SPECIFICATION Spec
CONSTANTS
  items = items
  health = health
  app = app
  prom = prom
  none = none
  Alerts <- MCAlerts
  NoInstance = none
INVARIANT SuppressedForTheSameObject
