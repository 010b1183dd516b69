\* Every set of eight alerts at every hour of the week, and what becomes of a
\* warning that keeps firing.
SPECIFICATION FairSpec
CONSTANTS
  items = items
  health = health
  app = app
  prom = prom
  none = none
  Alerts <- MCAlerts
  NoInstance = none
INVARIANTS
  HiddenBehindAPage
  NightIsQuiet
PROPERTY TicketComes
