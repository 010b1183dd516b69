\* The scenarios against the rules.  Deadlock is not checked: the run stops at
\* the horizon.
SPECIFICATION Spec
CONSTANTS
  Interval = 15
  Priors <- MCPriors
  Horizon = 3600
CHECK_DEADLOCK FALSE
INVARIANTS
  ExpectedAlertsFire
  NothingElseFires
  BurnRulesClearQuickly
PROPERTY OutageIsNotForgotten
