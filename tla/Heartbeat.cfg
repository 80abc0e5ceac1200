SPECIFICATION FairSpec
CONSTANTS
  a1 = a1
  a2 = a2
  e1 = e1
  e2 = e2
  none = none
  None = none
  Agents = {a1, a2}
  Configs <- TwoConfigs
  EmptyFile = {a1}
  Events = {e1}
  AgentOf <- AgentsOfEvents
  Defaults = {a1, a2}
  MaxTime = 2
  MaxTroubles = 2
INVARIANTS
  TypeOK
  Covered
PROPERTIES
  Spaced
  EventsTold
CHECK_DEADLOCK FALSE
