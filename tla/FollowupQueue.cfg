SPECIFICATION FairSpec
CONSTANTS
  m1 = m1
  m2 = m2
  m3 = m3
  m4 = m4
  id1 = id1
  id2 = id2
  id3 = id3
  id4 = id4
  chanA = chanA
  chanB = chanB
  unkeyed = unkeyed
  unroutable = unroutable
  Unkeyed = unkeyed
  Unroutable = unroutable
  Msgs = {m1, m2, m3, m4}
  IdOf <- RedeliveredIdOf
  RouteOf <- MixedRouteOf
  SettingsOf <- MixedSettingsOf
  MayStop = TRUE
  MayFail = TRUE
  MaxQueues = 2
INVARIANTS
  TypeOK
  QueuedOnce
  DropAccounting
  CollectRoutes
PROPERTIES
  HandoverComplete
  DrainServes
CHECK_DEADLOCK FALSE
