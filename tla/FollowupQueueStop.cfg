SPECIFICATION Spec
CONSTANTS
  m1 = m1
  m2 = m2
  m3 = m3
  m4 = m4
  id1 = id1
  id2 = id2
  id3 = id3
  id4 = id4
  chanA = chanA
  chanB = chanB
  unkeyed = unkeyed
  unroutable = unroutable
  Unkeyed = unkeyed
  Unroutable = unroutable
  Msgs = {m1, m2, m3}
  IdOf <- DistinctIdOf
  RouteOf <- OneRouteOf
  SettingsOf <- CollectOnly
  MayStop = TRUE
  MayFail = FALSE
  MaxQueues = 2
INVARIANTS
  NoOrphans
CHECK_DEADLOCK FALSE
