SPECIFICATION AnnounceFairSpec
CONSTANTS
  r1 = r1
  r2 = r2
  a1 = a1
  a2 = a2
  a3 = a3
  s1 = s1
  s2 = s2
  main = main
  chanA = chanA
  chanB = chanB
  unkeyed = unkeyed
  unroutable = unroutable
  Unkeyed = unkeyed
  Unroutable = unroutable
  Sessions = {s1, s2}
  Globals = {main}
  Runs = {r1, r2, a1, a2, a3}
  Announcements = {a1, a2, a3}
  SessionOf <- MCSessionOf
  GlobalOf <- MCGlobalOf
  RouteOf <- MCRouteOf
  SettingsOf <- MCSettingsOf
  Limits = {0, 2}
INVARIANTS
  TypeOK
  SessionExclusion
  SlotAccounting
  WorkConserving
  AnnounceAccounting
PROPERTIES
  StartsWithinLimit
  ImplementsSerializer
  AllServed
CHECK_DEADLOCK FALSE
