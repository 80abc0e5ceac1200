SPECIFICATION FairSpec
CONSTANTS
  r1 = r1
  r2 = r2
  c1 = c1
  s1 = s1
  none = none
  None = none
  Runs = {r1, r2}
  Sessions = {s1}
  SessionOf <- OneSession
  Clients = {c1}
  Again = {r2}
  MaxDeltas <- Deltas
  MaxCloses = 1
INVARIANTS
  TypeOK
  StreamsAgree
  OwnEvents
PROPERTIES
  NothingHangs
CHECK_DEADLOCK FALSE
