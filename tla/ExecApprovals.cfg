SPECIFICATION FairSpec
CONSTANTS
  local = local
  other = other
  remote = remote
  node = node
  c1 = c1
  c2 = c2
  ls = ls
  ps = ps
  none = none
  None = none
  Nodes = {node}
  Conns = {c1, c2}
  NodeOf <- OneNode
  Requests = {local, remote}
  Invokes = {local, remote}
  TargetOf <- ToNode
  OnNode = {remote}
  Executables = {ls}
  Segments <- NamesIt
  Policies <- FewPolicies
  Versions <- Allowed
  MaxEdits = 1
  MaxTroubles = 1
INVARIANTS
  TypeOK
  Consented
PROPERTIES
  Ends
CHECK_DEADLOCK FALSE
