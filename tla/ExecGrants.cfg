SPECIFICATION Spec
CONSTANTS
  local = local
  other = other
  remote = remote
  node = node
  c1 = c1
  c2 = c2
  ls = ls
  ps = ps
  none = none
  None = none
  Nodes = {node}
  Conns = {}
  NodeOf <- OneNode
  Requests = {local, other}
  Invokes = {local, other}
  TargetOf <- ToNode
  OnNode = {}
  Executables = {ls, ps}
  Segments <- NamesOne
  Policies <- AskOnMiss
  Versions = {}
  MaxEdits = 0
  MaxTroubles = 0
PROPERTIES
  EditsKept
CHECK_DEADLOCK FALSE
