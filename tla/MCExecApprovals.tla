--------------------------- MODULE MCExecApprovals ---------------------------
(* ExecApprovals on small instances: one node that connects twice; a       *)
(* command on the gateway's host and one on the node or the host, too.     *)
EXTENDS ExecApprovals

CONSTANTS local, other, remote, node, c1, c2, ls, ps, none

P(security, ask, fallback) == [security |-> security, ask |-> ask, fallback |-> fallback]

OneNode == [c \in Conns |-> node]
ToNode == [i \in Invokes |-> node]
NamesIt == [r \in Requests |-> {ls}]
NamesOne == [r \in Requests |-> IF r = local THEN {ls} ELSE {ps}]

(* Between them: every security, ask and fallback.                         *)
FewPolicies ==
  { P("allowlist", "on-miss", "allowlist"), P("full", "always", "full"), P("deny", "off", "deny") }
AskOnMiss == { P("allowlist", "on-miss", "deny") }

(* The operator allows the executable.                                     *)
Allowed == { [allow |-> {ls}, policy |-> P("allowlist", "on-miss", "allowlist")] }
=============================================================================
