------------------------- MODULE MCSubagentRegistry -------------------------
(* SubagentRegistry on small instances.                                    *)
EXTENDS SubagentRegistry

CONSTANTS r1, r2

(* One run's session is kept, the other's deleted.                         *)
KeepAndDelete == [r \in Runs |-> IF r = r1 THEN "keep" ELSE "delete"]
=============================================================================
