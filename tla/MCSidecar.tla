------------------------------ MODULE MCSidecar ------------------------------
(* Sidecar on a small instance: all runs belong to one conversation.       *)
EXTENDS Sidecar

CONSTANTS r1, r2, c1, s1, none

OneSession == [r \in Runs |-> s1]
Deltas == [r \in Runs |-> IF r = r1 THEN 1 ELSE 0]
=============================================================================
