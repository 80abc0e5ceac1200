----------------------------- MODULE MCHeartbeat -----------------------------
(* Heartbeat on a small instance: two agents, of which one has an empty    *)
(* HEARTBEAT.md; a reload may take the other one's heartbeat away or       *)
(* change an interval.                                                     *)
EXTENDS Heartbeat

CONSTANTS a1, a2, e1, e2, none

TwoConfigs ==
  { [a \in Agents |-> IF a = a1 THEN 2 ELSE 1], [a \in Agents |-> IF a = a1 THEN 1 ELSE 0] }
AgentsOfEvents == [e \in Events |-> IF e = e1 THEN a1 ELSE a2]
=============================================================================
