---------------------------- MODULE MCCronService ----------------------------
(* CronService on small instances; a second has two time units.            *)
EXTENDS CronService

CONSTANTS j1, j2, a, b, none

Sched(kind, time) == [kind |-> kind, time |-> time]
Patch(enabled, schedule, valid) == [enabled |-> enabled, schedule |-> schedule, valid |-> valid]

OneBackoff == <<2>>
TwoBackoffs == <<1, 2>>
(* One job is a one-shot, the other recurs.                                *)
OneShotAndRecurring ==
  [j \in Jobs |-> IF j = j1 THEN {Sched("at", 3)} ELSE {Sched("every", 1), Sched("cron", 2)}]
Interval == [j \in Jobs |-> {Sched("every", 2)}]
OneShotOrInterval == [j \in Jobs |-> {Sched("at", 3), Sched("every", 2)}]

(* None; changes that are accepted; refused ones that disable or enable.   *)
NoPatches == {}
Changes == { Patch(FALSE, none, TRUE), Patch(none, Sched("every", 2), TRUE) }
Refused == { Patch(FALSE, none, FALSE), Patch(TRUE, none, FALSE) }
=============================================================================
