--------------------------- MODULE MCAnnounceQueue ---------------------------
(* AnnounceQueue on a small instance: a run of one session, a run of      *)
(* another, and announcements for the first, all in one global lane.       *)
EXTENDS AnnounceQueue

CONSTANTS r1, r2, a1, a2, a3, s1, s2, main, chanA, chanB, unkeyed, unroutable

MCSessionOf == [r \in Runs |-> IF r = r2 THEN s2 ELSE s1]
MCGlobalOf == [r \in Runs |-> main]
MCRouteOf == [a \in Announcements |-> IF a = a3 THEN chanB ELSE chanA]

Setting(mode, drop, cap) == [mode |-> mode, drop |-> drop, cap |-> cap]

(* What a directive or a change of the configuration may mix: the second   *)
(* announcement drops the first, and the third finds the summary unsent.   *)
MCSettingsOf ==
  [a \in Announcements |->
     CASE a = a1 -> { Setting("collect", "summarize", 2) }
       [] a = a2 -> { Setting("followup", "summarize", 1) }
       [] OTHER  -> { Setting("collect", "summarize", 2), Setting("steer", "old", 1),
                      Setting("followup", "new", 1) }]
=============================================================================
