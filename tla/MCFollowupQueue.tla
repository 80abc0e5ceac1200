--------------------------- MODULE MCFollowupQueue ---------------------------
(* FollowupQueue on small instances: messages from two targets, one of     *)
(* which the provider delivers twice, and one without a target.            *)
EXTENDS FollowupQueue

CONSTANTS m1, m2, m3, m4, id1, id2, id3, id4, chanA, chanB, unkeyed, unroutable

(* m3 is a redelivery of m2.                                               *)
RedeliveredIdOf ==
  [m \in Msgs |-> CASE m = m1 -> id1 [] m \in {m2, m3} -> id2 [] OTHER -> id4]
MixedRouteOf ==
  [m \in Msgs |-> CASE m = m1 -> unkeyed [] m = m4 -> chanB [] OTHER -> chanA]

(* Every message has its own id and the same target.                       *)
DistinctIdOf == [m \in Msgs |-> CASE m = m1 -> id1 [] m = m2 -> id2 [] OTHER -> id3]
OneRouteOf == [m \in Msgs |-> chanA]

Setting(mode, drop, cap) == [mode |-> mode, drop |-> drop, cap |-> cap]

(* Everything that may be mixed: modes, policies and caps, which a         *)
(* directive or a change of the configuration gives a single message.      *)
MixedSettingsOf ==
  [m \in Msgs |->
     CASE m = m1 -> { Setting("collect", "summarize", 2), Setting("interrupt", "old", 1) }
       [] m = m2 -> { Setting("collect", "summarize", 2), Setting("steer", "new", 1),
                      Setting("followup", "old", 1) }
       [] m = m3 -> { Setting("collect", "summarize", 2), Setting("followup", "old", 1) }
       [] OTHER  -> { Setting("followup", "summarize", 1), Setting("collect", "summarize", 2) }]

CollectOnly == [m \in Msgs |-> { Setting("collect", "summarize", 2) }]
=============================================================================
