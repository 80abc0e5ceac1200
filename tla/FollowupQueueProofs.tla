------------------------- MODULE FollowupQueueProofs -------------------------
(***************************************************************************)
(* Proofs about FollowupQueue, for any finite set of messages with any     *)
(* ids, routes and settings, and any bound on the queue objects.           *)
(*                                                                         *)
(* The invariant has two halves that hardly meet: LaneGood, of the runs    *)
(* and the session lane, and QueuesGood, of the queues and the messages    *)
(* in them.  Both are stated of values instead of variables, so that a     *)
(* lemma speaks of the values before and after a step.                     *)
(***************************************************************************)
EXTENDS FollowupQueue, ListProofs

-----------------------------------------------------------------------------
(* The queues.                                                             *)

QueueType ==
  [items : Seq(Msgs), mode : Modes, drop : Drops, cap : Nat \ {0}, dropped : Nat,
   summary : Seq(Msgs), hasRun : BOOLEAN]

(* The queue lists W, and has dropped and not told U.                      *)
Tidy(q, W, U) ==
  /\ q \in QueueType
  /\ Lists(q.items, W)
  /\ q.dropped = Cardinality(U)
  /\ \A i \in 1..Len(q.summary) : q.summary[i] \in U

(* No message of W is a redelivery of another.                             *)
Distinct(W) == \A a, b \in W : SameMessage(a, b) => a = b

WaitIn(p, h, q) == { m \in Msgs : p[m] = "queued" /\ h[m] = q }
UntoldOf(p, h, q) == { m \in Msgs : p[m] = "dropped" /\ h[m] = q }

QueuesGood(qs, p, h) ==
  \A q \in Queues : /\ Tidy(qs[q], WaitIn(p, h, q), UntoldOf(p, h, q))
                    /\ Distinct(WaitIn(p, h, q))

LEMMA MsgsFinite ==
  ASSUME NEW U \in SUBSET Msgs
  PROVE  IsFiniteSet(U)
BY FS_Subset, NamesAssumption

(* The items of a queue.                                                   *)
LEMMA ItemsListed ==
  ASSUME NEW s \in Seq(Msgs), NEW W, Lists(s, W)
  PROVE  ToSet(s) = W
BY DEF ToSet, Lists

(* Taking the first messages off a list.                                   *)
LEMMA RestQueued ==
  ASSUME NEW q \in Seq(Msgs), NEW n \in 0..Len(q), NEW W, Lists(q, W)
  PROVE  LET first == { q[i] : i \in 1..n }
             rest == SubSeq(q, n + 1, Len(q))
         IN /\ rest \in Seq(Msgs)
            /\ Len(rest) = Len(q) - n
            /\ Lists(rest, W \ first)
            /\ first \subseteq W
            /\ IsFiniteSet(first) /\ Cardinality(first) = n
BY RestListed, ZenonT(60)

(* A queue without its first item.                                         *)
LEMMA HeadTidy ==
  ASSUME NEW q, NEW W, NEW U, Tidy(q, W, U), q.items # <<>>
  PROVE  /\ Head(q.items) \in W
         /\ Tidy([q EXCEPT !.items = Tail(@)], W \ {Head(q.items)}, U)
<1>1. q \in QueueType /\ q.items \in Seq(Msgs)
  BY DEF Tidy, QueueType
<1>2. /\ Head(q.items) \in W
      /\ Lists(Tail(q.items), W \ {Head(q.items)})
      /\ Tail(q.items) \in Seq(Msgs)
  BY <1>1, TailListed DEF Tidy
<1> QED
  BY <1>1, <1>2 DEF Tidy, QueueType

(* An emptied queue.                                                       *)
LEMMA EmptiedTidy ==
  ASSUME NEW q, NEW W, NEW U, Tidy(q, W, U)
  PROVE  Tidy([q EXCEPT !.items = <<>>], {}, U)
<1>1. q \in QueueType
  BY DEF Tidy
<1>2. <<>> \in Seq(Msgs) /\ Lists(<<>>, {})
  BY DEF Lists
<1> QED
  BY <1>1, <1>2 DEF Tidy, QueueType

(* A queue that is told to be empty and to have dropped nothing.           *)
LEMMA ClearedTidy ==
  ASSUME NEW q, NEW W, NEW U, Tidy(q, W, U)
  PROVE  Tidy(Cleared(q), {}, {})
<1> DEFINE e == <<>>
           b == FALSE
           new == [q EXCEPT !.items = e, !.dropped = 0, !.summary = e, !.hasRun = b]
<1>1. q \in QueueType
  BY DEF Tidy
<1>2. e \in Seq(Msgs) /\ Lists(e, {}) /\ Len(e) = 0 /\ b \in BOOLEAN
  BY DEF Lists
<1>3. 0 = Cardinality({})
  BY FS_EmptySet
<1> HIDE DEF e, b
<1>4. new \in QueueType
  BY <1>1, <1>2 DEF QueueType
<1>5. new.items = e /\ new.dropped = 0 /\ new.summary = e
  BY <1>1 DEF QueueType
<1> HIDE DEF new
<1>6. \A i \in 1..Len(new.summary) : new.summary[i] \in {}
  BY <1>2, <1>5
<1>7. Tidy(new, {}, {})
  BY <1>2, <1>3, <1>4, <1>5, <1>6 DEF Tidy
<1> QED
  BY <1>7 DEF new, e, b, Cleared

(* A summary is built.                                                     *)
LEMMA SummarizedTidy ==
  ASSUME NEW q, NEW W, NEW U, Tidy(q, W, U)
  PROVE  /\ Tidy(Summarized(q), W, IF CanSummarize(q) THEN {} ELSE U)
         /\ Summarized(q).items = q.items
<1>1. CASE ~ CanSummarize(q)
  BY <1>1 DEF Summarized
<1>2. CASE CanSummarize(q)
  <2> DEFINE e == <<>>
             new == [q EXCEPT !.dropped = 0, !.summary = e]
  <2>1. q \in QueueType /\ Summarized(q) = new
    BY <1>2 DEF Tidy, Summarized
  <2>2. 0 = Cardinality({})
    BY FS_EmptySet
  <2>3. e \in Seq(Msgs) /\ Len(e) = 0
    OBVIOUS
  <2> HIDE DEF e
  <2>4. new \in QueueType
    BY <2>1, <2>3 DEF QueueType
  <2>5. new.items = q.items /\ new.dropped = 0 /\ new.summary = e
    BY <2>1 DEF QueueType
  <2> HIDE DEF new
  <2>6. \A i \in 1..Len(new.summary) : new.summary[i] \in {}
    BY <2>3, <2>5
  <2>7. Tidy(new, W, {})
    BY <2>2, <2>4, <2>5, <2>6 DEF Tidy
  <2> QED
    BY <1>2, <2>1, <2>5, <2>7
<1> QED
  BY <1>1, <1>2

(* The settings of a queue change.                                         *)
LEMMA SettingsTidy ==
  ASSUME NEW q, NEW W, NEW U, Tidy(q, W, U), NEW s \in [mode : Modes, drop : Drops, cap : Nat \ {0}]
  PROVE  LET new == [q EXCEPT !.mode = s.mode, !.drop = s.drop, !.cap = s.cap]
         IN Tidy(new, W, U) /\ new.items = q.items /\ new.drop = s.drop
BY DEF Tidy, QueueType

LEMMA HasRunTidy ==
  ASSUME NEW q, NEW W, NEW U, Tidy(q, W, U)
  PROVE  Tidy([q EXCEPT !.hasRun = TRUE], W, U)
BY DEF Tidy, QueueType

(* A message is put at the end.                                            *)
LEMMA AppendTidy ==
  ASSUME NEW q, NEW W, NEW U, Tidy(q, W, U), NEW m \in Msgs, m \notin W
  PROVE  Tidy([q EXCEPT !.items = Append(@, m), !.hasRun = TRUE], W \cup {m}, U)
<1> DEFINE more == Append(q.items, m)
           b == TRUE
           new == [q EXCEPT !.items = more, !.hasRun = b]
<1>1. q \in QueueType /\ q.items \in Seq(Msgs) /\ b \in BOOLEAN
  BY DEF Tidy, QueueType
<1>2. Lists(more, W \cup {m}) /\ more \in Seq(Msgs)
  BY <1>1, AppendListed DEF Tidy
<1> HIDE DEF more, b
<1>3. new \in QueueType
  BY <1>1, <1>2 DEF QueueType
<1>4. new.items = more /\ new.dropped = q.dropped /\ new.summary = q.summary
  BY <1>1 DEF QueueType
<1> HIDE DEF new
<1>5. Tidy(new, W \cup {m}, U)
  BY <1>2, <1>3, <1>4 DEF Tidy
<1> QED
  BY <1>5 DEF new, more, b

(* The drop policy takes items off, and counts them when it summarizes.    *)
LEMMA DropTidy ==
  ASSUME NEW q, NEW W \in SUBSET Msgs, NEW U \in SUBSET Msgs, W \cap U = {}, Tidy(q, W, U)
  PROVE  LET kept == DropOldest(q)
             gone == ToSet(q.items) \ ToSet(kept.items)
         IN /\ gone \subseteq W
            /\ Tidy(kept, W \ gone, IF q.drop = "summarize" THEN U \cup gone ELSE U)
<1> DEFINE kept == DropOldest(q)
           gone == ToSet(q.items) \ ToSet(kept.items)
           n == IF Overflow(q) THEN Len(q.items) - q.cap + 1 ELSE 0
           first == { q.items[i] : i \in 1..n }
           rest == SubSeq(q.items, n + 1, Len(q.items))
           lines == q.summary \o SubSeq(q.items, 1, n)
           excess == IF Len(lines) > q.cap THEN Len(lines) - q.cap ELSE 0
           told == SubSeq(lines, excess + 1, Len(lines))
<1>0. /\ q \in QueueType
      /\ q.items \in Seq(Msgs) /\ q.cap \in Nat /\ q.cap >= 1
      /\ q.dropped \in Nat /\ q.summary \in Seq(Msgs)
      /\ Len(q.items) \in Nat
  BY DEF Tidy, QueueType
<1>1. n \in 0..Len(q.items)
  BY <1>0 DEF Overflow
<1> HIDE DEF n
<1>2. /\ rest \in Seq(Msgs)
      /\ Lists(rest, W \ first)
      /\ first \subseteq W
      /\ IsFiniteSet(first) /\ Cardinality(first) = n
  BY <1>0, <1>1, RestQueued DEF Tidy
<1>3. kept.items = rest
  BY <1>0 DEF DropOldest, QueueType, n
<1>4. gone = first
  <2> HIDE DEF kept, rest
  <2>1. ToSet(q.items) = W
    BY <1>0, ItemsListed DEF Tidy
  <2>2. ToSet(kept.items) = W \ first
    BY <1>2, <1>3, ItemsListed
  <2> QED
    BY <2>1, <2>2, <1>2
<1>5. ASSUME q.drop # "summarize"
      PROVE  Tidy(kept, W \ gone, U)
  <2>1. kept = [q EXCEPT !.items = rest]
    BY <1>5, <1>0 DEF DropOldest, QueueType, n
  <2> HIDE DEF rest, first
  <2>2. kept \in QueueType
    BY <2>1, <1>0, <1>2 DEF QueueType
  <2>3. kept.dropped = q.dropped /\ kept.summary = q.summary
    BY <2>1, <1>0 DEF QueueType
  <2> HIDE DEF kept, gone
  <2> QED
    BY <1>2, <1>3, <1>4, <2>2, <2>3 DEF Tidy
<1>6. ASSUME q.drop = "summarize"
      PROVE  Tidy(kept, W \ gone, U \cup gone)
  <2>1. kept = [q EXCEPT !.items = rest, !.dropped = q.dropped + n, !.summary = told]
    BY <1>6, <1>0 DEF DropOldest, QueueType, n
  <2>2. /\ lines \in Seq(Msgs)
        /\ \A i \in 1..Len(lines) : lines[i] \in U \cup first
    <3> DEFINE p == SubSeq(q.items, 1, n)
    <3>1. /\ p \in Seq(Msgs)
          /\ Len(p) = n
          /\ \A i \in 1..n : p[i] = q.items[i]
      BY <1>0, <1>1
    <3>2. \A i \in 1..Len(q.summary) : q.summary[i] \in U \cup first
      BY DEF Tidy
    <3>3. \A i \in 1..n : q.items[i] \in U \cup first
      OBVIOUS
    <3> HIDE DEF p, first
    <3>4. \A i \in 1..Len(p) : p[i] \in U \cup first
      BY <3>1, <3>3
    <3>5. /\ q.summary \o p \in Seq(Msgs)
          /\ \A i \in 1..Len(q.summary \o p) : (q.summary \o p)[i] \in U \cup first
      BY <1>0, <3>1, <3>2, <3>4, JoinedEntries
    <3> QED
      BY <3>5 DEF p
  <2>3. /\ told \in Seq(Msgs)
        /\ \A i \in 1..Len(told) : told[i] \in U \cup first
    <3> HIDE DEF lines
    <3>1. Len(lines) \in Nat /\ excess \in Nat /\ excess <= Len(lines)
      BY <2>2, <1>0
    <3> HIDE DEF excess
    <3>2. excess + 1 \in 1..(Len(lines) + 1)
      BY <3>1
    <3>3. /\ told = [i \in 1..(Len(lines) - excess) |-> lines[excess + i]]
          /\ Len(told) = Len(lines) - excess
          /\ told \in Seq(Msgs)
      BY <2>2, <3>1, <3>2
    <3>4. \A i \in 1..(Len(lines) - excess) : excess + i \in 1..Len(lines)
      BY <3>1
    <3> QED
      BY <2>2, <3>3, <3>4
  <2>4. Cardinality(U \cup first) = q.dropped + n
    <3>1. IsFiniteSet(U) /\ U \cap first = {}
      BY <1>2, MsgsFinite
    <3>2. Cardinality(U \cup first)
            = Cardinality(U) + Cardinality(first) - Cardinality(U \cap first)
      BY <3>1, <1>2, FS_Union
    <3>3. Cardinality(U \cap first) = 0
      BY <3>1, FS_EmptySet
    <3>4. Cardinality(U) = q.dropped
      BY DEF Tidy
    <3>5. n \in Nat
      BY <1>0, <1>1
    <3> QED
      BY <3>2, <3>3, <3>4, <3>5, <1>0, <1>2
  <2>5. q.dropped + n \in Nat
    BY <1>0, <1>1
  <2> HIDE DEF first, rest, told, gone
  <2>6. kept \in QueueType
    BY <2>1, <2>3, <2>5, <1>0, <1>2 DEF QueueType
  <2>7. kept.dropped = q.dropped + n /\ kept.summary = told
    BY <2>1, <1>0 DEF QueueType
  <2> HIDE DEF kept
  <2> QED
    BY <1>2, <1>3, <1>4, <2>3, <2>4, <2>6, <2>7 DEF Tidy
<1> QED
  BY <1>2, <1>4, <1>5, <1>6

-----------------------------------------------------------------------------
(* What a step may do to the queues.                                       *)

(* The step is about messages that are in no queue.                        *)
LEMMA QueuesKept ==
  ASSUME NEW qs, NEW p, NEW h, NEW p2, NEW h2, QueuesGood(qs, p, h),
         \A m \in Msgs : /\ p2[m] = "queued" <=> p[m] = "queued"
                         /\ p2[m] = "dropped" <=> p[m] = "dropped"
                         /\ p[m] \in {"queued", "dropped"} => h2[m] = h[m]
  PROVE  QueuesGood(qs, p2, h2)
<1>1. \A q : WaitIn(p2, h2, q) = WaitIn(p, h, q) /\ UntoldOf(p2, h2, q) = UntoldOf(p, h, q)
  BY DEF WaitIn, UntoldOf
<1> QED
  BY <1>1 DEF QueuesGood

(* The step changes one queue.                                             *)
LEMMA QueueChanged ==
  ASSUME NEW qs, NEW p, NEW h, NEW p2, NEW h2, NEW q \in Queues, NEW rec,
         QueuesGood(qs, p, h), DOMAIN qs = Queues,
         Tidy(rec, WaitIn(p2, h2, q), UntoldOf(p2, h2, q)),
         Distinct(WaitIn(p2, h2, q)),
         \A k \in Queues \ {q} : /\ WaitIn(p2, h2, k) = WaitIn(p, h, k)
                                 /\ UntoldOf(p2, h2, k) = UntoldOf(p, h, k)
  PROVE  QueuesGood([qs EXCEPT ![q] = rec], p2, h2)
<1> SUFFICES ASSUME NEW k \in Queues
             PROVE  /\ Tidy([qs EXCEPT ![q] = rec][k], WaitIn(p2, h2, k), UntoldOf(p2, h2, k))
                    /\ Distinct(WaitIn(p2, h2, k))
  BY DEF QueuesGood
<1>1. CASE k = q
  BY <1>1
<1>2. CASE k # q
  <2>1. [qs EXCEPT ![q] = rec][k] = qs[k]
    BY <1>2
  <2>2. Tidy(qs[k], WaitIn(p, h, k), UntoldOf(p, h, k)) /\ Distinct(WaitIn(p, h, k))
    BY DEF QueuesGood
  <2> QED
    BY <1>2, <2>1, <2>2
<1> QED
  BY <1>1, <1>2

(* A hand-over of queue q takes its batch out and tells what it dropped.   *)
LEMMA RecordFacts ==
  ASSUME NEW q \in Queues, NEW batch \in Seq(Msgs), NEW summarized,
         pc \in [Msgs -> MsgPc], home \in [Msgs -> 0..MaxQueues],
         ToSet(batch) \subseteq WaitIn(pc, home, q),
         Record(q, batch, summarized)
  PROVE  /\ pc' \in [Msgs -> MsgPc] /\ home' \in [Msgs -> 0..MaxQueues]
         /\ WaitIn(pc', home', q) = WaitIn(pc, home, q) \ ToSet(batch)
         /\ UntoldOf(pc', home', q) = IF summarized THEN {} ELSE UntoldOf(pc, home, q)
         /\ \A k \in Queues \ {q} : /\ WaitIn(pc', home', k) = WaitIn(pc, home, k)
                                    /\ UntoldOf(pc', home', k) = UntoldOf(pc, home, k)
         /\ \A m \in Msgs : \/ pc'[m] = pc[m]
                            \/ pc[m] \in {"queued", "dropped"} /\ pc'[m] \in {"handed", "summarized"}
         /\ \A m \in Msgs : home'[m] \in {0, home[m]}
<1> DEFINE B == ToSet(batch)
           told == IF summarized THEN UntoldOf(pc, home, q) ELSE {}
<1>1. /\ pc' = [m \in Msgs |-> IF m \in B THEN "handed"
                               ELSE IF m \in told THEN "summarized" ELSE pc[m]]
      /\ home' = [m \in Msgs |-> IF m \in B \cup told THEN 0 ELSE home[m]]
  BY DEF Record, UntoldOf
<1>2. /\ \A m \in B : m \in Msgs /\ pc[m] = "queued" /\ home[m] = q
      /\ \A m \in told : m \in Msgs /\ pc[m] = "dropped" /\ home[m] = q
  BY DEF WaitIn, UntoldOf
<1>3. q # 0 /\ 0 \in 0..MaxQueues
  BY NamesAssumption DEF Queues
<1>4. \A m \in UntoldOf(pc, home, q) : summarized => m \in told
  OBVIOUS
<1> HIDE DEF B, told
<1>5. pc' \in [Msgs -> MsgPc] /\ home' \in [Msgs -> 0..MaxQueues]
  BY <1>1, <1>3 DEF MsgPc
<1>6. WaitIn(pc', home', q) = WaitIn(pc, home, q) \ B
  BY <1>1, <1>2, <1>3 DEF WaitIn
<1>7. UntoldOf(pc', home', q) = IF summarized THEN {} ELSE UntoldOf(pc, home, q)
  <2>1. CASE summarized
    BY <2>1, <1>1, <1>2, <1>4 DEF UntoldOf
  <2>2. CASE ~ summarized
    <3>1. told = {}
      BY <2>2 DEF told
    <3> QED
      BY <2>2, <3>1, <1>1, <1>2 DEF UntoldOf
  <2> QED
    BY <2>1, <2>2
<1>8. ASSUME NEW k \in Queues \ {q}
      PROVE  /\ WaitIn(pc', home', k) = WaitIn(pc, home, k)
             /\ UntoldOf(pc', home', k) = UntoldOf(pc, home, k)
  BY <1>1, <1>2, <1>8 DEF WaitIn, UntoldOf
<1>9. /\ \A m \in Msgs : \/ pc'[m] = pc[m]
                         \/ pc[m] \in {"queued", "dropped"} /\ pc'[m] \in {"handed", "summarized"}
      /\ \A m \in Msgs : home'[m] \in {0, home[m]}
  BY <1>1, <1>2
<1> QED
  BY <1>5, <1>6, <1>7, <1>8, <1>9 DEF B

-----------------------------------------------------------------------------
(* The lane.                                                               *)

Actors == Msgs \cup Queues

(* Where a message or a loop is: Place of any values of pc and loops.      *)
Spot(p, l, x) == IF x \in Msgs THEN p[x] ELSE l[x].pc

InLine(p, l) == { x \in Actors : Spot(p, l, x) = "lane" }
Served(p, l) == { x \in Actors : Spot(p, l, x) \in Holding }

LaneGood(p, l, ln) ==
  /\ ln \in Seq(Actors)
  /\ Lists(ln, InLine(p, l))
  /\ \A x, y \in Served(p, l) : x = y
  /\ ln # <<>> => Served(p, l) # {}

LEMMA SlotFreeIs == SlotFree <=> Served(pc, loops) = {}
<1>1. \A x \in Queues : x \notin Msgs
  BY NamesAssumption DEF Queues
<1> QED
  BY <1>1 DEF SlotFree, Served, Spot, Actors

(* Nobody comes to the lane or leaves it.                                  *)
LEMMA LaneKept ==
  ASSUME NEW p, NEW l, NEW p2, NEW l2, NEW ln, LaneGood(p, l, ln),
         \A x \in Actors : /\ Spot(p2, l2, x) = "lane" <=> Spot(p, l, x) = "lane"
                           /\ Spot(p2, l2, x) \in Holding <=> Spot(p, l, x) \in Holding
  PROVE  LaneGood(p2, l2, ln)
<1>1. InLine(p2, l2) = InLine(p, l) /\ Served(p2, l2) = Served(p, l)
  BY DEF InLine, Served
<1> QED
  BY <1>1 DEF LaneGood

(* The lane is cleared: who waits in it leaves.                            *)
LEMMA LaneCleared ==
  ASSUME NEW p, NEW l, NEW p2, NEW l2, NEW ln, LaneGood(p, l, ln),
         \A x \in Actors : /\ Spot(p2, l2, x) # "lane"
                           /\ Spot(p2, l2, x) \in Holding => Spot(p, l, x) \in Holding
  PROVE  LaneGood(p2, l2, <<>>)
<1>1. InLine(p2, l2) = {} /\ Served(p2, l2) \subseteq Served(p, l)
  BY DEF InLine, Served
<1> QED
  BY <1>1 DEF LaneGood, Lists

(* One who was neither comes to the lane, and begins if its slot is free.  *)
LEMMA LaneJoined ==
  ASSUME NEW p, NEW l, NEW p2, NEW l2, NEW ln, LaneGood(p, l, ln),
         NEW x \in Actors, Spot(p, l, x) \notin Holding \cup {"lane"},
         Served(p, l) = {} => Spot(p2, l2, x) = "prep",
         Served(p, l) # {} => Spot(p2, l2, x) = "lane",
         \A y \in Actors \ {x} :
            /\ Spot(p2, l2, y) = "lane" <=> Spot(p, l, y) = "lane"
            /\ Spot(p2, l2, y) \in Holding <=> Spot(p, l, y) \in Holding
  PROVE  /\ Served(p, l) = {} => LaneGood(p2, l2, ln)
         /\ Served(p, l) # {} => LaneGood(p2, l2, Append(ln, x))
<1>1. /\ ln \in Seq(Actors) /\ Lists(ln, InLine(p, l))
      /\ \A y, z \in Served(p, l) : y = z
      /\ ln # <<>> => Served(p, l) # {}
      /\ x \notin InLine(p, l) /\ x \notin Served(p, l)
  BY DEF LaneGood, InLine, Served
<1>2. CASE Served(p, l) = {}
  <2>1. Spot(p2, l2, x) = "prep"
    BY <1>2
  <2>2. InLine(p2, l2) = InLine(p, l)
    BY <2>1, <1>1 DEF InLine
  <2>3. Served(p2, l2) = {x}
    BY <2>1, <1>2 DEF Served, Holding
  <2> QED
    BY <1>1, <1>2, <2>2, <2>3 DEF LaneGood
<1>3. CASE Served(p, l) # {}
  <2>1. Spot(p2, l2, x) = "lane"
    BY <1>3
  <2>2. InLine(p2, l2) = InLine(p, l) \cup {x}
    BY <2>1 DEF InLine
  <2>3. Served(p2, l2) = Served(p, l)
    BY <2>1, <1>1 DEF Served, Holding
  <2>4. Lists(Append(ln, x), InLine(p, l) \cup {x}) /\ Append(ln, x) \in Seq(Actors)
    BY <1>1, AppendListed
  <2> QED
    BY <1>1, <1>3, <2>2, <2>3, <2>4 DEF LaneGood
<1> QED
  BY <1>2, <1>3

(* The run that has the slot ends, and the first in line gets it.          *)
LEMMA LanePassedOn ==
  ASSUME NEW p, NEW l, NEW p2, NEW l2, NEW ln, LaneGood(p, l, ln),
         NEW x \in Actors, Spot(p, l, x) = "active", Spot(p2, l2, x) = "closing",
         ln # <<>>, Head(ln) # x => Spot(p2, l2, Head(ln)) = "prep",
         \A y \in Actors \ {x, Head(ln)} : Spot(p2, l2, y) = Spot(p, l, y)
  PROVE  LaneGood(p2, l2, Tail(ln))
<1>1. /\ ln \in Seq(Actors) /\ Lists(ln, InLine(p, l))
      /\ \A y, z \in Served(p, l) : y = z
  BY DEF LaneGood
<1>2. /\ Tail(ln) \in Seq(Actors) /\ Head(ln) \in Actors /\ Head(ln) \in InLine(p, l)
      /\ Lists(Tail(ln), InLine(p, l) \ {Head(ln)})
  BY <1>1, TailListed
<1>3. Head(ln) # x /\ Spot(p2, l2, Head(ln)) = "prep" /\ Spot(p, l, Head(ln)) = "lane"
  BY <1>2 DEF InLine
<1>4. InLine(p2, l2) = InLine(p, l) \ {Head(ln)}
  BY <1>3 DEF InLine
<1>5. Served(p, l) = {x}
  BY <1>1 DEF Served, Holding
<1>6. Served(p2, l2) = {Head(ln)}
  BY <1>2, <1>3, <1>5 DEF Served, Holding
<1> QED
  BY <1>2, <1>4, <1>6 DEF LaneGood

(* Or the lane is empty.                                                   *)
LEMMA LaneLeft ==
  ASSUME NEW p, NEW l, NEW p2, NEW l2, LaneGood(p, l, <<>>),
         NEW x \in Actors, Spot(p, l, x) = "active", Spot(p2, l2, x) = "closing",
         \A y \in Actors \ {x} : Spot(p2, l2, y) = Spot(p, l, y)
  PROVE  LaneGood(p2, l2, <<>>)
<1>1. InLine(p2, l2) = InLine(p, l)
  BY DEF InLine
<1>2. Served(p2, l2) \subseteq Served(p, l)
  BY DEF Served, Holding
<1> QED
  BY <1>1, <1>2 DEF LaneGood

-----------------------------------------------------------------------------
(* The inductive invariant.                                                *)

LoopType == [pc : LoopPc, force : BOOLEAN, batch : Seq(Msgs)]

Typed ==
  /\ current \in 0..created /\ created \in 0..MaxQueues
  /\ queues \in [Queues -> QueueType]
  /\ loops \in [Queues -> LoopType]
  /\ pc \in [Msgs -> MsgPc]
  /\ look \in [Msgs -> [active : BOOLEAN, settings : Settings]]
  /\ home \in [Msgs -> 0..MaxQueues]

(* No message is of a queue that was not made yet.                         *)
HomesMade == \A m \in Msgs : home[m] <= created

(* What one prompt puts together.                                          *)
OneRoute(batch) ==
  LET routes == { RouteOf[batch[i]] : i \in DOMAIN batch }
  IN Len(batch) > 1 => Cardinality(routes) = 1 /\ Unroutable \notin routes

Collected(l) == \A q \in Queues : OneRoute(l[q].batch)

IInv ==
  /\ Typed
  /\ LaneGood(pc, loops, lane)
  /\ QueuesGood(queues, pc, home)
  /\ HomesMade
  /\ Collected(loops)

(* A queue that was just made.                                             *)
LEMMA NoQueueTidy == NoQueue \in QueueType /\ Tidy(NoQueue, {}, {})
<1> DEFINE e == <<>>
           b == FALSE
<1>1. e \in Seq(Msgs) /\ Lists(e, {}) /\ Len(e) = 0 /\ b \in BOOLEAN
  BY DEF Lists
<1>2. 0 = Cardinality({})
  BY FS_EmptySet
<1> HIDE DEF e, b
<1>3. NoQueue = [items |-> e, mode |-> "collect", drop |-> "summarize", cap |-> 1,
                 dropped |-> 0, summary |-> e, hasRun |-> b]
  BY DEF NoQueue, e, b
<1>4. NoQueue \in QueueType
  BY <1>1, <1>3 DEF QueueType, Modes, Drops
<1>5. NoQueue.items = e /\ NoQueue.dropped = 0 /\ NoQueue.summary = e
  BY <1>3
<1>6. \A i \in 1..Len(NoQueue.summary) : NoQueue.summary[i] \in {}
  BY <1>1, <1>5
<1> QED
  BY <1>1, <1>2, <1>4, <1>5, <1>6 DEF Tidy

LEMMA InitIInv == Init => IInv
<1> SUFFICES ASSUME Init PROVE IInv
  OBVIOUS
<1>1. 0 \in 0..MaxQueues /\ \A q \in Queues : q # 0
  BY NamesAssumption DEF Queues
<1>2. NoQueue \in QueueType /\ Tidy(NoQueue, {}, {})
  BY NoQueueTidy
<1>3. Off \in LoopType /\ Off.pc = "off" /\ Off.batch = <<>>
  BY DEF Off, LoopType, LoopPc
<1>4. ASSUME NEW m \in Msgs PROVE NoLook \in [active : BOOLEAN, settings : Settings]
  <2>1. \E s : s \in Settings
    BY SettingsAssumption DEF Settings
  <2>2. (CHOOSE s \in Settings : TRUE) \in Settings
    BY <2>1
  <2> QED
    BY <2>2 DEF NoLook
<1>5. Typed
  BY <1>1, <1>2, <1>3, <1>4 DEF Init, Typed, MsgPc
<1>6. LaneGood(pc, loops, lane)
  <2>1. \A x \in Actors : Spot(pc, loops, x) \in {"new", "off"}
    BY <1>3 DEF Init, Spot, Actors
  <2>2. InLine(pc, loops) = {} /\ Served(pc, loops) = {}
    BY <2>1 DEF InLine, Served, Holding
  <2> QED
    BY <2>2 DEF Init, LaneGood, Lists
<1>7. QueuesGood(queues, pc, home)
  <2>1. \A q : WaitIn(pc, home, q) = {} /\ UntoldOf(pc, home, q) = {}
    BY DEF Init, WaitIn, UntoldOf
  <2> QED
    BY <2>1, <1>2 DEF Init, QueuesGood, Distinct
<1>8. HomesMade
  BY DEF Init, HomesMade
<1>9. Collected(loops)
  BY <1>3 DEF Init, Collected, OneRoute
<1> QED
  BY <1>5, <1>6, <1>7, <1>8, <1>9 DEF IInv

-----------------------------------------------------------------------------
(* The changes of the loops that do not touch the lane.                    *)

Busy == {"lane", "prep", "active"}

(* Every loop stays where it is, or goes from rest to rest.                *)
Rests(l, l2) ==
  /\ l2 \in [Queues -> LoopType]
  /\ \A q \in Queues : l2[q].pc = l[q].pc \/ (l[q].pc \notin Busy /\ l2[q].pc \notin Busy)
  /\ \A q \in Queues : l2[q].batch \in {l[q].batch, <<>>}

LEMMA RestsCollected ==
  ASSUME NEW l, NEW l2, Rests(l, l2), Collected(l)
  PROVE  Collected(l2)
<1>1. OneRoute(<<>>)
  BY DEF OneRoute
<1> QED
  BY <1>1 DEF Rests, Collected

LEMMA OffType == Off \in LoopType /\ Off.pc = "off" /\ Off.batch = <<>>
BY DEF Off, LoopType, LoopPc

LEMMA ScheduledRests ==
  ASSUME NEW cur \in 0..MaxQueues, NEW qs, NEW l \in [Queues -> LoopType]
  PROVE  LET r == Scheduled(cur, qs, l)
         IN r.current \in {0, cur} /\ Rests(l, r.loops)
<1>1. Rests(l, l)
  BY DEF Rests
<1>2. CASE cur = 0 \/ l[cur].pc # "off"
  BY <1>1, <1>2 DEF Scheduled
<1>3. CASE ~ (cur = 0 \/ l[cur].pc # "off")
  <2> DEFINE d == [Off EXCEPT !.pc = "debounce"]
             l2 == [l EXCEPT ![cur] = d]
  <2>1. cur \in Queues /\ l[cur].pc = "off"
    BY <1>3 DEF Queues
  <2>2. d \in LoopType /\ d.pc = "debounce" /\ d.batch = <<>>
    BY OffType DEF LoopType, LoopPc
  <2> HIDE DEF d
  <2>3. l2 \in [Queues -> LoopType] /\ l2[cur] = d /\ \A k \in Queues : k # cur => l2[k] = l[k]
    BY <2>1, <2>2
  <2> HIDE DEF l2
  <2>4. Rests(l, l2)
    BY <2>1, <2>2, <2>3 DEF Rests, Busy
  <2>5. Scheduled(cur, qs, l) \in { [current |-> cur, loops |-> l2], [current |-> 0, loops |-> l] }
    BY <1>3 DEF Scheduled, l2, d
  <2> QED
    BY <1>1, <2>4, <2>5
<1> QED
  BY <1>2, <1>3

LEMMA EndedRests ==
  ASSUME NEW q \in Queues, NEW cur \in 0..MaxQueues, NEW qs, NEW l \in [Queues -> LoopType],
         l[q].pc \notin Busy
  PROVE  LET r == Ended(q, cur, qs, l)
         IN r.current \in {0, cur} /\ Rests(l, r.loops)
<1> DEFINE l2 == [l EXCEPT ![q] = Off]
<1>1. l2 \in [Queues -> LoopType] /\ l2[q] = Off /\ \A k \in Queues : k # q => l2[k] = l[k]
  BY OffType
<1>2. Rests(l, l2)
  BY <1>1, OffType DEF Rests, Busy
<1> HIDE DEF l2
<1>3. CASE HasWork(qs[q])
  <2> DEFINE r == Scheduled(cur, qs, l2)
  <2>1. Ended(q, cur, qs, l) = r
    BY <1>3 DEF Ended, l2
  <2>2. r.current \in {0, cur} /\ Rests(l2, r.loops)
    BY <1>1, ScheduledRests
  <2> HIDE DEF r
  <2>3. Rests(l, r.loops)
    BY <1>2, <2>2 DEF Rests
  <2> QED
    BY <2>1, <2>2, <2>3
<1>4. CASE ~ HasWork(qs[q])
  BY <1>2, <1>4 DEF Ended, l2
<1> QED
  BY <1>3, <1>4

(* A step in which loops rest, the lane stays and messages come and go     *)
(* outside of the lane keeps the runs in order.                            *)
LEMMA RestsKeepLane ==
  ASSUME NEW p, NEW l, NEW ln, NEW p2, NEW l2, LaneGood(p, l, ln), Rests(l, l2),
         \A m \in Msgs : p2[m] = p[m] \/ (p[m] \notin Busy /\ p2[m] \notin Busy)
  PROVE  LaneGood(p2, l2, ln)
<1>1. ASSUME NEW x \in Actors
      PROVE  \/ Spot(p2, l2, x) = Spot(p, l, x)
             \/ Spot(p, l, x) \notin Busy /\ Spot(p2, l2, x) \notin Busy
  BY DEF Rests, Spot, Actors
<1> QED
  BY <1>1, LaneKept DEF Busy, Holding

-----------------------------------------------------------------------------
(* Arrival.                                                                *)

LEMMA HungFacts ==
  ASSUME Typed
  PROVE  /\ HungMsgs(pc) \in [Msgs -> MsgPc] /\ HungLoops(loops) \in [Queues -> LoopType]
         /\ \A m \in Msgs : HungMsgs(pc)[m] = pc[m] \/ (pc[m] = "lane" /\ HungMsgs(pc)[m] = "hung")
         /\ \A m \in Msgs : HungMsgs(pc)[m] # "lane"
         /\ \A q \in Queues : /\ HungLoops(loops)[q].batch = loops[q].batch
                              /\ \/ HungLoops(loops)[q].pc = loops[q].pc
                                 \/ loops[q].pc = "lane" /\ HungLoops(loops)[q].pc = "hung"
                              /\ HungLoops(loops)[q].pc # "lane"
BY DEF Typed, HungMsgs, HungLoops, MsgPc, LoopType, LoopPc

LEMMA LookIInv ==
  ASSUME IInv, NEW m \in Msgs, NEW s \in SettingsOf[m], Look(m, s)
  PROVE  IInv'
<1>0. /\ Typed /\ LaneGood(pc, loops, lane) /\ QueuesGood(queues, pc, home)
      /\ HomesMade /\ Collected(loops)
      /\ pc[m] = "new" /\ pc \in [Msgs -> MsgPc] /\ loops \in [Queues -> LoopType]
      /\ UNCHANGED <<current, created, queues, home>>
  BY DEF IInv, Typed, Look
<1>1. look' \in [Msgs -> [active : BOOLEAN, settings : Settings]]
  <2>1. s \in Settings
    BY SettingsAssumption DEF Settings
  <2>2. IsActive \in BOOLEAN
    BY DEF IsActive
  <2>3. look' = [look EXCEPT ![m] = [active |-> IsActive, settings |-> s]]
    BY DEF Look
  <2> HIDE DEF IsActive
  <2>4. [active |-> IsActive, settings |-> s] \in [active : BOOLEAN, settings : Settings]
    BY <2>1, <2>2
  <2> QED
    BY <2>3, <2>4, <1>0 DEF Typed
<1>2. CASE s.mode = "interrupt"
  <2>1. /\ pc' = [HungMsgs(pc) EXCEPT ![m] = "looked"]
        /\ loops' = HungLoops(loops) /\ lane' = <<>>
    BY <1>2 DEF Look
  <2>2. /\ pc' \in [Msgs -> MsgPc] /\ loops' \in [Queues -> LoopType]
        /\ \A x \in Msgs : \/ pc'[x] = pc[x]
                           \/ pc[x] = "lane" /\ pc'[x] = "hung"
                           \/ pc[x] = "new" /\ pc'[x] = "looked"
        /\ \A x \in Msgs : pc'[x] # "lane"
    BY <2>1, <1>0, HungFacts DEF MsgPc
  <2>3. LaneGood(pc', loops', lane')
    <3>1. ASSUME NEW x \in Actors
          PROVE  /\ Spot(pc', loops', x) # "lane"
                 /\ Spot(pc', loops', x) \in Holding => Spot(pc, loops, x) \in Holding
      BY <1>0, <2>1, <2>2, HungFacts DEF Spot, Actors, Holding
    <3>2. LaneGood(pc', loops', <<>>)
      BY <3>1, <1>0, LaneCleared
    <3> QED
      BY <3>2, <2>1
  <2>4. QueuesGood(queues', pc', home')
    BY <1>0, <2>2, QueuesKept
  <2>5. Collected(loops')
    BY <1>0, <2>1, HungFacts DEF Collected
  <2> QED
    BY <1>0, <1>1, <2>2, <2>3, <2>4, <2>5 DEF IInv, Typed, HomesMade, Collected
<1>3. CASE s.mode # "interrupt"
  <2>1. pc' = [pc EXCEPT ![m] = "looked"] /\ UNCHANGED <<loops, lane>>
    BY <1>3 DEF Look
  <2>2. /\ pc' \in [Msgs -> MsgPc]
        /\ \A x \in Msgs : pc'[x] = pc[x] \/ (pc[x] = "new" /\ pc'[x] = "looked")
    BY <2>1, <1>0 DEF MsgPc
  <2>3. LaneGood(pc', loops', lane')
    <3>1. Rests(loops, loops')
      BY <1>0, <2>1 DEF Rests
    <3>2. \A x \in Msgs : pc'[x] = pc[x] \/ (pc[x] \notin Busy /\ pc'[x] \notin Busy)
      BY <2>2 DEF Busy
    <3> QED
      BY <1>0, <2>1, <3>1, <3>2, RestsKeepLane
  <2>4. QueuesGood(queues', pc', home')
    BY <1>0, <2>2, QueuesKept
  <2> QED
    BY <1>0, <1>1, <2>1, <2>2, <2>3, <2>4 DEF IInv, Typed, HomesMade, Collected
<1> QED
  BY <1>2, <1>3

(* The look is forgotten.                                                  *)
LEMMA ForgetType ==
  ASSUME Typed, NEW m \in Msgs, Forget(m)
  PROVE  look' \in [Msgs -> [active : BOOLEAN, settings : Settings]]
<1>1. (CHOOSE s \in Settings : TRUE) \in Settings
  <2>1. \E s : s \in Settings
    BY SettingsAssumption DEF Settings
  <2> QED
    BY <2>1
<1>2. NoLook \in [active : BOOLEAN, settings : Settings]
  BY <1>1 DEF NoLook
<1> QED
  BY <1>2 DEF Forget, Typed

(* Steps of one message outside of queues and lane, and of resting loops.  *)
LEMMA QuietIInv ==
  ASSUME IInv,
         pc' \in [Msgs -> MsgPc],
         \A x \in Msgs : \/ pc'[x] = pc[x]
                         \/ pc[x] \notin Busy \cup {"queued", "dropped"}
                            /\ pc'[x] \notin Busy \cup {"queued", "dropped"},
         Rests(loops, loops'),
         current' \in {0, current},
         look' \in [Msgs -> [active : BOOLEAN, settings : Settings]],
         UNCHANGED <<created, queues, home, lane>>
  PROVE  IInv'
<1>1. /\ Typed /\ LaneGood(pc, loops, lane) /\ QueuesGood(queues, pc, home)
      /\ HomesMade /\ Collected(loops)
  BY DEF IInv
<1>2. Typed'
  BY <1>1, NamesAssumption DEF Typed, Rests
<1>3. LaneGood(pc', loops', lane')
  BY <1>1, RestsKeepLane
<1>4. QueuesGood(queues', pc', home')
  BY <1>1, QueuesKept
<1>5. Collected(loops')
  BY <1>1, RestsCollected
<1> QED
  BY <1>1, <1>2, <1>3, <1>4, <1>5 DEF IInv, HomesMade, Collected

LEMMA SteerIInv ==
  ASSUME IInv, NEW m \in Msgs, Steer(m)
  PROVE  IInv'
<1>1. /\ Typed /\ pc[m] = "looked" /\ pc' = [pc EXCEPT ![m] = "steered"]
      /\ UNCHANGED <<current, created, queues, loops, home, lane>> /\ Forget(m)
  BY DEF Steer, IInv
<1>2. Rests(loops, loops')
  BY <1>1 DEF Rests, Typed
<1>3. pc' \in [Msgs -> MsgPc] /\ \A x \in Msgs : x # m => pc'[x] = pc[x]
  BY <1>1 DEF Typed, MsgPc
<1>4. pc'[m] = "steered"
  BY <1>1 DEF Typed
<1> QED
  BY <1>1, <1>2, <1>3, <1>4, ForgetType, QuietIInv DEF Busy

LEMMA DirectIInv ==
  ASSUME IInv, NEW m \in Msgs, Direct(m)
  PROVE  IInv'
<1>1. /\ Typed /\ LaneGood(pc, loops, lane) /\ QueuesGood(queues, pc, home)
      /\ HomesMade /\ Collected(loops)
      /\ pc[m] = "looked" /\ pc' = [pc EXCEPT ![m] = Joined]
      /\ UNCHANGED <<current, created, queues, loops, home>> /\ Forget(m)
      /\ m \in Actors
  BY DEF Direct, IInv, Actors
<1>2. /\ Joined = IF Served(pc, loops) = {} THEN "prep" ELSE "lane"
      /\ lane' = IF Served(pc, loops) = {} THEN lane ELSE Append(lane, m)
  BY SlotFreeIs DEF Joined, Direct, Join
<1>3. /\ pc' \in [Msgs -> MsgPc] /\ pc'[m] \in {"prep", "lane"} /\ pc'[m] = Joined
      /\ \A x \in Msgs : x # m => pc'[x] = pc[x]
  BY <1>1, <1>2 DEF Typed, MsgPc
<1>4. LaneGood(pc', loops', lane')
  <2>1. \A y \in Actors \ {m} : Spot(pc', loops', y) = Spot(pc, loops, y)
    BY <1>1, <1>3 DEF Spot, Actors
  <2>2. /\ Spot(pc, loops, m) \notin Holding \cup {"lane"}
        /\ Served(pc, loops) = {} => Spot(pc', loops', m) = "prep"
        /\ Served(pc, loops) # {} => Spot(pc', loops', m) = "lane"
    BY <1>1, <1>2, <1>3 DEF Spot, Holding
  <2>3. /\ Served(pc, loops) = {} => LaneGood(pc', loops', lane)
        /\ Served(pc, loops) # {} => LaneGood(pc', loops', Append(lane, m))
    BY <1>1, <2>1, <2>2, LaneJoined
  <2> QED
    BY <2>3, <1>2
<1>5. QueuesGood(queues', pc', home')
  BY <1>1, <1>3, QueuesKept
<1>6. Typed'
  BY <1>1, <1>3, ForgetType DEF Typed
<1> QED
  BY <1>1, <1>4, <1>5, <1>6 DEF IInv, HomesMade, Collected

LEMMA SettingsTyped == Settings \subseteq [mode : Modes, drop : Drops, cap : Nat \ {0}]
BY SettingsAssumption DEF Settings

(* enqueueFollowupRun: whichever way it ends, one queue changes, and the   *)
(* messages that it drops leave it.                                        *)
LEMMA EnqueueIInv ==
  ASSUME IInv, NEW m \in Msgs, Enqueue(m)
  PROVE  IInv'
<1> DEFINE s == look[m].settings
           id == IF current = 0 THEN created + 1 ELSE current
           old == IF current = 0 THEN NoQueue ELSE queues[current]
           q == [old EXCEPT !.mode = s.mode, !.drop = s.drop, !.cap = s.cap]
           W == WaitIn(pc, home, id)
           U == UntoldOf(pc, home, id)
<1>0. /\ Typed /\ LaneGood(pc, loops, lane) /\ QueuesGood(queues, pc, home)
      /\ HomesMade /\ Collected(loops)
      /\ pc[m] = "looked" /\ UNCHANGED <<loops, lane>>
      /\ pc \in [Msgs -> MsgPc] /\ home \in [Msgs -> 0..MaxQueues]
      /\ queues \in [Queues -> QueueType] /\ loops \in [Queues -> LoopType]
  BY DEF Enqueue, IInv, Typed
<1>1. /\ id \in Queues /\ id # 0 /\ current' = id
      /\ created' = IF current = 0 THEN created + 1 ELSE created
      /\ created' \in 0..MaxQueues /\ id \in 0..created' /\ created <= created'
      /\ created \in Nat /\ created' \in Nat
  BY <1>0, NamesAssumption DEF Enqueue, Typed, Queues
<1>2. look' \in [Msgs -> [active : BOOLEAN, settings : Settings]]
  BY <1>0, ForgetType DEF Enqueue
<1>3. s \in [mode : Modes, drop : Drops, cap : Nat \ {0}]
  BY <1>0, SettingsTyped DEF Typed
<1>4. Tidy(old, W, U) /\ Distinct(W)
  <2>1. CASE current = 0
    <3>1. \A x \in Msgs : home[x] # id
      BY <2>1, <1>0, <1>1 DEF HomesMade, Typed
    <3>2. W = {} /\ U = {}
      BY <3>1 DEF WaitIn, UntoldOf
    <3> QED
      BY <2>1, <3>2, NoQueueTidy DEF Distinct
  <2>2. CASE current # 0
    BY <2>2, <1>0, <1>1 DEF QueuesGood
  <2> QED
    BY <2>1, <2>2
<1> HIDE DEF s, old
<1>5. Tidy(q, W, U) /\ q.items \in Seq(Msgs)
  <2>1. Tidy(q, W, U)
    BY <1>3, <1>4, SettingsTidy
  <2> QED
    BY <2>1 DEF Tidy, QueueType
<1>6. ToSet(q.items) = W
  BY <1>5, ItemsListed DEF Tidy
<1>7. /\ W \in SUBSET Msgs /\ U \in SUBSET Msgs /\ W \cap U = {} /\ m \notin W /\ m \notin U
      /\ \A x \in W : pc[x] = "queued" /\ home[x] = id
  BY <1>0 DEF WaitIn, UntoldOf
<1> DEFINE put(rec) == queues' = [queues EXCEPT ![id] = rec]
<1>8. \/ /\ put(q) /\ pc' = [pc EXCEPT ![m] = "skipped"] /\ UNCHANGED home
      \/ /\ put([q EXCEPT !.hasRun = TRUE])
         /\ pc' = [pc EXCEPT ![m] = "discarded"] /\ UNCHANGED home
      \/ LET kept == DropOldest(q)
             gone == ToSet(q.items) \ ToSet(kept.items)
             fate == IF q.drop = "summarize" THEN "dropped" ELSE "discarded"
         IN /\ \A x \in ToSet(q.items) : ~ SameMessage(x, m)
            /\ put([kept EXCEPT !.items = Append(@, m), !.hasRun = TRUE])
            /\ pc' = [x \in Msgs |-> IF x = m THEN "queued"
                                     ELSE IF x \in gone THEN fate ELSE pc[x]]
            /\ home' = [x \in Msgs |-> IF x = m THEN id
                                       ELSE IF x \in gone /\ fate = "discarded" THEN 0
                                       ELSE home[x]]
  BY DEF Enqueue, s, old
<1> HIDE DEF q, id, W, U
<1>9. ASSUME NEW rec, put(rec),
             pc' \in [Msgs -> MsgPc], home' \in [Msgs -> 0..MaxQueues],
             \A x \in Msgs : home'[x] \in {0, id, home[x]},
             \A x \in Msgs : pc'[x] = pc[x] \/ (pc[x] \notin Busy /\ pc'[x] \notin Busy),
             Tidy(rec, WaitIn(pc', home', id), UntoldOf(pc', home', id)),
             Distinct(WaitIn(pc', home', id)),
             \A k \in Queues \ {id} : /\ WaitIn(pc', home', k) = WaitIn(pc, home, k)
                                      /\ UntoldOf(pc', home', k) = UntoldOf(pc, home, k)
      PROVE  IInv'
  <2>1. QueuesGood([queues EXCEPT ![id] = rec], pc', home')
    BY <1>0, <1>1, <1>9, QueueChanged
  <2>2. QueuesGood(queues', pc', home')
    BY <2>1, <1>9
  <2>3. LaneGood(pc', loops', lane')
    <3>1. Rests(loops, loops')
      BY <1>0 DEF Rests
    <3> QED
      BY <3>1, <1>0, <1>9, RestsKeepLane
  <2>4. HomesMade'
    BY <1>0, <1>1, <1>9 DEF HomesMade, Typed
  <2>5. queues' \in [Queues -> QueueType]
    BY <1>0, <1>1, <1>9 DEF Tidy
  <2>6. Typed'
    BY <1>0, <1>1, <1>2, <1>9, <2>5 DEF Typed
  <2> QED
    BY <1>0, <2>2, <2>3, <2>4, <2>6 DEF IInv, Collected
(* A message that ends outside of the queue.                               *)
<1>10. ASSUME NEW rec, put(rec), Tidy(rec, W, U), NEW end \in {"skipped", "discarded"},
              pc' = [pc EXCEPT ![m] = end], UNCHANGED home
       PROVE  IInv'
  <2>1. /\ pc' \in [Msgs -> MsgPc] /\ pc'[m] = end
        /\ \A x \in Msgs : x # m => pc'[x] = pc[x]
    BY <1>0, <1>10 DEF MsgPc
  <2>2. \A k : WaitIn(pc', home', k) = WaitIn(pc, home, k) /\ UntoldOf(pc', home', k) = UntoldOf(pc, home, k)
    BY <1>0, <1>10, <2>1 DEF WaitIn, UntoldOf
  <2>3. \A x \in Msgs : pc'[x] = pc[x] \/ (pc[x] \notin Busy /\ pc'[x] \notin Busy)
    BY <1>0, <2>1 DEF Busy
  <2> QED
    BY <1>0, <1>4, <1>9, <1>10, <2>1, <2>2, <2>3 DEF W, U
<1>11. ASSUME LET kept == DropOldest(q)
                  gone == ToSet(q.items) \ ToSet(kept.items)
                  fate == IF q.drop = "summarize" THEN "dropped" ELSE "discarded"
              IN /\ \A x \in ToSet(q.items) : ~ SameMessage(x, m)
                 /\ put([kept EXCEPT !.items = Append(@, m), !.hasRun = TRUE])
                 /\ pc' = [x \in Msgs |-> IF x = m THEN "queued"
                                          ELSE IF x \in gone THEN fate ELSE pc[x]]
                 /\ home' = [x \in Msgs |-> IF x = m THEN id
                                            ELSE IF x \in gone /\ fate = "discarded" THEN 0
                                            ELSE home[x]]
       PROVE  IInv'
  <2> DEFINE kept == DropOldest(q)
             gone == ToSet(q.items) \ ToSet(kept.items)
             fate == IF q.drop = "summarize" THEN "dropped" ELSE "discarded"
             rec == [kept EXCEPT !.items = Append(@, m), !.hasRun = TRUE]
             V == IF q.drop = "summarize" THEN U \cup gone ELSE U
  <2>1. gone \subseteq W /\ Tidy(kept, W \ gone, V)
    BY <1>5, <1>7, DropTidy
  <2>2. /\ \A x \in W : ~ SameMessage(x, m)
        /\ put(rec)
        /\ pc' = [x \in Msgs |-> IF x = m THEN "queued" ELSE IF x \in gone THEN fate ELSE pc[x]]
        /\ home' = [x \in Msgs |-> IF x = m THEN id
                                   ELSE IF x \in gone /\ fate = "discarded" THEN 0 ELSE home[x]]
    BY <1>6, <1>11
  <2>3. /\ q.drop = "summarize" => fate = "dropped" /\ V = U \cup gone
        /\ q.drop # "summarize" => fate = "discarded" /\ V = U
    OBVIOUS
  <2>4. fate \in {"dropped", "discarded"}
    OBVIOUS
  <2> HIDE DEF kept, gone, fate, V
  <2>5. Tidy(rec, (W \ gone) \cup {m}, V)
    BY <2>1, <1>7, AppendTidy
  <2> HIDE DEF rec
  <2>6. /\ pc' \in [Msgs -> MsgPc] /\ home' \in [Msgs -> 0..MaxQueues]
        /\ \A x \in Msgs : home'[x] \in {0, id, home[x]}
    BY <2>2, <2>4, <1>0, <1>1, NamesAssumption DEF MsgPc, Queues
  <2>7. /\ pc'[m] = "queued" /\ home'[m] = id /\ m \notin gone
        /\ \A x \in gone : /\ x \in Msgs /\ pc[x] = "queued" /\ home[x] = id /\ pc'[x] = fate
                           /\ home'[x] = IF fate = "discarded" THEN 0 ELSE id
        /\ \A x \in Msgs \ (gone \cup {m}) : pc'[x] = pc[x] /\ home'[x] = home[x]
    BY <2>1, <2>2, <1>7
  <2>8. WaitIn(pc', home', id) = (W \ gone) \cup {m}
    BY <2>1, <2>4, <2>7, <1>7 DEF WaitIn, W
  <2>9. UntoldOf(pc', home', id) = V
    <3>1. CASE q.drop = "summarize"
      BY <3>1, <2>1, <2>3, <2>7, <1>0, <1>7 DEF UntoldOf, U
    <3>2. CASE q.drop # "summarize"
      BY <3>2, <2>1, <2>3, <2>7, <1>0, <1>7 DEF UntoldOf, U
    <3> QED
      BY <3>1, <3>2
  <2>10. ASSUME NEW k \in Queues \ {id}
         PROVE  /\ WaitIn(pc', home', k) = WaitIn(pc, home, k)
                /\ UntoldOf(pc', home', k) = UntoldOf(pc, home, k)
    <3>1. k # 0 /\ k # id
      BY NamesAssumption DEF Queues
    <3>2. \A x \in gone \cup {m} : home'[x] # k /\ (x \in gone => home[x] # k)
      BY <2>7, <3>1
    <3>3. \A x \in Msgs : /\ (pc'[x] = "queued" /\ home'[x] = k) <=> (pc[x] = "queued" /\ home[x] = k)
                          /\ (pc'[x] = "dropped" /\ home'[x] = k) <=> (pc[x] = "dropped" /\ home[x] = k)
      BY <2>7, <3>2, <1>0
    <3> QED
      BY <3>3 DEF WaitIn, UntoldOf
  <2>11. Distinct((W \ gone) \cup {m})
    BY <1>4, <2>2 DEF Distinct, SameMessage
  <2>12. \A x \in Msgs : pc'[x] = pc[x] \/ (pc[x] \notin Busy /\ pc'[x] \notin Busy)
    BY <2>4, <2>7, <1>0 DEF Busy
  <2> QED
    BY <2>2, <2>5, <2>6, <2>8, <2>9, <2>10, <2>11, <2>12, <1>9
<1>12. Tidy([q EXCEPT !.hasRun = TRUE], W, U)
  BY <1>5, HasRunTidy
<1> QED
  BY <1>5, <1>8, <1>10, <1>11, <1>12

-----------------------------------------------------------------------------
(* The drain loop.                                                         *)

(* A queue changes and messages leave it, while loops rest.                *)
LEMMA BreakIInv ==
  ASSUME IInv, NEW q \in Queues, loops[q].pc = "debounce", NEW rest, NEW summarized \in BOOLEAN,
         Tidy(rest, WaitIn(pc, home, q), IF summarized THEN {} ELSE UntoldOf(pc, home, q)),
         Break(q, rest, summarized), UNCHANGED <<created, look>>
  PROVE  IInv'
<1>1. /\ Typed /\ LaneGood(pc, loops, lane) /\ QueuesGood(queues, pc, home)
      /\ HomesMade /\ Collected(loops)
      /\ pc \in [Msgs -> MsgPc] /\ home \in [Msgs -> 0..MaxQueues]
      /\ queues \in [Queues -> QueueType] /\ loops \in [Queues -> LoopType]
      /\ current \in 0..MaxQueues /\ current \in 0..created /\ created \in Nat
  BY NamesAssumption DEF IInv, Typed
<1>2. /\ queues' = [queues EXCEPT ![q] = rest]
      /\ Record(q, <<>>, summarized) /\ lane' = lane
  BY DEF Break
<1>3. <<>> \in Seq(Msgs) /\ ToSet(<<>>) = {}
  BY DEF ToSet
<1>4. /\ pc' \in [Msgs -> MsgPc] /\ home' \in [Msgs -> 0..MaxQueues]
      /\ WaitIn(pc', home', q) = WaitIn(pc, home, q)
      /\ UntoldOf(pc', home', q) = IF summarized THEN {} ELSE UntoldOf(pc, home, q)
      /\ \A k \in Queues \ {q} : /\ WaitIn(pc', home', k) = WaitIn(pc, home, k)
                                 /\ UntoldOf(pc', home', k) = UntoldOf(pc, home, k)
      /\ \A m \in Msgs : \/ pc'[m] = pc[m]
                         \/ pc[m] \in {"queued", "dropped"} /\ pc'[m] \in {"handed", "summarized"}
      /\ \A m \in Msgs : home'[m] \in {0, home[m]}
  <2>1. ToSet(<<>>) \subseteq WaitIn(pc, home, q)
    BY <1>3
  <2>2. WaitIn(pc, home, q) \ ToSet(<<>>) = WaitIn(pc, home, q)
    BY <1>3
  <2> QED
    BY <1>1, <1>2, <1>3, <2>1, <2>2, RecordFacts
<1>5. current' \in {0, current} /\ Rests(loops, loops')
  <2> DEFINE qs == [queues EXCEPT ![q] = rest]
             r == Ended(q, current, qs, loops)
  <2>1. current' = r.current /\ loops' = r.loops
    BY DEF Break, Apply
  <2>2. loops[q].pc \notin Busy
    BY DEF Busy
  <2> HIDE DEF qs
  <2>3. r.current \in {0, current} /\ Rests(loops, r.loops)
    BY <1>1, <2>2, EndedRests
  <2> QED
    BY <2>1, <2>3
<1>6. Distinct(WaitIn(pc', home', q)) /\ DOMAIN queues = Queues
  BY <1>1, <1>4 DEF QueuesGood
<1>7. QueuesGood([queues EXCEPT ![q] = rest], pc', home')
  BY <1>1, <1>4, <1>6, QueueChanged
<1>8. LaneGood(pc', loops', lane')
  <2>1. \A m \in Msgs : pc'[m] = pc[m] \/ (pc[m] \notin Busy /\ pc'[m] \notin Busy)
    BY <1>4 DEF Busy
  <2> QED
    BY <2>1, <1>1, <1>2, <1>5, RestsKeepLane
<1>9. rest \in QueueType
  BY DEF Tidy
<1>10. Typed'
  <2>1. queues' \in [Queues -> QueueType]
    BY <1>1, <1>2, <1>9
  <2>2. loops' \in [Queues -> LoopType]
    BY <1>5 DEF Rests
  <2>3. created' = created /\ look' = look
    OBVIOUS
  <2>4. current' \in 0..created' /\ created' \in 0..MaxQueues
    BY <1>1, <1>5, <2>3, NamesAssumption DEF Typed
  <2> QED
    BY <1>1, <1>4, <2>1, <2>2, <2>3, <2>4 DEF Typed
<1>11. HomesMade'
  BY <1>1, <1>4 DEF HomesMade, Typed
<1>12. Collected(loops')
  BY <1>1, <1>5, RestsCollected
<1> QED
  BY <1>2, <1>7, <1>8, <1>10, <1>11, <1>12 DEF IInv, Collected

(* A batch goes to the agent: the loop comes to the lane.                  *)
LEMMA HandOverIInv ==
  ASSUME IInv, NEW q \in Queues, loops[q].pc = "debounce", NEW rest, NEW batch \in Seq(Msgs),
         NEW force \in BOOLEAN, NEW summarized \in BOOLEAN,
         ToSet(batch) \subseteq WaitIn(pc, home, q), OneRoute(batch),
         Tidy(rest, WaitIn(pc, home, q) \ ToSet(batch),
              IF summarized THEN {} ELSE UntoldOf(pc, home, q)),
         HandOver(q, rest, batch, force, summarized), UNCHANGED <<created, look>>
  PROVE  IInv'
<1>1. /\ Typed /\ LaneGood(pc, loops, lane) /\ QueuesGood(queues, pc, home)
      /\ HomesMade /\ Collected(loops)
      /\ pc \in [Msgs -> MsgPc] /\ home \in [Msgs -> 0..MaxQueues]
      /\ queues \in [Queues -> QueueType] /\ loops \in [Queues -> LoopType]
      /\ created \in Nat /\ q \notin Msgs /\ q \in Actors
  <2>1. q \notin Msgs /\ q \in Actors
    BY NamesAssumption DEF Actors, Queues
  <2>2. created \in Nat
    BY NamesAssumption DEF IInv, Typed
  <2> QED
    BY <2>1, <2>2 DEF IInv, Typed
<1>2. /\ queues' = [queues EXCEPT ![q] = rest]
      /\ loops' = [loops EXCEPT ![q] = [pc |-> Joined, force |-> force, batch |-> batch]]
      /\ Record(q, batch, summarized) /\ UNCHANGED current
  BY DEF HandOver
<1>3. /\ Joined = IF Served(pc, loops) = {} THEN "prep" ELSE "lane"
      /\ lane' = IF Served(pc, loops) = {} THEN lane ELSE Append(lane, q)
  BY SlotFreeIs DEF Joined, HandOver, Join
<1>4. /\ pc' \in [Msgs -> MsgPc] /\ home' \in [Msgs -> 0..MaxQueues]
      /\ WaitIn(pc', home', q) = WaitIn(pc, home, q) \ ToSet(batch)
      /\ UntoldOf(pc', home', q) = IF summarized THEN {} ELSE UntoldOf(pc, home, q)
      /\ \A k \in Queues \ {q} : /\ WaitIn(pc', home', k) = WaitIn(pc, home, k)
                                 /\ UntoldOf(pc', home', k) = UntoldOf(pc, home, k)
      /\ \A m \in Msgs : \/ pc'[m] = pc[m]
                         \/ pc[m] \in {"queued", "dropped"} /\ pc'[m] \in {"handed", "summarized"}
      /\ \A m \in Msgs : home'[m] \in {0, home[m]}
  BY <1>1, <1>2, RecordFacts
<1>5. Distinct(WaitIn(pc', home', q)) /\ DOMAIN queues = Queues
  BY <1>1, <1>4 DEF QueuesGood, Distinct
<1>6. QueuesGood([queues EXCEPT ![q] = rest], pc', home')
  BY <1>1, <1>4, <1>5, QueueChanged, ZenonT(60)
<1>7. Joined \in {"prep", "lane"}
  BY <1>3
<1> HIDE DEF Joined
<1>8. /\ loops' \in [Queues -> LoopType]
      /\ loops'[q].pc = Joined /\ loops'[q].batch = batch
      /\ \A k \in Queues : k # q => loops'[k] = loops[k]
  <2> DEFINE new == [pc |-> Joined, force |-> force, batch |-> batch]
  <2>1. new \in LoopType /\ new.pc = Joined /\ new.batch = batch
    BY <1>7 DEF LoopType, LoopPc
  <2> HIDE DEF new
  <2>2. loops' = [loops EXCEPT ![q] = new]
    BY <1>2 DEF new
  <2> QED
    BY <2>1, <2>2, <1>1
<1>9. LaneGood(pc', loops', lane')
  <2>1. \A y \in Actors \ {q} : /\ Spot(pc', loops', y) = "lane" <=> Spot(pc, loops, y) = "lane"
                                /\ Spot(pc', loops', y) \in Holding <=> Spot(pc, loops, y) \in Holding
    BY <1>4, <1>8 DEF Spot, Actors, Holding
  <2>2. /\ Spot(pc, loops, q) \notin Holding \cup {"lane"}
        /\ Served(pc, loops) = {} => Spot(pc', loops', q) = "prep"
        /\ Served(pc, loops) # {} => Spot(pc', loops', q) = "lane"
    BY <1>1, <1>3, <1>8 DEF Spot, Holding
  <2>3. /\ Served(pc, loops) = {} => LaneGood(pc', loops', lane)
        /\ Served(pc, loops) # {} => LaneGood(pc', loops', Append(lane, q))
    BY <1>1, <2>1, <2>2, LaneJoined
  <2> QED
    BY <2>3, <1>3
<1>10. rest \in QueueType
  BY DEF Tidy
<1>11. Typed'
  BY <1>1, <1>2, <1>4, <1>8, <1>10 DEF Typed
<1>12. HomesMade'
  <2>1. created' = created
    OBVIOUS
  <2>2. ASSUME NEW m \in Msgs PROVE home'[m] <= created
    <3>1. home'[m] = 0 \/ home'[m] = home[m]
      BY <1>4
    <3>2. home[m] <= created /\ created \in Nat
      BY <1>1 DEF HomesMade
    <3> QED
      BY <3>1, <3>2
  <2> QED
    BY <2>1, <2>2 DEF HomesMade
<1>13. Collected(loops')
  BY <1>1, <1>8 DEF Collected
<1> QED
  BY <1>2, <1>6, <1>9, <1>11, <1>12, <1>13 DEF IInv, Collected

LEMMA SpinIInv ==
  ASSUME IInv, NEW q \in Queues, loops[q].pc = "debounce", Spin(q), UNCHANGED <<created, look>>
  PROVE  IInv'
<1>1. Typed /\ loops \in [Queues -> LoopType] /\ pc \in [Msgs -> MsgPc]
  BY DEF IInv, Typed
<1>2. loops' = [loops EXCEPT ![q].pc = "spin"] /\ UNCHANGED <<current, created, queues, pc, look, home, lane>>
  BY DEF Spin
<1>3. [loops[q] EXCEPT !.pc = "spin"] \in LoopType
  BY <1>1 DEF LoopType, LoopPc
<1>4. /\ loops' \in [Queues -> LoopType] /\ loops'[q].pc = "spin" /\ loops'[q].batch = loops[q].batch
      /\ \A k \in Queues : k # q => loops'[k] = loops[k]
  BY <1>1, <1>2, <1>3 DEF LoopType
<1>5. Rests(loops, loops')
  BY <1>4 DEF Rests, Busy
<1> QED
  BY <1>1, <1>2, <1>5, QuietIInv DEF Typed

(* Messages that go out as one come from one place.                        *)
LEMMA UnmixedOneRoute ==
  ASSUME NEW items \in Seq(Msgs), ~ Mixed(items)
  PROVE  OneRoute(items)
<1> DEFINE R == { RouteOf[items[i]] : i \in DOMAIN items }
           K == R \ {Unkeyed, Unroutable}
<1> SUFFICES ASSUME Len(items) > 1 PROVE Cardinality(R) = 1 /\ Unroutable \notin R
  BY DEF OneRoute
<1>1. R = { RouteOf[m] : m \in ToSet(items) }
  BY DEF ToSet
<1>2. Unroutable \notin R /\ (K # {} => Unkeyed \notin R) /\ ~ Cardinality(K) > 1
  BY <1>1 DEF Mixed, CrossChannel
<1>3. IsFiniteSet(R)
  <2>1. ToSet(items) \subseteq Msgs
    BY DEF ToSet
  <2>2. IsFiniteSet(ToSet(items))
    BY <2>1, MsgsFinite
  <2>3. IsFiniteSet({ RouteOf[m] : m \in ToSet(items) })
    <3> DEFINE T == ToSet(items)
               I == { RouteOf[m] : m \in T }
               f == [m \in T |-> RouteOf[m]]
    <3> HIDE DEF T
    <3>1. f \in [T -> I] /\ \A r \in I : \E m \in T : f[m] = r
      OBVIOUS
    <3>2. f \in Surjection(T, I)
      BY <3>1 DEF Surjection
    <3>3. IsFiniteSet(T)
      BY <2>2 DEF T
    <3> HIDE DEF f, I
    <3>4. IsFiniteSet(I)
      BY <3>2, <3>3, FS_Surjection
    <3> QED
      BY <3>4 DEF T, I
  <2> QED
    BY <1>1, <2>3
<1>4. R # {}
  <2>1. 1 \in DOMAIN items
    OBVIOUS
  <2> QED
    BY <2>1
<1> HIDE DEF R
<1>5. CASE K = {}
  <2>1. R = {Unkeyed}
    BY <1>2, <1>4, <1>5
  <2> QED
    BY <1>2, <2>1, FS_Singleton
<1>6. CASE K # {}
  <2>1. R = K
    BY <1>2, <1>6
  <2>2. Cardinality(R) \in Nat /\ Cardinality(R) # 0
    BY <1>3, <1>4, FS_CardinalityType, FS_EmptySet
  <2> QED
    BY <1>2, <2>1, <2>2, SMTT(30)
<1> QED
  BY <1>5, <1>6

(* One message, with or without a summary of others, has one route.        *)
LEMMA ShortOneRoute ==
  ASSUME NEW batch \in Seq(Msgs), Len(batch) <= 1
  PROVE  OneRoute(batch)
BY DEF OneRoute

LEMMA OneIInv ==
  ASSUME IInv, NEW q \in Queues, loops[q].pc = "debounce", NEW force \in BOOLEAN,
         One(q, force), UNCHANGED <<created, look>>
  PROVE  IInv'
<1> DEFINE s == queues[q]
           W == WaitIn(pc, home, q)
           U == UntoldOf(pc, home, q)
           b == FALSE
<1>1. Tidy(s, W, U) /\ s.items \in Seq(Msgs) /\ b \in BOOLEAN
  BY DEF IInv, QueuesGood, Typed, QueueType
<1>2. U = IF b THEN {} ELSE U
  OBVIOUS
<1>3. CASE /\ s.items # <<>>
           /\ HandOver(q, [s EXCEPT !.items = Tail(@)], <<Head(s.items)>>, force, b)
  <2> DEFINE rest == [s EXCEPT !.items = Tail(@)]
             batch == <<Head(s.items)>>
  <2>1. Head(s.items) \in W /\ Tidy(rest, W \ {Head(s.items)}, U)
    BY <1>1, <1>3, HeadTidy
  <2>2. Head(s.items) \in Msgs
    BY <2>1 DEF WaitIn
  <2>3. batch \in Seq(Msgs) /\ Len(batch) <= 1 /\ ToSet(batch) = {Head(s.items)}
    BY <2>2 DEF ToSet
  <2>4. HandOver(q, rest, batch, force, b)
    BY <1>3
  <2> HIDE DEF rest, batch, b, s
  <2>5. OneRoute(batch) /\ ToSet(batch) \subseteq W
    BY <2>1, <2>3, ShortOneRoute
  <2>6. Tidy(rest, W \ ToSet(batch), IF b THEN {} ELSE U)
    BY <2>1, <2>3, <1>2
  <2> HIDE DEF W, U
  <2> QED
    BY <1>1, <2>3, <2>4, <2>5, <2>6, HandOverIInv DEF W, U
<1>4. CASE s.items = <<>> /\ Spin(q)
  BY <1>4, SpinIInv
<1>5. CASE s.items = <<>> /\ Break(q, s, b)
  <2> HIDE DEF b
  <2>1. Tidy(s, W, IF b THEN {} ELSE U)
    BY <1>1, <1>2
  <2> QED
    BY <2>1, <1>1, <1>5, BreakIInv
<1> QED
  BY <1>3, <1>4, <1>5 DEF One

(* One pass of the loop.                                                   *)
LEMMA WakeIInv ==
  ASSUME IInv, NEW q \in Queues, Wake(q)
  PROVE  IInv'
<1> DEFINE s == queues[q]
           force == loops[q].force
           summed == Summarized(s)
           W == WaitIn(pc, home, q)
           U == UntoldOf(pc, home, q)
           told == CanSummarize(s)
           emptied == [summed EXCEPT !.items = <<>>]
           none == <<>>
           no == FALSE
           yes == TRUE
<1>1. /\ loops[q].pc = "debounce" /\ UNCHANGED <<created, look>>
      /\ force \in BOOLEAN /\ no \in BOOLEAN /\ yes \in BOOLEAN
  BY DEF Wake, IInv, Typed, LoopType
<1>2. Tidy(s, W, U) /\ s.items \in Seq(Msgs) /\ ToSet(s.items) = W
  <2>1. Tidy(s, W, U) /\ s.items \in Seq(Msgs)
    BY DEF IInv, QueuesGood, Tidy, QueueType
  <2> QED
    BY <2>1, ItemsListed DEF Tidy
<1>3. told \in BOOLEAN
  BY DEF CanSummarize
<1>4. /\ none \in Seq(Msgs) /\ ToSet(none) = {} /\ OneRoute(none)
      /\ ToSet(none) \subseteq W /\ W \ ToSet(none) = W
  BY DEF ToSet, OneRoute
<1>5. Tidy(summed, W, IF told THEN {} ELSE U)
  BY <1>2, SummarizedTidy
<1>6. \/ One(q, yes)
      \/ One(q, force)
      \/ ~ Mixed(s.items) /\ HandOver(q, emptied, s.items, no, told)
      \/ s.items = none /\ Break(q, emptied, told)
      \/ told /\ HandOver(q, summed, none, force, told)
      \/ told /\ Break(q, summed, told)
  BY DEF Wake
<1> HIDE DEF told, summed, no, yes, none, force, s
<1>7. Tidy(emptied, {}, IF told THEN {} ELSE U)
  BY <1>5, EmptiedTidy
<1> HIDE DEF emptied
<1>8. CASE One(q, yes)
  BY <1>1, <1>8, OneIInv
<1>9. CASE One(q, force)
  BY <1>1, <1>9, OneIInv
<1>10. CASE ~ Mixed(s.items) /\ HandOver(q, emptied, s.items, no, told)
  <2>1. OneRoute(s.items)
    BY <1>2, <1>10, UnmixedOneRoute
  <2>2. W \ ToSet(s.items) = {} /\ ToSet(s.items) \subseteq W
    BY <1>2
  <2>3. Tidy(emptied, W \ ToSet(s.items), IF told THEN {} ELSE U)
    BY <1>7, <2>2
  <2> QED
    BY <1>1, <1>2, <1>3, <1>10, <2>1, <2>2, <2>3, HandOverIInv
<1>11. CASE s.items = none /\ Break(q, emptied, told)
  <2>1. Tidy(emptied, W, IF told THEN {} ELSE U)
    BY <1>2, <1>4, <1>7, <1>11
  <2> QED
    BY <1>1, <1>3, <1>11, <2>1, BreakIInv
<1>12. CASE HandOver(q, summed, none, force, told)
  <2>1. Tidy(summed, W \ ToSet(none), IF told THEN {} ELSE U)
    BY <1>4, <1>5
  <2> QED
    BY <1>1, <1>3, <1>4, <1>12, <2>1, HandOverIInv
<1>13. CASE Break(q, summed, told)
  BY <1>1, <1>3, <1>5, <1>13, BreakIInv
<1> QED
  BY <1>6, <1>8, <1>9, <1>10, <1>11, <1>12, <1>13

(* The finally block and scheduleFollowupDrain, with no other change.      *)
LEMMA EndedIInv ==
  ASSUME IInv, NEW q \in Queues, loops[q].pc \notin Busy,
         Apply(Ended(q, current, queues, loops)),
         UNCHANGED <<created, queues, pc, look, home, lane>>
  PROVE  IInv'
<1>1. /\ loops \in [Queues -> LoopType] /\ current \in 0..MaxQueues
      /\ pc \in [Msgs -> MsgPc] /\ Typed
  BY NamesAssumption DEF IInv, Typed
<1> DEFINE r == Ended(q, current, queues, loops)
<1>2. current' = r.current /\ loops' = r.loops
  BY DEF Apply
<1>3. r.current \in {0, current} /\ Rests(loops, r.loops)
  BY <1>1, EndedRests
<1> HIDE DEF r
<1> QED
  BY <1>1, <1>2, <1>3, QuietIInv DEF Typed

LEMMA ResumeIInv ==
  ASSUME IInv, NEW q \in Queues, Resume(q)
  PROVE  IInv'
<1>1. /\ loops[q].pc = "closing" /\ UNCHANGED <<created, queues, pc, look, home, lane>>
      /\ loops \in [Queues -> LoopType] /\ pc \in [Msgs -> MsgPc] /\ Typed
  BY DEF Resume, IInv, Typed
<1>2. CASE HasWork(queues[q])
  <2> DEFINE e == <<>>
             new == [loops[q] EXCEPT !.pc = "debounce", !.batch = e]
  <2>1. loops' = [loops EXCEPT ![q] = new] /\ current' = current
    BY <1>1, <1>2 DEF Resume
  <2>2. e \in Seq(Msgs)
    OBVIOUS
  <2> HIDE DEF e
  <2>3. new \in LoopType /\ new.pc = "debounce" /\ new.batch = e
    BY <1>1, <2>2 DEF LoopType, LoopPc
  <2> HIDE DEF new
  <2>4. /\ loops' \in [Queues -> LoopType] /\ loops'[q] = new
        /\ \A k \in Queues : k # q => loops'[k] = loops[k]
    BY <1>1, <2>1, <2>3
  <2>5. Rests(loops, loops')
    BY <1>1, <2>3, <2>4 DEF Rests, Busy, e
  <2> QED
    BY <1>1, <2>1, <2>5, QuietIInv DEF Typed
<1>3. CASE ~ HasWork(queues[q])
  BY <1>1, <1>3, EndedIInv DEF Resume, Busy
<1> QED
  BY <1>2, <1>3

LEMMA FollowupThrowsIInv ==
  ASSUME IInv, NEW q \in Queues, FollowupThrows(q)
  PROVE  IInv'
BY EndedIInv DEF FollowupThrows, Busy

-----------------------------------------------------------------------------
(* The runs of the session.                                                *)

LEMMA FinalizeIInv ==
  ASSUME IInv, NEW m \in Msgs, Finalize(m)
  PROVE  IInv'
<1>1. /\ loops \in [Queues -> LoopType] /\ current \in 0..MaxQueues
      /\ pc \in [Msgs -> MsgPc] /\ Typed /\ pc[m] = "closing"
      /\ pc' = [pc EXCEPT ![m] = "done"]
      /\ UNCHANGED <<created, queues, look, home, lane>>
  BY NamesAssumption DEF IInv, Typed, Finalize
<1> DEFINE r == Scheduled(current, queues, loops)
<1>2. current' = r.current /\ loops' = r.loops
  BY DEF Finalize, Apply
<1>3. r.current \in {0, current} /\ Rests(loops, r.loops)
  BY <1>1, ScheduledRests
<1> HIDE DEF r
<1>4. /\ pc' \in [Msgs -> MsgPc] /\ pc'[m] = "done"
      /\ \A x \in Msgs : x # m => pc'[x] = pc[x]
  BY <1>1 DEF MsgPc
<1>5. \A x \in Msgs : \/ pc'[x] = pc[x]
                      \/ pc[x] \notin Busy \cup {"queued", "dropped"}
                         /\ pc'[x] \notin Busy \cup {"queued", "dropped"}
  BY <1>1, <1>4 DEF Busy
<1> QED
  BY <1>1, <1>2, <1>3, <1>4, <1>5, QuietIInv DEF Typed

LEMMA ReplyThrowsIInv ==
  ASSUME IInv, NEW m \in Msgs, ReplyThrows(m)
  PROVE  IInv'
<1>1. /\ loops \in [Queues -> LoopType] /\ Typed
      /\ pc \in [Msgs -> MsgPc] /\ pc[m] = "closing"
      /\ pc' = [pc EXCEPT ![m] = "failed"]
      /\ UNCHANGED <<current, created, queues, loops, look, home, lane>>
  BY DEF IInv, Typed, ReplyThrows
<1>2. Rests(loops, loops')
  BY <1>1 DEF Rests
<1>3. /\ pc' \in [Msgs -> MsgPc] /\ pc'[m] = "failed"
      /\ \A x \in Msgs : x # m => pc'[x] = pc[x]
  BY <1>1 DEF MsgPc
<1>4. \A x \in Msgs : \/ pc'[x] = pc[x]
                      \/ pc[x] \notin Busy \cup {"queued", "dropped"}
                         /\ pc'[x] \notin Busy \cup {"queued", "dropped"}
  BY <1>1, <1>3 DEF Busy
<1> QED
  BY <1>1, <1>2, <1>3, <1>4, QuietIInv DEF Typed

(* What a move from the slot's places to the next changes.                 *)
LEMMA MoveFacts ==
  ASSUME IInv, NEW x \in Actors, NEW to \in {"active", "closing"}, NEW next \in SUBSET InLine(pc, loops),
         Spot(pc, loops, x) \in Holding, Move(x, to, next)
  PROVE  /\ pc' \in [Msgs -> MsgPc] /\ loops' \in [Queues -> LoopType]
         /\ Spot(pc', loops', x) = to
         /\ \A y \in Actors \ {x} : Spot(pc', loops', y) = IF y \in next THEN "prep" ELSE Spot(pc, loops, y)
         /\ \A m \in Msgs : \/ pc'[m] = pc[m]
                            \/ pc[m] \notin {"queued", "dropped"} /\ pc'[m] \notin {"queued", "dropped"}
         /\ \A q \in Queues : loops'[q].batch = loops[q].batch
<1>1. /\ pc \in [Msgs -> MsgPc] /\ loops \in [Queues -> LoopType]
      /\ \A m \in Msgs : m \notin Queues
  BY NamesAssumption DEF IInv, Typed, Queues
<1>2. \A y \in next : y \in Actors /\ Spot(pc, loops, y) = "lane"
  BY DEF InLine
<1>3. ASSUME NEW p \in {"active", "closing", "prep"}, NEW q \in Queues
      PROVE  /\ [loops[q] EXCEPT !.pc = p] \in LoopType
             /\ [loops[q] EXCEPT !.pc = p].pc = p
             /\ [loops[q] EXCEPT !.pc = p].batch = loops[q].batch
  BY <1>1 DEF LoopType, LoopPc
<1>4. ASSUME NEW m \in Msgs
      PROVE  /\ pc'[m] = IF m = x THEN to ELSE IF m \in next THEN "prep" ELSE pc[m]
             /\ pc'[m] \in MsgPc
  BY <1>1 DEF Move, MsgPc
<1>5. pc' \in [Msgs -> MsgPc]
  BY <1>4 DEF Move
<1>6. ASSUME NEW q \in Queues
      PROVE  /\ loops'[q] \in LoopType
             /\ loops'[q].pc = IF q = x THEN to ELSE IF q \in next THEN "prep" ELSE loops[q].pc
             /\ loops'[q].batch = loops[q].batch
  <2>1. loops'[q] = IF q = x THEN [loops[q] EXCEPT !.pc = to]
                    ELSE IF q \in next THEN [loops[q] EXCEPT !.pc = "prep"] ELSE loops[q]
    BY DEF Move
  <2>2. loops[q] \in LoopType
    BY <1>1
  <2>3. CASE q = x
    BY <1>3, <2>1, <2>3
  <2>4. CASE q # x /\ q \in next
    BY <1>3, <2>1, <2>4
  <2>5. CASE q # x /\ q \notin next
    BY <2>1, <2>2, <2>5
  <2> QED
    BY <2>3, <2>4, <2>5
<1>7. loops' \in [Queues -> LoopType]
  BY <1>6 DEF Move
<1>8. Spot(pc', loops', x) = to
  BY <1>4, <1>6 DEF Spot, Actors
<1>9. ASSUME NEW y \in Actors \ {x}
      PROVE  Spot(pc', loops', y) = IF y \in next THEN "prep" ELSE Spot(pc, loops, y)
  BY <1>4, <1>6 DEF Spot, Actors
<1>10. ASSUME NEW m \in Msgs
       PROVE  \/ pc'[m] = pc[m]
              \/ pc[m] \notin {"queued", "dropped"} /\ pc'[m] \notin {"queued", "dropped"}
  <2>1. m = x => pc[m] \in Holding
    BY DEF Spot
  <2>2. m \in next => pc[m] = "lane"
    BY <1>2 DEF Spot
  <2> QED
    BY <1>4, <2>1, <2>2 DEF Holding
<1> QED
  BY <1>5, <1>6, <1>7, <1>8, <1>9, <1>10

(* A move that leaves the lane in order.                                   *)
LEMMA MovedIInv ==
  ASSUME IInv, NEW x \in Actors, NEW to \in {"active", "closing"}, NEW next \in SUBSET InLine(pc, loops),
         Spot(pc, loops, x) \in Holding, Move(x, to, next),
         LaneGood(pc', loops', lane'),
         UNCHANGED <<current, created, queues, look, home>>
  PROVE  IInv'
<1>1. /\ Typed /\ QueuesGood(queues, pc, home) /\ HomesMade /\ Collected(loops)
  BY DEF IInv
<1>2. /\ pc' \in [Msgs -> MsgPc] /\ loops' \in [Queues -> LoopType]
      /\ \A m \in Msgs : \/ pc'[m] = pc[m]
                         \/ pc[m] \notin {"queued", "dropped"} /\ pc'[m] \notin {"queued", "dropped"}
      /\ \A q \in Queues : loops'[q].batch = loops[q].batch
  BY MoveFacts
<1>3. QueuesGood(queues', pc', home')
  BY <1>1, <1>2, QueuesKept
<1>4. Collected(loops')
  BY <1>1, <1>2 DEF Collected
<1>5. Typed'
  BY <1>1, <1>2 DEF Typed
<1> QED
  BY <1>1, <1>3, <1>4, <1>5 DEF IInv, HomesMade, Collected

LEMMA RegisterIInv ==
  ASSUME IInv, NEW x \in Actors, Register(x)
  PROVE  IInv'
<1> DEFINE none == {}
<1>1. /\ Spot(pc, loops, x) = "prep" /\ Move(x, "active", none)
      /\ UNCHANGED <<current, created, queues, look, home, lane>>
      /\ none \in SUBSET InLine(pc, loops) /\ LaneGood(pc, loops, lane)
  BY DEF Register, Place, Spot, IInv
<1>2. Spot(pc, loops, x) \in Holding
  BY <1>1 DEF Holding
<1>3. /\ Spot(pc', loops', x) = "active"
      /\ \A y \in Actors \ {x} : Spot(pc', loops', y) = IF y \in none THEN "prep" ELSE Spot(pc, loops, y)
  BY <1>1, <1>2, MoveFacts
<1>4. ASSUME NEW y \in Actors
      PROVE  /\ Spot(pc', loops', y) = "lane" <=> Spot(pc, loops, y) = "lane"
             /\ Spot(pc', loops', y) \in Holding <=> Spot(pc, loops, y) \in Holding
  BY <1>1, <1>3 DEF Holding
<1>5. LaneGood(pc', loops', lane)
  BY <1>1, <1>4, LaneKept
<1> HIDE DEF none
<1> QED
  BY <1>1, <1>2, <1>5, MovedIInv

LEMMA UnregisterIInv ==
  ASSUME IInv, NEW x \in Actors, Unregister(x)
  PROVE  IInv'
<1>1. /\ Spot(pc, loops, x) = "active" /\ Spot(pc, loops, x) \in Holding
      /\ UNCHANGED <<current, created, queues, look, home>> /\ LaneGood(pc, loops, lane)
  BY DEF Unregister, Place, Spot, IInv, Holding
<1>2. CASE lane = <<>>
  <2> DEFINE none == {}
  <2>1. Move(x, "closing", none) /\ lane' = lane /\ none \in SUBSET InLine(pc, loops)
    BY <1>2 DEF Unregister
  <2>2. /\ Spot(pc', loops', x) = "closing"
        /\ \A y \in Actors \ {x} : Spot(pc', loops', y) = IF y \in none THEN "prep" ELSE Spot(pc, loops, y)
    BY <1>1, <2>1, MoveFacts
  <2>3. LaneGood(pc', loops', <<>>)
    BY <1>1, <1>2, <2>2, LaneLeft
  <2> HIDE DEF none
  <2> QED
    BY <1>1, <1>2, <2>1, <2>3, MovedIInv
<1>3. CASE lane # <<>>
  <2> DEFINE first == Head(lane)
             next == {first}
  <2>1. Move(x, "closing", next) /\ lane' = Tail(lane)
    BY <1>3 DEF Unregister
  <2>2. first \in InLine(pc, loops) /\ first # x
    <3>1. lane \in Seq(Actors) /\ Lists(lane, InLine(pc, loops))
      BY <1>1 DEF LaneGood
    <3>2. 1 \in 1..Len(lane) /\ first = lane[1]
      BY <1>3, <3>1
    <3>3. first \in InLine(pc, loops)
      BY <3>1, <3>2 DEF Lists
    <3> QED
      BY <3>3, <1>1 DEF InLine
  <2>3. next \in SUBSET InLine(pc, loops)
    BY <2>2
  <2>4. /\ Spot(pc', loops', x) = "closing"
        /\ \A y \in Actors \ {x} : Spot(pc', loops', y) = IF y \in next THEN "prep" ELSE Spot(pc, loops, y)
    BY <1>1, <2>1, <2>3, MoveFacts
  <2>5. /\ Spot(pc', loops', first) = "prep"
        /\ \A y \in Actors \ {x, first} : Spot(pc', loops', y) = Spot(pc, loops, y)
    BY <2>2, <2>4 DEF InLine
  <2> HIDE DEF next
  <2>6. LaneGood(pc', loops', Tail(lane))
    BY <1>1, <1>3, <2>2, <2>4, <2>5, LanePassedOn
  <2> QED
    BY <1>1, <2>1, <2>3, <2>6, MovedIInv
<1> QED
  BY <1>2, <1>3

-----------------------------------------------------------------------------
(* /stop: every message of the key's queue leaves it at once.              *)
LEMMA StopIInv ==
  ASSUME IInv, Stop
  PROVE  IInv'
<1> DEFINE out == { m \in Msgs : home[m] = current /\ pc[m] \in {"queued", "dropped"} }
           e == <<>>
<1>1. /\ Typed /\ LaneGood(pc, loops, lane) /\ QueuesGood(queues, pc, home)
      /\ HomesMade /\ Collected(loops)
      /\ queues \in [Queues -> QueueType] /\ loops \in [Queues -> LoopType]
      /\ pc \in [Msgs -> MsgPc] /\ home \in [Msgs -> 0..MaxQueues] /\ created \in Nat
  <2>1. created \in Nat
    BY NamesAssumption DEF IInv, Typed
  <2> QED
    BY <2>1 DEF IInv, Typed
<1>2. /\ queues' = [q \in Queues |-> IF q = current THEN Cleared(queues[q]) ELSE queues[q]]
      /\ current' = 0 /\ loops' = HungLoops(loops)
      /\ pc' = [m \in Msgs |-> IF m \in out THEN "cleared" ELSE HungMsgs(pc)[m]]
      /\ home' = [m \in Msgs |-> IF m \in out THEN 0 ELSE home[m]]
      /\ lane' = e /\ UNCHANGED <<created, look>>
  BY DEF Stop
<1>3. ASSUME NEW q \in Queues PROVE Tidy(Cleared(queues[q]), {}, {})
  BY <1>1, ClearedTidy DEF QueuesGood
<1> HIDE DEF e, out
<1>4. /\ \A m \in Msgs : m \in out => /\ pc'[m] = "cleared" /\ home'[m] = 0
                                      /\ home[m] = current /\ pc[m] \in {"queued", "dropped"}
      /\ \A m \in Msgs : m \notin out =>
            /\ home'[m] = home[m]
            /\ pc'[m] = pc[m] \/ (pc[m] = "lane" /\ pc'[m] = "hung")
            /\ ~ (home[m] = current /\ pc[m] \in {"queued", "dropped"})
      /\ \A m \in Msgs : pc'[m] # "lane"
  BY <1>1, <1>2, HungFacts DEF out
<1>5. pc' \in [Msgs -> MsgPc]
  <2>1. HungMsgs(pc) \in [Msgs -> MsgPc]
    BY <1>1, HungFacts
  <2>2. "cleared" \in MsgPc
    BY DEF MsgPc
  <2> QED
    BY <1>2, <2>1, <2>2
<1>6. home' \in [Msgs -> 0..MaxQueues]
  BY <1>1, <1>2, NamesAssumption
<1>7. queues' \in [Queues -> QueueType]
  <2>1. ASSUME NEW q \in Queues PROVE queues[q] \in QueueType /\ Cleared(queues[q]) \in QueueType
    BY <1>1, <1>3 DEF Tidy
  <2> QED
    BY <2>1, <1>2
<1>8. Typed'
  <2>1. loops' \in [Queues -> LoopType]
    BY <1>1, <1>2, HungFacts
  <2> QED
    BY <1>1, <1>2, <1>5, <1>6, <1>7, <2>1 DEF Typed
<1>9. LaneGood(pc', loops', lane')
  <2>1. ASSUME NEW x \in Actors
        PROVE  /\ Spot(pc', loops', x) # "lane"
               /\ Spot(pc', loops', x) \in Holding => Spot(pc, loops, x) \in Holding
    BY <1>1, <1>2, <1>4, HungFacts DEF Spot, Actors, Holding
  <2>2. LaneGood(pc', loops', <<>>)
    BY <1>1, <2>1, LaneCleared
  <2> QED
    BY <1>2, <2>2 DEF e
<1>10. ASSUME NEW q \in Queues
       PROVE  /\ Tidy(queues'[q], WaitIn(pc', home', q), UntoldOf(pc', home', q))
              /\ Distinct(WaitIn(pc', home', q))
  <2>0. q # 0
    BY NamesAssumption DEF Queues
  <2>1. CASE q = current
    <3>1. WaitIn(pc', home', q) = {} /\ UntoldOf(pc', home', q) = {}
      BY <2>0, <2>1, <1>4 DEF WaitIn, UntoldOf
    <3>2. queues'[q] = Cleared(queues[q])
      BY <2>1, <1>2
    <3> QED
      BY <3>1, <3>2, <1>3 DEF Distinct
  <2>2. CASE q # current
    <3>1. /\ WaitIn(pc', home', q) = WaitIn(pc, home, q)
          /\ UntoldOf(pc', home', q) = UntoldOf(pc, home, q)
      BY <2>0, <2>2, <1>4 DEF WaitIn, UntoldOf
    <3>2. queues'[q] = queues[q]
      BY <2>2, <1>2
    <3> QED
      BY <3>1, <3>2, <1>1 DEF QueuesGood
  <2> QED
    BY <2>1, <2>2
<1>11. HomesMade'
  BY <1>1, <1>2, <1>4 DEF HomesMade
<1>12. Collected(loops')
  BY <1>1, <1>2, HungFacts DEF Collected
<1> QED
  BY <1>8, <1>9, <1>10, <1>11, <1>12 DEF IInv, QueuesGood, Collected

-----------------------------------------------------------------------------
LEMMA StepIInv ==
  ASSUME IInv, [Next]_vars
  PROVE  IInv'
<1>1. CASE UNCHANGED vars
  <2>1. /\ current' = current /\ created' = created /\ queues' = queues /\ loops' = loops
        /\ pc' = pc /\ look' = look /\ home' = home /\ lane' = lane
    BY <1>1 DEF vars
  <2> QED
    BY <2>1 DEF IInv, Typed, HomesMade, Collected
<1>2. ASSUME NEW m \in Msgs, NEW s \in SettingsOf[m], Look(m, s) PROVE IInv'
  BY <1>2, LookIInv
<1>3. ASSUME NEW m \in Msgs,
             Direct(m) \/ Enqueue(m) \/ Finalize(m) \/ Steer(m) \/ ReplyThrows(m)
      PROVE  IInv'
  BY <1>3, DirectIInv, EnqueueIInv, FinalizeIInv, SteerIInv, ReplyThrowsIInv
<1>4. ASSUME NEW q \in Queues, Wake(q) \/ Resume(q) \/ FollowupThrows(q) PROVE IInv'
  BY <1>4, WakeIInv, ResumeIInv, FollowupThrowsIInv
<1>5. ASSUME NEW x \in Msgs \cup Queues, Register(x) \/ Unregister(x) PROVE IInv'
  BY <1>5, RegisterIInv, UnregisterIInv DEF Actors
<1>6. CASE Stop
  BY <1>6, StopIInv
<1> QED
  BY <1>1, <1>2, <1>3, <1>4, <1>5, <1>6 DEF Next, Progress, Outside

(* The invariant that the four of the run follow from: the lane and its    *)
(* slot, the queues with what waits in them and what they dropped, and the *)
(* batches of the loops are as they should be, together.                   *)
THEOREM FollowupInvariant == Spec => []IInv
<1>1. Init => IInv
  BY InitIInv
<1>2. IInv /\ [Next]_vars => IInv'
  BY StepIInv
<1> QED
  BY <1>1, <1>2, PTL DEF Spec

(* TypeOK: the runs of messages and of drain loops share one slot of the   *)
(* session lane (process/command-queue.ts), and whoever the code believes  *)
(* to wait in the lane is in its line.                                     *)
THEOREM FollowupTypes == Spec => []TypeOK
<1>1. ASSUME IInv PROVE TypeOK
  <2> DEFINE at(places) == { x \in Msgs \cup Queues : Place(x) \in places }
  <2>1. Typed /\ LaneGood(pc, loops, lane)
    BY <1>1 DEF IInv
  <2>2. QueueType \subseteq QueueRecord
    BY DEF QueueType, QueueRecord
  <2>3. at(Holding) = Served(pc, loops) /\ at({"lane"}) = InLine(pc, loops)
    BY DEF Place, Spot, Served, InLine, Actors
  <2>4. Cardinality(Served(pc, loops)) <= 1
    <3>1. CASE Served(pc, loops) = {}
      BY <3>1, FS_EmptySet
    <3>2. CASE Served(pc, loops) # {}
      <4>1. PICK x : Served(pc, loops) = {x}
        BY <3>2, <2>1 DEF LaneGood
      <4> QED
        BY <4>1, FS_Singleton
    <3> QED
      BY <3>1, <3>2
  <2>5. lane \in Seq(Msgs \cup Queues) /\ ToSet(lane) = InLine(pc, loops)
    BY <2>1 DEF LaneGood, Lists, ToSet, Actors
  <2>6. lane # <<>> => Served(pc, loops) # {}
    BY <2>1 DEF LaneGood
  <2>7. queues \in [Queues -> QueueRecord]
    BY <2>1, <2>2 DEF Typed
  <2> HIDE DEF at
  <2>8. Cardinality(at(Holding)) <= 1 /\ ToSet(lane) = at({"lane"}) /\ (lane # <<>> => at(Holding) # {})
    BY <2>3, <2>4, <2>5, <2>6
  <2> QED
    BY <2>1, <2>5, <2>7, <2>8 DEF TypeOK, Typed, LoopType, at
<1> QED
  BY <1>1, FollowupInvariant, PTL

(* QueuedOnce: a message waits in the queue it was put in and in no other, *)
(* once, and no redelivery waits beside it, for any number of messages,    *)
(* settings and queues (enqueue.ts, "skip if already queued").             *)
THEOREM WaitsOnce == Spec => []QueuedOnce
<1>1. ASSUME IInv PROVE QueuedOnce
  <2> SUFFICES ASSUME NEW q \in Queues
               PROVE  /\ ToSet(queues[q].items) = WaitIn(pc, home, q)
                      /\ \A i, j \in DOMAIN queues[q].items :
                            SameMessage(queues[q].items[i], queues[q].items[j]) => i = j
    BY DEF QueuedOnce, WaitIn, SameMessage
  <2> DEFINE items == queues[q].items
             W == WaitIn(pc, home, q)
  <2>1. items \in Seq(Msgs) /\ Lists(items, W) /\ Distinct(W)
    BY <1>1 DEF IInv, QueuesGood, Tidy, QueueType
  <2> HIDE DEF items, W
  <2>2. ToSet(items) = W
    BY <2>1, ItemsListed
  <2>3. \A i, j \in 1..Len(items) : SameMessage(items[i], items[j]) => i = j
    BY <2>1 DEF Lists, Distinct
  <2>4. DOMAIN items = 1..Len(items)
    BY <2>1
  <2> QED
    BY <2>2, <2>3, <2>4 DEF items, W
<1> QED
  BY <1>1, FollowupInvariant, PTL

(* DropAccounting: droppedCount counts exactly the messages that were      *)
(* dropped and not yet told of (applyQueueDropPolicy, buildQueueSummary-   *)
(* Prompt), whatever settings the messages in between came with.           *)
THEOREM DropsCounted == Spec => []DropAccounting
<1>1. ASSUME IInv PROVE DropAccounting
  <2> SUFFICES ASSUME NEW q \in Queues
               PROVE  /\ queues[q].dropped = Cardinality(UntoldOf(pc, home, q))
                      /\ ToSet(queues[q].summary) \subseteq UntoldOf(pc, home, q)
    BY DEF DropAccounting, UntoldOf
  <2>1. Tidy(queues[q], WaitIn(pc, home, q), UntoldOf(pc, home, q))
    BY <1>1 DEF IInv, QueuesGood
  <2>2. queues[q].summary \in Seq(Msgs)
    BY <2>1 DEF Tidy, QueueType
  <2> QED
    BY <2>1, <2>2 DEF Tidy, ToSet
<1> QED
  BY <1>1, FollowupInvariant, PTL

(* CollectRoutes: what the loop puts together into one prompt came from    *)
(* one channel and target (hasCrossChannelItems).                          *)
THEOREM OneRoutePerPrompt == Spec => []CollectRoutes
<1>1. ASSUME IInv PROVE CollectRoutes
  BY <1>1 DEF IInv, Collected, OneRoute, CollectRoutes
<1> QED
  BY <1>1, FollowupInvariant, PTL

-----------------------------------------------------------------------------
(* Who attends to the key's queue.                                         *)

Tended(cur, qs, l) == cur = 0 \/ ~ HasWork(qs[cur]) \/ l[cur].pc # "off"

Replying(p) == \E m \in Msgs : p[m] \in {"lane", "prep", "active", "closing"}

Late(p, p2) ==
  \E m \in Msgs :
    \/ p[m] = "looked" /\ (p2[m] \in {"queued", "discarded"})
    \/ p[m] # p2[m] /\ (p2[m] \in {"failed", "hung"})

LEMMA AttendedIs ==
  /\ Attended <=> Tended(current, queues, loops) \/ Replying(pc)
  /\ Attended' <=> Tended(current', queues', loops') \/ Replying(pc')
BY DEF Attended, Tended, Replying

LEMMA ScheduledTends ==
  ASSUME NEW cur \in 0..MaxQueues, NEW qs, NEW l \in [Queues -> LoopType]
  PROVE  LET r == Scheduled(cur, qs, l) IN Tended(r.current, qs, r.loops)
<1>1. CASE cur = 0 \/ l[cur].pc # "off"
  BY <1>1 DEF Scheduled, Tended
<1>2. CASE ~ (cur = 0 \/ l[cur].pc # "off") /\ HasWork(qs[cur])
  <2> DEFINE d == [Off EXCEPT !.pc = "debounce"]
  <2>1. cur \in Queues /\ d.pc = "debounce"
    BY <1>2, OffType DEF Queues, LoopType
  <2> HIDE DEF d
  <2>2. [l EXCEPT ![cur] = d][cur] = d
    BY <2>1
  <2>3. Scheduled(cur, qs, l) = [current |-> cur, loops |-> [l EXCEPT ![cur] = d]]
    BY <1>2 DEF Scheduled, d
  <2> QED
    BY <2>1, <2>2, <2>3 DEF Tended
<1>3. CASE ~ (cur = 0 \/ l[cur].pc # "off") /\ ~ HasWork(qs[cur])
  BY <1>3 DEF Scheduled, Tended
<1> QED
  BY <1>1, <1>2, <1>3

LEMMA EndedTends ==
  ASSUME NEW q \in Queues, NEW cur \in 0..MaxQueues, NEW qs, NEW l \in [Queues -> LoopType]
  PROVE  LET r == Ended(q, cur, qs, l) IN Tended(r.current, qs, r.loops)
<1> DEFINE l2 == [l EXCEPT ![q] = Off]
<1>1. l2 \in [Queues -> LoopType]
  BY OffType
<1>2. LET r == Scheduled(cur, qs, l2) IN Tended(r.current, qs, r.loops)
  BY <1>1, ScheduledTends
<1>3. CASE HasWork(qs[q])
  BY <1>2, <1>3 DEF Ended
<1>4. CASE ~ HasWork(qs[q])
  BY <1>4 DEF Ended, Tended
<1> QED
  BY <1>3, <1>4

(* No loop stops, and no queue gets work that its loop does not see.       *)
LEMMA TendedKept ==
  ASSUME NEW cur \in 0..MaxQueues, NEW qs, NEW l, NEW qs2, NEW l2, Tended(cur, qs, l),
         \A k \in Queues : \/ l2[k].pc # "off"
                           \/ l2[k].pc = l[k].pc /\ (HasWork(qs2[k]) => HasWork(qs[k]))
  PROVE  Tended(cur, qs2, l2)
<1>1. cur = 0 \/ cur \in Queues
  BY DEF Queues
<1> QED
  BY <1>1 DEF Tended

(* A pass of the loop: hand-overs and breaks.                              *)
LEMMA HandOverAttends ==
  ASSUME IInv, Attended, NEW q \in Queues, loops[q].pc = "debounce",
         NEW rest, NEW batch \in Seq(Msgs), NEW force, NEW summarized,
         ToSet(batch) \subseteq WaitIn(pc, home, q),
         HandOver(q, rest, batch, force, summarized)
  PROVE  Attended'
<1>1. /\ loops \in [Queues -> LoopType] /\ pc \in [Msgs -> MsgPc] /\ home \in [Msgs -> 0..MaxQueues]
      /\ queues \in [Queues -> QueueType] /\ current \in 0..MaxQueues
  BY NamesAssumption DEF IInv, Typed
<1>2. /\ queues' = [queues EXCEPT ![q] = rest] /\ current' = current
      /\ loops' = [loops EXCEPT ![q] = [pc |-> Joined, force |-> force, batch |-> batch]]
      /\ Record(q, batch, summarized) /\ Joined # "off"
  BY DEF HandOver, Joined
<1>3. \A m \in Msgs : \/ pc'[m] = pc[m]
                      \/ pc[m] \in {"queued", "dropped"} /\ pc'[m] \in {"handed", "summarized"}
  BY <1>1, <1>2, RecordFacts
<1>4. CASE Replying(pc)
  BY <1>3, <1>4, AttendedIs DEF Replying
<1>5. CASE Tended(current, queues, loops)
  <2>1. \A k \in Queues : \/ loops'[k].pc # "off"
                          \/ loops'[k].pc = loops[k].pc /\ (HasWork(queues'[k]) => HasWork(queues[k]))
    BY <1>1, <1>2
  <2>2. Tended(current, queues', loops')
    BY <1>1, <1>5, <2>1, TendedKept
  <2> QED
    BY <1>2, <2>2, AttendedIs
<1> QED
  BY <1>4, <1>5, AttendedIs

LEMMA BreakAttends ==
  ASSUME IInv, NEW q \in Queues, NEW rest, NEW summarized, Break(q, rest, summarized)
  PROVE  Attended'
<1>1. loops \in [Queues -> LoopType] /\ current \in 0..MaxQueues
  BY NamesAssumption DEF IInv, Typed
<1>2. PICK qs : qs = [queues EXCEPT ![q] = rest]
  OBVIOUS
<1>3. queues' = qs /\ Apply(Ended(q, current, qs, loops))
  BY <1>2 DEF Break
<1>4. LET r == Ended(q, current, qs, loops) IN Tended(r.current, qs, r.loops)
  BY <1>1, EndedTends
<1>5. Tended(current', queues', loops')
  BY <1>3, <1>4 DEF Apply
<1> QED
  BY <1>5, AttendedIs

LEMMA SpinAttends ==
  ASSUME IInv, Attended, NEW q \in Queues, Spin(q)
  PROVE  Attended'
<1>1. /\ loops \in [Queues -> LoopType] /\ current \in 0..MaxQueues
      /\ loops' = [loops EXCEPT ![q].pc = "spin"]
      /\ current' = current /\ queues' = queues /\ pc' = pc
  BY NamesAssumption DEF IInv, Typed, Spin
<1>2. \A k \in Queues : loops'[k].pc # "off" \/ loops'[k].pc = loops[k].pc
  BY <1>1 DEF LoopType
<1>3. Tended(current, queues, loops) => Tended(current, queues, loops')
  BY <1>1, <1>2, TendedKept
<1> QED
  BY <1>1, <1>3, AttendedIs

LEMMA OneAttends ==
  ASSUME IInv, Attended, NEW q \in Queues, loops[q].pc = "debounce", NEW force, One(q, force)
  PROVE  Attended'
<1> DEFINE s == queues[q]
           b == FALSE
<1>1. Tidy(s, WaitIn(pc, home, q), UntoldOf(pc, home, q)) /\ s.items \in Seq(Msgs)
  BY DEF IInv, QueuesGood, Typed, QueueType
<1>2. CASE /\ s.items # <<>>
           /\ HandOver(q, [s EXCEPT !.items = Tail(@)], <<Head(s.items)>>, force, b)
  <2> DEFINE rest == [s EXCEPT !.items = Tail(@)]
             batch == <<Head(s.items)>>
  <2>1. Head(s.items) \in WaitIn(pc, home, q)
    BY <1>1, <1>2, HeadTidy
  <2>2. Head(s.items) \in Msgs
    BY <2>1 DEF WaitIn
  <2>3. batch \in Seq(Msgs) /\ ToSet(batch) = {Head(s.items)}
    BY <2>2 DEF ToSet
  <2>4. HandOver(q, rest, batch, force, b)
    BY <1>2
  <2> HIDE DEF rest, batch, b, s
  <2> QED
    BY <2>1, <2>3, <2>4, HandOverAttends
<1>3. CASE Spin(q)
  BY <1>3, SpinAttends
<1>4. CASE Break(q, s, b)
  BY <1>4, BreakAttends
<1> QED
  BY <1>2, <1>3, <1>4 DEF One

LEMMA WakeAttends ==
  ASSUME IInv, Attended, NEW q \in Queues, Wake(q)
  PROVE  Attended'
<1> DEFINE s == queues[q]
           force == loops[q].force
           summed == Summarized(s)
           W == WaitIn(pc, home, q)
           told == CanSummarize(s)
           emptied == [summed EXCEPT !.items = <<>>]
           none == <<>>
           no == FALSE
           yes == TRUE
<1>1. loops[q].pc = "debounce"
  BY DEF Wake
<1>2. s.items \in Seq(Msgs) /\ ToSet(s.items) = W
  <2>1. Tidy(s, W, UntoldOf(pc, home, q)) /\ s.items \in Seq(Msgs)
    BY DEF IInv, QueuesGood, Tidy, QueueType
  <2> QED
    BY <2>1, ItemsListed DEF Tidy
<1>3. none \in Seq(Msgs) /\ ToSet(none) \subseteq W
  BY DEF ToSet
<1>4. \/ One(q, yes)
      \/ One(q, force)
      \/ HandOver(q, emptied, s.items, no, told)
      \/ HandOver(q, summed, none, force, told)
      \/ Break(q, emptied, told)
      \/ Break(q, summed, told)
  BY DEF Wake
<1> HIDE DEF told, summed, no, yes, none, force, s, emptied
<1>5. CASE One(q, yes) \/ One(q, force)
  BY <1>1, <1>5, OneAttends
<1>6. CASE HandOver(q, emptied, s.items, no, told)
  BY <1>1, <1>2, <1>6, HandOverAttends
<1>7. CASE HandOver(q, summed, none, force, told)
  BY <1>1, <1>3, <1>7, HandOverAttends
<1>8. CASE Break(q, emptied, told) \/ Break(q, summed, told)
  BY <1>8, BreakAttends
<1> QED
  BY <1>4, <1>5, <1>6, <1>7, <1>8

LEMMA ResumeAttends ==
  ASSUME IInv, Attended, NEW q \in Queues, Resume(q) \/ FollowupThrows(q)
  PROVE  Attended'
<1>1. /\ loops \in [Queues -> LoopType] /\ current \in 0..MaxQueues
      /\ queues' = queues /\ pc' = pc
  BY NamesAssumption DEF IInv, Typed, Resume, FollowupThrows
<1>2. CASE Apply(Ended(q, current, queues, loops))
  <2>1. LET r == Ended(q, current, queues, loops) IN Tended(r.current, queues, r.loops)
    BY <1>1, EndedTends
  <2>2. Tended(current', queues', loops')
    BY <1>1, <1>2, <2>1 DEF Apply
  <2> QED
    BY <2>2, AttendedIs
<1>3. CASE loops' = [loops EXCEPT ![q].pc = "debounce", ![q].batch = <<>>] /\ current' = current
  <2>1. \A k \in Queues : loops'[k].pc # "off" \/ loops'[k].pc = loops[k].pc
    BY <1>1, <1>3 DEF LoopType
  <2>2. Tended(current, queues, loops) => Tended(current, queues, loops')
    BY <1>1, <2>1, TendedKept
  <2> QED
    BY <1>1, <1>3, <2>2, AttendedIs
<1> QED
  BY <1>2, <1>3 DEF Resume, FollowupThrows

(* Replies.                                                                *)
LEMMA FinalizeAttends ==
  ASSUME IInv, NEW m \in Msgs, Finalize(m)
  PROVE  Attended'
<1>1. /\ loops \in [Queues -> LoopType] /\ current \in 0..MaxQueues
      /\ queues' = queues /\ Apply(Scheduled(current, queues, loops))
  BY NamesAssumption DEF IInv, Typed, Finalize
<1>2. LET r == Scheduled(current, queues, loops) IN Tended(r.current, queues, r.loops)
  BY <1>1, ScheduledTends
<1>3. Tended(current', queues', loops')
  BY <1>1, <1>2 DEF Apply
<1> QED
  BY <1>3, AttendedIs

LEMMA MovedAttends ==
  ASSUME IInv, Attended, NEW x \in Actors, NEW to \in {"active", "closing"},
         NEW next \in SUBSET InLine(pc, loops), Spot(pc, loops, x) \in Holding, Move(x, to, next),
         UNCHANGED <<current, queues>>
  PROVE  Attended'
<1>1. /\ current \in 0..MaxQueues /\ \A m \in Msgs : m \notin Queues
  BY NamesAssumption DEF IInv, Typed, Queues
<1>2. /\ Spot(pc', loops', x) = to
      /\ \A y \in Actors \ {x} : Spot(pc', loops', y) = IF y \in next THEN "prep" ELSE Spot(pc, loops, y)
  BY MoveFacts
<1>3. ASSUME NEW y \in Actors
      PROVE  Spot(pc', loops', y) = Spot(pc, loops, y) \/ Spot(pc', loops', y) \in {"prep", "active", "closing"}
  BY <1>2
<1>4. \A m \in Msgs : pc'[m] = pc[m] \/ pc'[m] \in {"prep", "active", "closing"}
  BY <1>3 DEF Spot, Actors
<1>5. \A k \in Queues : loops'[k].pc = loops[k].pc \/ loops'[k].pc # "off"
  BY <1>1, <1>3 DEF Spot, Actors
<1>6. Replying(pc) => Replying(pc')
  BY <1>4 DEF Replying
<1>7. Tended(current, queues, loops) => Tended(current, queues, loops')
  BY <1>1, <1>5, TendedKept
<1> QED
  BY <1>6, <1>7, AttendedIs

LEMMA RunAttends ==
  ASSUME IInv, Attended, NEW x \in Actors, Register(x) \/ Unregister(x)
  PROVE  Attended'
<1> DEFINE none == {}
<1>1. /\ none \in SUBSET InLine(pc, loops) /\ LaneGood(pc, loops, lane)
      /\ Spot(pc, loops, x) \in Holding /\ UNCHANGED <<current, queues>>
  BY DEF IInv, Register, Unregister, Place, Spot, Holding
<1>2. lane # <<>> => Head(lane) \in InLine(pc, loops)
  <2>1. lane \in Seq(Actors) /\ \A i \in 1..Len(lane) : lane[i] \in InLine(pc, loops)
    BY <1>1 DEF LaneGood, Lists
  <2> QED
    BY <2>1
<1>3. \/ Move(x, "active", none)
      \/ Move(x, "closing", none)
      \/ lane # <<>> /\ Move(x, "closing", {Head(lane)})
  BY DEF Register, Unregister
<1> HIDE DEF none
<1>4. CASE Move(x, "active", none) \/ Move(x, "closing", none)
  BY <1>1, <1>4, MovedAttends
<1>5. CASE lane # <<>> /\ Move(x, "closing", {Head(lane)})
  <2>1. {Head(lane)} \in SUBSET InLine(pc, loops)
    BY <1>2, <1>5
  <2> QED
    BY <1>1, <1>5, <2>1, MovedAttends
<1> QED
  BY <1>3, <1>4, <1>5

(* Messages that arrive.                                                   *)
LEMMA LookAttends ==
  ASSUME IInv, Attended, NEW m \in Msgs, NEW s \in SettingsOf[m], Look(m, s)
  PROVE  Attended' \/ Late(pc, pc')
<1>1. /\ Typed /\ pc[m] = "new" /\ current' = current /\ queues' = queues
      /\ pc \in [Msgs -> MsgPc] /\ loops \in [Queues -> LoopType] /\ current \in 0..MaxQueues
  BY NamesAssumption DEF IInv, Typed, Look
<1>2. CASE s.mode # "interrupt"
  <2>1. pc' = [pc EXCEPT ![m] = "looked"] /\ loops' = loops
    BY <1>2 DEF Look
  <2>2. Replying(pc) => Replying(pc')
    BY <1>1, <2>1 DEF Replying
  <2> QED
    BY <1>1, <2>1, <2>2, AttendedIs
<1>3. CASE s.mode = "interrupt"
  <2>1. pc' = [HungMsgs(pc) EXCEPT ![m] = "looked"] /\ loops' = HungLoops(loops)
    BY <1>3 DEF Look
  <2>2. \A x \in Msgs \ {m} : pc'[x] = pc[x] \/ (pc[x] = "lane" /\ pc'[x] = "hung")
    BY <1>1, <2>1, HungFacts
  <2>3. \A k \in Queues : loops'[k].pc = loops[k].pc \/ loops'[k].pc # "off"
    BY <1>1, <2>1, HungFacts
  <2>4. Tended(current, queues, loops) => Tended(current, queues, loops')
    BY <1>1, <2>3, TendedKept
  <2>5. Replying(pc) => Replying(pc') \/ Late(pc, pc')
    BY <1>1, <2>2 DEF Replying, Late
  <2> QED
    BY <1>1, <2>4, <2>5, AttendedIs
<1> QED
  BY <1>2, <1>3

LEMMA EnqueueAttends ==
  ASSUME IInv, Attended, NEW m \in Msgs, Enqueue(m)
  PROVE  Attended' \/ Late(pc, pc')
<1>1. /\ pc[m] = "looked" /\ loops' = loops /\ pc \in [Msgs -> MsgPc]
      /\ queues \in [Queues -> QueueType] /\ current \in 0..MaxQueues
      /\ pc'[m] \in {"skipped", "discarded", "queued"}
  BY NamesAssumption DEF IInv, Typed, Enqueue
<1>2. CASE pc'[m] # "skipped"
  BY <1>1, <1>2 DEF Late
<1>3. CASE pc'[m] = "skipped"
  <2> DEFINE s == look[m].settings
             id == IF current = 0 THEN created + 1 ELSE current
             old == IF current = 0 THEN NoQueue ELSE queues[current]
             q == [old EXCEPT !.mode = s.mode, !.drop = s.drop, !.cap = s.cap]
  <2>1. /\ current' = id /\ (\E x \in ToSet(q.items) : SameMessage(x, m))
        /\ queues' = [queues EXCEPT ![id] = q] /\ pc' = [pc EXCEPT ![m] = "skipped"]
    BY <1>1, <1>3 DEF Enqueue
  <2>2. current # 0
    <3> SUFFICES ASSUME current = 0 PROVE FALSE
      OBVIOUS
    <3>1. q.items = <<>>
      BY DEF NoQueue
    <3> QED
      BY <2>1, <3>1 DEF ToSet
  <2>3. current \in Queues /\ id = current /\ old = queues[current]
    BY <1>1, <2>2 DEF Queues
  <2>4. HasWork(q) <=> HasWork(queues[current])
    BY <1>1, <2>3 DEF HasWork, QueueType
  <2> HIDE DEF q, s
  <2>5. queues'[current] = q /\ current' = current
    BY <1>1, <2>1, <2>3
  <2>6. Tended(current, queues, loops) => Tended(current', queues', loops')
    BY <1>1, <2>4, <2>5 DEF Tended
  <2>7. Replying(pc) => Replying(pc')
    BY <1>1, <2>1 DEF Replying
  <2> QED
    BY <2>6, <2>7, AttendedIs
<1> QED
  BY <1>2, <1>3

LEMMA OtherAttends ==
  ASSUME IInv, Attended, NEW m \in Msgs, Direct(m) \/ Steer(m) \/ ReplyThrows(m)
  PROVE  Attended' \/ Late(pc, pc')
<1>1. pc \in [Msgs -> MsgPc] /\ UNCHANGED <<current, queues, loops>>
  BY DEF IInv, Typed, Direct, Steer, ReplyThrows
<1>2. CASE Direct(m)
  <2>1. pc'[m] \in {"prep", "lane"}
    BY <1>1, <1>2 DEF Direct, Joined
  <2> QED
    BY <2>1, AttendedIs DEF Replying
<1>3. CASE Steer(m)
  <2>1. pc[m] = "looked" /\ pc' = [pc EXCEPT ![m] = "steered"]
    BY <1>3 DEF Steer
  <2>2. Replying(pc) => Replying(pc')
    BY <1>1, <2>1 DEF Replying
  <2> QED
    BY <1>1, <2>2, AttendedIs
<1>4. CASE ReplyThrows(m)
  <2>1. pc[m] = "closing" /\ pc'[m] = "failed"
    BY <1>1, <1>4 DEF ReplyThrows
  <2> QED
    BY <2>1 DEF Late
<1> QED
  BY <1>2, <1>3, <1>4

LEMMA StepAttends ==
  ASSUME IInv, Attended, [Next]_vars
  PROVE  Attended' \/ Late(pc, pc')
<1>1. CASE UNCHANGED vars
  <2>1. current' = current /\ queues' = queues /\ loops' = loops /\ pc' = pc
    BY <1>1 DEF vars
  <2> QED
    BY <2>1, AttendedIs
<1>2. ASSUME NEW m \in Msgs, NEW s \in SettingsOf[m], Look(m, s)
      PROVE  Attended' \/ Late(pc, pc')
  BY <1>2, LookAttends
<1>3. ASSUME NEW m \in Msgs,
             Direct(m) \/ Enqueue(m) \/ Finalize(m) \/ Steer(m) \/ ReplyThrows(m)
      PROVE  Attended' \/ Late(pc, pc')
  BY <1>3, OtherAttends, EnqueueAttends, FinalizeAttends
<1>4. ASSUME NEW q \in Queues, Wake(q) \/ Resume(q) \/ FollowupThrows(q) PROVE Attended'
  BY <1>4, WakeAttends, ResumeAttends
<1>5. ASSUME NEW x \in Msgs \cup Queues, Register(x) \/ Unregister(x) PROVE Attended'
  BY <1>5, RunAttends DEF Actors
<1>6. CASE Stop
  <2>1. current' = 0
    BY <1>6 DEF Stop
  <2> QED
    BY <2>1, AttendedIs DEF Tended
<1> QED
  BY <1>1, <1>2, <1>3, <1>4, <1>5, <1>6 DEF Next, Progress, Outside

(* HandoverComplete: neither finalizeWithFollowup nor the finally block of *)
(* the drain loop leaves work in the key's queue without anyone who will   *)
(* drain it.  A queue loses its last attendant only by a message that is   *)
(* queued after its reply was already gone, by a reply that throws, or by  *)
(* one that is cleared from its lane.                                      *)
THEOREM HandoversComplete == Spec => HandoverComplete
<1>1. ASSUME IInv, [Next]_vars
      PROVE  [Attended /\ ~ Attended' =>
                \E m \in Msgs :
                  \/ pc[m] = "looked" /\ (pc'[m] \in {"queued", "discarded"})
                  \/ pc[m] # pc'[m] /\ (pc'[m] \in {"failed", "hung"})]_vars
  BY <1>1, StepAttends DEF Late
<1> QED
  BY <1>1, FollowupInvariant, PTL DEF Spec, HandoverComplete

-----------------------------------------------------------------------------
(* The session lane keeps the promise of RunSerializer, as the lanes of    *)
(* CommandLanes do.  In line are whoever was given the slot and is not yet *)
(* registered, and the lane's queue behind; who is registered executes.    *)

Key == "main"

Given(p, l) == { x \in Actors : Spot(p, l, x) = "prep" }
Begun(p, l) == { x \in Actors : Spot(p, l, x) = "active" }

Waiting(p, l, ln) ==
  IF Given(p, l) = {} THEN ln ELSE <<CHOOSE x \in Given(p, l) : TRUE>> \o ln

Lines(p, l, ln) == [s \in {Key} |-> Waiting(p, l, ln)]

Serializer == INSTANCE RunSerializer WITH
  Runs <- Actors, Sessions <- {Key}, SessionOf <- [x \in Actors |-> Key],
  line <- Lines(pc, loops, lane), executing <- Begun(pc, loops)

ImplementsSerializer == Serializer!Spec

LEMMA MappedSame ==
  ASSUME NEW p, NEW l, NEW p2, NEW l2, NEW ln,
         \A x \in Actors : \/ Spot(p2, l2, x) = Spot(p, l, x)
                           \/ Spot(p, l, x) \notin Busy /\ Spot(p2, l2, x) \notin Busy
  PROVE  /\ Given(p2, l2) = Given(p, l) /\ Begun(p2, l2) = Begun(p, l)
         /\ Lines(p2, l2, ln) = Lines(p, l, ln)
<1>1. Given(p2, l2) = Given(p, l) /\ Begun(p2, l2) = Begun(p, l)
  BY DEF Given, Begun, Busy
<1> QED
  BY <1>1 DEF Lines, Waiting

LEMMA NoneServed ==
  ASSUME NEW p, NEW l, NEW ln, LaneGood(p, l, ln), Served(p, l) = {}
  PROVE  ln = <<>> /\ Given(p, l) = {} /\ Begun(p, l) = {} /\ Waiting(p, l, ln) = <<>>
BY DEF LaneGood, Served, Given, Begun, Waiting, Holding

LEMMA OneGiven ==
  ASSUME NEW p, NEW l, NEW ln, LaneGood(p, l, ln), NEW x \in Actors, Spot(p, l, x) = "prep"
  PROVE  Given(p, l) = {x} /\ Begun(p, l) = {} /\ Waiting(p, l, ln) = <<x>> \o ln
<1>1. x \in Served(p, l) /\ \A y, z \in Served(p, l) : y = z
  BY DEF LaneGood, Served, Holding
<1>2. ASSUME NEW y \in Actors, Spot(p, l, y) \in Holding PROVE y = x
  BY <1>1, <1>2 DEF Served
<1>3. Given(p, l) = {x} /\ Begun(p, l) = {}
  BY <1>2 DEF Given, Begun, Holding
<1>4. (CHOOSE y \in {x} : TRUE) = x
  OBVIOUS
<1> QED
  BY <1>3, <1>4 DEF Waiting

LEMMA OneBegun ==
  ASSUME NEW p, NEW l, NEW ln, LaneGood(p, l, ln), NEW x \in Actors, Spot(p, l, x) = "active"
  PROVE  Given(p, l) = {} /\ Begun(p, l) = {x} /\ Waiting(p, l, ln) = ln
<1>1. x \in Served(p, l) /\ \A y, z \in Served(p, l) : y = z
  BY DEF LaneGood, Served, Holding
<1>2. ASSUME NEW y \in Actors, Spot(p, l, y) \in Holding PROVE y = x
  BY <1>1, <1>2 DEF Served
<1>3. Given(p, l) = {} /\ Begun(p, l) = {x}
  BY <1>2 DEF Given, Begun, Holding
<1> QED
  BY <1>3 DEF Waiting

LEMMA WaitingType ==
  ASSUME NEW p, NEW l, NEW ln, LaneGood(p, l, ln)
  PROVE  ln \in Seq(Actors) /\ Waiting(p, l, ln) \in Seq(Actors)
<1>1. ln \in Seq(Actors)
  BY DEF LaneGood
<1>2. CASE Given(p, l) = {}
  BY <1>1, <1>2 DEF Waiting
<1>3. CASE Given(p, l) # {}
  <2>1. (CHOOSE x \in Given(p, l) : TRUE) \in Given(p, l)
    BY <1>3
  <2>2. (CHOOSE x \in Given(p, l) : TRUE) \in Actors
    BY <2>1 DEF Given
  <2> HIDE DEF Given
  <2> QED
    BY <1>1, <1>3, <2>2 DEF Waiting
<1> QED
  BY <1>1, <1>2, <1>3

(* A run that joins the lane: it is the last in line.                      *)
LEMMA JoinMaps ==
  ASSUME LaneGood(pc, loops, lane), NEW x \in Actors, Spot(pc, loops, x) \notin Busy,
         Spot(pc', loops', x) = Joined, Join(x),
         \A y \in Actors \ {x} :
            \/ Spot(pc', loops', y) = Spot(pc, loops, y)
            \/ Spot(pc, loops, y) \notin Busy /\ Spot(pc', loops', y) \notin Busy
  PROVE  Serializer!Next
<1> DEFINE W == Waiting(pc, loops, lane)
           W2 == Waiting(pc', loops', lane')
<1>1. W \in Seq(Actors) /\ lane \in Seq(Actors)
  BY WaitingType
<1>2. Begun(pc', loops') = Begun(pc, loops) /\ W2 = Append(W, x)
  <2>1. CASE SlotFree
    <3>1. /\ lane = <<>> /\ Given(pc, loops) = {} /\ Begun(pc, loops) = {} /\ W = <<>>
          /\ Spot(pc', loops', x) = "prep" /\ lane' = <<>>
      BY <2>1, SlotFreeIs, NoneServed DEF Joined, Join
    <3>2. \A y \in Actors \ {x} : Spot(pc', loops', y) \notin {"prep", "active"}
      BY <3>1 DEF Given, Begun, Busy
    <3>3. Given(pc', loops') = {x} /\ Begun(pc', loops') = {}
      BY <3>1, <3>2 DEF Given, Begun
    <3>4. (CHOOSE y \in {x} : TRUE) = x
      OBVIOUS
    <3>5. W2 = <<x>> \o <<>>
      BY <3>1, <3>3, <3>4 DEF Waiting
    <3>6. <<x>> \o <<>> = Append(<<>>, x)
      OBVIOUS
    <3> HIDE DEF W, W2
    <3> QED
      BY <3>1, <3>3, <3>5, <3>6
  <2>2. CASE ~ SlotFree
    <3>1. Spot(pc', loops', x) = "lane" /\ lane' = Append(lane, x)
      BY <2>2 DEF Joined, Join
    <3>2. Given(pc', loops') = Given(pc, loops) /\ Begun(pc', loops') = Begun(pc, loops)
      BY <3>1 DEF Given, Begun, Busy
    <3>3. CASE Given(pc, loops) = {}
      BY <3>1, <3>2, <3>3 DEF Waiting
    <3>4. CASE Given(pc, loops) # {}
      <4>1. PICK g : g = CHOOSE y \in Given(pc, loops) : TRUE
        OBVIOUS
      <4>2. g \in Actors
        BY <3>4, <4>1 DEF Given
      <4>3. W = <<g>> \o lane /\ W2 = <<g>> \o Append(lane, x)
        BY <3>1, <3>2, <3>4, <4>1 DEF Waiting
      <4>4. <<g>> \o Append(lane, x) = Append(<<g>> \o lane, x)
        BY <1>1, <4>2
      <4> QED
        BY <3>2, <4>3, <4>4
    <3> QED
      BY <3>3, <3>4
  <2> QED
    BY <2>1, <2>2
<1> HIDE DEF W, W2
<1>3. /\ Lines(pc, loops, lane) = [s \in {Key} |-> W]
      /\ Lines(pc', loops', lane') = [s \in {Key} |-> W2]
  BY DEF Lines, W, W2
<1>4. Lines(pc', loops', lane') = [Lines(pc, loops, lane) EXCEPT ![Key] = Append(@, x)]
  BY <1>2, <1>3
<1>5. Serializer!Submit(x)
  BY <1>2, <1>4 DEF Serializer!Submit
<1> QED
  BY <1>5 DEF Serializer!Next

(* The first in line begins, or the one that executes ends.                *)
LEMMA RegisterMaps ==
  ASSUME IInv, NEW x \in Actors, Register(x)
  PROVE  Serializer!Next
<1> DEFINE none == {}
<1>1. /\ LaneGood(pc, loops, lane) /\ lane \in Seq(Actors) /\ lane' = lane
      /\ Spot(pc, loops, x) = "prep" /\ none \in SUBSET InLine(pc, loops)
      /\ Move(x, "active", none)
  BY WaitingType DEF IInv, Register, Place, Spot
<1>2. /\ Spot(pc', loops', x) = "active"
      /\ \A y \in Actors \ {x} : Spot(pc', loops', y) = IF y \in none THEN "prep" ELSE Spot(pc, loops, y)
  BY <1>1, MoveFacts DEF IInv, Holding
<1>3. /\ Given(pc, loops) = {x} /\ Begun(pc, loops) = {}
      /\ Waiting(pc, loops, lane) = <<x>> \o lane
  BY <1>1, OneGiven
<1>4. Given(pc', loops') = {} /\ Begun(pc', loops') = {x}
  BY <1>2, <1>3 DEF Given, Begun
<1>5. Waiting(pc', loops', lane') = lane
  BY <1>1, <1>4 DEF Waiting
<1>6. /\ <<x>> \o lane # <<>> /\ Head(<<x>> \o lane) = x /\ Tail(<<x>> \o lane) = lane
  BY <1>1
<1>7. Serializer!Advance(none, {Key})
  BY <1>3, <1>4, <1>5, <1>6 DEF Serializer!Advance, Serializer!Idle, Lines
<1> QED
  BY <1>7 DEF Serializer!Next

LEMMA UnregisterMaps ==
  ASSUME IInv, NEW x \in Actors, Unregister(x)
  PROVE  Serializer!Next
<1> DEFINE none == {}
<1>1. /\ LaneGood(pc, loops, lane) /\ lane \in Seq(Actors)
      /\ Spot(pc, loops, x) = "active"
  BY WaitingType DEF IInv, Unregister, Place, Spot
<1>2. Given(pc, loops) = {} /\ Begun(pc, loops) = {x} /\ Waiting(pc, loops, lane) = lane
  BY <1>1, OneBegun
<1>3. Begun(pc', loops') = {} /\ Waiting(pc', loops', lane') = lane
  <2>1. CASE lane = <<>>
    <3>1. Move(x, "closing", none) /\ lane' = lane /\ none \in SUBSET InLine(pc, loops)
      BY <2>1 DEF Unregister
    <3>2. /\ Spot(pc', loops', x) = "closing"
          /\ \A y \in Actors \ {x} : Spot(pc', loops', y) = IF y \in none THEN "prep" ELSE Spot(pc, loops, y)
      BY <1>1, <3>1, MoveFacts DEF IInv, Holding
    <3>3. Given(pc', loops') = {} /\ Begun(pc', loops') = {}
      BY <1>2, <3>2 DEF Given, Begun
    <3> QED
      BY <3>1, <3>3 DEF Waiting
  <2>2. CASE lane # <<>>
    <3> DEFINE first == Head(lane)
               next == {first}
    <3>1. Move(x, "closing", next) /\ lane' = Tail(lane)
      BY <2>2 DEF Unregister
    <3>2. first \in InLine(pc, loops) /\ first # x /\ first \in Actors
      <4>1. Lists(lane, InLine(pc, loops))
        BY <1>1 DEF LaneGood
      <4>2. 1 \in 1..Len(lane) /\ first = lane[1]
        BY <1>1, <2>2
      <4>3. first \in InLine(pc, loops)
        BY <4>1, <4>2 DEF Lists
      <4> QED
        BY <4>3, <1>1 DEF InLine
    <3>3. next \in SUBSET InLine(pc, loops)
      BY <3>2
    <3>4. /\ Spot(pc', loops', x) = "closing"
          /\ \A y \in Actors \ {x} : Spot(pc', loops', y) = IF y \in next THEN "prep" ELSE Spot(pc, loops, y)
      BY <1>1, <3>1, <3>3, MoveFacts DEF IInv, Holding
    <3>5. Given(pc', loops') = {first} /\ Begun(pc', loops') = {}
      BY <1>2, <3>2, <3>4 DEF Given, Begun
    <3>6. (CHOOSE y \in {first} : TRUE) = first
      OBVIOUS
    <3>7. Waiting(pc', loops', lane') = <<first>> \o Tail(lane)
      BY <3>1, <3>5, <3>6 DEF Waiting
    <3>8. <<first>> \o Tail(lane) = lane
      BY <1>1, <2>2
    <3> QED
      BY <3>5, <3>7, <3>8
  <2> QED
    BY <2>1, <2>2
<1>4. Lines(pc', loops', lane') = Lines(pc, loops, lane)
  BY <1>2, <1>3 DEF Lines
<1>5. Serializer!Advance({x}, none)
  BY <1>2, <1>3, <1>4 DEF Serializer!Advance, Lines
<1> QED
  BY <1>2, <1>5 DEF Serializer!Next

(* What stays of a sequence that is cut after its first part.              *)
LEMMA FirstPart ==
  ASSUME NEW S, NEW a \in Seq(S), NEW w \in Seq(S)
  PROVE  a \o <<>> = SubSeq(a \o w, 1, Len(a)) /\ Len(a) <= Len(a \o w)
OBVIOUS

(* The lane is cleared: of the line at most the run with the slot stays.   *)
LEMMA CutMaps ==
  ASSUME LaneGood(pc, loops, lane), lane' = <<>>,
         \A x \in Actors : \/ Spot(pc', loops', x) = Spot(pc, loops, x)
                           \/ Spot(pc, loops, x) = "lane" /\ Spot(pc', loops', x) = "hung"
                           \/ Spot(pc, loops, x) \notin Busy /\ Spot(pc', loops', x) \notin Busy
  PROVE  Serializer!Next
<1> DEFINE W == Waiting(pc, loops, lane)
           W2 == Waiting(pc', loops', lane')
<1>1. W \in Seq(Actors) /\ lane \in Seq(Actors)
  BY WaitingType
<1>2. Given(pc', loops') = Given(pc, loops) /\ Begun(pc', loops') = Begun(pc, loops)
  BY DEF Given, Begun, Busy
<1>3. \E keep \in 0..1 : keep <= Len(W) /\ W2 = SubSeq(W, 1, keep)
  <2>1. CASE Given(pc, loops) = {}
    <3>1. W2 = <<>>
      BY <1>2, <2>1 DEF Waiting
    <3>2. SubSeq(W, 1, 0) = <<>> /\ 0 <= Len(W) /\ 0 \in 0..1
      BY <1>1
    <3> HIDE DEF W, W2
    <3> QED
      BY <3>1, <3>2
  <2>2. CASE Given(pc, loops) # {}
    <3>1. PICK g : g = CHOOSE y \in Given(pc, loops) : TRUE
      OBVIOUS
    <3>2. g \in Actors
      BY <2>2, <3>1 DEF Given
    <3>3. PICK a : a = <<g>>
      OBVIOUS
    <3>4. a \in Seq(Actors) /\ Len(a) = 1
      BY <3>2, <3>3
    <3>5. W = a \o lane /\ W2 = a \o <<>>
      BY <1>2, <2>2, <3>1, <3>3 DEF Waiting
    <3> HIDE DEF W, W2
    <3>6. a \o <<>> = SubSeq(a \o lane, 1, Len(a)) /\ Len(a) <= Len(a \o lane)
      BY <1>1, <3>4, FirstPart
    <3>7. Len(a) \in 0..1
      BY <3>4
    <3> QED
      BY <3>5, <3>6, <3>7
  <2> QED
    BY <2>1, <2>2
<1> HIDE DEF W, W2
<1>4. /\ Lines(pc, loops, lane) = [s \in {Key} |-> W]
      /\ Lines(pc', loops', lane') = [s \in {Key} |-> W2]
  BY DEF Lines, W, W2
<1>5. PICK keep \in 0..1 : keep <= Len(W) /\ W2 = SubSeq(W, 1, keep)
  BY <1>3
<1>6. /\ keep <= Len(Lines(pc, loops, lane)[Key])
      /\ Lines(pc', loops', lane') = [Lines(pc, loops, lane) EXCEPT ![Key] = SubSeq(@, 1, keep)]
  BY <1>4, <1>5
<1>7. Serializer!Cut(Key)
  BY <1>2, <1>6 DEF Serializer!Cut
<1> QED
  BY <1>7 DEF Serializer!Next

(* Steps of runs and loops that neither wait nor execute.                  *)
LEMMA RestsMap ==
  ASSUME Rests(loops, loops'), lane' = lane,
         \A m \in Msgs : pc'[m] = pc[m] \/ (pc[m] \notin Busy /\ pc'[m] \notin Busy)
  PROVE  UNCHANGED Serializer!vars
<1>1. ASSUME NEW x \in Actors
      PROVE  \/ Spot(pc', loops', x) = Spot(pc, loops, x)
             \/ Spot(pc, loops, x) \notin Busy /\ Spot(pc', loops', x) \notin Busy
  BY DEF Rests, Spot, Actors
<1>2. /\ Begun(pc', loops') = Begun(pc, loops)
      /\ Lines(pc', loops', lane) = Lines(pc, loops, lane)
  BY <1>1, MappedSame
<1> QED
  BY <1>2 DEF Serializer!vars

(* The steps of messages and loops.                                        *)
LEMMA HandOverMaps ==
  ASSUME IInv, NEW q \in Queues, loops[q].pc = "debounce",
         NEW rest, NEW batch \in Seq(Msgs), NEW force, NEW summarized,
         ToSet(batch) \subseteq WaitIn(pc, home, q),
         HandOver(q, rest, batch, force, summarized)
  PROVE  Serializer!Next
<1>1. /\ loops \in [Queues -> LoopType] /\ pc \in [Msgs -> MsgPc] /\ home \in [Msgs -> 0..MaxQueues]
      /\ LaneGood(pc, loops, lane) /\ q \in Actors /\ \A k \in Queues : k \notin Msgs
  BY NamesAssumption DEF IInv, Typed, Actors, Queues
<1>2. /\ loops' = [loops EXCEPT ![q] = [pc |-> Joined, force |-> force, batch |-> batch]]
      /\ Record(q, batch, summarized) /\ Join(q)
  BY DEF HandOver
<1>3. \A m \in Msgs : \/ pc'[m] = pc[m]
                      \/ pc[m] \in {"queued", "dropped"} /\ pc'[m] \in {"handed", "summarized"}
  BY <1>1, <1>2, RecordFacts
<1>4. Spot(pc, loops, q) \notin Busy /\ Spot(pc', loops', q) = Joined
  BY <1>1, <1>2 DEF Spot, Busy
<1>5. ASSUME NEW y \in Actors \ {q}
      PROVE  \/ Spot(pc', loops', y) = Spot(pc, loops, y)
             \/ Spot(pc, loops, y) \notin Busy /\ Spot(pc', loops', y) \notin Busy
  BY <1>1, <1>2, <1>3 DEF Spot, Busy, Actors
<1> QED
  BY <1>1, <1>2, <1>4, <1>5, JoinMaps

LEMMA BreakMaps ==
  ASSUME IInv, NEW q \in Queues, loops[q].pc = "debounce", NEW rest, NEW summarized,
         Break(q, rest, summarized)
  PROVE  UNCHANGED Serializer!vars
<1> DEFINE none == <<>>
<1>1. /\ loops \in [Queues -> LoopType] /\ current \in 0..MaxQueues
      /\ pc \in [Msgs -> MsgPc] /\ home \in [Msgs -> 0..MaxQueues]
  BY NamesAssumption DEF IInv, Typed
<1>2. PICK qs : qs = [queues EXCEPT ![q] = rest]
  OBVIOUS
<1>3. /\ Apply(Ended(q, current, qs, loops)) /\ Record(q, none, summarized) /\ lane' = lane
      /\ none \in Seq(Msgs) /\ ToSet(none) \subseteq WaitIn(pc, home, q)
  BY <1>2 DEF Break, ToSet
<1> HIDE DEF none
<1>4. \A m \in Msgs : \/ pc'[m] = pc[m]
                      \/ pc[m] \in {"queued", "dropped"} /\ pc'[m] \in {"handed", "summarized"}
  BY <1>1, <1>3, RecordFacts
<1>5. Rests(loops, loops')
  BY <1>1, <1>3, EndedRests DEF Apply, Busy
<1> QED
  BY <1>3, <1>4, <1>5, RestsMap DEF Busy

LEMMA OneMaps ==
  ASSUME IInv, NEW q \in Queues, loops[q].pc = "debounce", NEW force, One(q, force)
  PROVE  [Serializer!Next]_Serializer!vars
<1> DEFINE s == queues[q]
           b == FALSE
<1>1. Tidy(s, WaitIn(pc, home, q), UntoldOf(pc, home, q)) /\ s.items \in Seq(Msgs)
  BY DEF IInv, QueuesGood, Typed, QueueType
<1>2. CASE /\ s.items # <<>>
           /\ HandOver(q, [s EXCEPT !.items = Tail(@)], <<Head(s.items)>>, force, b)
  <2> DEFINE rest == [s EXCEPT !.items = Tail(@)]
             batch == <<Head(s.items)>>
  <2>1. Head(s.items) \in WaitIn(pc, home, q)
    BY <1>1, <1>2, HeadTidy
  <2>2. Head(s.items) \in Msgs
    BY <2>1 DEF WaitIn
  <2>3. batch \in Seq(Msgs) /\ ToSet(batch) = {Head(s.items)}
    BY <2>2 DEF ToSet
  <2>4. HandOver(q, rest, batch, force, b)
    BY <1>2
  <2> HIDE DEF rest, batch, b, s
  <2>5. Serializer!Next
    BY <2>1, <2>3, <2>4, HandOverMaps
  <2> QED
    BY <2>5
<1>3. CASE Spin(q)
  <2>1. /\ loops \in [Queues -> LoopType] /\ loops' = [loops EXCEPT ![q].pc = "spin"]
        /\ pc' = pc /\ lane' = lane
    BY <1>3 DEF IInv, Typed, Spin
  <2>2. Rests(loops, loops')
    BY <2>1 DEF Rests, LoopType, LoopPc, Busy
  <2>3. UNCHANGED Serializer!vars
    BY <2>1, <2>2, RestsMap
  <2> QED
    BY <2>3
<1>4. CASE Break(q, s, b)
  <2>1. UNCHANGED Serializer!vars
    BY <1>4, BreakMaps
  <2> QED
    BY <2>1
<1> QED
  BY <1>2, <1>3, <1>4 DEF One

LEMMA WakeMaps ==
  ASSUME IInv, NEW q \in Queues, Wake(q)
  PROVE  [Serializer!Next]_Serializer!vars
<1> DEFINE s == queues[q]
           force == loops[q].force
           summed == Summarized(s)
           W == WaitIn(pc, home, q)
           told == CanSummarize(s)
           emptied == [summed EXCEPT !.items = <<>>]
           none == <<>>
           no == FALSE
           yes == TRUE
<1>1. loops[q].pc = "debounce"
  BY DEF Wake
<1>2. s.items \in Seq(Msgs) /\ ToSet(s.items) = W
  <2>1. Tidy(s, W, UntoldOf(pc, home, q)) /\ s.items \in Seq(Msgs)
    BY DEF IInv, QueuesGood, Tidy, QueueType
  <2> QED
    BY <2>1, ItemsListed DEF Tidy
<1>3. none \in Seq(Msgs) /\ ToSet(none) \subseteq W
  BY DEF ToSet
<1>4. \/ One(q, yes)
      \/ One(q, force)
      \/ HandOver(q, emptied, s.items, no, told)
      \/ HandOver(q, summed, none, force, told)
      \/ Break(q, emptied, told)
      \/ Break(q, summed, told)
  BY DEF Wake
<1> HIDE DEF told, summed, no, yes, none, force, s, emptied
<1>5. CASE One(q, yes) \/ One(q, force)
  BY <1>1, <1>5, OneMaps
<1>6. CASE HandOver(q, emptied, s.items, no, told) \/ HandOver(q, summed, none, force, told)
  <2>1. Serializer!Next
    BY <1>1, <1>2, <1>3, <1>6, HandOverMaps
  <2> QED
    BY <2>1
<1>7. CASE Break(q, emptied, told) \/ Break(q, summed, told)
  <2>1. UNCHANGED Serializer!vars
    BY <1>1, <1>7, BreakMaps
  <2> QED
    BY <2>1
<1> QED
  BY <1>4, <1>5, <1>6, <1>7

LEMMA LoopMaps ==
  ASSUME IInv, NEW q \in Queues, Resume(q) \/ FollowupThrows(q)
  PROVE  UNCHANGED Serializer!vars
<1>1. /\ loops \in [Queues -> LoopType] /\ current \in 0..MaxQueues
      /\ loops[q].pc = "closing" /\ pc' = pc /\ lane' = lane
  BY NamesAssumption DEF IInv, Typed, Resume, FollowupThrows
<1>2. CASE Apply(Ended(q, current, queues, loops))
  <2>1. Rests(loops, loops')
    BY <1>1, <1>2, EndedRests DEF Apply, Busy
  <2> QED
    BY <1>1, <2>1, RestsMap
<1>3. CASE loops' = [loops EXCEPT ![q].pc = "debounce", ![q].batch = <<>>]
  <2>1. <<>> \in Seq(Msgs)
    OBVIOUS
  <2>2. Rests(loops, loops')
    BY <1>1, <1>3, <2>1 DEF Rests, LoopType, LoopPc, Busy
  <2> QED
    BY <1>1, <2>2, RestsMap
<1> QED
  BY <1>2, <1>3 DEF Resume, FollowupThrows

LEMMA FinalizeMaps ==
  ASSUME IInv, NEW m \in Msgs, Finalize(m)
  PROVE  UNCHANGED Serializer!vars
<1>1. /\ loops \in [Queues -> LoopType] /\ current \in 0..MaxQueues /\ pc \in [Msgs -> MsgPc]
      /\ pc[m] = "closing" /\ pc' = [pc EXCEPT ![m] = "done"]
      /\ Apply(Scheduled(current, queues, loops)) /\ lane' = lane
  BY NamesAssumption DEF IInv, Typed, Finalize
<1>2. Rests(loops, loops')
  BY <1>1, ScheduledRests DEF Apply
<1>3. \A x \in Msgs : pc'[x] = pc[x] \/ (pc[x] \notin Busy /\ pc'[x] \notin Busy)
  BY <1>1 DEF Busy
<1> QED
  BY <1>1, <1>2, <1>3, RestsMap

LEMMA LookMaps ==
  ASSUME IInv, NEW m \in Msgs, NEW s \in SettingsOf[m], Look(m, s)
  PROVE  [Serializer!Next]_Serializer!vars
<1>1. /\ Typed /\ LaneGood(pc, loops, lane) /\ pc[m] = "new"
      /\ pc \in [Msgs -> MsgPc] /\ loops \in [Queues -> LoopType]
  BY DEF IInv, Typed, Look
<1>2. CASE s.mode # "interrupt"
  <2>1. pc' = [pc EXCEPT ![m] = "looked"] /\ loops' = loops /\ lane' = lane
    BY <1>2 DEF Look
  <2>2. Rests(loops, loops') /\ \A x \in Msgs : pc'[x] = pc[x] \/ (pc[x] \notin Busy /\ pc'[x] \notin Busy)
    BY <1>1, <2>1 DEF Rests, Busy
  <2>3. UNCHANGED Serializer!vars
    BY <2>1, <2>2, RestsMap
  <2> QED
    BY <2>3
<1>3. CASE s.mode = "interrupt"
  <2>1. pc' = [HungMsgs(pc) EXCEPT ![m] = "looked"] /\ loops' = HungLoops(loops) /\ lane' = <<>>
    BY <1>3 DEF Look
  <2>2. \A x \in Msgs : \/ pc'[x] = pc[x]
                        \/ pc[x] = "lane" /\ pc'[x] = "hung"
                        \/ pc[x] = "new" /\ pc'[x] = "looked"
    BY <1>1, <2>1, HungFacts
  <2>3. ASSUME NEW x \in Actors
        PROVE  \/ Spot(pc', loops', x) = Spot(pc, loops, x)
               \/ Spot(pc, loops, x) = "lane" /\ Spot(pc', loops', x) = "hung"
               \/ Spot(pc, loops, x) \notin Busy /\ Spot(pc', loops', x) \notin Busy
    BY <1>1, <2>1, <2>2, HungFacts DEF Spot, Actors, Busy
  <2>4. Serializer!Next
    BY <1>1, <2>1, <2>3, CutMaps
  <2> QED
    BY <2>4
<1> QED
  BY <1>2, <1>3

LEMMA StopMaps ==
  ASSUME IInv, Stop
  PROVE  Serializer!Next
<1> DEFINE out == { m \in Msgs : home[m] = current /\ pc[m] \in {"queued", "dropped"} }
<1>1. /\ Typed /\ LaneGood(pc, loops, lane)
      /\ pc \in [Msgs -> MsgPc] /\ loops \in [Queues -> LoopType]
      /\ loops' = HungLoops(loops) /\ lane' = <<>>
      /\ pc' = [m \in Msgs |-> IF m \in out THEN "cleared" ELSE HungMsgs(pc)[m]]
  BY DEF IInv, Typed, Stop
<1>2. \A x \in Msgs : \/ pc'[x] = pc[x]
                      \/ pc[x] = "lane" /\ pc'[x] = "hung"
                      \/ pc[x] \in {"queued", "dropped"} /\ pc'[x] = "cleared"
  BY <1>1, HungFacts
<1>3. ASSUME NEW x \in Actors
      PROVE  \/ Spot(pc', loops', x) = Spot(pc, loops, x)
             \/ Spot(pc, loops, x) = "lane" /\ Spot(pc', loops', x) = "hung"
             \/ Spot(pc, loops, x) \notin Busy /\ Spot(pc', loops', x) \notin Busy
  BY <1>1, <1>2, HungFacts DEF Spot, Actors, Busy
<1> QED
  BY <1>1, <1>3, CutMaps

LEMMA DirectMaps ==
  ASSUME IInv, NEW m \in Msgs, Direct(m)
  PROVE  Serializer!Next
<1>1. /\ LaneGood(pc, loops, lane) /\ m \in Actors /\ \A k \in Queues : k \notin Msgs
      /\ pc \in [Msgs -> MsgPc] /\ pc[m] = "looked"
      /\ pc' = [pc EXCEPT ![m] = Joined] /\ Join(m) /\ loops' = loops
  BY NamesAssumption DEF IInv, Typed, Actors, Queues, Direct
<1>2. Spot(pc, loops, m) \notin Busy /\ Spot(pc', loops', m) = Joined
  BY <1>1 DEF Spot, Busy
<1>3. \A y \in Actors \ {m} : Spot(pc', loops', y) = Spot(pc, loops, y)
  BY <1>1 DEF Spot, Actors
<1> QED
  BY <1>1, <1>2, <1>3, JoinMaps

(* A message that is put in a queue drops messages that wait in queues.    *)
LEMMA EnqueueQuiet ==
  ASSUME IInv, NEW m \in Msgs, Enqueue(m)
  PROVE  \A x \in Msgs : pc'[x] = pc[x] \/ (pc[x] \notin Busy /\ pc'[x] \notin Busy)
<1> DEFINE s == look[m].settings
           old == IF current = 0 THEN NoQueue ELSE queues[current]
           q == [old EXCEPT !.mode = s.mode, !.drop = s.drop, !.cap = s.cap]
<1>1. /\ pc \in [Msgs -> MsgPc] /\ queues \in [Queues -> QueueType] /\ pc[m] = "looked"
      /\ current \in 0..MaxQueues
  BY NamesAssumption DEF IInv, Typed, Enqueue
<1>2. old \in QueueType /\ \A x \in ToSet(old.items) : pc[x] = "queued"
  <2>1. CASE current = 0
    <3>1. NoQueue \in QueueType /\ Lists(NoQueue.items, {})
      BY NoQueueTidy DEF Tidy
    <3>2. ToSet(NoQueue.items) = {}
      BY <3>1, ItemsListed DEF QueueType
    <3> QED
      BY <2>1, <3>1, <3>2
  <2>2. CASE current # 0
    <3>1. current \in Queues
      BY <1>1, <2>2 DEF Queues
    <3>2. Lists(queues[current].items, WaitIn(pc, home, current)) /\ queues[current] \in QueueType
      BY <1>1, <3>1 DEF IInv, QueuesGood, Tidy
    <3>3. ToSet(queues[current].items) = WaitIn(pc, home, current)
      BY <3>2, ItemsListed, SMTT(30) DEF QueueType
    <3> QED
      BY <2>2, <3>2, <3>3 DEF WaitIn
  <2> QED
    BY <2>1, <2>2
<1>3. \/ pc' = [pc EXCEPT ![m] = "skipped"]
      \/ pc' = [pc EXCEPT ![m] = "discarded"]
      \/ LET gone == ToSet(q.items) \ ToSet(DropOldest(q).items)
             fate == IF q.drop = "summarize" THEN "dropped" ELSE "discarded"
         IN pc' = [x \in Msgs |-> IF x = m THEN "queued" ELSE IF x \in gone THEN fate ELSE pc[x]]
  BY DEF Enqueue
<1> HIDE DEF s, old
<1>4. q.items = old.items
  BY <1>2 DEF QueueType
<1> HIDE DEF q
<1> QED
  BY <1>1, <1>2, <1>3, <1>4 DEF Busy

LEMMA QuietMaps ==
  ASSUME IInv, NEW m \in Msgs, Enqueue(m) \/ Steer(m) \/ ReplyThrows(m)
  PROVE  UNCHANGED Serializer!vars
<1>1. /\ pc \in [Msgs -> MsgPc] /\ loops \in [Queues -> LoopType]
      /\ loops' = loops /\ lane' = lane
  BY DEF IInv, Typed, Enqueue, Steer, ReplyThrows
<1>2. ASSUME NEW x \in Msgs PROVE pc'[x] = pc[x] \/ (pc[x] \notin Busy /\ pc'[x] \notin Busy)
  <2>1. CASE Steer(m) \/ ReplyThrows(m)
    BY <1>1, <2>1 DEF Steer, ReplyThrows, Busy
  <2>2. CASE Enqueue(m)
    BY <2>2, EnqueueQuiet
  <2> QED
    BY <2>1, <2>2
<1>3. Rests(loops, loops')
  BY <1>1 DEF Rests
<1> QED
  BY <1>1, <1>2, <1>3, RestsMap

LEMMA InitMaps == Init => Serializer!Init
<1> SUFFICES ASSUME Init PROVE Serializer!Init
  OBVIOUS
<1>1. \A x \in Actors : Spot(pc, loops, x) \in {"new", "off"}
  BY DEF Init, Spot, Actors, Off
<1>2. Given(pc, loops) = {} /\ Begun(pc, loops) = {}
  BY <1>1 DEF Given, Begun
<1>3. Lines(pc, loops, lane) = [s \in {Key} |-> <<>>]
  BY <1>2 DEF Lines, Waiting, Init
<1> QED
  BY <1>2, <1>3 DEF Serializer!Init

LEMMA StepMaps ==
  ASSUME IInv, [Next]_vars
  PROVE  [Serializer!Next]_Serializer!vars
<1>1. CASE UNCHANGED vars
  <2>1. loops' = loops /\ pc' = pc /\ lane' = lane
    BY <1>1 DEF vars
  <2>2. UNCHANGED Serializer!vars
    BY <2>1 DEF Serializer!vars
  <2> QED
    BY <2>2
<1>2. ASSUME NEW m \in Msgs, NEW s \in SettingsOf[m], Look(m, s)
      PROVE  [Serializer!Next]_Serializer!vars
  BY <1>2, LookMaps
<1>3. ASSUME NEW m \in Msgs, Enqueue(m) \/ Finalize(m) \/ Steer(m) \/ ReplyThrows(m)
      PROVE  UNCHANGED Serializer!vars
  BY <1>3, QuietMaps, FinalizeMaps
<1>4. ASSUME NEW m \in Msgs, Direct(m) PROVE Serializer!Next
  BY <1>4, DirectMaps
<1>5. ASSUME NEW q \in Queues, Wake(q) PROVE [Serializer!Next]_Serializer!vars
  BY <1>5, WakeMaps
<1>6. ASSUME NEW q \in Queues, Resume(q) \/ FollowupThrows(q) PROVE UNCHANGED Serializer!vars
  BY <1>6, LoopMaps
<1>7. ASSUME NEW x \in Msgs \cup Queues, Register(x) \/ Unregister(x) PROVE Serializer!Next
  BY <1>7, RegisterMaps, UnregisterMaps DEF Actors
<1>8. CASE Stop
  BY <1>8, StopMaps
<1> QED
  BY <1>1, <1>2, <1>3, <1>4, <1>5, <1>6, <1>7, <1>8 DEF Next, Progress, Outside

(* The runs of a session key, of its messages and of its drain loops, are  *)
(* begun one at a time and in the order in which they came to the lane,    *)
(* whatever interrupts and stops take out of the line: the one line of     *)
(* this module is an implementation of the serializer that the two levels  *)
(* of lanes in command-queue.ts implement.                                 *)
THEOREM LaneSerializes == Spec => ImplementsSerializer
<1>1. IInv /\ [Next]_vars => [Serializer!Next]_Serializer!vars
  BY StepMaps
<1> QED
  BY <1>1, InitMaps, FollowupInvariant, PTL DEF Spec, ImplementsSerializer, Serializer!Spec

-----------------------------------------------------------------------------
(* What it takes to orphan a message: a stop or an interrupt.              *)

Undisturbed == ~ MayStop /\ \A m \in Msgs : \A s \in SettingsOf[m] : s.mode # "interrupt"

(* Only the key's queue has work and a loop, and no loop hangs.            *)
Sole(cur, qs, l) ==
  \A q \in Queues : /\ l[q].pc # "hung"
                    /\ l[q].pc # "off" => q = cur
                    /\ HasWork(qs[q]) => q = cur

(* What waits has a queue.                                                 *)
Homed(p, h) == \A m \in Msgs : p[m] = "queued" => h[m] # 0

LEMMA ScheduledSole ==
  ASSUME NEW cur \in 0..MaxQueues, NEW qs, NEW l \in [Queues -> LoopType], Sole(cur, qs, l)
  PROVE  LET r == Scheduled(cur, qs, l) IN Sole(r.current, qs, r.loops)
<1>1. CASE cur = 0 \/ l[cur].pc # "off"
  BY <1>1 DEF Scheduled
<1>2. CASE ~ (cur = 0 \/ l[cur].pc # "off") /\ HasWork(qs[cur])
  <2> DEFINE d == [Off EXCEPT !.pc = "debounce"]
             l2 == [l EXCEPT ![cur] = d]
  <2>1. cur \in Queues /\ d.pc = "debounce"
    BY <1>2, OffType DEF Queues, LoopType
  <2>2. Scheduled(cur, qs, l) = [current |-> cur, loops |-> l2]
    BY <1>2 DEF Scheduled
  <2> HIDE DEF d
  <2>3. l2[cur].pc = "debounce" /\ \A q \in Queues : q # cur => l2[q] = l[q]
    BY <2>1
  <2> HIDE DEF l2
  <2> QED
    BY <2>1, <2>2, <2>3 DEF Sole
<1>3. CASE ~ (cur = 0 \/ l[cur].pc # "off") /\ ~ HasWork(qs[cur])
  BY <1>3 DEF Scheduled, Sole
<1> QED
  BY <1>1, <1>2, <1>3

LEMMA EndedSole ==
  ASSUME NEW cur \in 0..MaxQueues, NEW qs, NEW l \in [Queues -> LoopType], Sole(cur, qs, l),
         NEW q \in Queues, l[q].pc # "off"
  PROVE  LET r == Ended(q, cur, qs, l) IN Sole(r.current, qs, r.loops)
<1> DEFINE l2 == [l EXCEPT ![q] = Off]
<1>1. /\ l2 \in [Queues -> LoopType] /\ l2[q].pc = "off" /\ \A k \in Queues : k # q => l2[k] = l[k]
      /\ q = cur
  BY OffType DEF Sole
<1> HIDE DEF l2
<1>2. Sole(cur, qs, l2)
  BY <1>1 DEF Sole
<1>3. CASE HasWork(qs[q])
  <2>1. Ended(q, cur, qs, l) = Scheduled(cur, qs, l2)
    BY <1>3 DEF Ended, l2
  <2> QED
    BY <1>1, <1>2, <2>1, ScheduledSole
<1>4. CASE ~ HasWork(qs[q])
  <2>1. Ended(q, cur, qs, l) = [current |-> 0, loops |-> l2]
    BY <1>4 DEF Ended, l2
  <2> QED
    BY <1>1, <1>2, <1>4, <2>1 DEF Sole
<1> QED
  BY <1>3, <1>4

(* Loops go from place to place without one starting, ending or hanging.   *)
LEMMA SoleKept ==
  ASSUME NEW cur, NEW qs, NEW l, NEW l2, Sole(cur, qs, l),
         \A q \in Queues : \/ l2[q].pc = l[q].pc
                           \/ l[q].pc # "off" /\ l2[q].pc # "hung"
  PROVE  Sole(cur, qs, l2)
BY DEF Sole

SoleInv == IInv /\ Sole(current, queues, loops) /\ Homed(pc, home)

(* Messages that are handed over or told leave their queue.                *)
LEMMA RecordHomed ==
  ASSUME IInv, Homed(pc, home), NEW q \in Queues, NEW batch \in Seq(Msgs), NEW summarized,
         ToSet(batch) \subseteq WaitIn(pc, home, q), Record(q, batch, summarized)
  PROVE  Homed(pc', home')
<1> DEFINE told == IF summarized THEN { m \in Msgs : pc[m] = "dropped" /\ home[m] = q } ELSE {}
<1>1. /\ pc' = [m \in Msgs |-> IF m \in ToSet(batch) THEN "handed"
                               ELSE IF m \in told THEN "summarized" ELSE pc[m]]
      /\ home' = [m \in Msgs |-> IF m \in ToSet(batch) \cup told THEN 0 ELSE home[m]]
  BY DEF Record
<1> HIDE DEF told
<1> QED
  BY <1>1 DEF Homed

LEMMA HandOverSole ==
  ASSUME SoleInv, NEW q \in Queues, loops[q].pc = "debounce",
         NEW rest, NEW batch \in Seq(Msgs), NEW force, NEW summarized,
         ToSet(batch) \subseteq WaitIn(pc, home, q),
         HandOver(q, rest, batch, force, summarized)
  PROVE  Sole(current', queues', loops') /\ Homed(pc', home')
<1>1. /\ loops \in [Queues -> LoopType] /\ queues \in [Queues -> QueueType]
      /\ IInv /\ Sole(current, queues, loops) /\ Homed(pc, home) /\ q = current
  BY DEF SoleInv, IInv, Typed, Sole
<1>2. /\ queues' = [queues EXCEPT ![q] = rest] /\ current' = current
      /\ loops' = [loops EXCEPT ![q] = [pc |-> Joined, force |-> force, batch |-> batch]]
      /\ Record(q, batch, summarized) /\ Joined # "hung"
  BY DEF HandOver, Joined
<1>3. Sole(current, queues', loops')
  <2>1. loops'[q].pc = Joined /\ \A k \in Queues : k # q => loops'[k] = loops[k] /\ queues'[k] = queues[k]
    BY <1>1, <1>2
  <2> QED
    BY <1>1, <1>2, <2>1 DEF Sole
<1> QED
  BY <1>1, <1>2, <1>3, RecordHomed

LEMMA BreakSole ==
  ASSUME SoleInv, NEW q \in Queues, loops[q].pc = "debounce", NEW rest, NEW summarized,
         Break(q, rest, summarized)
  PROVE  Sole(current', queues', loops') /\ Homed(pc', home')
<1> DEFINE none == <<>>
<1>1. /\ loops \in [Queues -> LoopType] /\ queues \in [Queues -> QueueType]
      /\ current \in 0..MaxQueues
      /\ IInv /\ Sole(current, queues, loops) /\ Homed(pc, home) /\ q = current
  BY NamesAssumption DEF SoleInv, IInv, Typed, Sole
<1>2. PICK qs : qs = [queues EXCEPT ![q] = rest]
  OBVIOUS
<1>3. /\ queues' = qs /\ Apply(Ended(q, current, qs, loops)) /\ Record(q, none, summarized)
      /\ none \in Seq(Msgs) /\ ToSet(none) \subseteq WaitIn(pc, home, q)
  BY <1>2 DEF Break, ToSet
<1> HIDE DEF none
<1>4. Sole(current, qs, loops)
  <2>1. \A k \in Queues : k # q => qs[k] = queues[k]
    BY <1>1, <1>2
  <2> QED
    BY <1>1, <2>1 DEF Sole
<1>5. LET r == Ended(q, current, qs, loops) IN Sole(r.current, qs, r.loops)
  BY <1>1, <1>4, EndedSole
<1>6. Sole(current', queues', loops')
  BY <1>3, <1>5 DEF Apply
<1> QED
  BY <1>1, <1>3, <1>6, RecordHomed

LEMMA OneSole ==
  ASSUME SoleInv, NEW q \in Queues, loops[q].pc = "debounce", NEW force, One(q, force)
  PROVE  Sole(current', queues', loops') /\ Homed(pc', home')
<1> DEFINE s == queues[q]
           b == FALSE
<1>1. Tidy(s, WaitIn(pc, home, q), UntoldOf(pc, home, q)) /\ s.items \in Seq(Msgs)
  BY DEF SoleInv, IInv, QueuesGood, Typed, QueueType
<1>2. CASE /\ s.items # <<>>
           /\ HandOver(q, [s EXCEPT !.items = Tail(@)], <<Head(s.items)>>, force, b)
  <2> DEFINE rest == [s EXCEPT !.items = Tail(@)]
             batch == <<Head(s.items)>>
  <2>1. Head(s.items) \in WaitIn(pc, home, q)
    BY <1>1, <1>2, HeadTidy
  <2>2. Head(s.items) \in Msgs
    BY <2>1 DEF WaitIn
  <2>3. batch \in Seq(Msgs) /\ ToSet(batch) = {Head(s.items)}
    BY <2>2 DEF ToSet
  <2>4. HandOver(q, rest, batch, force, b)
    BY <1>2
  <2> HIDE DEF rest, batch, b, s
  <2> QED
    BY <2>1, <2>3, <2>4, HandOverSole
<1>3. CASE Spin(q)
  <2>1. /\ loops \in [Queues -> LoopType] /\ loops' = [loops EXCEPT ![q].pc = "spin"]
        /\ current' = current /\ queues' = queues /\ pc' = pc /\ home' = home
        /\ Sole(current, queues, loops) /\ Homed(pc, home)
    BY <1>3 DEF SoleInv, IInv, Typed, Spin
  <2>2. \A k \in Queues : loops'[k].pc = loops[k].pc \/ (loops[k].pc # "off" /\ loops'[k].pc # "hung")
    BY <2>1 DEF LoopType
  <2>3. Sole(current, queues, loops')
    BY <2>1, <2>2, SoleKept
  <2> QED
    BY <2>1, <2>3
<1>4. CASE Break(q, s, b)
  BY <1>4, BreakSole
<1> QED
  BY <1>2, <1>3, <1>4 DEF One

LEMMA WakeSole ==
  ASSUME SoleInv, NEW q \in Queues, Wake(q)
  PROVE  Sole(current', queues', loops') /\ Homed(pc', home')
<1> DEFINE s == queues[q]
           force == loops[q].force
           summed == Summarized(s)
           W == WaitIn(pc, home, q)
           told == CanSummarize(s)
           emptied == [summed EXCEPT !.items = <<>>]
           none == <<>>
           no == FALSE
           yes == TRUE
<1>1. loops[q].pc = "debounce"
  BY DEF Wake
<1>2. s.items \in Seq(Msgs) /\ ToSet(s.items) = W
  <2>1. Tidy(s, W, UntoldOf(pc, home, q)) /\ s.items \in Seq(Msgs)
    BY DEF SoleInv, IInv, QueuesGood, Tidy, QueueType
  <2> QED
    BY <2>1, ItemsListed DEF Tidy
<1>3. none \in Seq(Msgs) /\ ToSet(none) \subseteq W
  BY DEF ToSet
<1>4. \/ One(q, yes)
      \/ One(q, force)
      \/ HandOver(q, emptied, s.items, no, told)
      \/ HandOver(q, summed, none, force, told)
      \/ Break(q, emptied, told)
      \/ Break(q, summed, told)
  BY DEF Wake
<1> HIDE DEF told, summed, no, yes, none, force, s, emptied
<1>5. CASE One(q, yes) \/ One(q, force)
  BY <1>1, <1>5, OneSole
<1>6. CASE HandOver(q, emptied, s.items, no, told)
  BY <1>1, <1>2, <1>6, HandOverSole
<1>7. CASE HandOver(q, summed, none, force, told)
  BY <1>1, <1>3, <1>7, HandOverSole
<1>8. CASE Break(q, emptied, told) \/ Break(q, summed, told)
  BY <1>1, <1>8, BreakSole
<1> QED
  BY <1>4, <1>5, <1>6, <1>7, <1>8

LEMMA LoopSole ==
  ASSUME SoleInv, NEW q \in Queues, Resume(q) \/ FollowupThrows(q)
  PROVE  Sole(current', queues', loops') /\ Homed(pc', home')
<1>1. /\ loops \in [Queues -> LoopType] /\ current \in 0..MaxQueues
      /\ loops[q].pc = "closing" /\ queues' = queues /\ pc' = pc /\ home' = home
      /\ Sole(current, queues, loops) /\ Homed(pc, home)
  BY NamesAssumption DEF SoleInv, IInv, Typed, Resume, FollowupThrows
<1>2. CASE Apply(Ended(q, current, queues, loops))
  <2>1. LET r == Ended(q, current, queues, loops) IN Sole(r.current, queues, r.loops)
    BY <1>1, EndedSole
  <2> QED
    BY <1>1, <1>2, <2>1 DEF Apply
<1>3. CASE loops' = [loops EXCEPT ![q].pc = "debounce", ![q].batch = <<>>] /\ current' = current
  <2>1. \A k \in Queues : loops'[k].pc = loops[k].pc \/ (loops[k].pc # "off" /\ loops'[k].pc # "hung")
    BY <1>1, <1>3 DEF LoopType
  <2>2. Sole(current, queues, loops')
    BY <1>1, <2>1, SoleKept
  <2> QED
    BY <1>1, <1>3, <2>2
<1> QED
  BY <1>2, <1>3 DEF Resume, FollowupThrows

LEMMA FinalizeSole ==
  ASSUME SoleInv, NEW m \in Msgs, Finalize(m)
  PROVE  Sole(current', queues', loops') /\ Homed(pc', home')
<1>1. /\ loops \in [Queues -> LoopType] /\ current \in 0..MaxQueues /\ pc \in [Msgs -> MsgPc]
      /\ pc' = [pc EXCEPT ![m] = "done"] /\ queues' = queues /\ home' = home
      /\ Apply(Scheduled(current, queues, loops))
      /\ Sole(current, queues, loops) /\ Homed(pc, home)
  BY NamesAssumption DEF SoleInv, IInv, Typed, Finalize
<1>2. LET r == Scheduled(current, queues, loops) IN Sole(r.current, queues, r.loops)
  BY <1>1, ScheduledSole
<1>3. Sole(current', queues', loops')
  BY <1>1, <1>2 DEF Apply
<1> QED
  BY <1>1, <1>3 DEF Homed

LEMMA RunSole ==
  ASSUME SoleInv, NEW x \in Actors, Register(x) \/ Unregister(x)
  PROVE  Sole(current', queues', loops') /\ Homed(pc', home')
<1> DEFINE none == {}
<1>1. /\ IInv /\ none \in SUBSET InLine(pc, loops) /\ LaneGood(pc, loops, lane)
      /\ Spot(pc, loops, x) \in Holding /\ UNCHANGED <<current, queues, home>>
      /\ Sole(current, queues, loops) /\ Homed(pc, home) /\ \A m \in Msgs : m \notin Queues
  BY NamesAssumption DEF SoleInv, IInv, Register, Unregister, Place, Spot, Holding, Queues
<1>2. lane # <<>> => Head(lane) \in InLine(pc, loops)
  <2>1. lane \in Seq(Actors) /\ \A i \in 1..Len(lane) : lane[i] \in InLine(pc, loops)
    BY <1>1 DEF LaneGood, Lists
  <2> QED
    BY <2>1
<1>3. \E to \in {"active", "closing"}, next \in SUBSET InLine(pc, loops) : Move(x, to, next)
  <2>1. CASE Register(x)
    <3>1. Move(x, "active", none)
      BY <2>1 DEF Register
    <3> QED
      BY <1>1, <3>1
  <2>2. CASE Unregister(x) /\ lane = <<>>
    <3>1. Move(x, "closing", none)
      BY <2>2 DEF Unregister
    <3> QED
      BY <1>1, <3>1
  <2>3. CASE Unregister(x) /\ lane # <<>>
    <3>1. Move(x, "closing", {Head(lane)})
      BY <2>3 DEF Unregister
    <3>2. {Head(lane)} \in SUBSET InLine(pc, loops)
      BY <1>2, <2>3
    <3> QED
      BY <3>1, <3>2
  <2> QED
    BY <2>1, <2>2, <2>3
<1>4. PICK to \in {"active", "closing"}, next \in SUBSET InLine(pc, loops) : Move(x, to, next)
  BY <1>3
<1>5. /\ Spot(pc', loops', x) = to
      /\ \A y \in Actors \ {x} : Spot(pc', loops', y) = IF y \in next THEN "prep" ELSE Spot(pc, loops, y)
      /\ \A m \in Msgs : \/ pc'[m] = pc[m]
                         \/ pc[m] \notin {"queued", "dropped"} /\ pc'[m] \notin {"queued", "dropped"}
  BY <1>1, <1>4, MoveFacts
<1>6. \A y \in next : y \in Actors /\ Spot(pc, loops, y) = "lane"
  BY DEF InLine
<1>7. ASSUME NEW q \in Queues
      PROVE  loops'[q].pc = loops[q].pc \/ (loops[q].pc # "off" /\ loops'[q].pc # "hung")
  <2>1. q \in Actors /\ Spot(pc, loops, q) = loops[q].pc /\ Spot(pc', loops', q) = loops'[q].pc
    BY <1>1 DEF Spot, Actors
  <2> QED
    BY <1>1, <1>5, <1>6, <2>1 DEF Holding
<1>8. Sole(current, queues, loops')
  BY <1>1, <1>7, SoleKept
<1>9. Homed(pc', home')
  BY <1>1, <1>5 DEF Homed
<1> QED
  BY <1>1, <1>8, <1>9

LEMMA EnqueueSole ==
  ASSUME SoleInv, NEW m \in Msgs, Enqueue(m)
  PROVE  Sole(current', queues', loops') /\ Homed(pc', home')
<1> DEFINE s == look[m].settings
           id == IF current = 0 THEN created + 1 ELSE current
           old == IF current = 0 THEN NoQueue ELSE queues[current]
           q == [old EXCEPT !.mode = s.mode, !.drop = s.drop, !.cap = s.cap]
<1>1. /\ Typed /\ Sole(current, queues, loops) /\ Homed(pc, home)
      /\ queues \in [Queues -> QueueType] /\ pc \in [Msgs -> MsgPc] /\ home \in [Msgs -> 0..MaxQueues]
      /\ loops' = loops /\ current' = id
  BY DEF SoleInv, IInv, Typed, Enqueue
<1>2. id # 0 /\ \A k \in Queues : k # 0 /\ (k # id => k # current)
  BY <1>1, NamesAssumption DEF Typed, Queues
<1>3. \A k \in Queues : k # id => queues'[k] = queues[k]
  <2>1. \E rec : queues' = [queues EXCEPT ![id] = rec]
    BY DEF Enqueue
  <2> HIDE DEF id
  <2> QED
    BY <1>1, <2>1
<1>4. Sole(current', queues', loops')
  <2>1. ASSUME NEW k \in Queues, k = current PROVE k = id
    BY <1>2, <2>1, SMTT(30)
  <2> HIDE DEF id
  <2> QED
    BY <1>1, <1>2, <1>3, <2>1 DEF Sole
<1>5. \/ pc' = [pc EXCEPT ![m] = "skipped"] /\ home' = home
      \/ pc' = [pc EXCEPT ![m] = "discarded"] /\ home' = home
      \/ LET gone == ToSet(q.items) \ ToSet(DropOldest(q).items)
             fate == IF q.drop = "summarize" THEN "dropped" ELSE "discarded"
         IN /\ pc' = [x \in Msgs |-> IF x = m THEN "queued" ELSE IF x \in gone THEN fate ELSE pc[x]]
            /\ home' = [x \in Msgs |-> IF x = m THEN id
                                       ELSE IF x \in gone /\ fate = "discarded" THEN 0
                                       ELSE home[x]]
  BY DEF Enqueue
<1> HIDE DEF s, old, q, id
<1>6. Homed(pc', home')
  BY <1>1, <1>2, <1>5 DEF Homed
<1> QED
  BY <1>4, <1>6

LEMMA ArrivalSole ==
  ASSUME SoleInv, Undisturbed, NEW m \in Msgs,
         \/ \E s \in SettingsOf[m] : Look(m, s)
         \/ Direct(m) \/ Steer(m) \/ ReplyThrows(m)
  PROVE  Sole(current', queues', loops') /\ Homed(pc', home')
<1>1. /\ Sole(current, queues, loops) /\ Homed(pc, home) /\ pc \in [Msgs -> MsgPc]
  BY DEF SoleInv, IInv, Typed
<1>2. CASE \E s \in SettingsOf[m] : Look(m, s)
  <2>1. /\ pc' = [pc EXCEPT ![m] = "looked"] /\ UNCHANGED <<current, queues, loops, home>>
    BY <1>2 DEF Look, Undisturbed
  <2> QED
    BY <1>1, <2>1 DEF Homed
<1>3. CASE Direct(m) \/ Steer(m) \/ ReplyThrows(m)
  <2>1. \E to \in {"prep", "lane", "steered", "failed"} : pc' = [pc EXCEPT ![m] = to]
    BY <1>3 DEF Direct, Steer, ReplyThrows, Joined
  <2>2. UNCHANGED <<current, queues, loops, home>>
    BY <1>3 DEF Direct, Steer, ReplyThrows
  <2> QED
    BY <1>1, <2>1, <2>2 DEF Homed
<1> QED
  BY <1>2, <1>3

LEMMA StepSole ==
  ASSUME SoleInv, Undisturbed, [Next]_vars
  PROVE  SoleInv'
<1>1. IInv'
  BY StepIInv DEF SoleInv
<1>2. CASE UNCHANGED vars
  <2>1. current' = current /\ queues' = queues /\ loops' = loops /\ pc' = pc /\ home' = home
    BY <1>2 DEF vars
  <2> QED
    BY <1>1, <2>1 DEF SoleInv
<1>3. CASE Next
  <2>1. ASSUME NEW m \in Msgs,
               \/ \E s \in SettingsOf[m] : Look(m, s)
               \/ Direct(m) \/ Steer(m) \/ ReplyThrows(m)
        PROVE  Sole(current', queues', loops') /\ Homed(pc', home')
    BY <2>1, ArrivalSole
  <2>2. ASSUME NEW m \in Msgs, Enqueue(m) \/ Finalize(m)
        PROVE  Sole(current', queues', loops') /\ Homed(pc', home')
    BY <2>2, EnqueueSole, FinalizeSole
  <2>3. ASSUME NEW q \in Queues, Wake(q) \/ Resume(q) \/ FollowupThrows(q)
        PROVE  Sole(current', queues', loops') /\ Homed(pc', home')
    BY <2>3, WakeSole, LoopSole
  <2>4. ASSUME NEW x \in Msgs \cup Queues, Register(x) \/ Unregister(x)
        PROVE  Sole(current', queues', loops') /\ Homed(pc', home')
    BY <2>4, RunSole DEF Actors
  <2>5. ~ Stop
    BY DEF Stop, Undisturbed
  <2>6. Sole(current', queues', loops') /\ Homed(pc', home')
    BY <1>3, <2>1, <2>2, <2>3, <2>4, <2>5 DEF Next, Progress, Outside
  <2> QED
    BY <1>1, <2>6 DEF SoleInv
<1> QED
  BY <1>2, <1>3

LEMMA InitSole == Init => SoleInv
<1> SUFFICES ASSUME Init PROVE SoleInv
  OBVIOUS
<1>1. IInv
  BY InitIInv
<1>2. NoQueue.items = <<>> /\ NoQueue.dropped = 0 /\ ~ (0 > 0)
  BY DEF NoQueue
<1>3. ~ HasWork(NoQueue)
  BY <1>2 DEF HasWork
<1>4. Sole(current, queues, loops)
  BY <1>3, OffType DEF Init, Sole
<1>5. Homed(pc, home)
  BY DEF Init, Homed
<1> QED
  BY <1>1, <1>4, <1>5 DEF SoleInv

LEMMA SoleNoOrphans ==
  ASSUME SoleInv
  PROVE  NoOrphans
<1> SUFFICES ASSUME NEW m \in Msgs, pc[m] = "queued"
             PROVE  \/ loops[home[m]].pc \notin {"off", "hung"}
                    \/ home[m] = current /\ loops[current].pc = "off"
  BY DEF NoOrphans
<1>1. home[m] \in Queues
  BY NamesAssumption DEF SoleInv, IInv, Typed, Homed, Queues
<1>2. queues[home[m]].items # <<>>
  <2>1. Lists(queues[home[m]].items, WaitIn(pc, home, home[m]))
    BY <1>1 DEF SoleInv, IInv, QueuesGood, Tidy
  <2>2. m \in WaitIn(pc, home, home[m])
    BY DEF WaitIn
  <2>3. \E i \in 1..Len(queues[home[m]].items) : TRUE
    BY <2>1, <2>2 DEF Lists
  <2> QED
    BY <2>3
<1>3. home[m] = current /\ loops[home[m]].pc # "hung"
  BY <1>1, <1>2 DEF SoleInv, Sole, HasWork
<1> QED
  BY <1>3

(* NoOrphans, which a /stop refutes: as long as nobody stops the session   *)
(* and no message interrupts it, what waits is in the key's queue, and its *)
(* loop, if it runs, goes on, whatever replies and deliveries throw.  So   *)
(* it is only clearSessionQueues and the cleared lane that separate a      *)
(* message from its queue.                                                 *)
THEOREM UndisturbedNoOrphans == ASSUME Undisturbed PROVE Spec => []NoOrphans
<1>1. SoleInv /\ [Next]_vars => SoleInv'
  BY StepSole
<1>2. SoleInv => NoOrphans
  BY SoleNoOrphans
<1> QED
  BY <1>1, <1>2, InitSole, PTL DEF Spec
=============================================================================
