---------------------------- MODULE QueueHelpers ----------------------------
(***************************************************************************)
(* utils/queue-helpers.ts: what the follow-up queue of a session and the   *)
(* queue of its announcements share.  A queue is a record with at least    *)
(*   items, cap     the waiting items and how many may wait                *)
(*   drop           the policy for what is too much                        *)
(*   dropped        how many were dropped and are to be summarized         *)
(*   summary        the items of which a summary has a line                *)
(***************************************************************************)
EXTENDS Naturals, Sequences, FiniteSets

CONSTANTS
  Unkeyed,     \* the route of an item without a channel or a target
  Unroutable   \* the route of an item that can go with no other

Drops == {"old", "new", "summarize"}

HasWork(q) == q.items # <<>> \/ q.dropped > 0

(* A queue that takes one more item.                                       *)
Overflow(q) == Len(q.items) >= q.cap

(* A mutant: counts an overflow once, however many items it drops.         *)
DropOldestFaulty(q) ==
  LET n == IF Overflow(q) THEN Len(q.items) - q.cap + 1 ELSE 0
  IN [q EXCEPT !.items = SubSeq(@, n + 1, Len(@)),
               !.dropped = IF n > 0 /\ q.drop = "summarize" THEN @ + 1 ELSE @]

(* A mutant: what is dropped is not counted.                               *)
DropOldestUncountedFaulty(q) ==
  LET n == IF Overflow(q) THEN Len(q.items) - q.cap + 1 ELSE 0
  IN [q EXCEPT !.items = SubSeq(@, n + 1, Len(@))]

(* applyQueueDropPolicy, for the policies that make room.                  *)
DropOldest(q) ==
  LET n == IF Overflow(q) THEN Len(q.items) - q.cap + 1 ELSE 0
      lines == q.summary \o SubSeq(q.items, 1, n)
      excess == IF Len(lines) > q.cap THEN Len(lines) - q.cap ELSE 0
  IN IF q.drop = "summarize"
     THEN [q EXCEPT !.items = SubSeq(@, n + 1, Len(@)),
                    !.dropped = @ + n,
                    !.summary = SubSeq(lines, excess + 1, Len(lines))]
     ELSE [q EXCEPT !.items = SubSeq(@, n + 1, Len(@))]

(* A mutant: items without a key do not count as another channel.          *)
CrossChannelFaulty(routes) ==
  Unroutable \in routes \/ Cardinality(routes \ {Unkeyed, Unroutable}) > 1

(* hasCrossChannelItems, of the routes of the items.                       *)
CrossChannel(routes) ==
  LET keys == routes \ {Unkeyed, Unroutable}
  IN \/ Unroutable \in routes
     \/ keys # {} /\ Unkeyed \in routes
     \/ Cardinality(keys) > 1

CanSummarize(q) == q.drop = "summarize" /\ q.dropped > 0

(* A mutant: the count is not reset.                                       *)
SummarizedKeepsCountFaulty(q) == IF CanSummarize(q) THEN [q EXCEPT !.summary = <<>>] ELSE q

(* buildQueueSummaryPrompt.                                                *)
Summarized(q) == IF CanSummarize(q) THEN [q EXCEPT !.dropped = 0, !.summary = <<>>] ELSE q
=============================================================================
