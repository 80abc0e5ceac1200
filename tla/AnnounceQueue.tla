---------------------------- MODULE AnnounceQueue ----------------------------
(***************************************************************************)
(* What a finished subagent or cron job has to tell the session that asked *)
(* for it (subagent-announce.ts), and the queue that keeps it while that   *)
(* session is busy (subagent-announce-queue.ts), on top of CommandLanes:   *)
(* an announcement is told by a gateway call "agent", whose run takes its  *)
(* place in the lanes like every other run of the session.                 *)
(*                                                                         *)
(* The drain loop of a session's queue makes one call at a time and waits  *)
(* for the run to end, but not longer than the timeout of the call; the    *)
(* run goes on.  What a call carries is taken off the queue before the     *)
(* call is made.  An announcement and the call that was made with its      *)
(* origin have one name.  The queue's Map entry is deleted when it is      *)
(* empty and the next call sets every field, so it is a record that is     *)
(* always there.  Time is left out: debounces and timeouts end at any time *)
(***************************************************************************)
EXTENDS CommandLanes, QueueHelpers

CONSTANTS
  Announcements,   \* the runs that are announcements; the others have other callers
  RouteOf,         \* origin of an announcement, or Unkeyed or Unroutable
  SettingsOf       \* queue settings [mode, drop, cap] an announcement may resolve to

Modes == {"steer", "followup", "collect", "steer-backlog", "interrupt", "queue"}

ASSUME AnnouncementsAssumption == Announcements \subseteq Runs
ASSUME SettingsAssumption ==
  \A a \in Announcements : SettingsOf[a] \subseteq [mode : Modes, drop : Drops, cap : Nat \ {0}]

VARIABLES
  announces,   \* [session -> AnnounceQueueState]
  drain,       \* [session -> its drain loop]
  call,        \* [announcement -> the gateway call made with its origin]
  fate         \* [announcement -> what became of it]; no guard but of "new" reads it

announceVars == <<announces, drain, call, fate>>
allVars == <<vars, announceVars>>

Fate ==
  { "new", "direct", "steered",
    "queued",       \* an item of the queue
    "counted",      \* dropped from it, and counted
    "told",         \* its text is in the prompt of a call
    "summarized",   \* it is counted in the prompt of a call
    "discarded",    \* by the drop policy, its flow was told "queued"
    "replaced",     \* its item was sent with a summary of others for a prompt
    "unsaid" }      \* its summary was built with no item to send it with

Call ==
  [ state : {"none", "made", "lost"},
    own : SUBSET Announcements,        \* whose text the prompt has
    counted : SUBSET Announcements ]   \* whom it counts

NoCall == [state |-> "none", own |-> {}, counted |-> {}]

Off == [pc |-> "off", force |-> FALSE, item |-> {}]

EmptyQueue ==
  [items |-> <<>>, cap |-> 1, mode |-> "collect", drop |-> "summarize", dropped |-> 0, summary |-> <<>>]

ItemsOf(q) == { q.items[i] : i \in DOMAIN q.items }
RoutesOf(q) == { RouteOf[a] : a \in ItemsOf(q) }

Untold(s) == { a \in Announcements : SessionOf[a] = s /\ fate[a] = "counted" }

(* A loop that can only break with work left is restarted by its finally   *)
(* block and breaks again, with nothing but microtasks in between: nothing *)
(* else of the process runs any more.                                      *)
Frozen == \E s \in Sessions : drain[s].pc = "spin"

AnnounceInit ==
  /\ Init
  /\ announces = [s \in Sessions |-> EmptyQueue]
  /\ drain = [s \in Sessions |-> Off]
  /\ call = [a \in Announcements |-> NoCall]
  /\ fate = [a \in Announcements |-> "new"]

-----------------------------------------------------------------------------
(* maybeQueueSubagentAnnounce, without an await between the look at the    *)
(* active run and what is done about it.                                   *)

(* A run is registered as active for a part of the time it has its slots.  *)
MayBeActive(s) == \E r \in Runs : SessionOf[r] = s /\ stage[r] = "running"

Steer(a) ==
  /\ fate[a] = "new" /\ MayBeActive(SessionOf[a])
  /\ \E s \in SettingsOf[a] : s.mode \in {"steer", "steer-backlog"}
  /\ fate' = [fate EXCEPT ![a] = "steered"]
  /\ UNCHANGED <<vars, announces, drain, call>>

(* No run of the session is active, or it is in the mode "queue".          *)
Direct(a) ==
  /\ fate[a] = "new"
  /\ call' = [call EXCEPT ![a] = [state |-> "made", own |-> {a}, counted |-> {}]]
  /\ fate' = [fate EXCEPT ![a] = "direct"]
  /\ UNCHANGED <<vars, announces, drain>>

(* scheduleAnnounceDrain of a queue that has work.                         *)
Scheduled(d) == IF d.pc = "off" THEN [d EXCEPT !.pc = "debounce"] ELSE d

(* enqueueAnnounce; also a look for a steerable run that found none.       *)
Enqueue(a) ==
  LET s == SessionOf[a]
  IN /\ fate[a] = "new" /\ MayBeActive(s)
     /\ \E set \in SettingsOf[a] :
          LET q == [announces[s] EXCEPT !.mode = set.mode, !.drop = set.drop, !.cap = set.cap]
              kept == DropOldest(q)
              gone == ItemsOf(q) \ ItemsOf(kept)
          IN /\ set.mode # "queue"
             /\ \/ /\ Overflow(q) /\ q.drop = "new"
                   /\ announces' = [announces EXCEPT ![s] = q]
                   /\ fate' = [fate EXCEPT ![a] = "discarded"]
                \/ /\ ~ (Overflow(q) /\ q.drop = "new")
                   /\ announces' = [announces EXCEPT ![s] = [kept EXCEPT !.items = Append(@, a)]]
                   /\ fate' = [x \in Announcements |->
                                 IF x = a THEN "queued"
                                 ELSE IF x \notin gone THEN fate[x]
                                 ELSE IF q.drop = "summarize" THEN "counted" ELSE "discarded"]
     /\ drain' = [drain EXCEPT ![s] = Scheduled(@)]
     /\ UNCHANGED <<vars, call>>

-----------------------------------------------------------------------------
(* The drain loop.                                                         *)

(* A mutant: the finally block does not start the loop again.              *)
EndedFaulty(q) == Off

(* The finally block.                                                      *)
Ended(q) == IF HasWork(q) THEN Scheduled(Off) ELSE Off

(* await queue.send: the gateway is called with the origin of item a.      *)
Send(s, a, rest, own, counted, force) ==
  /\ announces' = [announces EXCEPT ![s] = rest]
  /\ drain' = [drain EXCEPT ![s] = [pc |-> "send", force |-> force, item |-> {a}]]
  /\ call' = [call EXCEPT ![a] = [state |-> "made", own |-> own, counted |-> counted]]
  /\ fate' = [x \in Announcements |->
                IF x \in own THEN "told"
                ELSE IF x \in counted THEN "summarized"
                ELSE IF x = a THEN "replaced" ELSE fate[x]]

(* The first item goes alone.                                              *)
SendFirst(s, force) ==
  LET q == announces[s]
  IN /\ q.items # <<>>
     /\ Send(s, Head(q.items), [q EXCEPT !.items = Tail(@)], {Head(q.items)}, {}, force)

(* All items go as one, with the origin of the last.                       *)
SendAll(s) ==
  LET q == announces[s]
  IN /\ q.items # <<>>
     /\ Send(s, q.items[Len(q.items)], [Summarized(q) EXCEPT !.items = <<>>], ItemsOf(q),
             IF CanSummarize(q) THEN Untold(s) ELSE {}, FALSE)

(* The summary goes in the place of the text of the first item.            *)
SendSummary(s, force) ==
  LET q == announces[s]
  IN /\ q.items # <<>>
     /\ Send(s, Head(q.items), [Summarized(q) EXCEPT !.items = Tail(@)], {}, Untold(s), force)

(* There is no item, and the loop breaks.  One that sends item by item     *)
(* is started anew; one that can summarize built the summary before it     *)
(* looked; for the others nothing changes.                                 *)
BreakForced(s) ==
  /\ announces[s].items = <<>>
  /\ drain' = [drain EXCEPT ![s] = Ended(announces[s])]
  /\ UNCHANGED <<announces, call, fate>>

BreakUnsaid(s) ==
  LET q == announces[s]
  IN /\ q.items = <<>> /\ CanSummarize(q)
     /\ announces' = [announces EXCEPT ![s] = Summarized(q)]
     /\ drain' = [drain EXCEPT ![s] = Ended(Summarized(q))]
     /\ fate' = [a \in Announcements |-> IF a \in Untold(s) THEN "unsaid" ELSE fate[a]]
     /\ UNCHANGED call

Spin(s) ==
  /\ announces[s].items = <<>> /\ ~ CanSummarize(announces[s])
  /\ drain' = [drain EXCEPT ![s].pc = "spin"]
  /\ UNCHANGED <<announces, call, fate>>

(* From the end of the debounce to the next await.                         *)
Wake(s) ==
  LET q == announces[s]
      force == drain[s].force
      collect == q.mode = "collect"
      mixed == CrossChannel(RoutesOf(q))
  IN /\ drain[s].pc = "debounce"
     /\ UNCHANGED vars
     /\ \/ collect /\ (force \/ mixed) /\ SendFirst(s, TRUE)
        \/ collect /\ ~ (force \/ mixed) /\ SendAll(s)
        \/ ~ collect /\ CanSummarize(q) /\ SendSummary(s, force)
        \/ ~ collect /\ ~ CanSummarize(q) /\ SendFirst(s, force)
        \/ collect /\ force /\ BreakForced(s)
        \/ ~ (collect /\ force) /\ (BreakUnsaid(s) \/ Spin(s))

(* The run ended well and its final response came.                         *)
Returns(s) ==
  /\ drain[s].pc = "send"
  /\ \A a \in drain[s].item : stage[a] = "settled"
  /\ drain' = [drain EXCEPT ![s] = IF HasWork(announces[s])
                                   THEN [@ EXCEPT !.pc = "debounce", !.item = {}] ELSE Off]
  /\ UNCHANGED <<vars, announces, call, fate>>

(* The call times out, its connection closes, or the run failed.  The loop *)
(* goes on with the next item: nothing takes the call's item back.  What   *)
(* has not come to the lanes yet may still come, or is lost.               *)
Throws(s) ==
  /\ drain[s].pc = "send"
  /\ drain' = [drain EXCEPT ![s] = Ended(announces[s])]
  /\ \/ UNCHANGED call
     \/ \E a \in drain[s].item :
          stage[a] = "new" /\ call' = [call EXCEPT ![a].state = "lost"]
  /\ UNCHANGED <<vars, announces, fate>>

-----------------------------------------------------------------------------
(* The lanes.                                                              *)

(* The gateway's handler of "agent" comes to runEmbeddedPiAgent.           *)
Accept(a) == call[a].state = "made" /\ Submit(a) /\ UNCHANGED announceVars

Others ==
  \/ \E r \in Runs \ Announcements : Submit(r)
  \/ \E g \in Globals, n \in Limits : SetConcurrency(g, n)
  \/ \E s \in Sessions : ClearLane(s)

LaneServes(r) == (Finish(r) \/ Settle(r)) /\ UNCHANGED announceVars

(* What goes on without anyone outside.                                    *)
Progress ==
  /\ ~ Frozen
  /\ \/ \E s \in Sessions : Throws(s) \/ Returns(s) \/ Wake(s)
     \/ \E a \in Announcements : Accept(a)
     \/ \E r \in Runs : LaneServes(r)

Outside ==
  /\ ~ Frozen
  /\ \/ \E a \in Announcements : Steer(a) \/ Direct(a) \/ Enqueue(a)
     \/ Others /\ UNCHANGED announceVars

AnnounceNext == Progress \/ Outside

(* Runs end, awaits resume, debounces and timeouts end, and the gateway    *)
(* goes on with what it was asked for: the event loop does not rest while  *)
(* something of that can go on.  Runs and announcements are finitely many, *)
(* so nothing needs to be fairer than that.                                *)
AnnounceFairness == WF_allVars(Progress)

AnnounceSpec == AnnounceInit /\ [][AnnounceNext]_allVars
AnnounceFairSpec == AnnounceSpec /\ AnnounceFairness

-----------------------------------------------------------------------------
(* Every announcement that is neither told nor given up is in its queue,   *)
(* once, or counted there, whatever the settings were when the others came *)
(* and whichever way the loop took; no announcement is told by two calls,  *)
(* also when calls fail; and the texts that go out as one prompt, which    *)
(* gets one reply, come from one origin.                                   *)
AnnounceAccounting ==
  /\ \A s \in Sessions :
       LET q == announces[s]
       IN /\ ItemsOf(q) = { a \in Announcements : SessionOf[a] = s /\ fate[a] = "queued" }
          /\ Len(q.items) = Cardinality(ItemsOf(q))
          /\ q.dropped = Cardinality(Untold(s))
          /\ { q.summary[i] : i \in DOMAIN q.summary } \subseteq Untold(s)
          /\ HasWork(q) => drain[s].pc # "off"
  /\ \A a, b \in Announcements :
       /\ a # b => (call[a].own \cup call[a].counted) \cap (call[b].own \cup call[b].counted) = {}
       /\ {a, b} \subseteq call[b].own => RouteOf[a] = RouteOf[b] /\ (a # b => RouteOf[a] # Unroutable)
  /\ \A a \in Announcements : call[a] \in Call /\ fate[a] \in Fate

(* What became of the call that tells a, or counts it.                     *)
Reached(a) ==
  \E c \in Announcements :
    /\ a \in call[c].own \cup call[c].counted
    /\ \/ stage[c] = "settled"
       \/ stage[c] = "dropped"          \* with the lane it waited in
       \/ call[c].state = "lost"

(* In the end every run that came to the lanes is settled, unless it was   *)
(* cleared from its lane, and every announcement that was queued has come  *)
(* to the agent in such a run, itself or in a summary, although calls fail *)
(* and runs take longer than the loop waits or never end.  Excepted is     *)
(* what the code gives up by name: a call that is lost, an announcement    *)
(* the policy discards, one whose text the summary replaced, a summary     *)
(* nobody sends, and the loop that freezes the process.                    *)
AllServed ==
  <>[](\/ Frozen
       \/ /\ \A r \in Runs : stage[r] \in {"new", "settled", "dropped"}
          /\ \A a \in Announcements :
                fate[a] \in {"queued", "counted", "told", "summarized"} => Reached(a))
=============================================================================
