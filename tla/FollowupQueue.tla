---------------------------- MODULE FollowupQueue ----------------------------
(***************************************************************************)
(* Messages that arrive for one session key while its agent is busy        *)
(* (auto-reply/reply): getReply looks whether a run is active, awaits, and *)
(* then either answers in a run of its own or puts the message in the      *)
(* key's followup queue, which a drain loop hands to the agent after a     *)
(* reply was finalized.                                                    *)
(*                                                                         *)
(* Queues are objects: /stop takes the queue out of FOLLOWUP_QUEUES while  *)
(* a drain loop may still hold it, and the next message makes a new one.   *)
(* Code between two awaits is one step.  Time is left out: a debounce ends *)
(* at any time.  The runs of the session exclude each other by its command *)
(* lane, see CommandLanes.                                                 *)
(***************************************************************************)
EXTENDS QueueHelpers, SequencesExt

CONSTANTS
  Msgs,        \* inbound messages of the session
  IdOf,        \* provider message id; a redelivery has the id of the original
  RouteOf,     \* originating channel and target, or Unkeyed or Unroutable
  SettingsOf,  \* queue settings [mode, drop, cap] a message may resolve to
  MayStop,     \* whether /stop or a session reset happens
  MayFail,     \* whether a reply or a followup run may throw
  MaxQueues    \* bound: queue objects ever created

Modes == {"steer", "followup", "collect", "steer-backlog", "interrupt", "queue"}

ASSUME NamesAssumption ==
  IsFiniteSet(Msgs) /\ MaxQueues \in Nat /\ Msgs \cap (1..MaxQueues) = {}
ASSUME SettingsAssumption ==
  \A m \in Msgs :
    SettingsOf[m] # {} /\ SettingsOf[m] \subseteq [mode : Modes, drop : Drops, cap : Nat \ {0}]

Settings == UNION { SettingsOf[m] : m \in Msgs }

VARIABLES
  current,   \* the queue FOLLOWUP_QUEUES has for the key, 0 for none
  created,   \* how many queue objects were made
  queues,    \* [queue -> FollowupQueueState]
  loops,     \* [queue -> its drain loop]
  pc,        \* [message -> where it is]
  look,      \* [message -> what getReply read before its await]
  home,      \* [message -> the queue it waits in or was dropped from, 0 for none]
  lane       \* the messages and loops whose run waits in the session lane

vars == <<current, created, queues, loops, pc, look, home, lane>>

Queues == 1..MaxQueues

-----------------------------------------------------------------------------
(* Where a message is.  The second group records what became of a message  *)
(* that was to be queued; no guard reads it.                               *)
MsgPc ==
  { "new", "looked",
    "lane",       \* its own run waits in the session lane
    "prep",       \* the run has the lane's slot, not yet registered as active
    "active",     \* registered in ACTIVE_EMBEDDED_RUNS
    "closing",    \* unregistered, the reply not yet finalized
    "done", "failed",
    "hung",       \* its run was cleared from the lane and never settles
    "steered" }
  \cup
  { "queued", "skipped", "handed", "dropped", "summarized", "discarded", "cleared" }

LoopPc == {"off", "debounce", "lane", "prep", "active", "closing", "hung", "spin"}

QueueRecord ==
  [items : Seq(Msgs), mode : Modes, drop : Drops, cap : Nat, dropped : Nat,
   summary : Seq(Msgs), hasRun : BOOLEAN]

NoQueue ==
  [items |-> <<>>, mode |-> "collect", drop |-> "summarize", cap |-> 1,
   dropped |-> 0, summary |-> <<>>, hasRun |-> FALSE]

Off == [pc |-> "off", force |-> FALSE, batch |-> <<>>]

Holding == {"prep", "active"}

(* The session lane's slot is free.                                        *)
SlotFree ==
  /\ \A m \in Msgs : pc[m] \notin Holding
  /\ \A q \in Queues : loops[q].pc \notin Holding

IsActive ==
  \/ \E m \in Msgs : pc[m] = "active"
  \/ \E q \in Queues : loops[q].pc = "active"

(* A look is forgotten when it was acted upon.                             *)
NoLook == [active |-> FALSE, settings |-> CHOOSE s \in Settings : TRUE]
Forget(m) == look' = [look EXCEPT ![m] = NoLook]

Init ==
  /\ current = 0
  /\ created = 0
  /\ queues = [q \in Queues |-> NoQueue]
  /\ loops = [q \in Queues |-> Off]
  /\ pc = [m \in Msgs |-> "new"]
  /\ look = [m \in Msgs |-> NoLook]
  /\ home = [m \in Msgs |-> 0]
  /\ lane = <<>>

-----------------------------------------------------------------------------
(* Arrival.                                                                *)

HungMsgs(p) == [m \in Msgs |-> IF p[m] = "lane" THEN "hung" ELSE p[m]]
HungLoops(l) == [q \in Queues |-> IF l[q].pc = "lane" THEN [l[q] EXCEPT !.pc = "hung"] ELSE l[q]]

(* Settings and the active flag are read before the await.  Interrupt mode *)
(* clears the session lane and aborts the active run, which goes on until  *)
(* it notices.                                                             *)
Look(m, s) ==
  /\ pc[m] = "new"
  /\ look' = [look EXCEPT ![m] = [active |-> IsActive, settings |-> s]]
  /\ IF s.mode = "interrupt"
     THEN /\ pc' = [HungMsgs(pc) EXCEPT ![m] = "looked"]
          /\ loops' = HungLoops(loops)
          /\ lane' = <<>>
     ELSE /\ pc' = [pc EXCEPT ![m] = "looked"]
          /\ UNCHANGED <<loops, lane>>
  /\ UNCHANGED <<current, created, queues, home>>

ShouldFollowup(m) == look[m].settings.mode \in {"followup", "collect", "steer-backlog"}
ShouldSteer(m) == look[m].settings.mode \in {"steer", "steer-backlog"}
ShouldQueue(m) == look[m].active /\ (ShouldFollowup(m) \/ look[m].settings.mode = "steer")

(* queueEmbeddedPiMessage: the text goes into the run that streams now.    *)
Steer(m) ==
  /\ pc[m] = "looked"
  /\ ShouldSteer(m) /\ look[m].active /\ ~ ShouldFollowup(m)
  /\ IsActive
  /\ pc' = [pc EXCEPT ![m] = "steered"]
  /\ Forget(m)
  /\ UNCHANGED <<current, created, queues, loops, home, lane>>

(* enqueueCommandInLane: a run takes the slot, or waits for it in line.    *)
Joined == IF SlotFree THEN "prep" ELSE "lane"
Join(x) == lane' = IF SlotFree THEN lane ELSE Append(lane, x)

(* Without a run to wait for, the message is answered directly.            *)
Direct(m) ==
  /\ pc[m] = "looked"
  /\ ~ ShouldQueue(m)
  /\ pc' = [pc EXCEPT ![m] = Joined]
  /\ Join(m)
  /\ Forget(m)
  /\ UNCHANGED <<current, created, queues, loops, home>>

(* A mutant: a redelivery is not recognized.                               *)
SameMessageFaulty(a, b) == a = b

SameMessage(a, b) == IdOf[a] = IdOf[b] /\ RouteOf[a] = RouteOf[b]

(* enqueueFollowupRun: the settings of the queue follow the latest message *)
(* even when the message itself is a duplicate or does not fit.            *)
Enqueue(m) ==
  LET s == look[m].settings
      id == IF current = 0 THEN created + 1 ELSE current
      old == IF current = 0 THEN NoQueue ELSE queues[current]
      q == [old EXCEPT !.mode = s.mode, !.drop = s.drop, !.cap = s.cap]
      put(rec) == queues' = [queues EXCEPT ![id] = rec]
  IN /\ pc[m] = "looked"
     /\ ShouldQueue(m)
     /\ id <= MaxQueues
     /\ current' = id
     /\ created' = IF current = 0 THEN created + 1 ELSE created
     /\ Forget(m)
     /\ UNCHANGED <<loops, lane>>
     /\ \/ /\ \E x \in ToSet(q.items) : SameMessage(x, m)
           /\ put(q)
           /\ pc' = [pc EXCEPT ![m] = "skipped"]
           /\ UNCHANGED home
        \/ /\ \A x \in ToSet(q.items) : ~ SameMessage(x, m)
           /\ Overflow(q) /\ q.drop = "new"
           /\ put([q EXCEPT !.hasRun = TRUE])
           /\ pc' = [pc EXCEPT ![m] = "discarded"]
           /\ UNCHANGED home
        \/ /\ \A x \in ToSet(q.items) : ~ SameMessage(x, m)
           /\ ~ (Overflow(q) /\ q.drop = "new")
           /\ LET kept == DropOldest(q)
                  gone == ToSet(q.items) \ ToSet(kept.items)
                  fate == IF q.drop = "summarize" THEN "dropped" ELSE "discarded"
              IN /\ put([kept EXCEPT !.items = Append(@, m), !.hasRun = TRUE])
                 /\ pc' = [x \in Msgs |-> IF x = m THEN "queued"
                                          ELSE IF x \in gone THEN fate ELSE pc[x]]
                 /\ home' = [x \in Msgs |-> IF x = m THEN id
                                            ELSE IF x \in gone /\ fate = "discarded" THEN 0
                                            ELSE home[x]]

-----------------------------------------------------------------------------
(* The drain loop.                                                         *)

(* scheduleFollowupDrain: the loop of the key's queue starts, unless there *)
(* is no queue or its loop runs (a hung loop counts as running).           *)
Scheduled(cur, qs, ls) ==
  IF cur = 0 \/ ls[cur].pc # "off" THEN [current |-> cur, loops |-> ls]
  ELSE IF HasWork(qs[cur])
       THEN [current |-> cur, loops |-> [ls EXCEPT ![cur] = [Off EXCEPT !.pc = "debounce"]]]
       ELSE [current |-> 0, loops |-> ls]

(* A mutant: a loop that ends with work left does not reschedule.          *)
EndedFaulty(q, cur, qs, ls) ==
  LET stopped == [ls EXCEPT ![q] = Off]
  IN [current |-> IF HasWork(qs[q]) THEN cur ELSE 0, loops |-> stopped]

(* The finally block of the loop of queue q: it deletes whatever queue the *)
(* key has when its own is empty, and reschedules the key otherwise.       *)
Ended(q, cur, qs, ls) ==
  LET stopped == [ls EXCEPT ![q] = Off]
  IN IF HasWork(qs[q]) THEN Scheduled(cur, qs, stopped)
     ELSE [current |-> 0, loops |-> stopped]

Apply(r) == current' = r.current /\ loops' = r.loops

(* hasCrossChannelItems of the queued items.                               *)
Mixed(items) == CrossChannel({ RouteOf[m] : m \in ToSet(items) })

(* Record a hand-over of queue q: the batch, and what droppedCount counts. *)
Record(q, batch, summarized) ==
  LET told == IF summarized THEN { m \in Msgs : pc[m] = "dropped" /\ home[m] = q } ELSE {}
  IN /\ pc' = [m \in Msgs |-> IF m \in ToSet(batch) THEN "handed"
                              ELSE IF m \in told THEN "summarized" ELSE pc[m]]
     /\ home' = [m \in Msgs |-> IF m \in ToSet(batch) \cup told THEN 0 ELSE home[m]]

(* await runFollowup(batch).                                               *)
HandOver(q, rest, batch, force, summarized) ==
  /\ queues' = [queues EXCEPT ![q] = rest]
  /\ loops' = [loops EXCEPT ![q] = [pc |-> Joined, force |-> force, batch |-> batch]]
  /\ Join(q)
  /\ Record(q, batch, summarized)
  /\ UNCHANGED current

Break(q, rest, summarized) ==
  /\ queues' = [queues EXCEPT ![q] = rest]
  /\ Apply(Ended(q, current, [queues EXCEPT ![q] = rest], loops))
  /\ Record(q, <<>>, summarized)
  /\ UNCHANGED lane

(* A loop that breaks with work left finds the same again when its finally *)
(* block has restarted it, and every await of it is one of microtasks (the *)
(* debounce is over): no timer and no socket of the process is served      *)
(* again.                                                                  *)
Spin(q) ==
  /\ loops' = [loops EXCEPT ![q].pc = "spin"]
  /\ UNCHANGED <<current, queues, pc, home, lane>>

Frozen == \E q \in Queues : loops[q].pc = "spin"

One(q, force) ==
  LET s == queues[q]
  IN \/ /\ s.items # <<>>
        /\ HandOver(q, [s EXCEPT !.items = Tail(@)], <<Head(s.items)>>, force, FALSE)
     \/ /\ s.items = <<>>
        /\ IF s.mode # "collect" /\ HasWork(s) /\ current = q
           THEN Spin(q)
           ELSE Break(q, s, FALSE)

(* One pass of the loop, from the end of the debounce to the next await.   *)
Wake(q) ==
  LET s == queues[q]
      force == loops[q].force
      summed == Summarized(s)
  IN /\ loops[q].pc = "debounce"
     /\ UNCHANGED <<created, look>>
     /\ \/ /\ s.mode = "collect" /\ (force \/ Mixed(s.items))
           /\ One(q, TRUE)
        \/ /\ s.mode = "collect" /\ ~ force /\ ~ Mixed(s.items)
           /\ IF s.items # <<>> \/ s.hasRun
              THEN HandOver(q, [summed EXCEPT !.items = <<>>], s.items, FALSE, CanSummarize(s))
              ELSE Break(q, [summed EXCEPT !.items = <<>>], CanSummarize(s))
        \/ /\ s.mode # "collect" /\ CanSummarize(s)
           /\ IF s.hasRun THEN HandOver(q, summed, <<>>, force, TRUE)
              ELSE Break(q, summed, TRUE)
        \/ /\ s.mode # "collect" /\ ~ CanSummarize(s)
           /\ One(q, force)

(* runFollowup resolved: the loop goes round or ends.                      *)
Resume(q) ==
  /\ loops[q].pc = "closing"
  /\ IF HasWork(queues[q])
     THEN /\ loops' = [loops EXCEPT ![q].pc = "debounce", ![q].batch = <<>>]
          /\ UNCHANGED current
     ELSE Apply(Ended(q, current, queues, loops))
  /\ UNCHANGED <<created, queues, pc, look, home, lane>>

(* runFollowup rejected (a delivery threw): the loop ends.                 *)
FollowupThrows(q) ==
  /\ MayFail
  /\ loops[q].pc = "closing"
  /\ Apply(Ended(q, current, queues, loops))
  /\ UNCHANGED <<created, queues, pc, look, home, lane>>

-----------------------------------------------------------------------------
(* The runs of the session, of messages and of drain loops: registered as  *)
(* active, then unregistered, when the lane's slot goes to the next run.   *)

Place(x) == IF x \in Msgs THEN pc[x] ELSE loops[x].pc

(* One goes on, and whoever is next gets the slot.                         *)
Move(x, to, next) ==
  /\ pc' = [m \in Msgs |-> IF m = x THEN to ELSE IF m \in next THEN "prep" ELSE pc[m]]
  /\ loops' = [q \in Queues |-> IF q = x THEN [loops[q] EXCEPT !.pc = to]
                                 ELSE IF q \in next THEN [loops[q] EXCEPT !.pc = "prep"]
                                 ELSE loops[q]]

Register(x) ==
  /\ Place(x) = "prep"
  /\ Move(x, "active", {})
  /\ UNCHANGED <<current, created, queues, look, home, lane>>

(* A mutant: the slot is not handed on.                                    *)
UnregisterFaulty(x) ==
  /\ Place(x) = "active"
  /\ Move(x, "closing", {})
  /\ UNCHANGED <<current, created, queues, look, home, lane>>

Unregister(x) ==
  /\ Place(x) = "active"
  /\ IF lane = <<>>
     THEN Move(x, "closing", {}) /\ UNCHANGED lane
     ELSE Move(x, "closing", {Head(lane)}) /\ lane' = Tail(lane)
  /\ UNCHANGED <<current, created, queues, look, home>>

(* runReplyAgent returns through finalizeWithFollowup.                     *)
Finalize(m) ==
  /\ pc[m] = "closing"
  /\ pc' = [pc EXCEPT ![m] = "done"]
  /\ Apply(Scheduled(current, queues, loops))
  /\ UNCHANGED <<created, queues, look, home, lane>>

(* An exception leaves runReplyAgent: nothing is scheduled.                *)
ReplyThrows(m) ==
  /\ MayFail
  /\ pc[m] = "closing"
  /\ pc' = [pc EXCEPT ![m] = "failed"]
  /\ UNCHANGED <<current, created, queues, loops, look, home, lane>>

(* clearFollowupQueue, of the queue's record.                              *)
Cleared(q) ==
  [q EXCEPT !.items = <<>>, !.dropped = 0, !.summary = <<>>, !.hasRun = FALSE]

(* clearSessionQueues: the key's queue is emptied and forgotten, and the   *)
(* session lane is cleared.                                                *)
Stop ==
  LET out == { m \in Msgs : home[m] = current /\ pc[m] \in {"queued", "dropped"} }
  IN /\ MayStop
     /\ queues' = [q \in Queues |-> IF q = current THEN Cleared(queues[q]) ELSE queues[q]]
     /\ current' = 0
     /\ loops' = HungLoops(loops)
     /\ pc' = [m \in Msgs |-> IF m \in out THEN "cleared" ELSE HungMsgs(pc)[m]]
     /\ home' = [m \in Msgs |-> IF m \in out THEN 0 ELSE home[m]]
     /\ lane' = <<>>
     /\ UNCHANGED <<created, look>>

(* What goes on without anyone outside: debounces end, the lane serves its *)
(* entries, runs end, awaits resume.  Nothing does while a loop spins.     *)
Progress ==
  /\ ~ Frozen
  /\ \/ \E m \in Msgs :
          Direct(m) \/ Enqueue(m) \/ Finalize(m)
     \/ \E q \in Queues : Wake(q) \/ Resume(q)
     \/ \E x \in Msgs \cup Queues : Register(x) \/ Unregister(x)

Outside ==
  /\ ~ Frozen
  /\ \/ \E m \in Msgs :
          \/ \E s \in SettingsOf[m] : Look(m, s)
          \/ Steer(m) \/ ReplyThrows(m)
     \/ \E q \in Queues : FollowupThrows(q)
     \/ Stop

Next == Progress \/ Outside

(* The event loop does not rest while something of the above can go on.    *)
(* Messages are finitely many, so nothing needs to be fairer than that.    *)
Fairness == WF_vars(Progress)

Spec == Init /\ [][Next]_vars
FairSpec == Spec /\ Fairness
-----------------------------------------------------------------------------
(* The values of the variables; the runs of the session, of which one at   *)
(* most has the slot of the lane, and none waits in line while none has it *)
TypeOK ==
  /\ current \in 0..created /\ created \in 0..MaxQueues
  /\ queues \in [Queues -> QueueRecord]
  /\ loops \in [Queues -> [pc : LoopPc, force : BOOLEAN, batch : Seq(Msgs)]]
  /\ pc \in [Msgs -> MsgPc]
  /\ look \in [Msgs -> [active : BOOLEAN, settings : Settings]]
  /\ home \in [Msgs -> 0..MaxQueues]
  /\ lane \in Seq(Msgs \cup Queues)
  /\ LET at(places) == { x \in Msgs \cup Queues : Place(x) \in places }
     IN /\ Cardinality(at(Holding)) <= 1
        /\ ToSet(lane) = at({"lane"})
        /\ lane # <<>> => at(Holding) # {}

(* A message that waits is in exactly the queue it was put in, once, and   *)
(* no redelivery of it waits beside it, whatever was dropped, cleared or   *)
(* handed over in between ("skip if the same message is already queued").  *)
QueuedOnce ==
  \A q \in Queues :
    /\ ToSet(queues[q].items) = { m \in Msgs : pc[m] = "queued" /\ home[m] = q }
    /\ \A i, j \in DOMAIN queues[q].items :
          LET a == queues[q].items[i]
              b == queues[q].items[j]
          IN IdOf[a] = IdOf[b] /\ RouteOf[a] = RouteOf[b] => i = j

(* droppedCount is the number of messages dropped and not yet told to the  *)
(* agent, and the summary has lines of such messages only, also when the   *)
(* drop policy, the cap or the mode changed since.                         *)
DropAccounting ==
  \A q \in Queues :
    LET untold == { m \in Msgs : pc[m] = "dropped" /\ home[m] = q }
    IN /\ queues[q].dropped = Cardinality(untold)
       /\ ToSet(queues[q].summary) \subseteq untold

(* Messages put together into one prompt were all sent from one channel    *)
(* and target, so that the one reply goes back to where each came from.    *)
CollectRoutes ==
  \A q \in Queues :
    LET batch == loops[q].batch
        routes == { RouteOf[batch[i]] : i \in DOMAIN batch }
    IN Len(batch) > 1 => Cardinality(routes) = 1 /\ Unroutable \notin routes

(* The key's queue is empty, being drained, or a reply is on its way that  *)
(* will schedule its drain.                                                *)
Attended ==
  \/ current = 0
  \/ ~ HasWork(queues[current])
  \/ loops[current].pc # "off"
  \/ \E m \in Msgs : pc[m] \in {"lane", "prep", "active", "closing"}

(* Neither a reply nor a drain that ends leaves queued work behind: a      *)
(* queue becomes unattended only because a message is put in it when no    *)
(* reply is on its way any more, or because a reply throws or is cleared   *)
(* from its lane.                                                          *)
HandoverComplete ==
  [][Attended /\ ~ Attended' =>
       \E m \in Msgs :
         \/ pc[m] = "looked" /\ (pc'[m] \in {"queued", "discarded"})
         \/ pc[m] # pc'[m] /\ (pc'[m] \in {"failed", "hung"})]_vars

InDrain(m) == home[m] # 0 /\ loops[home[m]].pc # "off"

(* The queue of m is no longer the key's after a /stop, its loop awaits a  *)
(* run that was cleared, or its drop policy has stopped to summarize.      *)
Forsaken(m) ==
  \/ home[m] \in {0} \cup (Queues \ {current})
  \/ queues[home[m]].drop # "summarize"
  \/ loops[home[m]].pc = "hung"

(* What waits in a queue while it is drained reaches the agent, itself or  *)
(* in a summary, unless the drop policy discards it or it is forsaken,     *)
(* also when replies and deliveries throw.                                 *)
DrainServes ==
  \A m \in Msgs :
    pc[m] \in {"queued", "dropped"} /\ InDrain(m)
      ~> pc[m] \in {"handed", "summarized", "discarded", "cleared"} \/ Forsaken(m)

(* "collects queued messages and drains after run completes"               *)
(* (auto-reply/reply.queue.test.ts): the queue of a message that waits has *)
(* a loop that goes on, or is the key's queue and may get one.             *)
NoOrphans ==
  \A m \in Msgs : pc[m] = "queued" =>
    \/ loops[home[m]].pc \notin {"off", "hung"}
    \/ home[m] = current /\ loops[current].pc = "off"

=============================================================================
