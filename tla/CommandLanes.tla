---------------------------- MODULE CommandLanes ----------------------------
(***************************************************************************)
(* The in-process command lanes (process/command-queue.ts) as              *)
(* runEmbeddedPiAgent uses them: every run first takes a slot of its       *)
(* session's lane and, holding it, a slot of a global lane (main, cron,    *)
(* subagent, nested).                                                      *)
(*                                                                         *)
(* Everything between two awaits is one step.  In particular pump() runs   *)
(* to its end inside the call that triggers it, and the body of a session  *)
(* task (which enqueues in the global lane) runs inside the session pump.  *)
(* No caller passes the onWait callback, so a pump never throws and        *)
(* `draining` is false between steps.                                      *)
(***************************************************************************)
EXTENDS Integers, Sequences, FiniteSets

CONSTANTS
  Runs,        \* the calls of runEmbeddedPiAgent
  Sessions,    \* session lanes, "session:<key>"
  Globals,     \* global lanes
  SessionOf,   \* the session lane of a run
  GlobalOf,    \* the global lane of a run
  Limits       \* the arguments setCommandLaneConcurrency is called with

ASSUME RunsAssumption == IsFiniteSet(Runs)
ASSUME LanesAssumption == Sessions \cap Globals = {}
ASSUME RoutesAssumption == /\ SessionOf \in [Runs -> Sessions]
                           /\ GlobalOf \in [Runs -> Globals]
ASSUME LimitsAssumption == Limits \subseteq Nat

VARIABLES
  queue,          \* [lane -> entries that wait for a slot]
  active,         \* [lane -> slots taken]
  maxConcurrent,  \* [lane -> slots]
  stage           \* how far each run is

vars == <<queue, active, maxConcurrent, stage>>

Lanes == Sessions \cup Globals

Stage ==
  { "new",          \* not submitted
    "sessionWait",  \* in the queue of its session lane
    "globalWait",   \* holds its session slot, in the queue of its global lane
    "running",      \* holds both slots
    "released",     \* global slot given back, the session task not yet resumed
    "settled",      \* the caller's promise is settled
    "dropped" }     \* removed by clearCommandLane: its promise never settles

-----------------------------------------------------------------------------
(* The lanes as pump() sees and changes them.                              *)

State == [queue |-> queue, active |-> active, stage |-> stage]

Become(st) ==
  \E new \in {st} :
    /\ queue' = new.queue
    /\ active' = new.active
    /\ stage' = new.stage

(* Operators named ...Faulty are plausible mistakes, defined beside what    *)
(* they would replace; no specification uses them.                         *)
TakenFaulty(length, used, slots) ==
  IF used > slots THEN 0
  ELSE IF length <= slots - used + 1 THEN length ELSE slots - used + 1

(* How many entries the loop of pump() takes from a queue.                 *)
Taken(length, used, slots) ==
  IF used >= slots THEN 0
  ELSE IF length <= slots - used THEN length ELSE slots - used

(* pump() of a global lane: the first entries take the free slots, and     *)
(* their task, the run itself, begins.                                     *)
PumpGlobal(st, g, slots) ==
  LET n == Taken(Len(st.queue[g]), st.active[g], slots)
      begun == { st.queue[g][i] : i \in 1..n }
  IN [ queue  |-> [st.queue EXCEPT ![g] = SubSeq(@, n + 1, Len(@))],
       active |-> [st.active EXCEPT ![g] = @ + n],
       stage  |-> [r \in Runs |-> IF r \in begun THEN "running" ELSE st.stage[r]] ]

(* The body of a session task: enqueueCommandInLane on the global lane.    *)
EnqueueGlobal(st, r) ==
  LET g == GlobalOf[r]
  IN PumpGlobal([ queue  |-> [st.queue EXCEPT ![g] = Append(@, r)],
                  active |-> st.active,
                  stage  |-> [st.stage EXCEPT ![r] = "globalWait"] ],
                g, maxConcurrent[g])

(* pump() of a session lane.  Nobody configures a session lane, so it has  *)
(* the one slot getLaneState gave it and the loop takes at most one entry. *)
PumpSession(st, s) ==
  IF st.active[s] < maxConcurrent[s] /\ st.queue[s] # <<>>
  THEN EnqueueGlobal([ queue  |-> [st.queue EXCEPT ![s] = Tail(@)],
                       active |-> [st.active EXCEPT ![s] = @ + 1],
                       stage  |-> st.stage ],
                     Head(st.queue[s]))
  ELSE st

-----------------------------------------------------------------------------
Init ==
  /\ queue = [l \in Lanes |-> <<>>]
  /\ active = [l \in Lanes |-> 0]
  /\ maxConcurrent = [l \in Lanes |-> 1]
  /\ stage = [r \in Runs |-> "new"]

(* The entry goes to the front of the queue.                               *)
SubmitFaulty(r) ==
  LET s == SessionOf[r]
  IN /\ stage[r] = "new"
     /\ Become(PumpSession([ queue  |-> [queue EXCEPT ![s] = <<r>> \o @],
                             active |-> active,
                             stage  |-> [stage EXCEPT ![r] = "sessionWait"] ], s))
     /\ UNCHANGED maxConcurrent

(* runEmbeddedPiAgent: enqueueSession(() => enqueueGlobal(...)).           *)
Submit(r) ==
  LET s == SessionOf[r]
  IN /\ stage[r] = "new"
     /\ Become(PumpSession([ queue  |-> [queue EXCEPT ![s] = Append(@, r)],
                             active |-> active,
                             stage  |-> [stage EXCEPT ![r] = "sessionWait"] ], s))
     /\ UNCHANGED maxConcurrent

(* The slot is not given back when the run ends.                           *)
FinishLeaksSlotFaulty(r) ==
  LET g == GlobalOf[r]
  IN /\ stage[r] = "running"
     /\ Become(PumpGlobal([ queue  |-> queue,
                            active |-> active,
                            stage  |-> [stage EXCEPT ![r] = "released"] ],
                          g, maxConcurrent[g]))
     /\ UNCHANGED maxConcurrent

(* The run resolves or rejects: its global slot is free, the lane pumps,   *)
(* and the promise the session task awaits is settled.                     *)
Finish(r) ==
  LET g == GlobalOf[r]
  IN /\ stage[r] = "running"
     /\ Become(PumpGlobal([ queue  |-> queue,
                            active |-> [active EXCEPT ![g] = @ - 1],
                            stage  |-> [stage EXCEPT ![r] = "released"] ],
                          g, maxConcurrent[g]))
     /\ UNCHANGED maxConcurrent

(* The session task resumes from its await: the same for the session lane. *)
Settle(r) ==
  LET s == SessionOf[r]
  IN /\ stage[r] = "released"
     /\ Become(PumpSession([ queue  |-> queue,
                             active |-> [active EXCEPT ![s] = @ - 1],
                             stage  |-> [stage EXCEPT ![r] = "settled"] ], s))
     /\ UNCHANGED maxConcurrent

(* No lower bound on the limit.                                            *)
AtLeastOneFaulty(n) == n

AtLeastOne(n) == IF n < 1 THEN 1 ELSE n

(* The new limit is stored, the lane is not drained.                       *)
SetConcurrencyFaulty(g, n) ==
  /\ maxConcurrent' = [maxConcurrent EXCEPT ![g] = AtLeastOne(n)]
  /\ UNCHANGED <<queue, active, stage>>

(* setCommandLaneConcurrency, from the start-up and the reload handlers.   *)
SetConcurrency(g, n) ==
  /\ maxConcurrent' = [maxConcurrent EXCEPT ![g] = AtLeastOne(n)]
  /\ Become(PumpGlobal(State, g, AtLeastOne(n)))

(* Clearing a lane also forgets the task in flight.                        *)
ClearLaneFaulty(s) ==
  LET gone == { queue[s][i] : i \in DOMAIN queue[s] }
  IN /\ queue' = [queue EXCEPT ![s] = <<>>]
     /\ active' = [active EXCEPT ![s] = 0]
     /\ stage' = [r \in Runs |-> IF r \in gone THEN "dropped" ELSE stage[r]]
     /\ UNCHANGED maxConcurrent

(* clearCommandLane of a session lane (/stop, session reset, the interrupt *)
(* queue mode): the entries go, their promises are not settled.            *)
ClearLane(s) ==
  LET gone == { queue[s][i] : i \in DOMAIN queue[s] }
  IN /\ queue' = [queue EXCEPT ![s] = <<>>]
     /\ stage' = [r \in Runs |-> IF r \in gone THEN "dropped" ELSE stage[r]]
     /\ UNCHANGED <<active, maxConcurrent>>

Next ==
  \/ \E r \in Runs : Submit(r) \/ Finish(r) \/ Settle(r)
  \/ \E g \in Globals, n \in Limits : SetConcurrency(g, n)
  \/ \E s \in Sessions : ClearLane(s)

Spec == Init /\ [][Next]_vars

-----------------------------------------------------------------------------
(* The values of the variables.                                            *)
TypeOK ==
  /\ queue \in [Lanes -> Seq(Runs)]
  /\ active \in [Lanes -> Nat]
  /\ maxConcurrent \in [Lanes -> Nat \ {0}]
  /\ stage \in [Runs -> Stage]

SessionHolders(s) ==
  { r \in Runs : SessionOf[r] = s /\ stage[r] \in {"globalWait", "running", "released"} }

GlobalHolders(g) == { r \in Runs : GlobalOf[r] = g /\ stage[r] = "running" }

Holders(l) == IF l \in Sessions THEN SessionHolders(l) ELSE GlobalHolders(l)

Waiting(l) ==
  { r \in Runs : \/ stage[r] = "sessionWait" /\ SessionOf[r] = l
                 \/ stage[r] = "globalWait" /\ GlobalOf[r] = l }

(* Two runs of one session never hold the session at the same time,        *)
(* whatever is enqueued, cleared or reconfigured meanwhile: the            *)
(* "serialize command executions" of command-queue.ts.                     *)
SessionExclusion ==
  \A s \in Sessions : \A r1, r2 \in SessionHolders(s) : r1 = r2

(* The counter `active` is the number of tasks in flight, and a lane's     *)
(* queue holds each waiting entry once and nothing else.  getQueueSize,    *)
(* from which the interrupt mode decides to abort, is then exact.          *)
SlotAccounting ==
  \A l \in Lanes :
    /\ active[l] = Cardinality(Holders(l))
    /\ { queue[l][i] : i \in DOMAIN queue[l] } = Waiting(l)
    /\ Len(queue[l]) = Cardinality(Waiting(l))

(* No wake-up of a lane is lost: between two steps nobody waits in a lane  *)
(* that has a free slot, also after the number of slots was changed.       *)
WorkConserving ==
  \A l \in Lanes : queue[l] # <<>> => active[l] >= maxConcurrent[l]

(* Lowering maxConcurrent while tasks run leaves more of them than slots,  *)
(* but no task begins before their number is below the new limit again.    *)
StartsWithinLimit ==
  [][\A g \in Globals :
        GlobalHolders(g)' \ GlobalHolders(g) # {}
          => Cardinality(GlobalHolders(g)') <= maxConcurrent'[g]]_vars

-----------------------------------------------------------------------------
(* The abstract serializer: a session's line is the run that waits in the  *)
(* global lane, if there is one, followed by the session lane's queue.     *)
Admitted(s) ==
  LET a == { r \in Runs : SessionOf[r] = s /\ stage[r] = "globalWait" }
  IN IF a = {} THEN <<>> ELSE << CHOOSE r \in a : TRUE >>

Serializer == INSTANCE RunSerializer WITH
  line <- [s \in Sessions |-> Admitted(s) \o queue[s]],
  executing <- { r \in Runs : stage[r] = "running" }

(* Per session, runs execute one at a time in the order of submission,     *)
(* across both levels of lanes.                                            *)
ImplementsSerializer == Serializer!Spec
=============================================================================
