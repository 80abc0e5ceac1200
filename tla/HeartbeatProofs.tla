--------------------------- MODULE HeartbeatProofs ---------------------------
(***************************************************************************)
(* Proofs about Heartbeat, for any agents, configs, events and files.      *)
(***************************************************************************)
EXTENDS Heartbeat, WellFoundedInduction, TLAPS

-----------------------------------------------------------------------------
(* Types.                                                                  *)

WakeType ==
  [armed : BOOLEAN, pending : Reasons \cup {None}, scheduled : BOOLEAN, running : BOOLEAN]

RunType ==
  [on : BOOLEAN, reason : Reasons \cup {None}, at : Time, todo : SUBSET Agents,
   cur : Agents \cup {None}, asked : BOOLEAN, detached : BOOLEAN, map : [Agents -> AgentState]]

DirectType ==
  [event : Events \cup {None}, stage : {"none", "waiting", "begun", "asked"},
   agent : Agents \cup {None}]

EventType == {"new", "queued", "told", "elsewhere"}

LEMMA NeverIsNat == Never \in Nat /\ \A t \in Time : t \in Nat /\ t # Never
BY HeartbeatAssumption DEF Never, Time

LEMMA NoAgentType == NoAgent \in AgentState /\ NoAgent.every = 0
BY NeverIsNat DEF NoAgent, AgentState

LEMMA IdleType ==
  /\ Idle \in RunType /\ Idle.on = FALSE /\ Idle.cur = None /\ Idle.todo = {}
  /\ Idle.detached = FALSE
<1> DEFINE no == FALSE
           map == [a \in Agents |-> NoAgent]
           idle == [on |-> no, reason |-> None, at |-> 0, todo |-> {}, cur |-> None,
                    asked |-> no, detached |-> no, map |-> map]
<1>1. map \in [Agents -> AgentState] /\ no \in BOOLEAN /\ no = FALSE
  BY NoAgentType
<1>2. 0 \in Time
  BY HeartbeatAssumption DEF Time
<1>3. Idle = idle
  BY DEF Idle
<1> HIDE DEF no, map
<1>4. idle \in RunType /\ idle.on = no /\ idle.cur = None /\ idle.todo = {} /\ idle.detached = no
  BY <1>1, <1>2 DEF RunType
<1> QED
  BY <1>1, <1>3, <1>4

(* A set of times has its earliest.                                        *)
LEMMA EarliestExists ==
  ASSUME NEW T \in SUBSET Nat, T # {}
  PROVE  \E t \in T : \A u \in T : t <= u
<1> DEFINE R == OpToRel(<, Nat)
<1>1. IsWellFoundedOn(R, Nat)
  BY NatLessThanWellFounded
<1>2. \A s, t \in Nat : s < t => <<s, t>> \in R
  BY DEF OpToRel
<1> HIDE DEF R
<1>3. \E t \in T : \A u \in T : ~ (<<u, t>> \in R)
  <2> DEFINE S == Nat
  <2>1. IsWellFoundedOn(R, S) /\ T \subseteq S
    BY <1>1
  <2> HIDE DEF S
  <2> QED
    BY <2>1, WFMin, ZenonT(30)
<1>4. PICK t \in T : \A u \in T : ~ (<<u, t>> \in R)
  BY <1>3
<1>5. ASSUME NEW u \in T PROVE t <= u
  <2>1. u \in Nat /\ t \in Nat
    OBVIOUS
  <2>2. ~ (u < t)
    BY <2>1, <1>2, <1>4, Zenon
  <2> QED
    BY <2>1, <2>2
<1> QED
  BY <1>5

LEMMA EarliestType ==
  ASSUME NEW map \in [Agents -> AgentState]
  PROVE  /\ Earliest(map) \in Nat
         /\ Present(map) = {} => Earliest(map) = Never
<1> DEFINE T == { map[a].due : a \in Present(map) }
<1>1. CASE Present(map) = {}
  BY <1>1, NeverIsNat DEF Earliest
<1>2. CASE Present(map) # {}
  <2>1. T \in SUBSET Nat /\ T # {}
    BY <1>2 DEF Present, AgentState
  <2>2. \A t : (\A a \in Present(map) : t <= map[a].due) <=> (\A u \in T : t <= u)
    OBVIOUS
  <2>3. Earliest(map) = CHOOSE t \in T : \A a \in Present(map) : t <= map[a].due
    BY <1>2 DEF Earliest
  <2> HIDE DEF T
  <2>4. \E t \in T : \A a \in Present(map) : t <= map[a].due
    BY <2>1, <2>2, EarliestExists
  <2>5. Earliest(map) \in T
    BY <2>3, <2>4
  <2> QED
    BY <1>2, <2>1, <2>5
<1> QED
  BY <1>1, <1>2

LEMMA RequestedType ==
  ASSUME NEW w \in WakeType, NEW reason \in Reasons
  PROVE  /\ Requested(w, reason) \in WakeType /\ Requested(w, reason).armed = TRUE
         /\ Requested(w, reason).running = w.running
<1> DEFINE p == IF reason # None THEN reason ELSE IF w.pending # None THEN w.pending ELSE "requested"
           yes == TRUE
<1>1. p \in Reasons \cup {None} /\ yes \in BOOLEAN /\ yes = TRUE
  BY DEF WakeType, Reasons
<1>2. Requested(w, reason) = [w EXCEPT !.armed = yes, !.pending = p]
  BY DEF Requested, WakeType
<1> HIDE DEF p, yes
<1> QED
  BY <1>1, <1>2 DEF WakeType

LEMMA UpdatedType ==
  ASSUME NEW cfg \in Configs, agents \in [Agents -> AgentState], now \in Time
  PROVE  Updated(cfg) \in [Agents -> AgentState]
<1>1. ASSUME NEW a \in Agents
      PROVE  /\ agents[a] \in AgentState /\ cfg[a] \in Nat
             /\ ResolveNextDue(agents[a], cfg[a]) \in Nat
  BY HeartbeatAssumption, NeverIsNat DEF ResolveNextDue, AgentState
<1>2. ASSUME NEW a \in Agents
      PROVE  [every |-> cfg[a], last |-> agents[a].last, due |-> ResolveNextDue(agents[a], cfg[a])]
               \in AgentState
  BY <1>1 DEF AgentState
<1> QED
  BY <1>2, NoAgentType DEF Updated

-----------------------------------------------------------------------------
(* The inductive invariant.                                                *)

(* A run in progress is what wake.running says, and asks an agent it has.  *)
RunGood(w, r) ==
  /\ w.running <=> r.on
  /\ r.cur # None => r.on /\ r.cur \in r.todo

Typed ==
  /\ now \in Time /\ wake \in WakeType /\ life \in {"new", "on", "stopped"}
  /\ agents \in [Agents -> AgentState] /\ timer \in Nat /\ run \in RunType
  /\ enabled \in BOOLEAN /\ busy \in BOOLEAN /\ troubles \in 0..MaxTroubles
  /\ direct \in DirectType
  /\ event \in [Events -> EventType] /\ excused \in SUBSET Events
  /\ muted \in BOOLEAN /\ begun \in [Agents -> Time \cup {Never}]

(* Covered, and: a runner without agents has no timer.                     *)
Watched(l, w, m, t, map) ==
  l = "on" =>
    /\ w.pending # None => w.armed \/ w.running
    /\ ~ w.armed /\ ~ w.running /\ ~ m => t = Earliest(map)
    /\ Present(map) = {} => t = Never

(* What is known of the last run of an agent: the run in progress, which   *)
(* asks it, or what the runner has learned of it; and what it cannot learn *)
(* from a run that went on while the config was replaced is forgotten.     *)
Spacing(b, map, r) ==
  /\ \A a \in Agents :
       b[a] # Never =>
         /\ r.cur = a => b[a] = r.at /\ ~ r.detached
         /\ r.cur # a => map[a].last = b[a] /\ map[a].due = b[a] + map[a].every
  /\ \A a \in r.todo : r.detached => b[a] = Never

(* Nothing runs before the runner was started.                             *)
Fresh(l, b, r) == l = "new" => ~ r.on /\ \A a \in Agents : b[a] = Never

IInv ==
  /\ Typed /\ RunGood(wake, run) /\ Fresh(life, begun, run)
  /\ Watched(life, wake, muted, timer, agents)
  /\ Spacing(begun, agents, run)

LEMMA InitIInv == Init => IInv
<1> SUFFICES ASSUME Init PROVE IInv
  OBVIOUS
<1> DEFINE no == FALSE
           w == [armed |-> no, pending |-> None, scheduled |-> no, running |-> no]
<1>1. w \in WakeType /\ w.running = no
  <2>1. no \in BOOLEAN
    OBVIOUS
  <2> HIDE DEF no
  <2> QED
    BY <2>1 DEF WakeType
<1>2. wake = w /\ no = FALSE
  BY DEF Init
<1>3. /\ now \in Time /\ 0 \in 0..MaxTroubles
      /\ timer \in Nat /\ agents \in [Agents -> AgentState]
      /\ begun \in [Agents -> Time \cup {Never}]
      /\ event \in [Events -> EventType] /\ direct \in DirectType
  BY HeartbeatAssumption, NeverIsNat, NoAgentType DEF Init, Time, EventType, DirectType, NoDirect
<1>4. run \in RunType /\ run.on = FALSE /\ run.cur = None /\ run.todo = {}
  BY IdleType DEF Init
<1>5. Typed
  BY <1>1, <1>2, <1>3, <1>4 DEF Init, Typed
<1>6. RunGood(wake, run)
  BY <1>1, <1>2, <1>4 DEF RunGood
<1>7. Spacing(begun, agents, run)
  BY <1>4 DEF Init, Spacing
<1> QED
  BY <1>4, <1>5, <1>6, <1>7 DEF Init, IInv, Watched, Fresh

-----------------------------------------------------------------------------
(* Requests.                                                               *)

LEMMA QueuedEvents ==
  /\ Queued \subseteq Events
  /\ \A a : EventsOf(a) \subseteq Events /\ GivenUp(a) \subseteq Events
  /\ \A old, new : Overwritten(old, new) \subseteq Events
BY DEF Queued, EventsOf, GivenUp, Overwritten

LEMMA ToldType ==
  ASSUME event \in [Events -> EventType], NEW a
  PROVE  Told(a) \in [Events -> EventType]
BY DEF Told, EventType

(* A request arms the timer, so that nothing more need be known of it.     *)
LEMMA RequestIInv ==
  ASSUME IInv, NEW reason \in Reasons, wake' = Requested(wake, reason),
         timer' \in {timer, Never}, excused' \in SUBSET Events,
         event' \in [Events -> EventType],
         UNCHANGED <<now, life, agents, run, enabled, busy, troubles, direct, muted, begun>>
  PROVE  IInv'
<1>1. /\ wake' \in WakeType /\ wake'.armed = TRUE /\ wake'.running = wake.running
  BY RequestedType DEF IInv, Typed
<1>2. Typed'
  BY <1>1, NeverIsNat DEF IInv, Typed
<1>3. RunGood(wake', run')
  BY <1>1 DEF IInv, RunGood
<1>4. Watched(life', wake', muted', timer', agents')
  BY <1>1 DEF IInv, Watched
<1> QED
  BY <1>2, <1>3, <1>4 DEF IInv

LEMMA NotifyIInv ==
  ASSUME IInv, NEW e \in Events, NEW reason \in Notices, Notify(e, reason)
  PROVE  IInv'
<1>1. reason \in Reasons
  BY DEF Reasons
<1>2. excused' \in SUBSET Events
  BY QueuedEvents DEF Notify, IInv, Typed
<1>3. event' \in [Events -> EventType]
  BY DEF Notify, IInv, Typed, EventType
<1> QED
  BY <1>1, <1>2, <1>3, RequestIInv DEF Notify

LEMMA IntervalFiresIInv ==
  ASSUME IInv, IntervalFires
  PROVE  IInv'
<1>1. "interval" \in Reasons
  BY DEF Reasons
<1>2. excused' \in SUBSET Events /\ event' \in [Events -> EventType]
  BY QueuedEvents DEF IntervalFires, IInv, Typed
<1> QED
  BY <1>1, <1>2, RequestIInv DEF IntervalFires

-----------------------------------------------------------------------------
(* The runner.                                                             *)

(* What scheduleNext leaves of a runner that is on.                        *)
LEMMA ScheduleFacts ==
  ASSUME NEW map \in [Agents -> AgentState], ScheduleNext(map), timer \in Nat, muted \in BOOLEAN
  PROVE  /\ timer' \in Nat /\ muted' \in BOOLEAN
         /\ life # "stopped" => /\ timer' = Earliest(map)
                                /\ Present(map) = {} => timer' = Never
         /\ life = "stopped" => timer' = timer
BY EarliestType DEF ScheduleNext

(* Spacing is kept by a config, that may change when agents are due.       *)
LEMMA UpdatedSpacing ==
  ASSUME Typed, Spacing(begun, agents, run), NEW cfg \in Configs, NEW a \in Agents,
         cfg[a] # 0, begun[a] # Never, run.cur # a
  PROVE  LET new == Updated(cfg)[a]
         IN new.last = begun[a] /\ new.due = begun[a] + new.every
<1>1. agents[a].last = begun[a] /\ agents[a].last # Never
  BY DEF Spacing
<1>2. Updated(cfg)[a] = [every |-> cfg[a], last |-> agents[a].last, due |-> agents[a].last + cfg[a]]
  BY <1>1 DEF Updated, ResolveNextDue
<1> QED
  BY <1>1, <1>2

LEMMA StartRunnerIInv ==
  ASSUME IInv, NEW cfg \in Configs, StartRunner(cfg)
  PROVE  IInv'
<1> DEFINE arm == wake.armed \/ wake.pending # None
<1>1. /\ Typed /\ RunGood(wake, run) /\ Spacing(begun, agents, run)
      /\ Fresh(life, begun, run)
      /\ life = "new" /\ life' = "on" /\ wake' = [wake EXCEPT !.armed = arm]
      /\ agents' = Updated(cfg) /\ ScheduleNext(Updated(cfg))
      /\ excused' = excused \cup { e \in Queued : cfg[AgentOf[e]] = 0 }
      /\ UNCHANGED <<now, run, enabled, busy, troubles, direct, event, begun>>
  BY DEF StartRunner, IInv, Typed, WakeType
<1>2. arm \in BOOLEAN
  BY <1>1 DEF Typed, WakeType
<1> HIDE DEF arm
<1>3. /\ wake' \in WakeType /\ wake'.armed = arm /\ wake'.pending = wake.pending
      /\ wake'.running = wake.running
  BY <1>1, <1>2 DEF Typed, WakeType
<1>4. agents' \in [Agents -> AgentState]
  BY <1>1, UpdatedType DEF Typed
<1>5. /\ timer' \in Nat /\ muted' \in BOOLEAN
      /\ timer' = Earliest(agents') /\ (Present(agents') = {} => timer' = Never)
  BY <1>1, <1>4, ScheduleFacts DEF Typed
<1>6. Typed'
  BY <1>1, <1>3, <1>4, <1>5, QueuedEvents DEF Typed
<1>7. RunGood(wake', run')
  BY <1>1, <1>3 DEF RunGood
<1>8. Watched(life', wake', muted', timer', agents')
  BY <1>3, <1>5 DEF Watched, arm
<1>9. Spacing(begun', agents', run')
  BY <1>1 DEF Spacing, Fresh
<1> QED
  BY <1>1, <1>6, <1>7, <1>8, <1>9 DEF IInv, Fresh

LEMMA UpdateConfigIInv ==
  ASSUME IInv, NEW cfg \in Configs, UpdateConfig(cfg)
  PROVE  IInv'
<1> DEFINE yes == TRUE
           detach == run.on /\ ~ run.detached
           lost(a) == (run.on /\ a \in run.todo) \/ cfg[a] = 0
<1>1. /\ Typed /\ RunGood(wake, run) /\ Spacing(begun, agents, run)
      /\ Watched(life, wake, muted, timer, agents)
      /\ life = "on" /\ agents' = Updated(cfg) /\ ScheduleNext(Updated(cfg))
      /\ run' = IF detach THEN [run EXCEPT !.detached = yes, !.map = agents] ELSE run
      /\ excused' = excused \cup { e \in Queued : cfg[AgentOf[e]] = 0 }
      /\ begun' = [a \in Agents |-> IF lost(a) THEN Never ELSE begun[a]]
      /\ UNCHANGED <<now, wake, life, enabled, busy, direct, event>>
  BY DEF UpdateConfig, IInv
<1>2. troubles' \in 0..MaxTroubles
  BY <1>1, HeartbeatAssumption DEF UpdateConfig, Trouble, Typed
<1>3. agents' \in [Agents -> AgentState]
  BY <1>1, UpdatedType DEF Typed
<1>4. yes \in BOOLEAN /\ yes = TRUE
  OBVIOUS
<1> HIDE DEF yes
<1>5. /\ run' \in RunType /\ run'.on = run.on /\ run'.cur = run.cur /\ run'.todo = run.todo
      /\ run'.at = run.at
  BY <1>1, <1>4 DEF Typed, RunType
<1>6. begun' \in [Agents -> Time \cup {Never}]
  BY <1>1 DEF Typed
<1>7. /\ timer' \in Nat /\ muted' \in BOOLEAN
      /\ timer' = Earliest(agents') /\ (Present(agents') = {} => timer' = Never)
  BY <1>1, <1>3, ScheduleFacts DEF Typed
<1>8. Typed'
  BY <1>1, <1>2, <1>3, <1>5, <1>6, <1>7, QueuedEvents DEF Typed
<1>9. RunGood(wake', run')
  BY <1>1, <1>5 DEF RunGood
<1>10. Watched(life', wake', muted', timer', agents')
  BY <1>1, <1>7 DEF Watched
<1>11. ASSUME NEW a \in Agents, begun'[a] # Never
       PROVE  run'.cur # a /\ agents'[a].last = begun'[a] /\ agents'[a].due = begun'[a] + agents'[a].every
  <2>1. ~ lost(a) /\ begun'[a] = begun[a]
    BY <1>1, <1>11
  <2>2. run.cur # a
    <3>1. run.cur = a => a # None /\ run.on /\ a \in run.todo
      BY <1>1, HeartbeatAssumption DEF RunGood
    <3> QED
      BY <2>1, <3>1
  <2>3. cfg[a] # 0
    BY <2>1
  <2> QED
    BY <1>1, <1>5, <1>11, <2>1, <2>2, <2>3, UpdatedSpacing
<1>12. ASSUME NEW a \in run'.todo, run'.detached PROVE begun'[a] = Never
  <2>1. a \in Agents /\ a \in run.todo
    BY <1>1, <1>5 DEF Typed, RunType
  <2>2. CASE run.on
    BY <1>1, <2>1, <2>2
  <2>3. CASE ~ run.on
    <3>1. run.detached
      BY <1>1, <1>12, <2>3
    <3>2. begun[a] = Never
      BY <1>1, <2>1, <3>1 DEF Spacing
    <3> QED
      BY <1>1, <2>1, <3>2
  <2> QED
    BY <2>2, <2>3
<1>13. Spacing(begun', agents', run')
  BY <1>11, <1>12 DEF Spacing
<1> QED
  BY <1>1, <1>8, <1>9, <1>10, <1>13 DEF IInv, Fresh

LEMMA StopRunnerIInv ==
  ASSUME IInv, StopRunner
  PROVE  IInv'
<1>1. Typed'
  BY NeverIsNat DEF StopRunner, IInv, Typed
<1> QED
  BY <1>1 DEF StopRunner, IInv, RunGood, Fresh, Watched, Spacing

-----------------------------------------------------------------------------
(* The wake timer and the run.                                             *)

LEMMA WakeFiresIInv ==
  ASSUME IInv, WakeFires
  PROVE  IInv'
<1> DEFINE no == FALSE
           yes == TRUE
<1>1. /\ Typed /\ RunGood(wake, run) /\ Spacing(begun, agents, run) /\ Fresh(life, begun, run)
      /\ Watched(life, wake, muted, timer, agents)
      /\ UNCHANGED <<now, life, agents, timer, enabled, busy, troubles, direct, event, begun>>
  BY DEF WakeFires, IInv
<1>2. /\ yes \in BOOLEAN /\ yes = TRUE /\ no \in BOOLEAN /\ no = FALSE
      /\ wake \in WakeType /\ run \in RunType /\ now \in Time
      /\ None \in Reasons \cup {None} /\ agents \in [Agents -> AgentState]
  BY <1>1 DEF Typed
<1>3. \/ /\ life # "on"
         /\ wake' = [wake EXCEPT !.armed = no, !.scheduled = no]
         /\ UNCHANGED <<run, muted, excused>>
      \/ /\ wake.running /\ life = "on"
         /\ wake' = [wake EXCEPT !.scheduled = yes]
         /\ UNCHANGED <<run, muted, excused>>
      \/ /\ ~ wake.running /\ life = "on"
         /\ wake' = [wake EXCEPT !.armed = no, !.scheduled = no, !.pending = None, !.running = yes]
         /\ run' = [Idle EXCEPT !.on = yes, !.reason = wake.pending, !.at = now,
                                !.todo = Present(agents)]
         /\ UNCHANGED <<muted, excused>>
      \/ /\ ~ wake.running /\ life = "on" /\ ~ (enabled /\ Present(agents) # {})
         /\ wake' = [wake EXCEPT !.armed = no, !.scheduled = no, !.pending = None]
         /\ muted' = (muted \/ ~ enabled) /\ excused' = excused \cup Queued
         /\ UNCHANGED run
  BY DEF WakeFires
<1> HIDE DEF no, yes
<1>4. CASE /\ life # "on"
           /\ wake' = [wake EXCEPT !.armed = no, !.scheduled = no]
           /\ UNCHANGED <<run, muted, excused>>
  <2>1. wake' \in WakeType /\ wake'.running = wake.running
    BY <1>2, <1>4 DEF WakeType
  <2>2. Typed'
    BY <1>1, <1>4, <2>1 DEF Typed
  <2>3. RunGood(wake', run')
    BY <1>1, <1>4, <2>1 DEF RunGood
  <2> QED
    BY <1>1, <1>4, <2>2, <2>3 DEF IInv, Watched
<1>5. CASE /\ wake.running /\ life = "on"
           /\ wake' = [wake EXCEPT !.scheduled = yes]
           /\ UNCHANGED <<run, muted, excused>>
  <2>1. wake' \in WakeType /\ wake'.running = wake.running /\ wake'.armed = wake.armed /\ wake'.pending = wake.pending
    BY <1>2, <1>5 DEF WakeType
  <2>2. Typed'
    BY <1>1, <1>5, <2>1 DEF Typed
  <2>3. RunGood(wake', run')
    BY <1>1, <1>5, <2>1 DEF RunGood
  <2>4. Watched(life', wake', muted', timer', agents')
    BY <1>1, <1>5, <2>1 DEF Watched
  <2> QED
    BY <1>1, <1>5, <2>2, <2>3, <2>4 DEF IInv
<1>6. CASE /\ ~ wake.running /\ life = "on"
           /\ wake' = [wake EXCEPT !.armed = no, !.scheduled = no, !.pending = None, !.running = yes]
           /\ run' = [Idle EXCEPT !.on = yes, !.reason = wake.pending, !.at = now,
                                  !.todo = Present(agents)]
           /\ UNCHANGED <<muted, excused>>
  <2>1. wake' \in WakeType /\ wake'.running = yes
    BY <1>2, <1>6 DEF WakeType
  <2>2. wake.pending \in Reasons \cup {None} /\ Present(agents) \in SUBSET Agents
    BY <1>2 DEF WakeType, Present
  <2>3. /\ run' \in RunType /\ run'.on = yes /\ run'.cur = None
        /\ run'.detached = FALSE
    BY <1>2, <1>6, <2>2, IdleType DEF RunType
  <2>4. Typed'
    BY <1>1, <1>6, <2>1, <2>3 DEF Typed
  <2>5. RunGood(wake', run')
    BY <1>2, <2>1, <2>3 DEF RunGood
  <2>6. Watched(life', wake', muted', timer', agents')
    BY <1>1, <1>2, <1>6, <2>1 DEF Watched
  <2>7. run.cur = None
    BY <1>1, <1>6 DEF RunGood
  <2>8. Spacing(begun', agents', run')
    BY <1>1, <2>3, <2>7, HeartbeatAssumption DEF Spacing
  <2> QED
    BY <1>1, <1>6, <2>4, <2>5, <2>6, <2>8 DEF IInv, Fresh
<1>7. CASE /\ ~ wake.running /\ life = "on" /\ ~ (enabled /\ Present(agents) # {})
           /\ wake' = [wake EXCEPT !.armed = no, !.scheduled = no, !.pending = None]
           /\ muted' = (muted \/ ~ enabled) /\ excused' = excused \cup Queued
           /\ UNCHANGED run
  <2>1. wake' \in WakeType /\ wake'.running = wake.running /\ wake'.pending = None
    BY <1>2, <1>7 DEF WakeType
  <2>2. muted' \in BOOLEAN /\ excused' \in SUBSET Events
    BY <1>1, <1>7, QueuedEvents DEF Typed
  <2>3. Typed'
    BY <1>1, <1>7, <2>1, <2>2 DEF Typed
  <2>4. RunGood(wake', run')
    BY <1>1, <1>7, <2>1 DEF RunGood
  <2>5. ~ muted' => timer = Never /\ Present(agents) = {}
    BY <1>1, <1>7 DEF Watched
  <2>6. Watched(life', wake', muted', timer', agents')
    BY <1>1, <1>2, <2>1, <2>5, EarliestType DEF Watched
  <2> QED
    BY <1>1, <1>7, <2>3, <2>4, <2>6 DEF IInv
<1> QED
  BY <1>3, <1>4, <1>5, <1>6, <1>7

(* A run that has not ended changes, while the timers stay.                *)
LEMMA RunChangedIInv ==
  ASSUME IInv, run.on, run' \in RunType, run'.on = TRUE, run'.cur # None => run'.cur \in run'.todo,
         agents' \in [Agents -> AgentState], Present(agents') = Present(agents),
         begun' \in [Agents -> Time \cup {Never}],
         event' \in [Events -> EventType], excused' \in SUBSET Events,
         Spacing(begun', agents', run'),
         UNCHANGED <<now, wake, life, timer, enabled, busy, troubles, direct, muted>>
  PROVE  IInv'
<1>1. Typed'
  BY DEF IInv, Typed
<1>2. RunGood(wake', run')
  BY DEF IInv, RunGood
<1>3. Watched(life', wake', muted', timer', agents')
  BY DEF IInv, Watched, RunGood
<1>4. Fresh(life', begun', run')
  BY DEF IInv, Fresh
<1> QED
  BY <1>1, <1>2, <1>3, <1>4 DEF IInv

(* A run is given up, to be tried again.                                   *)
LEMMA RetryIInv ==
  ASSUME IInv, Retry, run.on, troubles' \in 0..MaxTroubles,
         begun' \in [Agents -> Time \cup {Never}],
         \A a \in Agents : begun'[a] = Never \/ (begun'[a] = begun[a] /\ run.cur # a),
         UNCHANGED <<now, life, agents, timer, enabled, busy, direct, event, muted>>
  PROVE  IInv'
<1> DEFINE no == FALSE
           yes == TRUE
           kept == Kept(run.reason)
<1>1. /\ Typed /\ Spacing(begun, agents, run) /\ Fresh(life, begun, run)
      /\ Watched(life, wake, muted, timer, agents)
      /\ yes \in BOOLEAN /\ yes = TRUE /\ no \in BOOLEAN /\ no = FALSE
      /\ run' = Idle /\ wake' = [wake EXCEPT !.running = no, !.armed = yes, !.pending = kept]
      /\ excused' = excused \cup Overwritten(wake.pending, Kept(run.reason))
  BY DEF IInv, Retry, Settled
<1>2. kept \in Reasons \cup {None}
  BY <1>1 DEF Typed, RunType, Kept, Reasons
<1> HIDE DEF no, yes, kept
<1>3. wake' \in WakeType /\ wake'.running = no /\ wake'.armed = yes
  BY <1>1, <1>2 DEF Typed, WakeType
<1>4. excused' \in SUBSET Events
  BY <1>1, QueuedEvents DEF Typed
<1>5. Typed'
  BY <1>1, <1>3, <1>4, IdleType DEF Typed
<1>6. RunGood(wake', run')
  BY <1>1, <1>3, IdleType DEF RunGood
<1>7. Watched(life', wake', muted', timer', agents')
  BY <1>1, <1>3 DEF Watched
<1>8. Spacing(begun', agents', run')
  <2>1. run'.cur = None /\ run'.todo = {} /\ ~ run'.detached
    BY <1>1, IdleType
  <2> QED
    BY <1>1, <2>1, HeartbeatAssumption DEF Spacing
<1>9. Fresh(life', begun', run')
  BY <1>1 DEF Fresh
<1> QED
  BY <1>5, <1>6, <1>7, <1>8, <1>9 DEF IInv

LEMMA PassOverIInv ==
  ASSUME IInv, NEW a \in Agents, PassOver(a)
  PROVE  IInv'
<1>1. /\ Typed /\ Spacing(begun, agents, run) /\ run \in RunType
      /\ run.on /\ run.on = TRUE /\ run.cur = None /\ run' = [run EXCEPT !.todo = @ \ {a}]
      /\ UNCHANGED <<now, wake, life, agents, timer, enabled, busy, troubles, direct, event, excused, muted, begun>>
  BY DEF PassOver, IInv, Typed, RunType
<1>2. /\ run' \in RunType /\ run'.on = TRUE /\ run'.cur = None /\ run'.todo = run.todo \ {a}
      /\ run'.at = run.at /\ run'.detached = run.detached
  BY <1>1 DEF RunType
<1>3. Spacing(begun', agents', run')
  BY <1>1, <1>2 DEF Spacing
<1> QED
  BY <1>1, <1>2, <1>3, RunChangedIInv DEF Typed

LEMMA RefuseAgentIInv ==
  ASSUME IInv, NEW a \in Agents, RefuseAgent(a)
  PROVE  IInv'
<1>1. /\ Typed /\ Spacing(begun, agents, run) /\ run \in RunType
      /\ run.on /\ run.on = TRUE /\ run.cur = None
      /\ UNCHANGED <<now, life, agents, timer, enabled, busy, troubles, direct, event, muted, begun>>
  BY DEF RefuseAgent, Turn, IInv, Typed, RunType
<1>2. CASE run' = [run EXCEPT !.todo = @ \ {a}] /\ excused' = excused \cup GivenUp(a) /\ UNCHANGED wake
  <2>1. /\ run' \in RunType /\ run'.on = TRUE /\ run'.cur = None /\ run'.todo = run.todo \ {a}
        /\ run'.at = run.at /\ run'.detached = run.detached
    BY <1>1, <1>2 DEF RunType
  <2>2. Spacing(begun', agents', run')
    BY <1>1, <2>1 DEF Spacing
  <2>3. excused' \in SUBSET Events
    BY <1>1, <1>2, QueuedEvents DEF Typed
  <2> QED
    BY <1>1, <1>2, <2>1, <2>2, <2>3, RunChangedIInv DEF Typed
<1>3. CASE Retry
  <2>1. \A b \in Agents : run.cur # b
    BY <1>1, HeartbeatAssumption
  <2> QED
    BY <1>1, <1>3, <2>1, RetryIInv DEF Typed
<1> QED
  BY <1>2, <1>3 DEF RefuseAgent

LEMMA AskAgentIInv ==
  ASSUME IInv, NEW a \in Agents, AskAgent(a)
  PROVE  IInv'
<1>1. /\ Typed /\ Spacing(begun, agents, run) /\ run \in RunType
      /\ run.on /\ run.on = TRUE /\ run.cur = None /\ a \in run.todo /\ a # None
      /\ run' = [run EXCEPT !.cur = a]
      /\ begun' = IF run.detached THEN begun ELSE [begun EXCEPT ![a] = run.at]
      /\ UNCHANGED <<now, wake, life, agents, timer, enabled, busy, troubles, direct, event, excused, muted>>
  BY HeartbeatAssumption DEF AskAgent, Turn, IInv, Typed, RunType
<1>2. /\ run' \in RunType /\ run'.on = TRUE /\ run'.cur = a /\ run'.todo = run.todo
      /\ run'.at = run.at /\ run'.detached = run.detached
  BY <1>1 DEF RunType
<1>3. /\ begun' \in [Agents -> Time \cup {Never}]
      /\ run.detached => begun' = begun
      /\ ~ run.detached => begun'[a] = run.at /\ \A b \in Agents : b # a => begun'[b] = begun[b]
  BY <1>1 DEF Typed, RunType
<1>4. Spacing(begun', agents', run')
  <2>1. ASSUME NEW b \in Agents, begun'[b] # Never
        PROVE  /\ run'.cur = b => begun'[b] = run'.at /\ ~ run'.detached
               /\ run'.cur # b => /\ agents'[b].last = begun'[b]
                                  /\ agents'[b].due = begun'[b] + agents'[b].every
    <3>1. run.cur # b
      BY <1>1, HeartbeatAssumption
    <3>2. CASE run.detached
      <4>1. b # a
        BY <1>1, <1>3, <2>1, <3>2 DEF Spacing
      <4> QED
        BY <1>1, <1>2, <1>3, <2>1, <3>1, <3>2, <4>1 DEF Spacing
    <3>3. CASE ~ run.detached
      BY <1>1, <1>2, <1>3, <2>1, <3>1, <3>3 DEF Spacing
    <3> QED
      BY <3>2, <3>3
  <2>2. ASSUME NEW b \in run'.todo, run'.detached PROVE begun'[b] = Never
    BY <1>1, <1>2, <1>3, <2>2 DEF Spacing
  <2> QED
    BY <2>1, <2>2 DEF Spacing
<1> QED
  BY <1>1, <1>2, <1>3, <1>4, RunChangedIInv DEF Typed

LEMMA TellIInv ==
  ASSUME IInv, NEW a \in Agents, Tell(a)
  PROVE  IInv'
<1> DEFINE yes == TRUE
<1>1. /\ Typed /\ RunGood(wake, run) /\ Spacing(begun, agents, run) /\ run \in RunType
      /\ a # None /\ run.cur = a /\ yes \in BOOLEAN /\ yes = TRUE
      /\ run' = [run EXCEPT !.asked = yes] /\ event' = Told(a)
      /\ UNCHANGED <<now, wake, life, agents, timer, enabled, busy, troubles, direct, excused, muted, begun>>
  BY HeartbeatAssumption DEF Tell, IInv, Typed
<1>2. run.on /\ run.on = TRUE /\ run.cur \in run.todo
  BY <1>1 DEF RunGood, RunType
<1> HIDE DEF yes
<1>3. /\ run' \in RunType /\ run'.on = run.on /\ run'.cur = run.cur /\ run'.todo = run.todo
      /\ run'.at = run.at /\ run'.detached = run.detached
  BY <1>1 DEF RunType
<1>4. Spacing(begun', agents', run')
  BY <1>1, <1>3 DEF Spacing
<1>5. event' \in [Events -> EventType]
  BY <1>1, ToldType DEF Typed
<1> QED
  BY <1>1, <1>2, <1>3, <1>4, <1>5, RunChangedIInv DEF Typed

LEMMA AgentAnswersIInv ==
  ASSUME IInv, NEW result \in {"ran", "failed", "skipped"}, AgentAnswers(result)
  PROVE  IInv'
<1> DEFINE a == run.cur
           no == FALSE
           rec == [agents[a] EXCEPT !.last = run.at, !.due = run.at + agents[a].every]
<1>1. /\ Typed /\ Spacing(begun, agents, run) /\ run \in RunType /\ agents \in [Agents -> AgentState]
      /\ a # None /\ a \in Agents /\ run.on /\ run.on = TRUE /\ a \in run.todo
      /\ run' = [run EXCEPT !.todo = @ \ {a}, !.cur = None, !.asked = no] /\ no \in BOOLEAN
      /\ agents' = Learned(a, result)
      /\ excused' \in {excused, excused \cup GivenUp(a)}
      /\ UNCHANGED <<now, wake, life, timer, enabled, busy, troubles, direct, event, muted, begun>>
  BY DEF AgentAnswers, IInv, Typed, RunType, RunGood
<1>0. excused' \in SUBSET Events
  BY <1>1, QueuedEvents DEF Typed
<1> HIDE DEF no
<1>2. /\ run' \in RunType /\ run'.on = TRUE /\ run'.cur = None /\ run'.todo = run.todo \ {a}
      /\ run'.at = run.at /\ run'.detached = run.detached
  BY <1>1 DEF RunType
<1>3. /\ rec \in AgentState /\ rec.last = run.at /\ rec.every = agents[a].every
      /\ rec.due = run.at + agents[a].every
  <2> HIDE DEF a
  <2>1. agents[a] \in AgentState /\ run.at \in Nat
    BY <1>1, NeverIsNat DEF RunType
  <2>2. agents[a].every \in Nat
    BY <2>1 DEF AgentState
  <2>3. run.at + agents[a].every \in Nat
    BY <2>1, <2>2
  <2> DEFINE due == run.at + agents[a].every
  <2> HIDE DEF due
  <2>4. rec = [agents[a] EXCEPT !.last = run.at, !.due = due]
    BY DEF due
  <2>5. rec \in AgentState /\ rec.last = run.at /\ rec.every = agents[a].every /\ rec.due = due
    BY <2>1, <2>3, <2>4 DEF AgentState, due
  <2> QED
    BY <2>5 DEF due
<1>4. agents' = IF run.detached THEN agents ELSE [agents EXCEPT ![a] = rec]
  BY <1>1 DEF Learned
<1> HIDE DEF a, rec
<1>5. /\ agents' \in [Agents -> AgentState]
      /\ run.detached => agents' = agents
      /\ ~ run.detached => agents'[a] = rec /\ \A b \in Agents : b # a => agents'[b] = agents[b]
  BY <1>1, <1>3, <1>4
<1>6. Present(agents') = Present(agents)
  BY <1>3, <1>5 DEF Present
<1>7. Spacing(begun', agents', run')
  <2>1. ASSUME NEW b \in Agents, begun'[b] # Never
        PROVE  /\ run'.cur # b /\ agents'[b].last = begun'[b]
               /\ agents'[b].due = begun'[b] + agents'[b].every
    <3>1. run'.cur # b
      BY <1>2, HeartbeatAssumption
    <3>2. CASE b = a
      <4>1. begun[b] = run.at /\ ~ run.detached
        BY <1>1, <2>1, <3>2 DEF Spacing, a
      <4> QED
        BY <1>1, <1>3, <1>5, <3>1, <3>2, <4>1
    <3>3. CASE b # a
      BY <1>1, <1>5, <2>1, <3>1, <3>3 DEF Spacing, a
    <3> QED
      BY <3>2, <3>3
  <2>2. ASSUME NEW b \in run'.todo, run'.detached PROVE begun'[b] = Never
    BY <1>1, <1>2, <2>2 DEF Spacing
  <2> QED
    BY <2>1, <2>2 DEF Spacing
<1> QED
  BY <1>0, <1>1, <1>2, <1>5, <1>6, <1>7, RunChangedIInv DEF Typed

LEMMA AgentThrowsIInv ==
  ASSUME IInv, AgentThrows
  PROVE  IInv'
<1>1. /\ Typed /\ run \in RunType /\ run.on /\ run.cur \in Agents
      /\ begun' = [begun EXCEPT ![run.cur] = Never] /\ Retry
      /\ UNCHANGED <<now, life, agents, timer, enabled, busy, direct, event, muted>>
  BY DEF AgentThrows, IInv, Typed, RunType, RunGood
<1>2. troubles' \in 0..MaxTroubles
  BY <1>1, HeartbeatAssumption DEF AgentThrows, Trouble, Typed
<1>3. /\ begun' \in [Agents -> Time \cup {Never}]
      /\ \A a \in Agents : begun'[a] = Never \/ (begun'[a] = begun[a] /\ run.cur # a)
  BY <1>1 DEF Typed
<1> QED
  BY <1>1, <1>2, <1>3, RetryIInv

LEMMA RunEndsIInv ==
  ASSUME IInv, RunEnds
  PROVE  IInv'
<1> DEFINE no == FALSE
           arm == wake.armed \/ wake.pending # None \/ wake.scheduled
<1>1. /\ Typed /\ RunGood(wake, run) /\ Spacing(begun, agents, run) /\ Fresh(life, begun, run)
      /\ Watched(life, wake, muted, timer, agents)
      /\ no \in BOOLEAN /\ no = FALSE /\ run.on /\ run.todo = {}
      /\ run' = Idle /\ wake' = [wake EXCEPT !.running = no, !.armed = arm]
      /\ ScheduleNext(agents)
      /\ UNCHANGED <<now, life, agents, enabled, busy, troubles, direct, event, excused, begun>>
  BY DEF IInv, RunEnds, Settled, Typed, WakeType
<1>2. arm \in BOOLEAN
  BY <1>1 DEF Typed, WakeType
<1>3. wake.pending # None => arm
  OBVIOUS
<1> HIDE DEF no, arm
<1>4. wake' \in WakeType /\ wake'.running = no /\ wake'.armed = arm /\ wake'.pending = wake.pending
  BY <1>1, <1>2 DEF Typed, WakeType
<1>5. /\ timer' \in Nat /\ muted' \in BOOLEAN
      /\ life = "on" => timer' = Earliest(agents) /\ (Present(agents) = {} => timer' = Never)
  BY <1>1, ScheduleFacts DEF Typed
<1>6. Typed'
  BY <1>1, <1>4, <1>5, IdleType DEF Typed
<1>7. RunGood(wake', run')
  BY <1>1, <1>4, IdleType DEF RunGood
<1>8. Watched(life', wake', muted', timer', agents')
  BY <1>1, <1>3, <1>4, <1>5 DEF Watched
<1>9. Spacing(begun', agents', run')
  <2>1. run'.cur = None /\ run'.todo = {}
    BY <1>1, IdleType
  <2>2. run.cur = None
    BY <1>1 DEF RunGood
  <2> QED
    BY <1>1, <2>1, <2>2, HeartbeatAssumption DEF Spacing
<1>10. Fresh(life', begun', run')
  BY <1>1 DEF Fresh
<1> QED
  BY <1>6, <1>7, <1>8, <1>9, <1>10 DEF IInv

-----------------------------------------------------------------------------
(* Cron's own heartbeat leaves the runner, its timers and its run alone,   *)
(* but for the request it may make in the end.                             *)
LEMMA DirectIInv ==
  ASSUME IInv, DirectStep \/ \E e \in Events : CronWakesNow(e)
  PROVE  IInv'
<1> USE DEF DirectDone
<1>1. NoDirect \in DirectType /\ direct \in DirectType /\ event \in [Events -> EventType]
  BY DEF NoDirect, DirectType, IInv, Typed
<1>2. /\ UNCHANGED <<now, life, agents, timer, run, enabled, busy, troubles, muted, begun>>
      /\ wake' \in {wake, Requested(wake, "cron")}
  BY DEF DirectStep, DirectRefused, DirectGivesWay, DirectBegins, DirectTells, DirectEnds, CronWakesNow
<1>3. direct' \in DirectType
  <2>1. ASSUME NEW e \in Events, CronWakesNow(e) PROVE direct' \in DirectType
    BY <2>1 DEF CronWakesNow, DirectType
  <2>2. CASE DirectRefused \/ DirectGivesWay \/ DirectEnds
    BY <1>1, <2>2 DEF DirectRefused, DirectGivesWay, DirectEnds
  <2>3. ASSUME NEW a \in Defaults, DirectBegins(a) PROVE direct' \in DirectType
    BY <1>1, <2>3, HeartbeatAssumption DEF DirectBegins, DirectType
  <2>4. CASE DirectTells
    BY <1>1, <2>4 DEF DirectTells, DirectType
  <2> QED
    BY <2>1, <2>2, <2>3, <2>4 DEF DirectStep
<1>4. event' \in [Events -> EventType]
  <2>1. event' = event \/ event' = Told(direct.agent) \/ \E e \in Events : event' = [event EXCEPT ![e] = "queued"]
    BY DEF DirectStep, DirectRefused, DirectGivesWay, DirectBegins, DirectTells, DirectEnds, CronWakesNow
  <2> QED
    BY <1>1, <2>1, ToldType DEF EventType
<1>5. excused' \in SUBSET Events
  <2>1. excused \in SUBSET Events
    BY DEF IInv, Typed
  <2>2. CASE DirectGivesWay
    BY <2>1, <2>2, QueuedEvents DEF DirectGivesWay
  <2>3. CASE ~ DirectGivesWay
    BY <2>1, <2>3, QueuedEvents
       DEF DirectStep, DirectRefused, DirectBegins, DirectTells, DirectEnds, CronWakesNow
  <2> QED
    BY <2>2, <2>3
<1>6. /\ wake' \in WakeType /\ wake'.running = wake.running
      /\ wake' = wake \/ wake'.armed = TRUE
  <2>1. wake \in WakeType /\ "cron" \in Reasons
    BY DEF IInv, Typed, Reasons, Notices, Telling
  <2>2. LET w == Requested(wake, "cron")
        IN w \in WakeType /\ w.armed = TRUE /\ w.running = wake.running
    BY <2>1, RequestedType
  <2> QED
    BY <1>2, <2>1, <2>2
<1>7. Typed'
  BY <1>2, <1>3, <1>4, <1>5, <1>6 DEF IInv, Typed
<1>8. RunGood(wake', run') /\ Watched(life', wake', muted', timer', agents')
  BY <1>2, <1>6 DEF IInv, RunGood, Watched
<1> QED
  BY <1>2, <1>7, <1>8 DEF IInv, Fresh, Spacing

LEMMA StepIInv ==
  ASSUME IInv, [Next]_vars
  PROVE  IInv'
<1>1. ASSUME NEW e \in Events, NEW reason \in Notices, Notify(e, reason) PROVE IInv'
  BY <1>1, NotifyIInv
<1>0. CASE DirectStep \/ \E e \in Events : CronWakesNow(e)
  BY <1>0, DirectIInv
<1>2. CASE IntervalFires \/ WakeFires \/ AgentThrows \/ StopRunner
  BY <1>2, IntervalFiresIInv, WakeFiresIInv, AgentThrowsIInv, StopRunnerIInv
<1>3. CASE RunStep
  BY <1>3, PassOverIInv, RefuseAgentIInv, AskAgentIInv, TellIInv, AgentAnswersIInv, RunEndsIInv DEF RunStep
<1>4. ASSUME NEW cfg \in Configs, StartRunner(cfg) \/ UpdateConfig(cfg) PROVE IInv'
  BY <1>4, StartRunnerIInv, UpdateConfigIInv
<1>5. ASSUME now' \in Time, enabled' \in BOOLEAN, busy' \in BOOLEAN, troubles' \in 0..MaxTroubles,
             UNCHANGED <<wake, life, agents, timer, run, direct, event, excused, muted, begun>>
      PROVE  IInv'
  <2>1. Typed'
    BY <1>5 DEF IInv, Typed
  <2> QED
    BY <1>5, <2>1 DEF IInv, RunGood, Fresh, Watched, Spacing
<1>6. CASE UNCHANGED vars
  BY <1>5, <1>6 DEF vars, IInv, Typed
<1>7. CASE SetHeartbeats \/ Load
  <2>1. troubles' \in 0..MaxTroubles
    BY <1>7, HeartbeatAssumption DEF SetHeartbeats, Load, Trouble, IInv, Typed
  <2> QED
    BY <1>5, <1>7, <2>1 DEF SetHeartbeats, Load, IInv, Typed
<1>8. CASE Unload
  BY <1>5, <1>8 DEF Unload, IInv, Typed
<1>9. CASE Advance
  <2>1. now' \in Time
    BY <1>9, HeartbeatAssumption DEF Advance, IInv, Typed, Time
  <2> QED
    BY <1>5, <1>9, <2>1 DEF Advance, IInv, Typed
<1> QED
  BY <1>0, <1>1, <1>2, <1>3, <1>4, <1>6, <1>7, <1>8, <1>9 DEF Next

(* The invariant that the three theorems below follow from.                *)
THEOREM HeartbeatInvariant == Spec => []IInv
<1>1. Init => IInv
  BY InitIInv
<1>2. IInv /\ [Next]_vars => IInv'
  BY StepIInv
<1> QED
  BY <1>1, <1>2, PTL DEF Spec

(* TypeOK: types, and the flag running of heartbeat-wake.ts is set exactly *)
(* while a run is in progress.                                             *)
THEOREM HeartbeatTypes == Spec => []TypeOK
<1>1. IInv => TypeOK
  BY NeverIsNat DEF IInv, Typed, RunGood, WakeType, RunType, DirectType, EventType, TypeOK
<1> QED
  BY <1>1, HeartbeatInvariant, PTL

(* Covered: no request is lost between heartbeat-wake.ts and its run, and  *)
(* a runner at rest has its timer set for the agent that is due first.     *)
THEOREM HeartbeatCovered == Spec => []Covered
<1>1. IInv => Covered
  BY DEF IInv, Watched, Covered
<1> QED
  BY <1>1, HeartbeatInvariant, PTL

(* Spaced: by its interval an agent is asked at most once per interval,    *)
(* however other runs, config reloads and failures come in between.        *)
THEOREM HeartbeatSpaced == Spec => Spaced
<1> DEFINE Step(a) ==
             run.cur # a /\ run'.cur = a /\ run.reason = "interval" /\ begun[a] # Never =>
               run.at >= begun[a] + RunMap[a].every
<1>1. ASSUME IInv, [Next]_vars, NEW a \in Agents PROVE Step(a)
  <2> SUFFICES ASSUME run.cur # a, run'.cur = a, run.reason = "interval", begun[a] # Never
               PROVE  run.at >= begun[a] + RunMap[a].every
    OBVIOUS
  <2>1. AskAgent(a)
    <3>1. run.cur # a /\ run'.cur = a /\ a # None /\ Idle.cur = None /\ run \in RunType
      BY <1>1, HeartbeatAssumption, IdleType DEF IInv, Typed
    <3>2. run' # Idle
      BY <3>1
    <3>3. (\A e \in Events, reason \in Notices : ~ Notify(e, reason)) /\ ~ DirectStep /\ \A e \in Events : ~ CronWakesNow(e)
      BY <3>1 DEF Notify, CronWakesNow, DirectStep, DirectRefused, DirectGivesWay, DirectBegins, DirectTells, DirectEnds
    <3>4. ~ IntervalFires /\ ~ StopRunner /\ ~ SetHeartbeats /\ ~ Load /\ ~ Unload /\ ~ Advance
      BY <3>1 DEF IntervalFires, StopRunner, SetHeartbeats, Load, Unload, Advance
    <3>5. ~ AgentThrows /\ ~ RunEnds
      BY <3>2 DEF AgentThrows, Retry, RunEnds
    <3>6. ~ WakeFires
      <4> SUFFICES ASSUME WakeFires PROVE FALSE
        OBVIOUS
      <4>1. \/ run' = run
            \/ run' = [Idle EXCEPT !.on = TRUE, !.reason = wake.pending, !.at = now,
                                   !.todo = Present(agents)]
        BY DEF WakeFires
      <4>2. run'.cur = run.cur \/ run'.cur = Idle.cur
        BY <4>1, IdleType DEF RunType
      <4> QED
        BY <3>1, <4>2
    <3>7. \A cfg \in Configs : ~ StartRunner(cfg) /\ ~ UpdateConfig(cfg)
      <4> SUFFICES ASSUME NEW cfg \in Configs, StartRunner(cfg) \/ UpdateConfig(cfg) PROVE FALSE
        OBVIOUS
      <4>1. run' = run \/ run' = [run EXCEPT !.detached = TRUE, !.map = agents]
        BY DEF StartRunner, UpdateConfig
      <4>2. run'.cur = run.cur
        BY <3>1, <4>1 DEF RunType
      <4> QED
        BY <3>1, <4>2
    <3>8. \A b \in Agents : ~ PassOver(b) /\ ~ RefuseAgent(b)
      <4> SUFFICES ASSUME NEW b \in Agents, PassOver(b) \/ RefuseAgent(b) PROVE FALSE
        OBVIOUS
      <4>1. run' = [run EXCEPT !.todo = @ \ {b}]
        BY <3>2 DEF PassOver, RefuseAgent, Retry
      <4>2. run'.cur = run.cur
        BY <3>1, <4>1 DEF RunType
      <4> QED
        BY <3>1, <4>2
    <3>12. \A b \in Agents : ~ Tell(b)
      BY <3>1 DEF Tell, RunType
    <3>9. \A result \in {"ran", "failed", "skipped"} : ~ AgentAnswers(result)
      BY <3>1 DEF AgentAnswers, RunType
    <3>10. \A b \in Agents : AskAgent(b) => b = a
      BY <3>1 DEF AskAgent, RunType
    <3>11. ~ UNCHANGED vars
      BY <3>1 DEF vars
    <3> QED
      BY <1>1, <3>3, <3>4, <3>5, <3>6, <3>7, <3>8, <3>9, <3>10, <3>11, <3>12 DEF Next, RunStep
  <2>2. /\ a \in run.todo /\ ~ (run.at < RunMap[a].due) /\ run \in RunType
        /\ Spacing(begun, agents, run) /\ agents \in [Agents -> AgentState]
        /\ begun[a] \in Time \cup {Never}
    BY <1>1, <2>1 DEF AskAgent, Turn, IInv, Typed
  <2>3. ~ run.detached
    BY <2>2 DEF Spacing
  <2>4. RunMap = agents
    BY <2>3 DEF RunMap
  <2>5. agents[a].due = begun[a] + agents[a].every
    BY <2>2 DEF Spacing
  <2>6. run.at \in Nat /\ agents[a].due \in Nat
    BY <2>2, NeverIsNat DEF RunType, AgentState
  <2> QED
    BY <2>2, <2>4, <2>5, <2>6
<1>2. IInv /\ [Next]_vars => [\A a \in Agents : Step(a)]_vars
  BY <1>1
<1>3. Spec => [][\A a \in Agents : Step(a)]_vars
  BY <1>2, HeartbeatInvariant, PTL DEF Spec
<1> QED
  BY <1>3 DEF Spaced
=============================================================================
