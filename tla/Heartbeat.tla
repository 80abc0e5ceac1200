------------------------------ MODULE Heartbeat ------------------------------
(***************************************************************************)
(* The heartbeat of the agents: heartbeat-wake.ts coalesces requests for a *)
(* heartbeat behind one timer and one pending reason, heartbeat-runner.ts  *)
(* keeps when each agent is due and runs the agents one after the other.   *)
(* System events (a command has ended, a cron job speaks) are queued for a *)
(* session, and go into the prompt of the next reply in it: a heartbeat,   *)
(* if the session is the one in which the agent's heartbeat speaks.  A     *)
(* cron job that is to wake the agent now does not request a heartbeat, it *)
(* runs one by itself, beside the runner.                                  *)
(*                                                                         *)
(* Code between two awaits is one step.  The delays of the wake timer      *)
(* (0, 250, 1000 ms) are short beside an interval: an armed wake timer     *)
(* fires at any time.  The order of the agents, fixed by the config, is    *)
(* arbitrary.  Of the main lane only whether it has requests is kept, and  *)
(* of the reply when it takes the events into its prompt.                  *)
(***************************************************************************)
EXTENDS Naturals, FiniteSets

CONSTANTS
  Agents,
  Configs,      \* [Agents -> interval] a config may give; 0: no heartbeat
  EmptyFile,    \* agents whose HEARTBEAT.md has no content
  Events,       \* system events that come with a request
  AgentOf,      \* [Events -> the agent they are for]
  Defaults,     \* agents that may be the default one of the config, whose
                \* heartbeat a cron job runs by itself
  None,
  MaxTime,      \* bound: the clock, in units of the intervals
  MaxTroubles   \* bound: config reloads, loads of the main lane, changes of
                \* heartbeatsEnabled and runs that throw, together

ASSUME HeartbeatAssumption ==
  /\ Configs # {} /\ Configs \subseteq [Agents -> Nat]
  /\ EmptyFile \subseteq Agents /\ AgentOf \in [Events -> Agents]
  /\ Defaults \subseteq Agents /\ None \notin Agents \cup Events
  /\ MaxTime \in Nat /\ MaxTroubles \in Nat

VARIABLES
  now,
  wake,      \* heartbeat-wake.ts: armed (the timer), pending, scheduled, running
  life,      \* of the runner: new, on (its handler is set), stopped
  agents,    \* state.agents
  timer,     \* state.timer: when it fires, or Never
  run,       \* the handler's run in progress
  enabled,   \* heartbeatsEnabled
  busy,      \* the main lane has requests
  troubles,  \* how many of the bounded steps were taken
  direct,    \* cron's own heartbeat: its event, its agent once it has begun
  event,     \* [event -> new, queued, told; elsewhere: queued for a session
             \* in which no heartbeat speaks]
  excused,   \* history: queued events the code gave up to a later heartbeat
  muted,     \* history: a wake fell into a time of disabled heartbeats
  begun      \* history: [agent -> start of its last run, Never if forgotten]

vars == <<now, wake, life, agents, timer, run, enabled, busy, troubles, direct, event, excused, muted, begun>>

-----------------------------------------------------------------------------
Never == MaxTime + 100
Time == 0..MaxTime

(* exec-event and cron: reasons tell events whatever HEARTBEAT.md says;    *)
(* "exit", for exec:<id>:exit, hook:<id> and wake, only if it has content. *)
Telling == {"exec-event", "cron"}
Notices == Telling \cup {"exit"}
Reasons == Notices \cup {"interval", "requested", "retry"}

(* A heartbeat for this reason gives the agent its prompt, due or not.     *)
Tells(reason, a) ==
  \/ reason \in Telling
  \/ reason \notin {None, "interval"} /\ a \notin EmptyFile

NoAgent == [every |-> 0, last |-> Never, due |-> Never]
Present(map) == { a \in Agents : map[a].every # 0 }

Idle == [on |-> FALSE, reason |-> None, at |-> 0, todo |-> {}, cur |-> None,
         asked |-> FALSE, detached |-> FALSE, map |-> [a \in Agents |-> NoAgent]]

Earliest(map) ==
  IF Present(map) = {} THEN Never
  ELSE CHOOSE t \in { map[a].due : a \in Present(map) } :
         \A a \in Present(map) : t <= map[a].due

Trouble == troubles < MaxTroubles /\ troubles' = troubles + 1

Queued == { e \in Events : event[e] = "queued" }
EventsOf(a) == { e \in Queued : AgentOf[e] = a }

NoDirect == [event |-> None, stage |-> "none", agent |-> None]

(* Queued events of an agent that no pending request will tell.            *)
GivenUp(a) == IF Tells(wake.pending, a) THEN {} ELSE EventsOf(a)

Init ==
  /\ now = 0
  /\ wake = [armed |-> FALSE, pending |-> None, scheduled |-> FALSE, running |-> FALSE]
  /\ life = "new" /\ agents = [a \in Agents |-> NoAgent] /\ timer = Never /\ run = Idle
  /\ enabled = TRUE /\ busy = FALSE
  /\ troubles = 0 /\ direct = NoDirect
  /\ event = [e \in Events |-> "new"]
  /\ excused = {} /\ muted = FALSE /\ begun = [a \in Agents |-> Never]

-----------------------------------------------------------------------------
(* A mutant: the oldest reason counts.                                     *)
RequestedFaulty(w, reason) ==
  [w EXCEPT !.armed = TRUE, !.pending = IF @ # None THEN @ ELSE reason]

(* requestHeartbeatNow: the newest reason counts; a request without one    *)
(* keeps what is pending.                                                  *)
Requested(w, reason) ==
  [w EXCEPT !.armed = TRUE,
            !.pending = IF reason # None THEN reason
                        ELSE IF @ # None THEN @ ELSE "requested"]

(* What waits to be told when a reason gives way to one that may not tell. *)
Overwritten(old, new) ==
  { e \in Queued : Tells(old, AgentOf[e]) /\ ~ Tells(new, AgentOf[e]) }

(* A command has ended, or a cron job speaks: an event is queued for a     *)
(* session of an agent, and a heartbeat requested.  The session is the one *)
(* the command names, node-<id> if it names none, or the agent's main one: *)
(* the agent's heartbeat may speak in another one.                         *)
Notify(e, reason) ==
  /\ event[e] = "new"
  /\ wake' = Requested(wake, reason)
  /\ \/ event' = [event EXCEPT ![e] = "elsewhere"]
        /\ excused' = excused \cup Overwritten(wake.pending, reason)
     \/ event' = [event EXCEPT ![e] = "queued"]
        /\ excused' = excused \cup Overwritten(wake.pending, reason)
             \cup (IF Tells(reason, AgentOf[e])
                     /\ (AgentOf[e] \in Present(agents) \/ life = "new") THEN {} ELSE {e})
  /\ UNCHANGED <<now, life, agents, timer, run, enabled, busy, troubles, direct, muted, begun>>

(* The interval timer of the runner.                                       *)
IntervalFires ==
  /\ timer # Never /\ timer <= now
  /\ timer' = Never
  /\ wake' = Requested(wake, "interval")
  /\ excused' = excused \cup Overwritten(wake.pending, "interval")
  /\ UNCHANGED <<now, life, agents, run, enabled, busy, troubles, direct, event, muted, begun>>

-----------------------------------------------------------------------------
(* The runner.                                                             *)

(* scheduleNext.                                                           *)
ScheduleNext(map) ==
  /\ timer' = IF life = "stopped" THEN timer ELSE Earliest(map)
  /\ muted' = IF life = "stopped" THEN muted ELSE FALSE

(* resolveNextDue.                                                         *)
ResolveNextDue(prev, every) ==
  IF prev.last # Never THEN prev.last + every
  ELSE IF prev.every = every /\ prev.due > now THEN prev.due
  ELSE now + every

Updated(cfg) ==
  [a \in Agents |->
     IF cfg[a] = 0 THEN NoAgent
     ELSE [every |-> cfg[a], last |-> agents[a].last, due |-> ResolveNextDue(agents[a], cfg[a])]]

(* startHeartbeatRunner: the handler is set, then the config applied.      *)
StartRunner(cfg) ==
  /\ life = "new"
  /\ life' = "on"
  /\ wake' = [wake EXCEPT !.armed = @ \/ wake.pending # None]
  /\ agents' = Updated(cfg)
  /\ ScheduleNext(Updated(cfg))
  /\ excused' = excused \cup { e \in Queued : cfg[AgentOf[e]] = 0 }
  /\ UNCHANGED <<now, run, enabled, busy, troubles, direct, event, begun>>

(* updateConfig, on a config reload.  A run in progress goes on with the   *)
(* agents it has; what it learns of them is lost.                          *)
UpdateConfig(cfg) ==
  /\ life = "on" /\ Trouble
  /\ agents' = Updated(cfg)
  /\ ScheduleNext(Updated(cfg))
  /\ run' = IF run.on /\ ~ run.detached THEN [run EXCEPT !.detached = TRUE, !.map = agents]
            ELSE run
  /\ excused' = excused \cup { e \in Queued : cfg[AgentOf[e]] = 0 }
  /\ begun' = [a \in Agents |-> IF (run.on /\ a \in run.todo) \/ cfg[a] = 0
                                THEN Never ELSE begun[a]]
  /\ UNCHANGED <<now, wake, life, enabled, busy, direct, event>>

StopRunner ==
  /\ life = "on"
  /\ life' = "stopped" /\ timer' = Never
  /\ UNCHANGED <<now, wake, agents, run, enabled, busy, troubles, direct, event, excused, muted, begun>>

-----------------------------------------------------------------------------
(* The wake timer and the run it starts.                                   *)

(* The callback of the timer up to its await.                              *)
WakeFires ==
  /\ wake.armed
  /\ \/ /\ life # "on"
        /\ wake' = [wake EXCEPT !.armed = FALSE, !.scheduled = FALSE]
        /\ UNCHANGED <<run, muted, excused>>
     \/ /\ life = "on" /\ wake.running
        /\ wake' = [wake EXCEPT !.scheduled = TRUE]
        /\ UNCHANGED <<run, muted, excused>>
     \/ /\ life = "on" /\ ~ wake.running
        /\ IF enabled /\ Present(agents) # {}
           THEN /\ wake' = [wake EXCEPT !.armed = FALSE, !.scheduled = FALSE,
                                        !.pending = None, !.running = TRUE]
                /\ run' = [Idle EXCEPT !.on = TRUE, !.reason = wake.pending, !.at = now,
                                       !.todo = Present(agents)]
                /\ UNCHANGED <<muted, excused>>
           ELSE /\ wake' = [wake EXCEPT !.armed = FALSE, !.scheduled = FALSE, !.pending = None]
                /\ muted' = (muted \/ ~ enabled)
                /\ excused' = excused \cup Queued
                /\ UNCHANGED run
  /\ UNCHANGED <<now, life, agents, timer, enabled, busy, troubles, direct, event, begun>>

Kept(reason) == IF reason # None THEN reason ELSE "retry"

(* The end of the callback: a retry takes the reason along, over whatever  *)
(* was requested during the run; otherwise what was requested is next.     *)
Settled(w, retry, reason) ==
  IF retry
  THEN [w EXCEPT !.running = FALSE, !.armed = TRUE, !.pending = Kept(reason)]
  ELSE [w EXCEPT !.running = FALSE, !.armed = @ \/ w.pending # None \/ w.scheduled]

(* A mutant: the flag is not reset before a retry.                         *)
RetryFaulty ==
  /\ run' = Idle
  /\ wake' = [wake EXCEPT !.armed = TRUE, !.pending = run.reason]
  /\ excused' = excused \cup Overwritten(wake.pending, Kept(run.reason))

Retry ==
  /\ run' = Idle
  /\ wake' = Settled(wake, TRUE, run.reason)
  /\ excused' = excused \cup Overwritten(wake.pending, Kept(run.reason))

RunMap == IF run.detached THEN run.map ELSE agents

(* The agent is not due by its interval.                                   *)
PassOver(a) ==
  /\ run.on /\ run.cur = None /\ a \in run.todo
  /\ run.reason = "interval" /\ run.at < RunMap[a].due
  /\ run' = [run EXCEPT !.todo = @ \ {a}]
  /\ UNCHANGED <<now, wake, life, agents, timer, enabled, busy, troubles, direct, event, excused, muted, begun>>

(* A mutant: only a heartbeat that was carried out counts.                 *)
LearnedFaulty(a, result) ==
  IF run.detached \/ result # "ran" THEN agents
  ELSE [agents EXCEPT ![a].last = run.at, ![a].due = run.at + agents[a].every]

(* What the runner learns from the result of runOnce.                      *)
Learned(a, result) ==
  IF run.detached \/ result = "disabled" THEN agents
  ELSE [agents EXCEPT ![a].last = run.at, ![a].due = run.at + agents[a].every]

Turn(a) ==
  /\ run.on /\ run.cur = None /\ a \in run.todo
  /\ ~ (run.reason = "interval" /\ run.at < RunMap[a].due)

(* runHeartbeatOnce, refused before its first await: disabled, the agent   *)
(* not in the config any more, or the main lane has requests, which ends   *)
(* the whole run.                                                          *)
RefuseAgent(a) ==
  /\ Turn(a)
  /\ \/ /\ ~ enabled \/ a \notin Present(agents)
        /\ run' = [run EXCEPT !.todo = @ \ {a}]
        /\ excused' = excused \cup GivenUp(a)
        /\ UNCHANGED wake
     \/ /\ enabled /\ busy
        /\ Retry
  /\ UNCHANGED <<now, life, agents, timer, enabled, busy, troubles, direct, event, muted, begun>>

(* runHeartbeatOnce goes on, up to the read of HEARTBEAT.md.               *)
AskAgent(a) ==
  /\ Turn(a) /\ enabled /\ ~ busy
  /\ run' = [run EXCEPT !.cur = a]
  /\ begun' = IF run.detached THEN begun ELSE [begun EXCEPT ![a] = run.at]
  /\ UNCHANGED <<now, wake, life, agents, timer, enabled, busy, troubles, direct, event, excused, muted>>

Told(a) == [e \in Events |-> IF e \in EventsOf(a) THEN "told" ELSE event[e]]

(* The reply takes the events of the session into its prompt, unless an    *)
(* empty HEARTBEAT.md makes the heartbeat needless.                        *)
Tell(a) ==
  /\ run.cur = a /\ ~ run.asked
  /\ a \in EmptyFile => run.reason \in Telling
  /\ run' = [run EXCEPT !.asked = TRUE]
  /\ event' = Told(a)
  /\ UNCHANGED <<now, wake, life, agents, timer, enabled, busy, troubles, direct, excused, muted, begun>>

(* The heartbeat ran, or it failed or was skipped: before its prompt (an   *)
(* empty file, quiet hours, no alerts wanted) the events stay queued.      *)
AgentAnswers(result) ==
  /\ run.cur # None /\ (result = "ran" => run.asked)
  /\ agents' = Learned(run.cur, result)
  /\ run' = [run EXCEPT !.todo = @ \ {run.cur}, !.cur = None, !.asked = FALSE]
  /\ excused' = IF run.asked THEN excused ELSE excused \cup GivenUp(run.cur)
  /\ UNCHANGED <<now, wake, life, timer, enabled, busy, troubles, direct, event, muted, begun>>

(* The session store cannot be read, say, before there is a prompt.        *)
AgentThrows ==
  /\ run.cur # None /\ ~ run.asked /\ Trouble
  /\ begun' = [begun EXCEPT ![run.cur] = Never]
  /\ Retry
  /\ UNCHANGED <<now, life, agents, timer, enabled, busy, direct, event, muted>>

(* A mutant: the interval timer is set only after a run by the interval.   *)
RunEndsFaulty ==
  /\ run.on /\ run.todo = {}
  /\ run' = Idle
  /\ wake' = Settled(wake, FALSE, None)
  /\ IF run.reason = "interval" THEN ScheduleNext(agents) ELSE UNCHANGED <<timer, muted>>
  /\ UNCHANGED <<now, life, agents, enabled, busy, troubles, direct, event, excused, begun>>

RunEnds ==
  /\ run.on /\ run.todo = {}
  /\ run' = Idle
  /\ wake' = Settled(wake, FALSE, None)
  /\ ScheduleNext(agents)
  /\ UNCHANGED <<now, life, agents, enabled, busy, troubles, direct, event, excused, begun>>

-----------------------------------------------------------------------------
(* Cron's own heartbeat (executeJobCore): of the default agent, whichever  *)
(* agent the event is for, and with the reason cron.                       *)

CronWakesNow(e) ==
  /\ direct = NoDirect /\ event[e] = "new" /\ life = "on"
  /\ direct' = [event |-> e, stage |-> "waiting", agent |-> None]
  /\ event' = [event EXCEPT ![e] = "queued"]
  /\ UNCHANGED <<now, wake, life, agents, timer, run, enabled, busy, troubles, excused, muted, begun>>

(* The job is done.  If its event still waits, no one is coming for it but *)
(* a request that is pending.                                              *)
DirectDone ==
  /\ direct' = NoDirect
  /\ excused' = excused \cup ({direct.event} \cap GivenUp(AgentOf[direct.event]))

DirectRefused ==
  /\ direct.stage = "waiting"
  /\ ~ enabled \/ \E a \in Defaults : a \notin Present(agents)
  /\ DirectDone
  /\ UNCHANGED <<now, wake, life, agents, timer, run, enabled, busy, troubles, event, muted, begun>>

(* It tries again while the main lane has requests, for two minutes; then  *)
(* it requests a heartbeat after all.                                      *)
DirectGivesWay ==
  /\ direct.stage = "waiting" /\ enabled /\ busy
  /\ direct' = NoDirect
  /\ wake' = Requested(wake, "cron")
  /\ excused' = IF AgentOf[direct.event] \in Present(agents) THEN excused
                ELSE excused \cup ({direct.event} \cap Queued)
  /\ UNCHANGED <<now, life, agents, timer, run, enabled, busy, troubles, event, muted, begun>>

DirectBegins(a) ==
  /\ direct.stage = "waiting" /\ enabled /\ ~ busy /\ a \in Present(agents)
  /\ direct' = [direct EXCEPT !.stage = "begun", !.agent = a]
  /\ UNCHANGED <<now, wake, life, agents, timer, run, enabled, busy, troubles, event, excused, muted, begun>>

DirectTells ==
  /\ direct.stage = "begun"
  /\ direct' = [direct EXCEPT !.stage = "asked"]
  /\ event' = Told(direct.agent)
  /\ UNCHANGED <<now, wake, life, agents, timer, run, enabled, busy, troubles, excused, muted, begun>>

(* It ran, or it was skipped, failed or threw before its prompt or after.  *)
DirectEnds ==
  /\ direct.stage \in {"begun", "asked"}
  /\ DirectDone
  /\ UNCHANGED <<now, wake, life, agents, timer, run, enabled, busy, troubles, event, muted, begun>>

DirectStep ==
  \/ DirectRefused \/ DirectGivesWay \/ DirectTells \/ DirectEnds
  \/ \E a \in Defaults : DirectBegins(a)

-----------------------------------------------------------------------------
SetHeartbeats ==
  /\ Trouble
  /\ enabled' = ~ enabled
  /\ UNCHANGED <<now, wake, life, agents, timer, run, busy, direct, event, excused, muted, begun>>

Load ==
  /\ ~ busy /\ Trouble
  /\ busy' = TRUE
  /\ UNCHANGED <<now, wake, life, agents, timer, run, enabled, direct, event, excused, muted, begun>>

Unload ==
  /\ busy /\ busy' = FALSE
  /\ UNCHANGED <<now, wake, life, agents, timer, run, enabled, troubles, direct, event, excused, muted, begun>>

Advance ==
  /\ now < MaxTime
  /\ now' = now + 1
  /\ UNCHANGED <<wake, life, agents, timer, run, enabled, busy, troubles, direct, event, excused, muted, begun>>

RunStep ==
  \/ \E a \in Agents : PassOver(a) \/ RefuseAgent(a) \/ AskAgent(a) \/ Tell(a)
  \/ \E result \in {"ran", "failed", "skipped"} : AgentAnswers(result)
  \/ RunEnds

Next ==
  \/ \E e \in Events : CronWakesNow(e) \/ \E reason \in Notices : Notify(e, reason)
  \/ IntervalFires \/ WakeFires \/ RunStep \/ AgentThrows \/ DirectStep
  \/ \E cfg \in Configs : StartRunner(cfg) \/ UpdateConfig(cfg)
  \/ StopRunner \/ SetHeartbeats \/ Load \/ Unload \/ Advance

(* Timers fire, the run goes on, and the main lane is idle now and then.   *)
Fairness ==
  /\ WF_vars(IntervalFires) /\ SF_vars(WakeFires) /\ WF_vars(RunStep) /\ WF_vars(DirectStep)
  /\ WF_vars(Unload)
  /\ WF_vars(\E cfg \in Configs : StartRunner(cfg))

Spec == Init /\ [][Next]_vars
FairSpec == Spec /\ Fairness
-----------------------------------------------------------------------------
Instants == Nat
AgentState == [every : Nat, last : Nat, due : Nat]

(* The values of the variables; the flag of heartbeat-wake.ts says whether *)
(* a run is in progress.                                                   *)
TypeOK ==
  /\ now \in Time
  /\ wake \in [armed : BOOLEAN, pending : Reasons \cup {None}, scheduled : BOOLEAN,
               running : BOOLEAN]
  /\ life \in {"new", "on", "stopped"}
  /\ agents \in [Agents -> AgentState] /\ timer \in Nat
  /\ run \in [on : BOOLEAN, reason : Reasons \cup {None}, at : Time, todo : SUBSET Agents,
              cur : Agents \cup {None}, asked : BOOLEAN, detached : BOOLEAN, map : [Agents -> AgentState]]
  /\ enabled \in BOOLEAN /\ busy \in BOOLEAN
  /\ troubles \in 0..MaxTroubles
  /\ direct \in [event : Events \cup {None}, stage : {"none", "waiting", "begun", "asked"},
                 agent : Agents \cup {None}]
  /\ event \in [Events -> {"new", "queued", "told", "elsewhere"}] /\ excused \subseteq Events
  /\ muted \in BOOLEAN /\ begun \in [Agents -> Nat]
  /\ wake.running <=> run.on
  /\ run.cur # None => run.on /\ run.cur \in run.todo

(* No lost wake-up.  A pending request has its timer, or a run that will   *)
(* look at it; and while nothing runs or is requested, the interval timer  *)
(* is set for the agent that is due first, unless a wake fell into a time  *)
(* of disabled heartbeats: after that nothing sets it again but a config   *)
(* reload or another request.                                              *)
Covered ==
  life = "on" =>
    /\ wake.pending # None => wake.armed \/ wake.running
    /\ ~ wake.armed /\ ~ wake.running /\ ~ muted => timer = Earliest(agents)

(* By its interval the runner asks an agent at most once per interval,     *)
(* whatever else made it run, how runs overlapped config reloads or ended; *)
(* only a run that threw, or went on while the config was replaced, is     *)
(* forgotten.  The heartbeats cron runs by itself are not the runner's:    *)
(* they neither count nor wait.                                            *)
Spaced ==
  [][\A a \in Agents :
       run.cur # a /\ run'.cur = a /\ run.reason = "interval" /\ begun[a] # Never =>
         run.at >= begun[a] + RunMap[a].every]_vars

(* An event queued for the session of an agent's heartbeat is told, unless *)
(* the code left it to a later heartbeat or message: its agent has no      *)
(* heartbeat, or heartbeats are disabled; HEARTBEAT.md is empty and the    *)
(* request was of a kind that heeds this (exec:<id>:exit, a hook, wake);   *)
(* the reason of the request was replaced by one that need not give the    *)
(* agent its prompt (an interval, say, or what a run in progress was for); *)
(* the heartbeat was skipped or failed before its prompt; cron ran a       *)
(* heartbeat of the default agent for the event of another one, or one     *)
(* that was skipped or failed, and reported the job as done.  A heartbeat  *)
(* that throws is tried again, with the events still queued.               *)
EventsTold ==
  \A e \in Events :
    event[e] = "queued" ~> event[e] = "told" \/ e \in excused \/ life = "stopped"

=============================================================================
