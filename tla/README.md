# TLA+ models of webbot

webbot is a personal agent gateway: one Node process that receives messages
from chat channels, runs an LLM agent per conversation ("session"), delivers
the replies, runs scheduled jobs and serves clients and device nodes over
WebSockets. A small second process, the sidecar, bridges it to a product
backend. The interesting state is in memory, shared by callbacks of one event
loop; code between two `await`s is atomic, everything else interleaves.

This directory holds TLA+ models of the parts whose correctness depends on
such interleavings, TLC configurations, and TLAPS proofs. `PROJECT.json` maps
every definition to the lines it models and lists the hazards of the code.

## 1. Inventory

| part (source under `src/src`) | state | operations | hard behaviour |
|---|---|---|---|
| command lanes (`process/command-queue.ts`, use in `agents/pi-embedded-runner/run.ts`) | per lane: queue, `active`, `maxConcurrent`, `draining` | enqueue, pump, completion, set concurrency, clear | two nested levels of lanes; limits change while tasks run; clearing drops promises |
| follow-up queue (`auto-reply/reply/queue/*`, `utils/queue-helpers.ts`, callers `get-reply-run.ts`, `agent-runner.ts`, `followup-runner.ts`) | `FOLLOWUP_QUEUES`: per key items, settings, drop count and summary, `draining` | look, steer, enqueue with dedupe and drop policy, drain loop, clear | decisions taken from a state read before an await; a loop that outlives its queue; settings that change while items wait |
| active runs (`agents/pi-embedded-runner/runs.ts`) | session id → handle | set, clear, is active, abort, queue message | keyed otherwise than the lanes |
| cron service (`cron/service/*`, `cron/schedule.ts`) | jobs in memory and in a file, timer, `running` flag, lock chain | start, stop, tick, run, add, update, remove, list, status | executions outside of the lock against operations inside it; crash between mark and result; service replaced on reload; time arithmetic |
| subagent announce queue (`agents/subagent-announce-queue.ts`, `subagent-announce.ts`, `gateway/call.ts`) | `ANNOUNCE_QUEUES`: per key items, settings, drop count and summary, `draining` | steer, queue or call, enqueue with drop policy, drain loop, gateway call with timeout | takes off before it sends; breaks with work left; a call that gives up on a run that goes on |
| subagent registry (`agents/subagent-registry.ts`) | run records, saved to disk | register, complete, announce, retry, sweep, restore | crash between a saved flag and the deed; three sources ask for one announcement; a session deleted under a run |
| node registry (`gateway/node-registry.ts`) | sessions by id and by connection, pending invokes | register, unregister, invoke, result, timeout | a node reconnects before its old connection is closed; late results; two timeouts for one command |
| exec approvals (`agents/bash-tools.exec.ts`, `gateway/exec-approval-manager.ts`, `infra/exec-approvals.ts`, `gateway/server-methods/exec-approval*.ts`) | policy and allowlist in a file, pending entries with timers | begin, ask, resolve, expire, fall back, grant, run, invoke, edit the file | timer against answer, a call that fails while its request goes on, copies of the file that are minutes old |
| heartbeat (`infra/heartbeat-wake.ts`, `infra/heartbeat-runner.ts`) | handler, reason, timer, `running`, `scheduled`; per agent interval, last run, due time; interval timer | request, fire, run over the agents, retry, reload, disable | coalescing, retry and interval share one timer and one reason; a reload during a run; cron's own heartbeat beside the runner |
| session write lock, session store lock (`agents/session-write-lock.ts`, `config/sessions/store.ts`) | lock files, in-process counts | acquire, release, evict | several processes, stale locks, crash |
| gateway chat runs (`gateway/server-chat.ts`, `chat-abort.ts`, `server-methods/agent-job.ts`) | runs per client, abort controllers, waiters | start, event, abort, wait | events after abort, waiters after the end |
| system events, dedupe (`infra/system-events.ts`, `infra/dedupe.ts`) | capped queue, TTL cache | push, drain, check | limits |
| sidecar (`src/sidecar/src`) | run tracker, session map, gateway connection with pending requests | post a run, event, stream, reconnect | events are addressed to sessions, not to runs; requests before connect; a connection lost with requests in flight; a run that fails after it was accepted |
| agent runner, reply pipeline, memory, browser, channels, config, plugins, UI, CLI | mostly none of their own, or that of external systems | | I/O and data transformation |

How they interact. A channel calls `getReply`, which reads the session's
active flag and the queue settings, then either steers the text into the run
that streams, queues it in the *follow-up queue*, or starts a run. Every run
goes through a session *lane* and, inside it, a global lane. When a reply is
finalized, the queue's drain loop starts follow-up runs through the same
lanes. `/stop` and a session reset clear the queue and the lane. The *cron
service* executes jobs either by queueing a system event and waking the
*heartbeat* or running one by itself, or by an isolated agent run in the `cron` lane. Subagents are runs
in the `subagent` lane whose results come back through the *announce queue*.
A config reload sets lane limits, replaces the cron service and the heartbeat's
agents. Commands of an agent ask the *approval manager* and run here or through the
*node registry*; their end is a system event that wakes the heartbeat. The
*sidecar* is a client of the gateway: its requests become runs, and the events of
these runs come back by session.

What makes each part correct:

- lanes: runs of a session never overlap and keep their order, no slot leaks,
  no wake-up is lost, limits are respected when they change, what is submitted
  is settled;
- follow-up queue: no message waits twice, none is forgotten, drops are
  counted and told, one prompt has one reply target, somebody attends a queue
  with work;
- cron: no job overlaps itself, no occurrence is lost or repeated, a crash
  neither blocks a job nor loses what a client was told, the timer is armed
  whenever a job is to come;
- announce queue: what was queued is told once, by itself or in a summary, whatever
  calls fail; one prompt has one origin;
- subagent registry: every run's end is announced, once, with its whole
  output, which is not deleted before; a crash loses nothing of that;
- sidecar: every client of a run is sent the same stream, a run has its own
  events and no others, a request is answered whatever becomes of the connection,
  a stream ends;
- heartbeat: a requested wake is never lost, the interval timer covers the agent
  due first, agents run at most once an interval, queued events are told;
- commands: nothing runs without consent of the operator or the policy, what was
  denied by them never runs, every command ends, what was granted stays granted;
- locks: one owner, also over crashes.

## 2. Modules

| module | models | checked by |
|---|---|---|
| `RunSerializer` | the abstract promise of the lanes: per session one run at a time, in order | refinement target |
| `CommandLanes` | the lanes as `runEmbeddedPiAgent` nests them | `announce`, as part of `AnnounceQueue` |
| `ListProofs` | lemmas on sequences that list a set once each | TLAPS |
| `QueueHelpers` | `utils/queue-helpers.ts`: drop policy, summary, mixed channels | through the two queues |
| `AnnounceQueue` | the announce queues and their gateway calls, on top of `CommandLanes` | `announce` |
| `AnnounceQueueProofs` | proofs about `CommandLanes`, that it implements `RunSerializer`, and about `AnnounceQueue` | TLAPS |
| `FollowupQueue` | one session key's queue, its drain loops, the messages | `followup`, `followup_stop` |
| `FollowupQueueProofs` | proofs about `FollowupQueue`, and that its lane implements `RunSerializer` | TLAPS |
| `CronService` | the scheduler, its store, its replacement and crashes | `cron_*` |
| `CronServiceProofs` | proofs about `CronService` | TLAPS |
| `SubagentRegistry` | spawned runs, their announcements, the sweeper, crash and restart | `subagents`, `subagent_retry` |
| `SubagentRegistryProofs` | proofs about `SubagentRegistry` | TLAPS |
| `Sidecar` | runs, event streams and the gateway connection of the sidecar | `sidecar` |
| `SidecarProofs` | proofs about `Sidecar` | TLAPS |
| `Heartbeat` | the wake timer and the heartbeat runner | `heartbeat` |
| `HeartbeatProofs` | proofs about `Heartbeat` | TLAPS |
| `NodeRegistry` | connections of nodes and pending invocations | through `ExecApprovals` |
| `ExecApprovals` | commands with their approvals, on top of `NodeRegistry` | `exec`, `exec_grants` |
| `ExecApprovalsProofs` | proofs about `ExecApprovals` and `NodeRegistry` | TLAPS |
| `MC...` | instances for TLC | |

Operators named `...Faulty` are plausible mistakes put beside the definition
they would replace. No specification uses them; they serve to see that each
property notices a mistake of that kind.

### CommandLanes

State: `queue`, `active`, `maxConcurrent` are the fields of `LaneState`;
`stage` says for each run which of the two slots it waits for or holds. The
actions are `Submit` (enqueue in the session lane; its pump may begin the task,
which enqueues in the global lane, all in one step), `Finish` and `Settle` (the
completion of the global and of the session task, each with the pump it
calls), `SetConcurrency` and `ClearLane`. `draining` is false between steps
because a pump runs to its end synchronously, so it is no variable.

`Spec` implements `RunSerializer!Spec`, with the line of a session defined as
the run admitted to the global lane followed by the session lane's queue. The
abstract `Cut` may leave the first in line: a run that already waits in the
global lane is beyond the reach of `clearCommandLane` for the session lane.

### QueueHelpers and AnnounceQueue

`QueueHelpers` has the operators on a queue record that both queues share: `Overflow`
and `DropOldest` (`applyQueueDropPolicy`), `CanSummarize` and `Summarized`
(`buildQueueSummaryPrompt`), `CrossChannel` (`hasCrossChannelItems`).

`AnnounceQueue` extends `CommandLanes`: announcements are some of the `Runs`, namely
those of the gateway calls "agent" that tell them; the others have other callers.
`announces` is `ANNOUNCE_QUEUES`, whose entries are records rather than objects, since
nothing takes an entry away from a loop. `Steer`, `Direct` and `Enqueue` are the
outcomes of `maybeQueueSubagentAnnounce`, which does not await between the look at the
active run and the deed. `Wake` is one pass of the drain loop from the end of the
debounce to its next await: `SendFirst`, `SendAll`, `SendSummary`, or a break.
`Send` makes the `call`; `Accept` is the gateway's handler, which submits the run to
the lanes; `Returns` and `Throws` end the loop's await, `Throws` at any time, as the
call has a timeout and a connection. The steps of the lanes are those of `CommandLanes`,
unchanged. `fate` records what became of an announcement.

A loop that can only break with work left (the drop policy left summarize, something is
counted, no item is there) is restarted by its finally block and finds the same, with
nothing but microtasks in between: `Spin`. Nothing else of the process runs then
(`Frozen`). `FollowupQueue` has the same.

### FollowupQueue

Queues are numbered objects, `current` is the one in the map: the drain loop
keeps its object while the map entry may be deleted or replaced. A message
moves through `pc`: `Look` (settings and active flag are read), then after the
await `Steer`, `Direct` or `Enqueue`. The session lane is a FIFO `lane` with
one slot; what waits in it, holds it or is past it is a message's own reply run
or the run of a drain loop. `Register` and `Unregister` are the calls on
`ACTIVE_EMBEDDED_RUNS`, `Finalize` is `finalizeWithFollowup`, `Wake` is one pass
of the loop from the end of the debounce to its next await, with the branches
for collecting, forced single delivery, summary and single items; `Resume` and
`FollowupThrows` end the await; `Stop` is `clearSessionQueues`. `home` and the
second group of `pc` values only record what became of queued messages.

A debounce is an arbitrary wait, which includes every `debounceMs` and every
later message that prolongs it.

### CronService

A section under the store lock is one step, unless it executes a job: then
the lock is `held` from `Start` or `Run` to the last `HeldEnds`. A tick is
`Fire`, `Mark` (reload, mark the due jobs, save), `Begin` and `End` for each
job without the lock, `Apply` (reload, apply results by id, save), `TickEnds`
(arm the timer). `mem` and `file` differ exactly where the code lets them.
`life` follows the services that config reloads create one after the other:
`Stop` clears the timer only, the tick goes on. `Crash` keeps the file.
Time is counted in fractions of a second, so that the flooring of cron
expressions to seconds, interval anchors, backoff and the stuck-run limit are
real arithmetic. `begun`, `unmarked` and `refused` are history for the properties.

### SubagentRegistry

`runs` is the map in memory, `file` is `runs.json`; an entry keeps `endedAt`,
`cleanupHandled` and `cleanupCompletedAt` as flags. `Spawn` is the gateway's
acceptance of the child's run, `Register` the call of `registerSubagentRun` after
it: events in between find no entry. `LifecycleEnd`, `WaitReturns` and `Restart`
each note the end and may take the entry for an announce flow (`MayBegin`).
A flow is a record that goes through its awaits: `settle` (the child is active),
`read` (its last reply), `send` (the requester is steered, queued for or
called), `closing` (the session is deleted), `final` (`finalizeSubagentCleanup`).
`FlowThrows` is its catch block. `SweepDeletes`, `SweepResumes` and `SweepEnds`
are a sweep between its awaits. `child` is the embedded run itself: it waits in
a lane, is active, emits its end before or after it is unregistered
(`ChildUnregistered`, which ends the settling of a flow at once) and may be
registered again for another attempt (`NextAttempt`: the loop of
`runEmbeddedPiAgent` registers and clears the run once per attempt). `told`,
`doubted` and the value `earlier` of a flow's `saw` are history.

### Sidecar

`runs` and `active` are the tracker's two maps. `post` is where the handler of a
POST is: `patch` and `agent` await a response of the gateway; a response settles
the promise in one step (`HandleMessage`) and the handler goes on in another
(`Create`, `Accepted`, `Refused`), as other frames may be handled in between.
`HandleEvent` gives an event to the run its session has as active and `PushEvent`
is the tracker's: history, status, all streams, the end of them. `Watch` and
`Leave` are the event streams' clients. `conn` follows the WebSocket from `open`
over `up` (connect was sent) to `closed`; `Lose` is the close handler, which
rejects all pending requests.

Of the gateway the module has what it tells the sidecar. It closes a connection
whose first request is not connect (`GatewayRejects`) and accepts or refuses requests
(`GatewayReceives`, the `agent` handler). The command of an accepted run may throw before
its first event (`CommandThrows`: `agentCommand` has a long way to its first try block);
otherwise its events are those of a run that has its turn in the lane of its
session (`Turn`), or an end or error that `agentCommand` emits when there was none (`Emit`).
When the command is over the handler responds once more on the same connection
(`RespondAgain`, `owed`), and `HandleResponse` drops what finds no request pending.
`disturbed` and `failed` are history: the runs that overlapped with another of their
session, or with a loss of the connection, which the code lets lose or exchange events;
and those whose command threw, of which no event ever comes.

### Heartbeat

`wake` holds the four variables of heartbeat-wake.ts, `agents` and `timer` those of
the runner, `run` the call of its handler between awaits. `Requested` is
`requestHeartbeatNow`, `WakeFires` the timer's callback up to its await, `Settled`
what follows it, with the retry and the finally block. The runner goes over its
agents with `PassOver` (not due by interval), `RefuseAgent` (disabled, main lane
busy), `AskAgent` (up to its first await), `Tell` (the reply takes the queued events
into its prompt), `AgentAnswers` or, before there is a prompt, `AgentThrows`, then
`RunEnds`. A reload (`UpdateConfig`) replaces the agents under a run (`detached`). The
clock counts units of the shortest interval; the wake timer's delays are an arbitrary wait.

`event` follows system events that come with a request (`Notify`) until a prompt tells
them. The request is of a kind that always tells (`Telling`: exec-event, cron) or of one
that heeds an empty HEARTBEAT.md (`exit`, which stands for `exec:<id>:exit`, hooks and
wake); the event is queued for the session in which the agent's heartbeat speaks, or
`elsewhere` (the session a command names, `node-<id>`), where no heartbeat looks at it.
A cron job that wakes the agent now calls `runHeartbeatOnce` by itself, for
the default agent (`Defaults`) whichever agent the event is for: `direct` follows it from
`CronWakesNow` over `DirectRefused`, `DirectGivesWay` (the main lane is busy for two
minutes: a request after all), `DirectBegins` and `DirectTells` to `DirectEnds`.
`excused`, `muted` and `begun` are history: `excused` has the queued events that a
named step left to a later heartbeat (`GivenUp`, `Overwritten`).

### NodeRegistry and ExecApprovals

`NodeRegistry` has `byId` (`nodesById`) and `phase` (what became of each invocation),
its connections go from `new` over `open` and `broken` (unnoticed by the gateway) to
`closed`; `Unregister` deletes the node by id whichever connection registered it
last, as the code does. The node is external: `job` is what it does.

`ExecApprovals` extends it with commands. A command `seen`s the file once, when it
begins, as `resolveExecApprovals` returns a copy, and goes through `stage`; `approval`
and `decision` are the manager's entry and what settled it. `Verdict` is the chain of
conditions after the decision, `Granted` and `SaveUses` what is written back, from the
copy. `GetApprovals` and `SetApprovals` are the operator's client with its base hash
(`stamp`, `view`). `AskFails` and `InvokeFails` are calls that fail or time out on the
caller's side only: the entry in the manager, the invocation in the registry and the
command on the node go on. `outcome` keeps apart what the agent is told: `refused` by the
policy, `denied` (by the decision, for want of one, because the request for it failed or
the process could not be started), `invoke-failed` ("Exec denied (.., invoke-failed)", of a
command that was asked for and whose call to the node threw: `InvokeError`), `failed` (the
error of a call that needed no approval) and `finished`.

## 3. Runs

| run | result | shows |
|---|---|---|
| `announce` | holds | the lanes: `SessionExclusion`, `SlotAccounting`, `WorkConserving`, `StartsWithinLimit`, refinement of the serializer; the announcements: `AnnounceAccounting`; both: `AllServed` |
| `followup` | holds | `QueuedOnce`, `DropAccounting`, `CollectRoutes`, `HandoverComplete`, `DrainServes` |
| `followup_stop` | violated | `NoOrphans`: after /stop the old loop deletes the new queue |
| `cron_schedule` | holds | `NoOverlap`, `MarkerJustified`, `TimerCovers`, `Durable`, `OneShotOnce` |
| `cron_reload` | holds | `DueServed` over refused patches and replacement of the service |
| `cron_skips` | violated | `DueNotAdvanced`: a recompute skips a due occurrence |
| `subagents` | holds | `OneFlow`, `ToldOnce`, `WholeOutput`, `OutputKept`, `Durable`, `SweeperRuns`, `Reported` |
| `subagent_retry` | violated | `RetryKeepsOutput`: a failed announcement deletes the session its retry would read |
| `sidecar` | holds | `StreamsAgree`, `OwnEvents`, `NothingHangs` |
| `heartbeat` | holds | `Covered`, `Spaced`, `EventsTold` |
| `exec` | holds | `Consented`, `Ends`, with the registry's promises in `TypeOK` |
| `exec_grants` | violated | `EditsKept`: a command saves an old copy of the allowlist over a newer one |

The violated ones are disagreements between the code and its tests, comments or
messages; `PROJECT.json` quotes them. For each, the smallest instance that
shows it is used.

What the code does, and the properties therefore exempt by name:

- a message may be queued after the reply it should follow was finalized, as the
  active flag was read before an await; it then waits for the session's next
  message (`HandoverComplete`: a queue loses its attendant only because of a late
  enqueue or a reply that throws or is cleared);
- a queue whose drop policy leaves summarize with drops counted loops for ever: in
  collect mode over empty batches, in the other modes with microtasks only, which
  freezes the process (`DrainServes` speaks of queues that keep the policy, `AllServed`
  excepts `Frozen`);
- a call that is lost takes the announcements it carries with it, as the queue has let
  go of them; a summary is sent in the place of an item, whose own text is not told; a
  summary that is built when no item is left is told by nobody; an announcement refused
  by the policy "new" counts as queued for its flow (`AllServed` speaks of the others);
- a cron job that ends within the second of its occurrence runs again, and with a
  replaced service the old tick and the new service may run a job side by side
  (`NoOverlap` is checked of one service, and exempts jobs disabled while they run,
  whose marker `update` clears deliberately);
- a patch that is refused was already written into the job: if it enabled the job, a
  later `list` or `status` computes its next run and saves it but arms no timer, and
  the job comes due with nothing to serve it until some other operation arms the
  timer (`refused`: `DueServed` says nothing of such a job until a patch of it is
  accepted or a service starts);
- the wait for a child to settle ends with an attempt of it, and looks at nothing
  again unless the reply is empty: a flow that goes on after it, or that began
  between two attempts or before the first, tells what there is so far while the
  next attempt runs (`WholeOutput` speaks of the attempt that the flow found active
  only, although the comment in subagent-announce.ts promises no partial output);
- of two runs of one conversation that overlap in the sidecar, one may get the
  other's events, or none (`disturbed`);
- a run may fail between its acceptance and its first event (`agentCommand` throws before
  commands/agent.ts:378): the gateway says so in a second response alone
  (server-methods/agent.ts:423), the sidecar's client drops a response it does not
  await (client.ts:156), and the stream of the run never ends (`failed`);
- a wake that falls into a time of disabled heartbeats leaves the interval timer
  unset (`muted`), and an interval, a retry or a newer request of another kind replaces a
  reason that tells events (`excused`);
- the end of a command in the background is announced with the reason `exec:<id>:exit`
  (bash-tools.exec.ts:395), which does not count as one that tells (heartbeat-runner.ts:432):
  with an empty HEARTBEAT.md that heartbeat is skipped, and the event waits
  for a later heartbeat or message (`excused`);
- an event that is queued for the session a command names, or for `node-<id>`
  (server-node-events.ts:208), is told by a message in that session or by nobody, as a
  heartbeat looks at the agent's session only (`elsewhere`: `EventsTold` does not
  speak of it);
- the heartbeats that cron runs by itself (timer.ts:415) neither count nor wait for an
  interval (`Spaced` speaks of the runner's), are of the default agent even if the event
  is another's, and end the job also when they were skipped or failed (`excused`);
- a node that reconnects before its old connection is closed becomes unreachable and
  its invocations are rejected while it carries them out; the registry's own timeout
  of 30 seconds, which commands do not set, does the same. Of a command that was asked
  for, the agent is then told "Exec denied (.., invoke-failed)" (bash-tools.exec.ts:1213),
  although it was approved and may be running: `Consented` says of this outcome only that
  it had the consent, and keeps "has not run and never will" for the other denials.

Bounds, and why they suffice:

- `announce`: four runs of one session, three of them announcements, and one of another
  session in one global lane: one holds the session, others wait, are cleared or
  are overtaken, and the other session competes for a slot. Limits 0 and 2 cover the
  lower bound of the argument, lowering below the tasks in flight and raising with
  entries waiting. Three announcements are the least that fill a queue of cap 2 or
  overflow one of cap 1 while a loop has one in flight; each brings the settings that a
  directive or a config change may mix in: the second drops the first, the third comes
  from another channel, with the policy kept, left for "old", or "new". No state
  constraint is needed.
- `followup`: four messages, one of them a redelivery, fill a queue of cap 2 beyond
  its limit while a reply runs; two queue objects (`MaxQueues`) are what one `/stop`
  leaves. The settings contain every mode (`steer-backlog` behaves as `followup` for
  queueing and `queue` as `interrupt` without its clearing) and every drop
  policy.
- `cron_schedule`: two jobs are the least for a tick with several results; the
  clock has three instants from creation on, half a second apart, in which a job of interval 1
  or a cron expression recurs, a backoff of 2 elapses and the one-shot passes its
  time. One crash (`MaxCrashes`) at any step. Patches disable and reschedule.
  `StuckRun` is never reached by the clock: `NoOverlap` holds only as long as the jobs of
  one tick end within `STUCK_RUN_MS` (two hours; a job has ten minutes by default)
  together. Past it, `recomputeNextRuns` (jobs.ts:113) takes the marker of a job that
  still waits in the tick for that of a dead run and clears it, and `cron.run` then executes the job
  beside the tick.
- `cron_reload`: two services are one replacement. Executions are skipped ones: these
  disable a one-shot without deleting it, so that a refused patch may enable it again,
  and leave a recurring job its natural next run; an error differs by a later next
  run only, which `cron_schedule` covers. Error counts are kept up to
  the length of the backoff schedule, beyond which the code's delay is constant.
- `subagents`: entries do not share anything but the file, the sweeper and the
  sweep, for which two runs are enough; one has everything that can go wrong
  (its calls fail, it is archived), the other nothing, so that the properties
  which exempt such runs still speak of one; the child of the latter makes any number
  of attempts (`Retrying`). One crash at any step, also
  while the next process is about to start.
- `sidecar`: two runs of one conversation are the least that overlap; a client that
  leaves may come back to either, before or after its end. One delta between first
  and terminal event (`MaxDeltas`) of the one run, a second response (`Again`) to the
  other, as each multiplies what is on the wire and neither asks anything of the other;
  one loss of the connection by the network (`MaxCloses`), besides those the gateway
  forces. Either command may throw.
- `heartbeat`: two agents of intervals 1 and 2, one with an empty HEARTBEAT.md, are the
  least for a run that passes one over; two units of time let the shorter recur and the
  longer come due. One event, of the agent with the empty file, for which the kind of the
  request matters, with a request of any kind or from a cron job, whose default agent may
  be either (`Defaults`). Two of:
  reload, load, change of enabled, run that throws (`MaxTroubles`). A second config
  takes one agent's heartbeat away and changes the other's interval.
- `exec`: one command here and one on a node that has two connections; three policies
  contain every value of security, ask and fallback. One edit of the file
  (`MaxEdits`), which allows the executable, one call that fails (`MaxTroubles`). Commands
  share only the file and the node, connections only the node's entry.

Deadlock is checked in `cron_schedule` and `cron_reload`; the other systems stop when
every message, run or command has been dealt with, the bounded clock has run out, or
(in `announce` and `followup`) a loop has frozen the process.

Fairness: `AnnounceQueue` and `FollowupQueue` assume only that the event loop does
something while something can go on: a run ends (it has a timeout and abort), a
resolved promise resumes its awaiter, debounces and calls end. No new message,
announcement, failure of a reply, steering, clearing or reconfiguration is ever due. `CronService` assumes that timers
fire, that executions end, that the tick's loop goes on, and for the two lock
sections of the tick strong fairness, because `locked` is a promise chain, first
come, first served, while clients may take the lock again and again. No
client, crash or stop is assumed to happen. `SubagentRegistry` assumes that
`agent.wait` answers, at its timeout at the latest, and that the calls of a flow
end, for the same reason; neither events nor restarts are assumed. `Sidecar` assumes
that the client reconnects (it has a timer for it), that frames are handled and
handlers resumed, and of the gateway that it reads what it is sent and that a run it
accepted begins, ends (it times out) or throws (`GoesOn`: not that it emits an event);
nothing about second responses, clients or the network. `Heartbeat` assumes that
the two timers fire, that a run over the agents and a cron job's heartbeat go on and
that the main lane is idle at times; the wake timer fires under strong fairness because a callback that
finds a run in progress arms it again. `ExecApprovals` assumes that calls arrive, that
the manager's and the registry's timers fire and that processes end at their
timeout; no decision of an operator, no connection and no answer of a node.

## 4. Proofs

`AnnounceQueueProofs` has three parts. The first proves, for every finite set of runs and any sets of
session and global lanes: `TypeOK`, `SessionExclusion`, `SlotAccounting`,
`WorkConserving` as invariants and `StartsWithinLimit` as an action property.
Assumptions: `Runs` is finite, session and global lanes are disjoint, the routes
are functions into them, limits are natural numbers.

`SessionExclusion` is not inductive: that a second run does not get the slot
follows from the counter `active`, which only helps if it equals the number of
holders, which in turn is preserved only if a queue never lists a run twice or
one that does not wait. The inductive invariant `IInv` therefore joins types,
`LinedUp` (each queue lists exactly the waiting runs, once each) and `Counted`
(each counter is the number of holders, at most one for a session). All steps
are one or two pumps after a change of one run's stage, so the lemmas speak of
state records: a pump preserves the invariant, and so does each change
(`JoinedGood`, `GlobalReleasedGood`, `SessionReleasedGood`); the action proofs
combine them. `NoLostWakeup` strengthens with "busy": a lane with entries has no
free slot, which is what a pump establishes for its lane and keeps for the
others.

The second part proves the refinement: `Spec => ImplementsSerializer`
(`LanesSerialize`). The line of a session and the set of executing runs are defined on
state records (`LineIn`, `ExecutingIn`), so that a step is followed through its pumps.
A pump of a global lane begins the first in line of some idle sessions (`Advances`);
`PumpGlobalAdvances` shows it, and needs `OneHolder` (from `IInv`): a run that begins is
the only admitted one of its session, hence the first in line, and no other run of
the session executes. Giving a session slot to the next entry leaves all lines as they are
(`PromotedKeepsLines`), so `Settle` advances too or stutters. A submission must begin no
run but its own (`SubmitMaps`), which holds only because no lane slept on a free slot
before it: this is where `WorkConserving` is used.

The third part proves that the composition with the announce queue is a
behaviour of `CommandLanes` (`AnnouncementsUseLanes`), so that the theorems above hold
with it, and `AnnounceAccounting`, for any announcements, routes and settings. The
invariant `AInv` says of every queue that it is `Tidy`: its items list exactly the
announcements whose fate is queued, once each, and its count is the number of those
dropped and not told. `DropTidy`, `HeadTidy`, `SummarizedTidy` and `EmptiedTidy` say so
for the changes of a queue record, `SendKeeps` for a call with any part of them;
that calls do not share a text needs that what a call carries has left its queue
(`CallsTold`).

`FollowupQueueProofs` proves `TypeOK`, `QueuedOnce`, `DropAccounting` and
`CollectRoutes`, for any finite set of messages, any ids, routes and settings, and any
number of queue objects. Assumptions: settings have a known mode and drop policy and a
positive cap (the type of the queue settings), and messages are not numbers, as queue
objects are. `QueuedOnce` and `DropAccounting` say only what a queue holds; that a queue just made
holds nothing needs that no message is at home in one not yet made (`HomesMade`), and that a hand-over empties
exactly what it tells needs that items are listed once each. The invariant
`IInv` joins those (`QueuesGood`, again with `Tidy` for each queue record), the
line and the slot of the session lane (`LaneGood`), on which the typing of `lane` rests,
and the routes of each batch (`Collected`). Most actions change one part: `RestsKeepLane`,
`QueuesKept` and `QueueChanged` are the frame lemmas, `BreakIInv` and
`HandOverIInv` the two ways in which a pass of the loop ends, from which `WakeIInv` follows by its
branches.

On this invariant rest three theorems about steps and about the limits of the model's claims:

- `HandoversComplete` proves the action property `HandoverComplete`. The key's queue is
  `Tended` when it is empty, gone or has a loop: `scheduleFollowupDrain` and the finally
  block leave it so whatever was before (`ScheduledTends`, `EndedTends`), and every other step
  keeps a loop in place or a reply on its way, but for those the property names
  (`StepAttends`).
- `LaneSerializes` proves that the single line of this module is an implementation of
  `RunSerializer`, which the two levels of lanes implement in `CommandLanes`: in line are the
  run that has the slot and is not yet registered, and the lane behind it. It justifies that
  this module has one line where the code has two levels. A run that leaves hands
  the slot to the next without a change of the abstract line (`UnregisterMaps`); an
  interrupt or a stop cuts the line behind the run that has the slot (`CutMaps`).
- `UndisturbedNoOrphans` says how far the finding of `followup_stop` goes: without `/stop`
  and without settings of the mode interrupt, `NoOrphans` holds for all messages, settings and
  failures. Then only the key's queue has work or a loop, and no loop hangs (`Sole`), which
  every end of a loop preserves because the queue it deletes is its own. The two
  hypotheses (`Undisturbed`) are needed: a stop makes the loop and the queue in the map two different
  ones, an interrupt leaves a loop awaiting a run that was cleared from the lane.

`SubagentRegistryProofs` proves every safety invariant of `SubagentRegistry`, for
any set of runs, any `CleanupOf`, `Archived`, `Failing` and `Retrying`, and any number of
crashes. The core of it is `OneFlow`: `MayBegin` reads a flag of the entry, so one
needs that the entry of a run with a flow has that flag set, in memory and in the
file (`FlowsTook`), and that `Register`, which
resets it, meets no run that has an entry, a flow or a told requester
(`UnknownUntouched`), for which a process that is down has no live child
(`DownIsQuiet`). The others are inductive beside this `Core`, each with one
strengthening: `ToldOnce` with `ToldMarked` (who was told for sure has its flag set
and a flow that reports success), `WholeOutput` with `SawActive` (the child of a
flow that found it active has left its lane, so that the flow's wait ends with that attempt), `OutputKept` with `DeletesAfter` (who is about to delete has
told, failed or archives); `Durable` and `SweeperRuns` need none.

`ExecApprovalsProofs` proves `TypeOK` and `Consented` for any sets of nodes,
connections, commands and executables, any policies and any edits, under the typing of
the constants only. `Consented` speaks of what ran, here or on the node, and of what was
decided; between them lies a chain that has to be carried through all steps: what
runs on a node was begun because its request was sent, which was because
the call was made, which was because the verdict said so from a settled approval and
from what the command had seen (`Chain`). The registry's actions touch the last links
only, the manager's the first; `OwnChain` and `ChainKept` say so, and `VerdictConsents`
that a verdict other than denied is consent. What is refused or told denied has called
nothing, and so never runs; what is told invoke-failed has called, with a verdict that
was consent.

`HeartbeatProofs` proves `TypeOK`, `Covered` and `Spaced`, for any agents, configs,
events, default agents and states of the heartbeat files, under the typing of the constants
only. `Covered` is not inductive: a wake of a runner without agents clears the request and
schedules nothing, so one needs that such a runner has no timer that could be
left from before (`Watched`). `Spaced` compares a run with the one before it, which the
runner knows only by what it has learned: `Spacing` says that the last run of
an agent is either the run in progress or what the runner has as the agent's last and
due times, and that agents whom a run asks after their config was replaced are
forgotten. That the timer is set for the agent due first needs that a
set of times has an earliest (`EarliestExists`, from the well-foundedness of `<`).

`CronServiceProofs` proves every safety property of `cron_schedule`, for
any jobs, schedules, patches, outcomes and backoff and any number of crashes. Types
(`CronTypes`) need only the typing of the constants. The others are theorems with
hypotheses, which `cron_schedule` meets:

- `AllValid`, no patch is refused: a refused update leaves a change in memory that is
  neither saved nor scheduled (`UpdateThrows`), against which `TimerCovers` and
  `Durable` are false;
- `Alone`, the process keeps its one service: the tick of a service that was replaced
  goes on and writes the same file, so `Durable`, `MarkerJustified` and
  `NoOverlap` do not speak of two, and a job may be begun by both;
- `Timely`, the jobs of a tick end within `STUCK_RUN_MS` of their mark, for `NoOverlap`
  only: `Spec /\ []Timely => []NoOverlap` (`CronNoOverlap`; what happens past it is in section 3).

`TimerCovers` is not inductive. `nextWakeAtMs` passes over a job without a next run,
so one needs that an enabled job has one unless it is a one-shot that ran well
(`PlanRec`), and that the times of the next runs have an earliest, which follows from
the well-foundedness of `<`. For `MarkerJustified` the file is followed separately
from memory (`MInv`), because a start loads the one and clears its markers, and a
start that has marked what it missed holds the lock until it has run it
(`StartHolds`).

`NoOverlap` needs the order of a tick's phases (`Phases`, `InOrder`: a job in
execution or with a result no longer waits in the tick), that jobs of a tick, and jobs
in memory and in the file, have been created (`Known`), so that a job just added is in
no tick, and then that a job of a tick is refused to everyone else (`Excludes`) for as
long as its marker is not taken for stuck, which is where `Timely` is used.

`OneShotOnce` is an action property: a one-shot keeps the next run it was begun with,
in memory or in the file, only while it is being run or its result waits to be applied
(`OnceGood`), and by `InOrder` such a job does not wait in the tick. That recomputing
never gives a spent one-shot its time back needs `PlanRec` again (`RecomputedOnce`).

`SidecarProofs` proves `TypeOK`, `StreamsAgree` and `OwnEvents`, for any runs, sessions and
clients, any number of events of a run, of second responses and of lost connections, under
the typing of the constants only. The invariant joins

- `Asked`: a handler that waits has exactly one request on the way to the gateway or one
  answer on the way back, and nothing else has; this is the second half of `TypeOK`;
- `Flow`: the streams follow the runs they are registered with, have what those have, and
  the run a session has as active has not ended. `StreamsAgree` follows from it alone,
  for disturbed runs as well;
- `Sound`: the gateway answers what it took and sends of a run nothing before its answer
  and nothing after its end, a second response comes after the first and finds no request
  pending, and of a run whose command threw there is no event;
- `SoloAt` and `TraceAt`, of every run that is not disturbed: while it is unfinished
  it is the active run of its session; as long as it is that, also after its command threw,
  no rival of it is unfinished; and the events it has are the first of its
  history, the others being on the wire in their order (`Pending`).

`OwnEvents` is not inductive because an event is given to whatever run the session has
as active: that it is the right one needs `SoloAt`, that none is missing or
out of turn needs the order of what is still on the wire. `Pending` says so by a strictly
increasing map from the events to come to their places on the wire; the lemmas on it
follow a frame that comes or goes, of this run or another. A run stops being covered when a
rival is created, when the connection is lost, or when a request is refused: those
steps put it in `disturbed`, and for them one only shows that the others stay as they are.

What stays with TLC: liveness (`AllServed`, `DrainServes`, `DueServed`, `Reported`,
`NothingHangs`, `EventsTold`, `Ends`), and the counterexamples of the four findings. Every
invariant and every action property of the passing runs is a theorem. Liveness under fairness, `ENABLED` and induction over data
are outside of what the installed provers do.

## 5. Not modelled

- The follow-up queue's dedupe by prompt, message texts and the wording of
  summaries; compaction and streaming flags of a run (`Steer` may fail because
  they change, then the message is queued, as in the code).
- Cron with `cronEnabled` false, store migrations, failing writes, the session
  reaper, delivery of results, a timed-out execution that goes on. An operation
  before `start` waits for nothing in the code; here clients come after it.
- Of the subagent registry: failing writes, the old file format, sweeps that
  overlap, the label patch, texts and outcomes, a second process that writes the same file. Times are
  left out: a wait may time out and an entry be old at any moment.
- Of the sidecar: requests it refuses at once, abort and result (they pass through),
  the list of a conversation's runs; what the gateway sends of a run after its first
  terminal event, which has no session key. How the gateway comes by a run's events
  (chat links, verbosity, broadcasts to other clients) is left out too.
- Of the heartbeat: which hours are active and what is visible (a heartbeat may be skipped
  before its prompt), the reply and its delivery, the cap of 20 and the skipped duplicates
  of system events, events queued without a request, two cron heartbeats at once.
- Of commands: elevated ones, which bypass approvals, the sandbox, shell analysis (a
  command names a set of executables), approvals over the socket of the companion
  app, the running notice; of the registry, events to nodes, pairing and the command
  allowlist (a refusal is a send that failed).
- Of the announce queue: the length of a debounce, texts, a direct call that fails
  (`FlowThrows` of `SubagentRegistry`), announcements of cron jobs, which come the same way.
- The session write lock: lock files are shared by several processes, of which these
  models have one. Chat runs and agent jobs appear only as the
  events of `Sidecar` and the wait of `SubagentRegistry`.
- The embedded agent runner is an interval in the models, and the rest of the reply
  pipeline a caller of the queue. Config, plugins, channels, memory, media, UI and CLI
  transform data or do I/O for external systems; they hold no state for which an
  interleaving could go wrong and are not modelled.

## 6. Plan

1. `CommandLanes`, `RunSerializer`, `AnnounceQueue`, `FollowupQueue`, `SubagentRegistry`,
   `ExecApprovals` with `NodeRegistry`, `Heartbeat`, `CronService`, `Sidecar`: modelled, checked,
   all safety properties and the two refinements of the serializer proved.
2. Limits of the other findings as theorems, as `UndisturbedNoOrphans` is for the first: when
   `RetryKeepsOutput`, `DueNotAdvanced` and `EditsKept` do hold.
3. `SessionLocks`: lock files with their stale check, several processes and crashes.
