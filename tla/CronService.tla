----------------------------- MODULE CronService -----------------------------
(***************************************************************************)
(* The cron scheduler (cron/service): jobs kept in memory and in one store *)
(* file, a timer whose tick marks the due jobs, executes them without the  *)
(* store lock and then applies their results, and the client operations,   *)
(* which take the lock.  The operation run and the catch-up of start       *)
(* execute jobs while they hold the lock.                                  *)
(*                                                                         *)
(* Several services share store and lock when a config reload replaces the *)
(* service; a crash loses everything but the file.  A section under the    *)
(* lock is one step unless it executes a job in it.  Times are counted in  *)
(* units of a fraction of a second.                                        *)
(***************************************************************************)
EXTENDS Integers, Sequences, FiniteSets, FiniteSetsExt

CONSTANTS
  Jobs,          \* job ids that may be added
  Services,      \* services the process creates one after another
  None,          \* no job, no service, no change
  SchedulesOf,   \* [job -> schedules [kind, time] it may be created with]
  Deletable,     \* values deleteAfterRun may have
  Outcomes,      \* outcomes an execution may have
  Patches,       \* patches [enabled, schedule, valid] clients may send
  Second,        \* time units of a second
  JobTimeout,    \* DEFAULT_JOB_TIMEOUT_MS
  StuckRun,      \* STUCK_RUN_MS
  MaxTimerDelay, \* MAX_TIMER_DELAY_MS
  Backoff,       \* ERROR_BACKOFF_SCHEDULE_MS
  MaxTime,       \* bound: the clock stops here
  MaxCrashes     \* bound: crashes of the process

Kinds == {"at", "every", "cron"}

ASSUME TimingAssumption ==
  /\ Second \in Nat \ {0} /\ JobTimeout \in Nat \ {0} /\ MaxTimerDelay \in Nat \ {0}
  /\ StuckRun \in Nat /\ MaxTime \in Nat /\ MaxTime >= Second
  /\ MaxCrashes \in Nat /\ Outcomes \subseteq {"ok", "error", "skipped"}
  /\ Backoff \in Seq(Nat \ {0}) /\ Backoff # <<>>
  /\ SchedulesOf \in [Jobs -> SUBSET [kind : Kinds, time : Nat \ {0}]]

ASSUME ClientsAssumption ==
  /\ None \notin Jobs \cup Services /\ Deletable \subseteq BOOLEAN
  /\ Patches \subseteq [enabled : BOOLEAN \cup {None},
                       schedule : [kind : Kinds, time : Nat \ {0}] \cup {None}, valid : BOOLEAN]

VARIABLES
  now,       \* the clock
  file,      \* jobs.json: [job -> its record, or Absent]
  mem,       \* [service -> state.store]
  timer,     \* [service -> when its timer is to fire, or Never]
  tick,      \* [service -> its onTimer call]
  held,      \* the operation that executes jobs under the lock, if any
  life,      \* [service -> new, starting, up, stopped]
  born,      \* the ids given out
  crashes,
  begun,     \* history: [job -> nextRunAtMs when a service last began it]
  unmarked,  \* history: jobs disabled while they were being run
  refused    \* history: jobs that a refused patch enabled, until accepted or loaded

vars == <<now, file, mem, timer, tick, held, life, born, crashes, begun, unmarked,
          refused>>

Never == -1
Time == 0..MaxTime
Instants == {Never} \cup Nat

Absent == [present |-> FALSE]
Present(rec) == rec.present

Idle == [pc |-> "idle", todo |-> {}, cur |-> None, since |-> Never, results |-> {}]
Unheld == [svc |-> None, todo |-> {}, cur |-> None]
LockFree == held = Unheld

Init ==
  /\ now = Second
  /\ file = [j \in Jobs |-> Absent]
  /\ mem = [s \in Services |-> file]
  /\ timer = [s \in Services |-> Never]
  /\ tick = [s \in Services |-> Idle]
  /\ held = Unheld
  /\ life = [s \in Services |-> "new"]
  /\ born = {}
  /\ crashes = 0
  /\ begun = [j \in Jobs |-> Never]
  /\ unmarked = {} /\ refused = {}

-----------------------------------------------------------------------------
(* Schedules.                                                              *)

CeilDiv(a, b) == (a + b - 1) \div b
Larger(a, b) == IF a >= b THEN a ELSE b
Smaller(a, b) == IF a <= b THEN a ELSE b

(* computeNextRunAtMs: an interval counts from its anchor; of a cron       *)
(* expression (here: every sched.time) the occurrence of the running       *)
(* second still counts as the next.                                        *)
ComputeNextRun(sched, t) ==
  IF sched.kind = "every"
  THEN IF t < sched.anchor THEN sched.anchor
       ELSE sched.anchor + Larger(1, CeilDiv(t - sched.anchor, sched.time)) * sched.time
  ELSE CeilDiv((t \div Second) * Second, sched.time) * sched.time

(* computeJobNextRunAtMs.                                                  *)
JobNextRun(rec, t) ==
  IF ~ rec.enabled THEN Never
  ELSE IF rec.sched.kind = "at"
       THEN IF rec.status = "ok" THEN Never ELSE rec.sched.time
       ELSE ComputeNextRun(rec.sched, t)

Anchored(sched, t) == [kind |-> sched.kind, time |-> sched.time,
                       anchor |-> IF sched.kind = "every" THEN t ELSE 0]

Reached(next, t) == next # Never /\ t >= next

(* isJobDue and findDueJobs.                                               *)
IsDue(rec, t) == Present(rec) /\ rec.enabled /\ rec.running = Never /\ Reached(rec.next, t)

(* recomputeNextRuns.                                                      *)
Recomputed(rec, t) ==
  IF ~ Present(rec) THEN rec
  ELSE IF ~ rec.enabled THEN [rec EXCEPT !.next = Never, !.running = Never]
  ELSE LET stuck == rec.running # Never /\ t - rec.running > StuckRun
       IN [rec EXCEPT !.running = IF stuck THEN Never ELSE @,
                      !.next = IF @ = Never \/ t >= @ THEN JobNextRun(rec, t) ELSE @]

RecomputeNextRuns(store) == [j \in Jobs |-> Recomputed(store[j], now)]

(* errorBackoffMs; the count is kept up to the length of the schedule.     *)
Errors(rec, status) == IF status = "error" THEN Smaller(rec.errors + 1, Len(Backoff)) ELSE 0

(* Mutant: a one-shot job is only disabled when it ran well.               *)
JobResultAppliedFaulty(rec, status, ended) ==
  LET errors == Errors(rec, status)
      done == [rec EXCEPT !.running = Never, !.status = status, !.errors = errors]
      natural == JobNextRun(done, ended)
      oneShot == rec.sched.kind = "at"
  IN IF ~ Present(rec) \/ (oneShot /\ status = "ok" /\ rec.deleteAfterRun) THEN Absent
     ELSE IF oneShot /\ status = "ok" THEN [done EXCEPT !.enabled = FALSE, !.next = Never]
     ELSE [done EXCEPT !.next = natural]

(* applyJobResult, and the removal of a one-shot job that is to be deleted. *)
JobResultApplied(rec, status, ended) ==
  LET errors == Errors(rec, status)
      done == [rec EXCEPT !.running = Never, !.status = status, !.errors = errors]
      natural == JobNextRun(done, ended)
      oneShot == rec.sched.kind = "at"
  IN IF ~ Present(rec) \/ (oneShot /\ status = "ok" /\ rec.deleteAfterRun) THEN Absent
     ELSE IF oneShot THEN [done EXCEPT !.enabled = FALSE, !.next = Never]
     ELSE IF status = "error" /\ rec.enabled
          THEN [done EXCEPT !.next = Larger(natural, ended + Backoff[errors])]
          ELSE [done EXCEPT !.next = natural]

-----------------------------------------------------------------------------
(* Timer, memory and file.                                                 *)

(* nextWakeAtMs.                                                           *)
NextWakeAt(store) ==
  LET times == { store[j].next : j \in { i \in Jobs : Present(store[i]) /\ store[i].enabled } } \ {Never}
  IN IF times = {} THEN Never ELSE Min(times)

(* armTimer.                                                               *)
Armed(store) ==
  IF NextWakeAt(store) = Never THEN Never
  ELSE Smaller(Larger(NextWakeAt(store), now), now + MaxTimerDelay)

Remember(s, store) == mem' = [mem EXCEPT ![s] = store]
Persist(s, store) == Remember(s, store) /\ file' = mem'[s]
ArmTimer(s) == timer' = [timer EXCEPT ![s] = Armed(mem'[s])]

Marked(store, jobs) ==
  [j \in Jobs |-> IF j \in jobs /\ Present(store[j]) THEN [store[j] EXCEPT !.running = now] ELSE store[j]]

-----------------------------------------------------------------------------
(* Jobs executed under the lock, by run and by start.                      *)

(* executeJob up to its await.                                             *)
Hold(s, todo, store) ==
  \E j \in todo :
    /\ held' = [svc |-> s, todo |-> todo \ {j}, cur |-> j]
    /\ Remember(s, Marked(store, {j}))

(* Mutant: the markers a crash left stay.                                  *)
StartFaulty(s) ==
  /\ life[s] = "new" /\ \A o \in Services : life[o] \in {"new", "stopped"}
  /\ LockFree
  /\ Persist(s, RecomputeNextRuns(file))
  /\ ArmTimer(s)
  /\ life' = [life EXCEPT ![s] = "up"]
  /\ UNCHANGED <<now, tick, held, born, crashes, begun, unmarked, refused>>

(* start: the markers a crash left are cleared, missed jobs are run, then  *)
(* the timer is armed.                                                     *)
Start(s) ==
  LET clean == [j \in Jobs |-> IF Present(file[j]) THEN [file[j] EXCEPT !.running = Never] ELSE file[j]]
      missed == { j \in Jobs : /\ IsDue(clean[j], now)
                               /\ ~ (clean[j].sched.kind = "at" /\ clean[j].status = "ok") }
  IN /\ life[s] = "new" /\ \A o \in Services : life[o] \in {"new", "stopped"}
     /\ LockFree
     /\ IF missed = {}
        THEN /\ Persist(s, RecomputeNextRuns(clean))
             /\ ArmTimer(s)
             /\ life' = [life EXCEPT ![s] = "up"]
             /\ UNCHANGED <<held, begun>>
        ELSE /\ Hold(s, missed, clean)
             /\ life' = [life EXCEPT ![s] = "starting"]
             /\ begun' = [j \in Jobs |-> IF j \in missed THEN clean[j].next ELSE begun[j]]
             /\ UNCHANGED <<file, timer>>
     /\ refused' = {}
     /\ UNCHANGED <<now, tick, born, crashes, unmarked>>

(* Mutant: a job that is being run may be run.                             *)
RunFaulty(s, j, force) ==
  /\ life[s] = "up" /\ LockFree
  /\ Present(mem[s][j])
  /\ force \/ IsDue(mem[s][j], now)
  /\ Hold(s, {j}, mem[s])
  /\ UNCHANGED <<now, file, timer, tick, life, born, crashes, begun, unmarked, refused>>

(* run, when the job is not marked as running.                             *)
Run(s, j, force) ==
  /\ life[s] = "up" /\ LockFree
  /\ Present(mem[s][j]) /\ mem[s][j].running = Never
  /\ force \/ IsDue(mem[s][j], now)
  /\ Hold(s, {j}, mem[s])
  /\ UNCHANGED <<now, file, timer, tick, life, born, crashes, begun, unmarked, refused>>

(* Mutant: the operation does not arm the timer.                           *)
HeldEndsFaulty(outcome) ==
  LET s == held.svc
      applied == [mem[s] EXCEPT ![held.cur] = JobResultApplied(@, outcome, now)]
  IN /\ held.svc # None
     /\ IF held.todo # {}
        THEN Hold(s, held.todo, applied) /\ UNCHANGED <<file, life>>
        ELSE /\ Persist(s, RecomputeNextRuns(applied))
             /\ held' = Unheld
             /\ life' = [life EXCEPT ![s] = IF @ = "starting" THEN "up" ELSE @]
     /\ UNCHANGED <<now, timer, tick, born, crashes, begun, unmarked, refused>>

(* The execution under the lock ends: the next one begins, or the          *)
(* operation recomputes, saves, arms the timer and gives back the lock.    *)
HeldEnds(outcome) ==
  LET s == held.svc
      applied == [mem[s] EXCEPT ![held.cur] = JobResultApplied(@, outcome, now)]
      final == RecomputeNextRuns(applied)
  IN /\ held.svc # None
     /\ IF held.todo # {}
        THEN Hold(s, held.todo, applied) /\ UNCHANGED <<file, timer, life>>
        ELSE /\ Persist(s, final)
             /\ ArmTimer(s)
             /\ held' = Unheld
             /\ life' = [life EXCEPT ![s] = IF @ = "starting" THEN "up" ELSE @]
     /\ UNCHANGED <<now, tick, born, crashes, begun, unmarked, refused>>

-----------------------------------------------------------------------------
(* The other operations of clients.                                        *)

(* list and status, which save what they changed.                          *)
Read(s) ==
  /\ life[s] = "up" /\ LockFree
  /\ IF RecomputeNextRuns(mem[s]) = mem[s] THEN UNCHANGED <<file, mem>>
     ELSE Persist(s, RecomputeNextRuns(mem[s]))
  /\ UNCHANGED <<now, timer, tick, held, life, born, crashes, begun, unmarked, refused>>

Created(sched, delete) ==
  LET rec == [present |-> TRUE, enabled |-> TRUE, sched |-> Anchored(sched, now),
              deleteAfterRun |-> delete, next |-> Never, running |-> Never,
              status |-> "none", errors |-> 0]
  IN [rec EXCEPT !.next = JobNextRun(rec, now)]

(* add.                                                                    *)
Add(s, j, sched, delete) ==
  LET store == RecomputeNextRuns([mem[s] EXCEPT ![j] = Created(sched, delete)])
  IN /\ life[s] = "up" /\ LockFree
     /\ j \notin born
     /\ born' = born \cup {j}
     /\ Persist(s, store)
     /\ ArmTimer(s)
     /\ UNCHANGED <<now, tick, held, life, crashes, begun, unmarked, refused>>

Patched(rec, patch) ==
  [rec EXCEPT !.enabled = IF patch.enabled = None THEN @ ELSE patch.enabled,
              !.sched = IF patch.schedule = None THEN @ ELSE Anchored(patch.schedule, now)]

(* A job is being run by the tick of a service.                            *)
InTick(s, j) == tick[s].cur = j \/ j \in tick[s].todo

(* update: the other jobs are left alone; disabling clears the marker of a *)
(* run that goes on.                                                       *)
Update(s, j, patch) ==
  LET rec == Patched(mem[s][j], patch)
      new == IF patch.enabled = None /\ patch.schedule = None THEN rec
             ELSE IF rec.enabled THEN [rec EXCEPT !.next = JobNextRun(rec, now)]
             ELSE [rec EXCEPT !.next = Never, !.running = Never]
      store == [mem[s] EXCEPT ![j] = new]
  IN /\ life[s] = "up" /\ LockFree
     /\ Present(mem[s][j])
     /\ patch.valid
     /\ Persist(s, store)
     /\ ArmTimer(s)
     /\ begun' = [begun EXCEPT ![j] = Never]
     /\ unmarked' = IF ~ new.enabled /\ \E o \in Services : InTick(o, j)
                    THEN unmarked \cup {j} ELSE unmarked
     /\ refused' = refused \ {j}
     /\ UNCHANGED <<now, tick, held, life, born, crashes>>

(* update with a patch that assertSupportedJobSpec refuses, after it was   *)
(* written into the job (here: one without a schedule, which would lack    *)
(* its anchor).                                                            *)
UpdateThrows(s, j, patch) ==
  /\ life[s] = "up" /\ LockFree
  /\ Present(mem[s][j])
  /\ ~ patch.valid /\ patch.schedule = None
  /\ Remember(s, [mem[s] EXCEPT ![j] = Patched(@, patch)])
  /\ refused' = IF patch.enabled = TRUE /\ ~ mem[s][j].enabled THEN refused \cup {j} ELSE refused
  /\ UNCHANGED <<now, file, timer, tick, held, life, born, crashes, begun, unmarked>>

(* Mutant: the removal is not saved.                                       *)
RemoveFaulty(s, j) ==
  /\ life[s] = "up" /\ LockFree
  /\ Remember(s, [mem[s] EXCEPT ![j] = Absent])
  /\ ArmTimer(s)
  /\ UNCHANGED <<now, file, tick, held, life, born, crashes, begun, unmarked, refused>>

(* remove, also of an id that is not there.                                *)
Remove(s, j) ==
  /\ life[s] = "up" /\ LockFree
  /\ Persist(s, [mem[s] EXCEPT ![j] = Absent])
  /\ ArmTimer(s)
  /\ UNCHANGED <<now, tick, held, life, born, crashes, begun, unmarked, refused>>

-----------------------------------------------------------------------------
(* onTimer.                                                                *)

(* The timer fires; a tick that is going on makes the new one return.      *)
Fire(s) ==
  /\ timer[s] # Never /\ now >= timer[s]
  /\ timer' = [timer EXCEPT ![s] = Never]
  /\ tick' = IF tick[s].pc = "idle" THEN [tick EXCEPT ![s].pc = "mark"] ELSE tick
  /\ UNCHANGED <<now, file, mem, held, life, born, crashes, begun, unmarked, refused>>

(* Mutant: no early end of a tick without due jobs.                        *)
MarkFaulty(s) ==
  LET due == { j \in Jobs : IsDue(file[j], now) }
  IN /\ tick[s].pc = "mark" /\ LockFree
     /\ Persist(s, Marked(file, due))
     /\ tick' = [tick EXCEPT ![s].pc = "run", ![s].todo = due]
     /\ UNCHANGED <<now, timer, held, life, born, crashes, begun, unmarked, refused>>

(* The store is read again and the due jobs are marked.                    *)
Mark(s) ==
  LET due == { j \in Jobs : IsDue(file[j], now) }
  IN /\ tick[s].pc = "mark" /\ LockFree
     /\ IF due = {}
        THEN /\ Persist(s, RecomputeNextRuns(file))
             /\ tick' = [tick EXCEPT ![s].pc = "sweep"]
        ELSE /\ Persist(s, Marked(file, due))
             /\ tick' = [tick EXCEPT ![s].pc = "run", ![s].todo = due]
     /\ UNCHANGED <<now, timer, held, life, born, crashes, begun, unmarked, refused>>

(* The next marked job is executed, whatever became of it since.           *)
Begin(s, j) ==
  /\ tick[s].pc = "run" /\ tick[s].cur = None
  /\ j \in tick[s].todo
  /\ tick' = [tick EXCEPT ![s].cur = j, ![s].since = now, ![s].todo = @ \ {j}]
  /\ Remember(s, Marked(mem[s], {j}))
  /\ begun' = [begun EXCEPT ![j] = IF Present(mem[s][j]) THEN mem[s][j].next ELSE Never]
  /\ UNCHANGED <<now, file, timer, held, life, born, crashes, unmarked, refused>>

(* It ends, or is given up after JobTimeout (an error).                    *)
End(s, outcome) ==
  /\ tick[s].cur # None
  /\ tick' = [tick EXCEPT ![s].cur = None, ![s].since = Never,
                          ![s].results = @ \cup {[job |-> tick[s].cur, status |-> outcome, ended |-> now]}]
  /\ UNCHANGED <<now, file, mem, timer, held, life, born, crashes, begun, unmarked, refused>>

(* The store is read again and the results are written to the jobs it has. *)
Apply(s) ==
  LET results == tick[s].results
      resultOf(j) == CHOOSE r \in results : r.job = j
      applied == [j \in Jobs |->
                    IF \E r \in results : r.job = j
                    THEN JobResultApplied(file[j], resultOf(j).status, resultOf(j).ended)
                    ELSE file[j]]
  IN /\ tick[s].pc = "run" /\ tick[s].cur = None /\ tick[s].todo = {}
     /\ LockFree
     /\ Persist(s, RecomputeNextRuns(applied))
     /\ tick' = [tick EXCEPT ![s] = [Idle EXCEPT !.pc = "sweep"]]
     /\ unmarked' = unmarked \ { r.job : r \in results }
     /\ UNCHANGED <<now, timer, held, life, born, crashes, begun, refused>>

(* Mutant: the tick does not arm the timer again.                          *)
TickEndsFaulty(s) ==
  /\ tick[s].pc = "sweep"
  /\ tick' = [tick EXCEPT ![s] = Idle]
  /\ UNCHANGED <<now, file, mem, timer, held, life, born, crashes, begun, unmarked, refused>>

(* Session files were swept; the timer is armed, also of a stopped service. *)
TickEnds(s) ==
  /\ tick[s].pc = "sweep"
  /\ tick' = [tick EXCEPT ![s] = Idle]
  /\ UNCHANGED mem /\ ArmTimer(s)
  /\ UNCHANGED <<now, file, held, life, born, crashes, begun, unmarked, refused>>

-----------------------------------------------------------------------------
(* A config reload stops the service; its tick, if any, goes on.           *)
Stop(s) ==
  /\ life[s] \in {"starting", "up"}
  /\ \E o \in Services : life[o] = "new"
  /\ life' = [life EXCEPT ![s] = "stopped"]
  /\ timer' = [timer EXCEPT ![s] = Never]
  /\ UNCHANGED <<now, file, mem, tick, held, born, crashes, begun, unmarked, refused>>

Crash ==
  /\ crashes < MaxCrashes
  /\ crashes' = crashes + 1
  /\ mem' = [s \in Services |-> [j \in Jobs |-> Absent]]
  /\ timer' = [s \in Services |-> Never]
  /\ tick' = [s \in Services |-> Idle]
  /\ held' = Unheld
  /\ life' = [s \in Services |-> "new"]
  /\ begun' = [j \in Jobs |-> Never]
  /\ unmarked' = {} /\ refused' = {}
  /\ UNCHANGED <<now, file, born>>

(* Time passes; the timeout of an execution is punctual.                   *)
Advance ==
  /\ now < MaxTime
  /\ \A s \in Services : tick[s].cur # None => now < tick[s].since + JobTimeout
  /\ now' = now + 1
  /\ UNCHANGED <<file, mem, timer, tick, held, life, born, crashes, begun, unmarked, refused>>

Client(s) ==
  \/ Read(s)
  \/ \E j \in Jobs :
       \/ Remove(s, j)
       \/ \E force \in BOOLEAN : Run(s, j, force)
       \/ \E sched \in SchedulesOf[j], delete \in Deletable : Add(s, j, sched, delete)
       \/ \E patch \in Patches : Update(s, j, patch) \/ UpdateThrows(s, j, patch)

Next ==
  \/ \E s \in Services :
       \/ Start(s) \/ Client(s) \/ Stop(s)
       \/ Fire(s) \/ Mark(s) \/ Apply(s) \/ TickEnds(s)
       \/ \E j \in Jobs : Begin(s, j)
       \/ \E outcome \in Outcomes : End(s, outcome)
  \/ \E outcome \in Outcomes : HeldEnds(outcome)
  \/ Crash
  \/ Advance

(* Timers fire, executions end (by their own timeouts or the tick's), the  *)
(* tick's loop goes on, and the lock is first come, first served.          *)
Executing(s) ==
  TickEnds(s) \/ (\E j \in Jobs : Begin(s, j)) \/ (\E outcome \in Outcomes : End(s, outcome))

Fairness ==
  /\ WF_vars(\E outcome \in Outcomes : HeldEnds(outcome))
  /\ \A s \in Services :
       WF_vars(Fire(s)) /\ WF_vars(Executing(s)) /\ SF_vars(Mark(s) \/ Apply(s))

Spec == Init /\ [][Next]_vars
FairSpec == Spec /\ Fairness
-----------------------------------------------------------------------------
Record ==
  [present : {TRUE}, enabled : BOOLEAN,
   sched : [kind : Kinds, time : Nat \ {0}, anchor : Time], deleteAfterRun : BOOLEAN,
   next : Instants, running : Time \cup {Never}, status : Outcomes \cup {"none"}, errors : Nat]

Store == [Jobs -> Record \cup {Absent}]

(* The values of the variables; a tick executes jobs only while it has     *)
(* some, or results to apply.                                              *)
TypeOK ==
  /\ now \in Time /\ crashes \in 0..MaxCrashes /\ born \subseteq Jobs
  /\ file \in Store /\ mem \in [Services -> Store]
  /\ timer \in [Services -> Instants]
  /\ tick \in [Services -> [pc : {"idle", "mark", "run", "sweep"}, todo : SUBSET Jobs,
                           cur : Jobs \cup {None}, since : Time \cup {Never},
                           results : SUBSET [job : Jobs, status : Outcomes, ended : Time]]]
  /\ \A s \in Services :
       tick[s].pc = "run" <=> tick[s].todo # {} \/ tick[s].cur # None \/ tick[s].results # {}
  /\ held \in [svc : Services \cup {None}, todo : SUBSET Jobs, cur : Jobs \cup {None}]
  /\ life \in [Services -> {"new", "starting", "up", "stopped"}]
  /\ begun \in [Jobs -> Instants] /\ unmarked \subseteq Jobs /\ refused \subseteq Jobs

Runners(j) == { s \in Services : tick[s].cur = j } \cup (IF held.cur = j THEN {None} ELSE {})

(* The tick, a manual run and the catch-up of a start never execute one    *)
(* job at the same time, unless it was disabled while it was being run.    *)
NoOverlap == \A j \in Jobs \ unmarked : Cardinality(Runners(j)) <= 1

(* A marker that makes run answer "already running" and the tick pass a    *)
(* job over belongs to a run in progress or whose result is to be applied: *)
(* no crash and no interleaving blocks a job for good.                     *)
MarkerJustified ==
  \A s \in Services, j \in Jobs :
    life[s] = "up" /\ Present(mem[s][j]) /\ mem[s][j].running # Never =>
      \/ held.cur = j
      \/ \E o \in Services : InTick(o, j) \/ \E r \in tick[o].results : r.job = j

(* No lost wake-up: a service that rests has its timer set no later than   *)
(* the next run of any enabled job.                                        *)
TimerCovers ==
  \A s \in Services :
    LET wake == NextWakeAt(mem[s])
    IN life[s] = "up" /\ LockFree /\ tick[s].pc = "idle" /\ wake # Never =>
         timer[s] # Never /\ timer[s] <= Larger(wake, now)

(* What clients were told survives a crash: between operations, while no   *)
(* tick executes jobs, memory and file agree.                              *)
Durable ==
  \A s \in Services : life[s] = "up" /\ LockFree /\ tick[s].pc # "run" => mem[s] = file

(* The scheduler executes an occurrence of job j that it executed before.  *)
Repeats(j) ==
  \E s \in Services :
    /\ tick[s].cur # j /\ tick'[s].cur = j
    /\ Present(mem[s][j]) /\ mem[s][j].next # Never
    /\ mem[s][j].next = begun[j]

(* A one-shot job is executed by the scheduler once, whatever its outcome, *)
(* until a client changes it or the process crashes.                       *)
OneShotOnce == [][\A j \in Jobs : Repeats(j) => \E s \in Services : mem[s][j].sched.kind # "at"]_vars

(* "avoids accidentally advancing a job that hasn't fired yet" (jobs.ts):  *)
(* an idle job that is due keeps its nextRunAtMs until it is run.          *)
DueNotAdvanced ==
  [][\A s \in Services, j \in Jobs :
       LET rec == mem[s][j]
           new == mem'[s][j]
       IN (life[s] = "up" /\ IsDue(rec, now) /\ Present(new)) =>
            (new.enabled /\ new.sched = rec.sched => new.next = rec.next)]_vars

DueNow(s, j) == life[s] = "up" /\ IsDue(mem[s][j], now)

(* A due job does not stay due: it is run, or its next run is put off,     *)
(* whatever reloads, failures and refused patches come between.  Left out  *)
(* is a job that a refused patch enabled, until a patch of it is accepted  *)
(* or a service starts: list and status compute its next run, and save it, *)
(* without arming the timer, and nothing but a chance arming serves it.    *)
DueServed ==
  \A s \in Services, j \in Jobs : DueNow(s, j) ~> ~ DueNow(s, j) \/ j \in refused

=============================================================================
