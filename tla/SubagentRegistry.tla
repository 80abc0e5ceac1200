-------------------------- MODULE SubagentRegistry --------------------------
(***************************************************************************)
(* The registry of subagent runs (agents/subagent-registry): each run that *)
(* an agent spawned is an entry in memory and in runs.json.  Its end is    *)
(* learnt from the process's lifecycle events and from agent.wait,         *)
(* whichever comes first; an announce flow then tells the requester, and   *)
(* the entry is completed, removed or left for a retry.  A crash loses all *)
(* but the file, from which the next process resumes.                      *)
(*                                                                         *)
(* Code between two awaits is one step.  Time is left out: a wait times    *)
(* out and an entry grows old at any moment.  Outcomes and texts are left  *)
(* out.  Nothing else runs in a child's session.                           *)
(***************************************************************************)
EXTENDS Naturals, FiniteSets

CONSTANTS
  Runs,       \* run ids
  None,       \* no run
  CleanupOf,  \* [run -> "keep" or "delete", of its session when announced]
  Archived,   \* the runs registered while archiving is configured
  Failing,    \* the runs about which calls of the gateway may fail
  Retrying,   \* the runs that may make more than one attempt
  MaxCrashes  \* bound: crashes of the process

ASSUME CleanupAssumption == CleanupOf \in [Runs -> {"keep", "delete"}]
ASSUME ConfigAssumption ==
  /\ None \notin Runs /\ Archived \subseteq Runs /\ Failing \subseteq Runs
  /\ Retrying \subseteq Runs /\ MaxCrashes \in Nat

VARIABLES
  up,       \* the process runs
  runs,     \* subagentRuns: [run -> its entry, or Absent]
  file,     \* runs.json
  wait,     \* [run -> its agent.wait call]
  flows,    \* the announce flows that are going on
  sweeper,  \* the interval of the sweeper is set
  sweep,    \* the sweep that is going on
  child,    \* [run -> the embedded run itself]
  session,  \* the runs whose child session exists, with its transcript
  crashes,
  told,     \* history: [run -> how often its requester was told, up to 2]
  doubted   \* history: runs whose requester was told by a call that failed

vars == <<up, runs, file, wait, flows, sweeper, sweep, child, session,
          crashes, told, doubted>>

Absent == [present |-> FALSE]
Entry == [present : {TRUE}, ended : BOOLEAN, handled : BOOLEAN,
          completed : BOOLEAN]
Registry == [Runs -> Entry \cup {Absent}]
Present(entry) == entry.present

(* A flow: who started it, where it is, what it saw of the child's session *)
(* when it began, whether the requester was told.  History: what it saw    *)
(* active was an earlier attempt of the child, if another followed since.  *)
Flow == [run : Runs, by : {"event", "wait", "resume"},
         pc : {"settle", "read", "send", "closing", "final"},
         saw : {"nothing", "session", "active", "earlier"}, ok : BOOLEAN]

(* A child waits in a lane, is registered as active for each of its        *)
(* attempts, may emit an end before or after it is unregistered, and is    *)
(* gone after a crash.                                                     *)
ChildPc == {"none", "lane", "running", "ended", "quiet", "over", "lost"}
Active(r) == child[r] \in {"running", "ended"}

NoSweep == [cur |-> None, mutated |-> FALSE]

Init ==
  /\ up = TRUE
  /\ runs = [r \in Runs |-> Absent]
  /\ file = runs
  /\ wait = [r \in Runs |-> "none"]
  /\ flows = {}
  /\ sweeper = FALSE
  /\ sweep = NoSweep
  /\ child = [r \in Runs |-> "none"]
  /\ session = {}
  /\ crashes = 0
  /\ told = [r \in Runs |-> 0]
  /\ doubted = {}

Persist(store) == runs' = store /\ file' = store

-----------------------------------------------------------------------------
(* Starting the announce flow.                                             *)

(* runSubagentAnnounceFlow up to its first await.                          *)
Seen(r) == IF r \notin session THEN "nothing" ELSE IF Active(r) THEN "active" ELSE "session"

Started(r, by) ==
  [run |-> r, by |-> by, saw |-> Seen(r), pc |-> IF Seen(r) = "active" THEN "settle" ELSE "read",
   ok |-> FALSE]

(* Mutant: the flag of a flow in progress is not looked at.                *)
MayBeginFaulty(entry) == Present(entry) /\ ~ entry.completed

MayBegin(entry) == Present(entry) /\ ~ entry.completed /\ ~ entry.handled

Ended(store, r) == [store EXCEPT ![r].ended = TRUE]

(* Mutant: the flow begins before the end is noted.                        *)
ConcludeFaulty(r, by) ==
  IF Present(runs[r]) /\ MayBegin(runs[r])
  THEN /\ Persist([runs EXCEPT ![r].handled = TRUE])
       /\ flows' = flows \cup {Started(r, by)}
  ELSE UNCHANGED <<runs, file, flows>>

(* The run is known to have ended: that is saved, and beginSubagentCleanup *)
(* takes the entry for one flow and saves it again.                        *)
Conclude(r, by) ==
  IF ~ Present(runs[r]) THEN UNCHANGED <<runs, file, flows>>
  ELSE IF MayBegin(runs[r])
  THEN /\ Persist([Ended(runs, r) EXCEPT ![r].handled = TRUE])
       /\ flows' = flows \cup {Started(r, by)}
  ELSE Persist(Ended(runs, r)) /\ UNCHANGED flows

-----------------------------------------------------------------------------
(* Spawning: the gateway accepted the child's run; then, in the caller, it *)
(* is registered.                                                          *)

Spawn(r) ==
  /\ up
  /\ child[r] = "none"
  /\ child' = [child EXCEPT ![r] = "lane"]
  /\ session' = session \cup {r}
  /\ UNCHANGED <<up, runs, file, wait, flows, sweeper, sweep, crashes, told, doubted>>

(* Mutant: only the event is listened to.                                  *)
RegisterFaulty(r) ==
  /\ up
  /\ child[r] \notin {"none", "lost"} /\ wait[r] = "none"
  /\ Persist([runs EXCEPT ![r] = [present |-> TRUE, ended |-> FALSE, handled |-> FALSE,
                                  completed |-> FALSE]])
  /\ sweeper' = (sweeper \/ r \in Archived)
  /\ wait' = [wait EXCEPT ![r] = "answered"]
  /\ UNCHANGED <<up, flows, sweep, child, session, crashes, told, doubted>>

(* registerSubagentRun; the child may have ended meanwhile.                *)
Register(r) ==
  /\ up
  /\ child[r] \notin {"none", "lost"} /\ wait[r] = "none"
  /\ Persist([runs EXCEPT ![r] = [present |-> TRUE, ended |-> FALSE,
                                  handled |-> FALSE, completed |-> FALSE]])
  /\ sweeper' = (sweeper \/ r \in Archived)
  /\ wait' = [wait EXCEPT ![r] = "asked"]
  /\ UNCHANGED <<up, flows, sweep, child, session, crashes, told, doubted>>

-----------------------------------------------------------------------------
(* The end of a run.                                                       *)

ChildStarts(r) ==
  /\ child[r] = "lane"
  /\ child' = [child EXCEPT ![r] = "running"]
  /\ UNCHANGED <<up, runs, file, wait, flows, sweeper, sweep, session, crashes, told, doubted>>

(* The lifecycle event of a start: the time is kept.                       *)
LifecycleStart(r) ==
  /\ child[r] = "running"
  /\ IF Present(runs[r]) THEN Persist(runs) ELSE UNCHANGED <<runs, file>>
  /\ UNCHANGED <<up, wait, flows, sweeper, sweep, child, session, crashes, told, doubted>>

(* The lifecycle event of an end; a compaction retry ends again.           *)
LifecycleEnd(r) ==
  /\ child[r] \in {"running", "ended", "quiet"}
  /\ child' = [child EXCEPT ![r] = IF @ = "quiet" THEN "over" ELSE "ended"]
  /\ Conclude(r, "event")
  /\ UNCHANGED <<up, wait, sweeper, sweep, session, crashes, told, doubted>>

(* clearActiveEmbeddedRun, at the end of an attempt: whoever waits for the *)
(* end of the run goes on.                                                 *)
ChildUnregistered(r) ==
  /\ Active(r)
  /\ child' = [child EXCEPT ![r] = IF @ = "ended" THEN "over" ELSE "quiet"]
  /\ flows' = { IF f.run = r /\ f.pc = "settle" THEN [f EXCEPT !.pc = "read"] ELSE f :
                f \in flows }
  /\ UNCHANGED <<up, runs, file, wait, sweeper, sweep, session, crashes, told, doubted>>

(* runEmbeddedPiAgent tries again, after a compaction or with another      *)
(* profile or thinking level: the next attempt registers the child anew.   *)
NextAttempt(r) ==
  /\ r \in Retrying /\ child[r] \in {"quiet", "over"}
  /\ child' = [child EXCEPT ![r] = "running"]
  /\ flows' = { IF f.run = r /\ f.saw = "active" THEN [f EXCEPT !.saw = "earlier"] ELSE f :
                f \in flows }
  /\ UNCHANGED <<up, runs, file, wait, sweeper, sweep, session, crashes, told, doubted>>

(* agent.wait answers, with the end of the run or because it timed out.    *)
WaitReturns(r) ==
  /\ wait[r] = "asked"
  /\ wait' = [wait EXCEPT ![r] = "answered"]
  /\ Conclude(r, "wait")
  /\ UNCHANGED <<up, sweeper, sweep, child, session, crashes, told, doubted>>

(* It is rejected, which is ignored.                                       *)
WaitFails(r) ==
  /\ r \in Failing
  /\ wait[r] = "asked"
  /\ wait' = [wait EXCEPT ![r] = "failed"]
  /\ UNCHANGED <<up, runs, file, flows, sweeper, sweep, child, session, crashes, told, doubted>>

-----------------------------------------------------------------------------
(* The announce flow.                                                      *)

Step(f, g) == flows' = (flows \ {f}) \cup {g}

(* To the finally block, which awaits the deletion of the session, if any. *)
Done(f, ok, delete) ==
  Step(f, [f EXCEPT !.pc = IF delete THEN "closing" ELSE "final", !.ok = ok])

(* Mutant: the end of the wait is taken for the end of the child.          *)
TimeoutFaulty(f) ==
  /\ f \in flows /\ f.pc = "settle"
  /\ Active(f.run)
  /\ Step(f, [f EXCEPT !.pc = "read"])
  /\ UNCHANGED <<up, runs, file, wait, sweeper, sweep, child, session, crashes, told, doubted>>

(* Mutant: the session is deleted all the same.                            *)
DeferredFaulty(f) ==
  /\ f \in flows
  /\ f.pc = "settle" \/ (f.pc = "read" /\ f.saw # "nothing")
  /\ Active(f.run)
  /\ Done(f, FALSE, CleanupOf[f.run] = "delete")
  /\ UNCHANGED <<up, runs, file, wait, sweeper, sweep, child, session, crashes, told, doubted>>

(* The child has not settled within the time allowed, or has said nothing  *)
(* although it is active: the announcement and the deletion are put off.   *)
Deferred(f) ==
  /\ f \in flows
  /\ f.pc = "settle" \/ (f.pc = "read" /\ f.saw # "nothing")
  /\ Active(f.run)
  /\ Done(f, FALSE, FALSE)
  /\ UNCHANGED <<up, runs, file, wait, sweeper, sweep, child, session, crashes, told, doubted>>

ReplyRead(f) ==
  /\ f \in flows /\ f.pc = "read"
  /\ Step(f, [f EXCEPT !.pc = "send"])
  /\ UNCHANGED <<up, runs, file, wait, sweeper, sweep, child, session, crashes, told, doubted>>

(* Steered, queued or sent.                                                *)
Sent(f) ==
  /\ f \in flows /\ f.pc = "send"
  /\ Done(f, TRUE, CleanupOf[f.run] = "delete")
  /\ told' = [told EXCEPT ![f.run] = IF @ < 2 THEN @ + 1 ELSE @]
  /\ UNCHANGED <<up, runs, file, wait, sweeper, sweep, child, session, crashes, doubted>>

(* A call throws; the one that sends may have been heard.                  *)
FlowThrows(f, heard) ==
  /\ f \in flows /\ f.run \in Failing
  /\ f.pc = "send" \/ (f.pc = "read" /\ ~ heard)
  /\ Done(f, FALSE, CleanupOf[f.run] = "delete")
  /\ told' = IF heard THEN [told EXCEPT ![f.run] = IF @ < 2 THEN @ + 1 ELSE @] ELSE told
  /\ doubted' = IF heard THEN doubted \cup {f.run} ELSE doubted
  /\ UNCHANGED <<up, runs, file, wait, sweeper, sweep, child, session, crashes>>

(* sessions.delete: refused while an active run does not let itself be     *)
(* aborted.  A run that waits in its session's lane is dropped from it.    *)
DeleteSession(r) ==
  /\ \/ ~ Active(r) /\ session' = session \ {r}
     \/ (Active(r) \/ r \in Failing) /\ UNCHANGED session
  /\ \/ UNCHANGED child
     \/ child[r] = "lane" /\ child' = [child EXCEPT ![r] = "lost"]

(* The deletion of the child's session was awaited.                        *)
Close(f) ==
  /\ f \in flows /\ f.pc = "closing"
  /\ Step(f, [f EXCEPT !.pc = "final"])
  /\ DeleteSession(f.run)
  /\ UNCHANGED <<up, runs, file, wait, sweeper, sweep, crashes, told, doubted>>

(* Mutant: a completed entry is not saved.                                 *)
FinalizeFaulty(f) ==
  /\ f \in flows /\ f.pc = "final"
  /\ flows' = flows \ {f}
  /\ IF ~ Present(runs[f.run]) THEN UNCHANGED <<runs, file>>
     ELSE IF ~ f.ok THEN Persist([runs EXCEPT ![f.run].handled = FALSE])
     ELSE IF CleanupOf[f.run] = "delete" THEN Persist([runs EXCEPT ![f.run] = Absent])
     ELSE runs' = [runs EXCEPT ![f.run].completed = TRUE] /\ UNCHANGED file
  /\ UNCHANGED <<up, wait, sweeper, sweep, child, session, crashes, told, doubted>>

(* finalizeSubagentCleanup.                                                *)
Finalize(f) ==
  /\ f \in flows /\ f.pc = "final"
  /\ flows' = flows \ {f}
  /\ IF ~ Present(runs[f.run]) THEN UNCHANGED <<runs, file>>
     ELSE IF ~ f.ok THEN Persist([runs EXCEPT ![f.run].handled = FALSE])
     ELSE IF CleanupOf[f.run] = "delete" THEN Persist([runs EXCEPT ![f.run] = Absent])
     ELSE Persist([runs EXCEPT ![f.run].completed = TRUE])
  /\ UNCHANGED <<up, wait, sweeper, sweep, child, session, crashes, told, doubted>>

-----------------------------------------------------------------------------
(* The sweeper.                                                            *)

(* A sweep meets an old entry (any may be old by now), which goes from     *)
(* memory only.  Sweeps do not overlap here.                               *)
SweepDeletes(r) ==
  /\ sweeper /\ sweep.cur = None
  /\ Present(runs[r]) /\ r \in Archived
  /\ runs' = [runs EXCEPT ![r] = Absent]
  /\ sweep' = [cur |-> r, mutated |-> TRUE]
  /\ UNCHANGED <<up, file, wait, flows, sweeper, child, session, crashes, told, doubted>>

(* The await for sessions.delete.                                          *)
SweepResumes ==
  /\ sweep.cur # None
  /\ DeleteSession(sweep.cur)
  /\ sweep' = [sweep EXCEPT !.cur = None]
  /\ UNCHANGED <<up, runs, file, wait, flows, sweeper, crashes, told, doubted>>

(* Mutant: a sweep without old entries clears the interval.                *)
SweepEndsFaulty ==
  /\ sweeper /\ sweep.cur = None
  /\ sweep' = NoSweep
  /\ IF sweep.mutated THEN Persist(runs) ELSE UNCHANGED <<runs, file>>
  /\ sweeper' = sweep.mutated
  /\ UNCHANGED <<up, wait, flows, child, session, crashes, told, doubted>>

(* The file is written once; without entries the interval is cleared.      *)
SweepEnds ==
  /\ sweeper /\ sweep.cur = None
  /\ sweep' = NoSweep
  /\ IF sweep.mutated THEN Persist(runs) ELSE UNCHANGED <<runs, file>>
  /\ sweeper' = \E r \in Runs : Present(runs[r])
  /\ UNCHANGED <<up, wait, flows, child, session, crashes, told, doubted>>

-----------------------------------------------------------------------------
(* Crash and restart.                                                      *)

Crash ==
  /\ up
  /\ crashes < MaxCrashes
  /\ crashes' = crashes + 1
  /\ up' = FALSE
  /\ runs' = [r \in Runs |-> Absent]
  /\ wait' = [r \in Runs |-> "none"]
  /\ flows' = {}
  /\ sweeper' = FALSE
  /\ sweep' = NoSweep
  /\ child' = [r \in Runs |-> IF child[r] = "none" THEN "none" ELSE "lost"]
  /\ UNCHANGED <<file, session, told, doubted>>

(* restoreSubagentRunsOnce, then resumeSubagentRun for every entry: flows  *)
(* are started for resumed, what has not ended is waited for again.        *)
Restored(resumed) ==
  /\ ~ up
  /\ up' = TRUE
  /\ Persist([r \in Runs |-> IF r \in resumed THEN [file[r] EXCEPT !.handled = TRUE] ELSE file[r]])
  /\ flows' = { Started(r, "resume") : r \in resumed }
  /\ wait' = [r \in Runs |->
                IF Present(file[r]) /\ ~ file[r].completed /\ ~ file[r].ended
                THEN "asked" ELSE "none"]
  /\ sweeper' = \E r \in Archived : Present(file[r])
  /\ UNCHANGED <<sweep, child, session, crashes, told, doubted>>

(* Mutant: flows that were going on are started again.                     *)
RestartFaulty ==
  Restored({ r \in Runs : file[r].present /\ file[r].ended /\ ~ file[r].completed })

(* Flows that were going on are not started again, ends that were not      *)
(* acted upon, or not with success, are.                                   *)
Restart == Restored({ r \in Runs : file[r].present /\ file[r].ended /\ MayBegin(file[r]) })

FlowSteps(f) ==
  Deferred(f) \/ ReplyRead(f) \/ Sent(f) \/ Close(f) \/ Finalize(f)

Next ==
  \/ \E r \in Runs :
       \/ Spawn(r) \/ Register(r) \/ ChildStarts(r) \/ ChildUnregistered(r) \/ NextAttempt(r)
       \/ LifecycleStart(r) \/ LifecycleEnd(r)
       \/ WaitReturns(r) \/ WaitFails(r)
       \/ SweepDeletes(r)
  \/ \E f \in flows :
       \/ FlowSteps(f)
       \/ \E heard \in BOOLEAN : FlowThrows(f, heard)
  \/ SweepResumes \/ SweepEnds
  \/ Crash \/ Restart

(* Waits answer at their timeout at the latest, and so do the calls of a   *)
(* flow.                                                                   *)
Fairness ==
  /\ \A r \in Runs : WF_vars(WaitReturns(r))
  /\ \A r \in Runs : WF_vars(\E f \in flows : f.run = r /\ FlowSteps(f))

Spec == Init /\ [][Next]_vars
FairSpec == Spec /\ Fairness
-----------------------------------------------------------------------------
(* The values of the variables; the stages of an entry in their order.     *)
TypeOK ==
  /\ up \in BOOLEAN /\ sweeper \in BOOLEAN /\ crashes \in 0..MaxCrashes
  /\ runs \in Registry /\ file \in Registry
  /\ wait \in [Runs -> {"none", "asked", "answered", "failed"}]
  /\ flows \subseteq Flow
  /\ sweep \in [cur : Runs \cup {None}, mutated : BOOLEAN]
  /\ child \in [Runs -> ChildPc]
  /\ session \subseteq Runs
  /\ told \in [Runs -> 0..2] /\ doubted \subseteq Runs
  /\ \A r \in Runs : Present(runs[r]) =>
       (runs[r].completed => runs[r].handled) /\ (runs[r].handled => runs[r].ended)

(* The event of an end, the answer of agent.wait and the resumption after  *)
(* a restart may all ask for an announcement: one of them gets it.         *)
OneFlow == \A f, g \in flows : f.run = g.run => f = g

(* The requester is not told twice, not even across a crash between the    *)
(* announcement and its bookkeeping, unless a call failed after it had     *)
(* been heard.                                                             *)
ToldOnce == \A r \in Runs : told[r] = 2 => r \in doubted

(* A flow that found an attempt of the child active does not announce      *)
(* while that attempt goes on ("so we don't report stale/partial output"), *)
(* whichever timeout, end event or answer races its end.  It is not the    *)
(* child that settles but an attempt: of a flow that waited for one and of *)
(* one that began between two, or before the first, nothing is said here   *)
(* once another attempt is active, and the code does announce then what    *)
(* there is so far.                                                        *)
WholeOutput ==
  \A f \in flows : f.saw = "active" /\ f.pc \in {"read", "send"} => ~ Active(f.run)

(* A child's session is deleted only when its output was told, or when it  *)
(* was to be archived by then or a call failed: neither a timeout, nor a   *)
(* late end, nor a crash between two steps lets output vanish unread.      *)
OutputKept ==
  \A r \in Runs \ (Archived \cup Failing) :
    child[r] # "none" /\ told[r] = 0 => r \in session

(* What a crash loses is at most that swept entries were removed: all      *)
(* others are in the file as they are in memory.                           *)
Durable ==
  up => \A r \in Runs : file[r] = runs[r] \/ (sweep.mutated /\ ~ Present(runs[r]))

(* An entry that is to be archived has a sweeper that will do it, however  *)
(* registrations, sweeps and restarts follow each other.                   *)
SweeperRuns == \A r \in Runs : Present(runs[r]) /\ r \in Archived => sweeper

(* An entry whose announcement failed or was put off.                      *)
Retryable(r) ==
  /\ Present(runs[r]) /\ runs[r].ended /\ MayBegin(runs[r])
  /\ \A f \in flows : f.run # r

(* A registered run is reported, also if it ended before it was registered *)
(* or its process crashed, unless it is archived before, its announcement  *)
(* fails or its wait does.                                                 *)
Reported ==
  \A r \in Runs :
    up /\ Present(runs[r]) /\ ~ runs[r].ended
      ~> told[r] > 0 \/ ~ up \/ ~ Present(runs[r]) \/ Retryable(r) \/ wait[r] = "failed"

(* "Allow retry on the next wake if announce was deferred or failed"       *)
(* (subagent-registry.ts): what is to be announced again can still be read *)
(* from the child's session.                                               *)
RetryKeepsOutput == \A r \in Runs : Retryable(r) => r \in session

=============================================================================
