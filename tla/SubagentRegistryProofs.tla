----------------------- MODULE SubagentRegistryProofs -----------------------
(***************************************************************************)
(* The safety invariants of SubagentRegistry, for every set of runs and    *)
(* any number of crashes.  Core holds the types and what makes the flows   *)
(* of a run unique; the other properties are inductive beside it, each     *)
(* with a strengthening of its own.                                        *)
(***************************************************************************)
EXTENDS SubagentRegistry, TLAPS

(* An entry's stages come in their order.                                  *)
Sound(entry) ==
  Present(entry) => /\ entry.completed => entry.handled
                    /\ entry.handled => entry.ended

(* An entry that a flow has taken.                                         *)
Taken(entry) ==
  Present(entry) => entry.ended /\ entry.handled /\ ~ entry.completed

(* A run that was not registered.                                          *)
Unknown(r) == child[r] = "none" \/ (wait[r] = "none" /\ child[r] # "lost")

FileSound == \A r \in Runs : Sound(file[r])

FlowsTook == \A f \in flows : Taken(runs[f.run]) /\ Taken(file[f.run])

UnknownUntouched ==
  \A r \in Runs : Unknown(r) =>
    /\ runs[r] = Absent /\ file[r] = Absent /\ told[r] = 0
    /\ \A f \in flows : f.run # r

DownIsQuiet == ~ up => \A r \in Runs : child[r] \in {"none", "lost"}

(* Types, and one flow per run.                                            *)
Core ==
  /\ TypeOK /\ FileSound /\ FlowsTook /\ OneFlow
  /\ UnknownUntouched /\ DownIsQuiet

(* Who was told for sure has no flow that would tell again, and no entry   *)
(* that would start one.                                                   *)
ToldMarked ==
  \A r \in Runs : told[r] > 0 /\ r \notin doubted =>
    /\ told[r] = 1
    /\ Present(runs[r]) => runs[r].handled
    /\ Present(file[r]) => file[r].handled
    /\ \A f \in flows : f.run = r => f.ok /\ f.pc \in {"closing", "final"}

(* What a flow saw active, and no other followed, is past its start.       *)
SawActive ==
  \A f \in flows : f.saw = "active" => child[f.run] \notin {"none", "lane"}

(* Only these delete sessions.                                             *)
DeletesAfter ==
  /\ \A f \in flows : f.pc = "closing" => told[f.run] > 0 \/ f.run \in Failing
  /\ sweep.cur # None => sweep.cur \in Archived

-----------------------------------------------------------------------------
(* Entries and registries.                                                 *)

(* What the assignments of an entry's fields make of it.                   *)
LEMMA EntryFields ==
  ASSUME NEW e \in Entry
  PROVE  /\ Present(e) /\ e # Absent
         /\ e.ended \in BOOLEAN /\ e.handled \in BOOLEAN /\ e.completed \in BOOLEAN
<1>1. e.present = TRUE /\ e.ended \in BOOLEAN /\ e.handled \in BOOLEAN /\ e.completed \in BOOLEAN
  BY DEF Entry
<1>2. Absent.present = FALSE
  BY DEF Absent
<1>3. e # Absent
  BY <1>1, <1>2
<1> QED BY <1>1, <1>3 DEF Present

LEMMA EndedEntry ==
  ASSUME NEW e \in Entry, NEW a, a = [e EXCEPT !.ended = TRUE]
  PROVE  a \in Entry /\ a.ended /\ a.handled = e.handled /\ a.completed = e.completed
BY DEF Entry

LEMMA HandledEntry ==
  ASSUME NEW e \in Entry, NEW a, a = [e EXCEPT !.handled = TRUE]
  PROVE  a \in Entry /\ a.handled = TRUE /\ a.ended = e.ended /\ a.completed = e.completed
BY DEF Entry

LEMMA ReopenedEntry ==
  ASSUME NEW e \in Entry, NEW a, a = [e EXCEPT !.handled = FALSE]
  PROVE  a \in Entry /\ a.handled = FALSE /\ a.ended = e.ended /\ a.completed = e.completed
BY DEF Entry

LEMMA CompletedEntry ==
  ASSUME NEW e \in Entry, NEW a, a = [e EXCEPT !.completed = TRUE]
  PROVE  a \in Entry /\ a.completed /\ a.ended = e.ended /\ a.handled = e.handled
BY DEF Entry

(* An entry of a registry that is present has these fields.                *)
LEMMA PresentEntry ==
  ASSUME NEW store \in Registry, NEW r \in Runs
  PROVE  /\ Present(store[r]) => store[r] \in Entry
         /\ ~ Present(store[r]) <=> store[r] = Absent
<1>1. store[r] \in Entry \/ store[r] = Absent
  BY DEF Registry
<1>2. ~ Present(Absent)
  BY DEF Present, Absent
<1> QED BY <1>1, <1>2, EntryFields

(* An entry is set, and all are saved.                                     *)
LEMMA Put ==
  ASSUME runs \in Registry, NEW r \in Runs, NEW e \in Entry \cup {Absent},
         Persist([runs EXCEPT ![r] = e])
  PROVE  /\ runs' \in Registry /\ file' = runs' /\ runs'[r] = e
         /\ \A q \in Runs \ {r} : runs'[q] = runs[q]
BY DEF Registry, Persist

LEMMA AbsentSound == Sound(Absent) /\ Taken(Absent) /\ ~ Present(Absent)
BY DEF Sound, Taken, Present, Absent

-----------------------------------------------------------------------------
(* Flows.                                                                  *)

(* A flow that goes on stays the one flow of its run.                      *)
LEMMA StepFlows ==
  ASSUME flows \subseteq Flow, OneFlow, NEW f \in flows, NEW g \in Flow,
         g.run = f.run, Step(f, g)
  PROVE  /\ flows' \subseteq Flow
         /\ OneFlow'
         /\ \A h \in flows' : h = g \/ (h \in flows /\ h.run # f.run)
BY DEF OneFlow, Step

(* A flow that is started.                                                 *)
LEMMA StartedFlow ==
  ASSUME NEW r \in Runs, NEW by \in {"event", "wait", "resume"}
  PROVE  /\ Started(r, by) \in Flow
         /\ Started(r, by).run = r
         /\ Started(r, by).pc \in {"settle", "read"}
         /\ Started(r, by).saw = "active" => Started(r, by).pc = "settle" /\ Active(r)
BY DEF Started, Flow, Seen

(* Flows that are changed where they stand.                                *)
LEMMA RemadeFlows ==
  ASSUME flows \subseteq Flow, OneFlow, NEW m, flows' = { m[f] : f \in flows },
         \A f \in flows : m[f] \in Flow /\ m[f].run = f.run
  PROVE  flows' \subseteq Flow /\ OneFlow'
BY DEF OneFlow

(* What the end of an attempt, and another, make of the flows.             *)
LEMMA UnregisteredFlows ==
  ASSUME TypeOK, OneFlow, NEW r \in Runs, ChildUnregistered(r)
  PROVE  /\ flows' \subseteq Flow /\ OneFlow'
         /\ \A h \in flows' : \E f \in flows :
              /\ h.run = f.run /\ h.ok = f.ok /\ h.saw = f.saw
              /\ h.pc = f.pc \/ (f.run = r /\ f.pc = "settle" /\ h.pc = "read")
<1> DEFINE m == [f \in flows |->
                   IF f.run = r /\ f.pc = "settle" THEN [f EXCEPT !.pc = "read"] ELSE f]
<1>1. flows' = { m[f] : f \in flows }
  BY DEF ChildUnregistered
<1>2. \A f \in flows : /\ m[f] \in Flow /\ m[f].run = f.run
                       /\ m[f].ok = f.ok /\ m[f].saw = f.saw
                       /\ \/ m[f].pc = f.pc
                          \/ f.run = r /\ f.pc = "settle" /\ m[f].pc = "read"
  BY DEF TypeOK, Flow
<1> HIDE DEF m
<1>3. flows' \subseteq Flow /\ OneFlow'
  BY <1>1, <1>2, RemadeFlows DEF TypeOK
<1> QED BY <1>1, <1>2, <1>3

LEMMA AttemptFlows ==
  ASSUME TypeOK, OneFlow, NEW r \in Runs, NextAttempt(r)
  PROVE  /\ flows' \subseteq Flow /\ OneFlow'
         /\ \A h \in flows' : \E f \in flows :
              /\ h.run = f.run /\ h.ok = f.ok /\ h.pc = f.pc
              /\ h.saw = "active" => f.saw = "active" /\ f.run # r
<1> DEFINE m == [f \in flows |->
                   IF f.run = r /\ f.saw = "active" THEN [f EXCEPT !.saw = "earlier"] ELSE f]
<1>1. flows' = { m[f] : f \in flows }
  BY DEF NextAttempt
<1>2. \A f \in flows : /\ m[f] \in Flow /\ m[f].run = f.run
                       /\ m[f].ok = f.ok /\ m[f].pc = f.pc
                       /\ m[f].saw = "active" => f.saw = "active" /\ f.run # r
  BY DEF TypeOK, Flow
<1> HIDE DEF m
<1>3. flows' \subseteq Flow /\ OneFlow'
  BY <1>1, <1>2, RemadeFlows DEF TypeOK
<1> QED BY <1>1, <1>2, <1>3

(* The end of a run is noted, and at most one flow started.                *)
LEMMA ConcludeCore ==
  ASSUME Core, NEW r \in Runs, ~ Unknown(r), NEW by \in {"event", "wait"}, Conclude(r, by)
  PROVE  /\ runs' \in Registry /\ file' \in Registry /\ flows' \subseteq Flow
         /\ \A q \in Runs : Sound(runs'[q]) /\ Sound(file'[q])
         /\ FlowsTook' /\ OneFlow'
         /\ \A q \in Runs \ {r} : runs'[q] = runs[q] /\ file'[q] \in {file[q], runs[q]}
         /\ \A f \in flows' : f \in flows \/ (f = Started(r, by) /\ MayBegin(runs[r]))
         /\ \/ UNCHANGED <<runs, file, flows>>
            \/ /\ file' = runs' /\ Present(runs[r]) /\ Present(runs'[r])
               /\ runs[r].handled => runs'[r].handled
<1>1. CASE ~ Present(runs[r])
  <2>1. UNCHANGED <<runs, file, flows>>
    BY <1>1 DEF Conclude
  <2> QED BY <2>1 DEF Core, TypeOK, FileSound, FlowsTook, OneFlow, Taken, Sound
<1>2. CASE Present(runs[r])
  <2> DEFINE e == [runs[r] EXCEPT !.ended = TRUE]
             h == [e EXCEPT !.handled = TRUE]
  <2> HIDE DEF e, h
  <2>1. runs[r] \in Entry /\ runs \in Registry
    BY <1>2, PresentEntry DEF Core, TypeOK
  <2>2. /\ e \in Entry /\ e.ended
        /\ e.handled = runs[r].handled /\ e.completed = runs[r].completed
    BY <2>1, EndedEntry DEF e
  <2>3. Sound(e)
    BY <1>2, <2>2 DEF Sound, Core, TypeOK
  <2>4. Ended(runs, r) = [runs EXCEPT ![r] = e]
    BY <2>1 DEF Ended, e
  <2>5. CASE MayBegin(runs[r])
    <3>1. h \in Entry /\ h.ended /\ h.handled /\ ~ h.completed
      BY <2>2, <2>5, HandledEntry DEF MayBegin, h
    <3>2. [Ended(runs, r) EXCEPT ![r].handled = TRUE] = [runs EXCEPT ![r] = h]
      BY <2>1, <2>4 DEF Registry, h
    <3>3. Persist([runs EXCEPT ![r] = h]) /\ flows' = flows \cup {Started(r, by)}
      BY <1>2, <2>5, <3>2 DEF Conclude
    <3>4. Sound(h) /\ Taken(h) /\ Present(h)
      BY <3>1, EntryFields DEF Sound, Taken
    <3>5. \A f \in flows : f.run # r
      BY <1>2, <2>5 DEF Core, FlowsTook, Taken, MayBegin
    <3>6. /\ runs' \in Registry /\ file' = runs' /\ runs'[r] = h
          /\ \A q \in Runs \ {r} : runs'[q] = runs[q]
      BY <2>1, <3>1, <3>3, Put
    <3>7. Started(r, by) \in Flow /\ Started(r, by).run = r
      BY StartedFlow
    <3>8. FlowsTook'
      BY <3>3, <3>4, <3>6, <3>7 DEF FlowsTook, Core, TypeOK, Flow
    <3>9. OneFlow'
      BY <3>3, <3>5, <3>7 DEF OneFlow, Core
    <3> QED
      BY <1>2, <2>5, <3>1, <3>3, <3>4, <3>6, <3>7, <3>8, <3>9 DEF Core, TypeOK, Sound
  <2>6. CASE ~ MayBegin(runs[r])
    <3>1. Persist([runs EXCEPT ![r] = e]) /\ flows' = flows
      BY <1>2, <2>4, <2>6 DEF Conclude
    <3>2. /\ runs' \in Registry /\ file' = runs' /\ runs'[r] = e
          /\ \A q \in Runs \ {r} : runs'[q] = runs[q]
      BY <2>1, <2>2, <3>1, Put
    <3>3. Taken(runs[r]) => Taken(e)
      BY <1>2, <2>2 DEF Taken
    <3>4. FlowsTook'
      BY <3>1, <3>2, <3>3 DEF FlowsTook, Core, TypeOK, Flow
    <3>5. Present(e)
      BY <2>2, EntryFields
    <3> QED
      BY <1>2, <2>2, <2>3, <3>1, <3>2, <3>4, <3>5 DEF Core, TypeOK, Sound, OneFlow
  <2> QED BY <2>5, <2>6
<1> QED BY <1>1, <1>2

-----------------------------------------------------------------------------
(* Core.                                                                   *)

LEMMA CoreInit == Init => Core
<1> SUFFICES ASSUME Init PROVE Core
  OBVIOUS
<1>1. \A r \in Runs : runs[r] = Absent /\ file[r] = Absent
  BY DEF Init
<1>2. runs \in Registry /\ file \in Registry
  BY DEF Init, Registry
<1>3. TypeOK
  <2>1. /\ sweep \in [cur : Runs \cup {None}, mutated : BOOLEAN]
        /\ sweeper \in BOOLEAN /\ up \in BOOLEAN
    BY DEF Init, NoSweep
  <2>2. crashes \in 0..MaxCrashes
    BY ConfigAssumption DEF Init
  <2>3. /\ flows \subseteq Flow /\ session \subseteq Runs /\ doubted \subseteq Runs
        /\ wait \in [Runs -> {"none", "asked", "answered", "failed"}]
        /\ child \in [Runs -> ChildPc] /\ told \in [Runs -> 0..2]
    BY DEF Init, ChildPc
  <2> QED BY <1>1, <1>2, <2>1, <2>2, <2>3, AbsentSound DEF TypeOK
<1> QED
  BY <1>1, <1>3, AbsentSound
  DEF Init, Core, FileSound, FlowsTook, OneFlow, UnknownUntouched, DownIsQuiet

(* Steps that leave the entries and the flows alone.                       *)
LEMMA QuietCore ==
  ASSUME Core, TypeOK', UNCHANGED <<runs, file, flows, told>>,
         \A q \in Runs : Unknown(q)' => Unknown(q),
         DownIsQuiet'
  PROVE  Core'
BY DEF Core, FileSound, FlowsTook, OneFlow, UnknownUntouched

(* Children that start, end, or are dropped.                               *)
LEMMA ChildCore ==
  ASSUME Core, UNCHANGED <<up, wait>>,
         \A q \in Runs : /\ child'[q] = "none" <=> child[q] = "none"
                         /\ child[q] = "lost" => child'[q] = "lost"
  PROVE  DownIsQuiet' /\ \A q \in Runs : Unknown(q)' => Unknown(q)
BY DEF Core, DownIsQuiet, Unknown

LEMMA SpawnCore == ASSUME Core, NEW r \in Runs, Spawn(r) PROVE Core'
<1>1. TypeOK'
  BY DEF Core, TypeOK, Spawn, ChildPc
<1>2. \A q \in Runs : Unknown(q)' => Unknown(q)
  BY DEF Core, TypeOK, Spawn, Unknown
<1>3. DownIsQuiet'
  BY DEF Spawn, DownIsQuiet
<1> QED BY <1>1, <1>2, <1>3, QuietCore DEF Spawn

LEMMA RegisterCore == ASSUME Core, NEW r \in Runs, Register(r) PROVE Core'
<1> DEFINE e == [present |-> TRUE, ended |-> FALSE, handled |-> FALSE, completed |-> FALSE]
<1>1. e \in Entry /\ Sound(e)
  BY DEF Entry, Sound
<1> HIDE DEF e
<1>2. /\ runs' \in Registry /\ file' = runs' /\ runs'[r] = e
      /\ \A q \in Runs \ {r} : runs'[q] = runs[q]
  <2>1. Persist([runs EXCEPT ![r] = e])
    BY DEF Register, e
  <2> QED BY <1>1, <2>1, Put DEF Core, TypeOK
<1>3. Unknown(r) /\ \A f \in flows : f.run # r
  BY DEF Register, Unknown, Core, UnknownUntouched
<1>4. /\ wait' = [wait EXCEPT ![r] = "asked"]
      /\ sweeper' \in BOOLEAN
      /\ UNCHANGED <<up, flows, sweep, child, session, crashes, told, doubted>>
  BY DEF Register, Core, TypeOK
<1>5. TypeOK'
  BY <1>1, <1>2, <1>4 DEF Core, TypeOK, Sound
<1>6. FileSound'
  BY <1>1, <1>2 DEF Core, TypeOK, FileSound, Sound
<1>7. FlowsTook'
  BY <1>2, <1>3, <1>4 DEF Core, TypeOK, FlowsTook, Flow
<1>8. OneFlow' /\ DownIsQuiet'
  BY <1>4 DEF Core, OneFlow, DownIsQuiet
<1>9. UnknownUntouched'
  <2> SUFFICES ASSUME NEW q \in Runs, Unknown(q)'
               PROVE  /\ runs'[q] = Absent /\ file'[q] = Absent /\ told'[q] = 0
                      /\ \A f \in flows' : f.run # q
    BY DEF UnknownUntouched
  <2>1. q # r
    BY <1>4 DEF Register, Unknown, Core, TypeOK
  <2>2. Unknown(q)
    BY <1>4, <2>1 DEF Unknown, Core, TypeOK
  <2> QED BY <1>2, <1>4, <2>1, <2>2 DEF Core, UnknownUntouched
<1> QED BY <1>5, <1>6, <1>7, <1>8, <1>9 DEF Core

LEMMA ChildStartsCore == ASSUME Core, NEW r \in Runs, ChildStarts(r) PROVE Core'
<1>1. TypeOK'
  BY DEF Core, TypeOK, ChildStarts, ChildPc
<1>2. DownIsQuiet' /\ \A q \in Runs : Unknown(q)' => Unknown(q)
  BY ChildCore DEF ChildStarts, Core, TypeOK
<1> QED BY <1>1, <1>2, QuietCore DEF ChildStarts

(* An attempt ends or begins: the flows change where they stand.           *)
LEMMA AttemptCore ==
  ASSUME Core, NEW r \in Runs, ChildUnregistered(r) \/ NextAttempt(r) PROVE Core'
<1>1. /\ UNCHANGED <<up, runs, file, wait, sweeper, sweep, session, crashes, told, doubted>>
      /\ child' \in [Runs -> ChildPc]
  BY DEF Core, TypeOK, ChildUnregistered, NextAttempt, ChildPc
<1>2. DownIsQuiet' /\ \A q \in Runs : Unknown(q)' => Unknown(q)
  BY ChildCore DEF ChildUnregistered, NextAttempt, Core, TypeOK, Active
<1>3. /\ flows' \subseteq Flow /\ OneFlow'
      /\ \A h \in flows' : \E f \in flows : h.run = f.run
  BY UnregisteredFlows, AttemptFlows DEF Core
<1>4. TypeOK' /\ FileSound'
  BY <1>1, <1>3 DEF Core, TypeOK, FileSound
<1>5. FlowsTook'
  BY <1>1, <1>3 DEF Core, FlowsTook
<1>6. UnknownUntouched'
  BY <1>1, <1>2, <1>3 DEF Core, UnknownUntouched
<1> QED BY <1>2, <1>3, <1>4, <1>5, <1>6 DEF Core

LEMMA WaitFailsCore == ASSUME Core, NEW r \in Runs, WaitFails(r) PROVE Core'
<1>1. TypeOK'
  BY DEF Core, TypeOK, WaitFails
<1>2. \A q \in Runs : Unknown(q)' => Unknown(q)
  BY DEF Core, TypeOK, WaitFails, Unknown
<1>3. DownIsQuiet'
  BY DEF Core, DownIsQuiet, WaitFails
<1> QED BY <1>1, <1>2, <1>3, QuietCore DEF WaitFails

(* What a run that is concluded leaves of the invariant.                   *)
LEMMA ConcludedCore ==
  ASSUME Core, NEW r \in Runs, ~ Unknown(r), NEW by \in {"event", "wait"}, Conclude(r, by),
         wait' \in [Runs -> {"none", "asked", "answered", "failed"}],
         child' \in [Runs -> ChildPc],
         UNCHANGED <<up, sweeper, sweep, session, crashes, told, doubted>>,
         \A q \in Runs : Unknown(q)' => Unknown(q),
         DownIsQuiet'
  PROVE  Core'
<1>1. /\ runs' \in Registry /\ file' \in Registry /\ flows' \subseteq Flow
      /\ \A q \in Runs : Sound(runs'[q]) /\ Sound(file'[q])
      /\ FlowsTook' /\ OneFlow'
      /\ \A q \in Runs \ {r} : runs'[q] = runs[q] /\ file'[q] \in {file[q], runs[q]}
      /\ \A f \in flows' : f \in flows \/ (f = Started(r, by) /\ MayBegin(runs[r]))
  BY ConcludeCore
<1>2. TypeOK'
  BY <1>1 DEF Core, TypeOK, Sound
<1>3. FileSound'
  BY <1>1 DEF FileSound
<1>4. UnknownUntouched'
  <2> SUFFICES ASSUME NEW q \in Runs, Unknown(q)'
               PROVE  /\ runs'[q] = Absent /\ file'[q] = Absent /\ told'[q] = 0
                      /\ \A f \in flows' : f.run # q
    BY DEF UnknownUntouched
  <2>1. Unknown(q) /\ q # r
    OBVIOUS
  <2>2. Started(r, by).run = r
    BY StartedFlow
  <2> QED BY <1>1, <2>1, <2>2 DEF Core, UnknownUntouched
<1> QED BY <1>1, <1>2, <1>3, <1>4 DEF Core

LEMMA LifecycleStartCore ==
  ASSUME Core, NEW r \in Runs, LifecycleStart(r) PROVE Core'
<1>1. UNCHANGED <<runs, flows, up, wait, sweeper, sweep, child, session, crashes, told, doubted>>
      /\ (file' = file \/ file' = runs)
  BY DEF LifecycleStart, Persist
<1>2. TypeOK'
  BY <1>1 DEF Core, TypeOK
<1>3. FileSound'
  BY <1>1 DEF Core, FileSound, TypeOK, Sound
<1>4. FlowsTook'
  BY <1>1 DEF Core, FlowsTook
<1>5. UnknownUntouched' /\ OneFlow' /\ DownIsQuiet'
  BY <1>1 DEF Core, UnknownUntouched, OneFlow, DownIsQuiet, Unknown
<1> QED BY <1>2, <1>3, <1>4, <1>5 DEF Core

(* A child may end before it is registered: no entry learns of that.       *)
LEMMA LifecycleEndCore ==
  ASSUME Core, NEW r \in Runs, LifecycleEnd(r) PROVE Core'
<1>1. /\ child' \in [Runs -> ChildPc]
      /\ UNCHANGED <<up, wait, sweeper, sweep, session, crashes, told, doubted>>
      /\ Conclude(r, "event")
  BY DEF LifecycleEnd, Core, TypeOK, ChildPc
<1>2. DownIsQuiet' /\ \A q \in Runs : Unknown(q)' => Unknown(q)
  BY ChildCore DEF LifecycleEnd, Core, TypeOK
<1>3. CASE Unknown(r)
  <2>1. UNCHANGED <<runs, file, flows>>
    BY <1>1, <1>3, AbsentSound DEF Core, UnknownUntouched, Conclude
  <2>2. TypeOK'
    BY <1>1, <2>1 DEF Core, TypeOK
  <2> QED BY <1>1, <1>2, <2>1, <2>2, QuietCore
<1>4. CASE ~ Unknown(r)
  BY <1>1, <1>2, <1>4, ConcludedCore DEF Core, TypeOK
<1> QED BY <1>3, <1>4

LEMMA WaitReturnsCore ==
  ASSUME Core, NEW r \in Runs, WaitReturns(r) PROVE Core'
<1>1. /\ wait' \in [Runs -> {"none", "asked", "answered", "failed"}]
      /\ UNCHANGED <<up, sweeper, sweep, child, session, crashes, told, doubted>>
      /\ Conclude(r, "wait")
  BY DEF WaitReturns, Core, TypeOK
<1>2. \A q \in Runs : Unknown(q)' => Unknown(q)
  BY DEF Core, TypeOK, WaitReturns, Unknown
<1>3. DownIsQuiet'
  BY <1>1 DEF Core, DownIsQuiet
<1>4. CASE Unknown(r)
  <2>1. UNCHANGED <<runs, file, flows>>
    BY <1>1, <1>4, AbsentSound DEF Core, UnknownUntouched, Conclude
  <2>2. TypeOK'
    BY <1>1, <2>1 DEF Core, TypeOK
  <2> QED BY <1>1, <1>2, <1>3, <2>1, <2>2, QuietCore
<1>5. CASE ~ Unknown(r)
  BY <1>1, <1>2, <1>3, <1>5, ConcludedCore DEF Core, TypeOK
<1> QED BY <1>4, <1>5

(* A flow that goes on, with what it does to the child and the requester.  *)
LEMMA MoveCore ==
  ASSUME Core, NEW f \in flows, NEW g \in Flow, g.run = f.run, Step(f, g),
         UNCHANGED <<up, runs, file, wait, sweeper, sweep, crashes>>,
         child' \in [Runs -> ChildPc], session' \subseteq Runs, doubted' \subseteq Runs,
         \A q \in Runs : child'[q] = child[q] \/ child'[q] = "lost",
         \A q \in Runs : child[q] = "none" => child'[q] = "none",
         told' \in [Runs -> 0..2],
         \A q \in Runs \ {f.run} : told'[q] = told[q]
  PROVE  Core'
<1>1. /\ flows' \subseteq Flow /\ OneFlow'
      /\ \A h \in flows' : h = g \/ (h \in flows /\ h.run # f.run)
  BY StepFlows DEF Core, TypeOK
<1>2. TypeOK'
  BY <1>1 DEF Core, TypeOK
<1>3. FileSound' /\ FlowsTook'
  BY <1>1 DEF Core, FileSound, FlowsTook
<1>4. DownIsQuiet' /\ \A q \in Runs : Unknown(q)' => Unknown(q)
  BY DEF Core, DownIsQuiet, Unknown
<1>5. UnknownUntouched'
  BY <1>1, <1>4 DEF Core, UnknownUntouched
<1> QED BY <1>1, <1>2, <1>3, <1>4, <1>5 DEF Core

(* Every step of a flow but its last is such a move: to g.                 *)
LEMMA ReplyReadMove ==
  ASSUME TypeOK, NEW f \in flows, ReplyRead(f)
  PROVE  \E g \in Flow : /\ Step(f, g) /\ g.run = f.run /\ g.saw = f.saw
                         /\ f.pc = "read" /\ g.pc = "send" /\ g.ok = f.ok
<1> DEFINE g == [f EXCEPT !.pc = "send"]
<1>1. g \in Flow /\ g.run = f.run /\ g.saw = f.saw /\ g.pc = "send" /\ g.ok = f.ok
  BY DEF TypeOK, Flow
<1>2. Step(f, g) /\ f.pc = "read"
  BY DEF ReplyRead
<1> QED BY <1>1, <1>2

LEMMA DoneMove ==
  ASSUME TypeOK, NEW f \in flows, NEW ok \in BOOLEAN, NEW delete \in BOOLEAN,
         Done(f, ok, delete)
  PROVE  \E g \in Flow : /\ Step(f, g) /\ g.run = f.run /\ g.saw = f.saw /\ g.ok = ok
                         /\ g.pc = IF delete THEN "closing" ELSE "final"
<1> DEFINE pc == IF delete THEN "closing" ELSE "final"
           g == [f EXCEPT !.pc = pc, !.ok = ok]
<1>1. pc \in {"closing", "final"} /\ pc = IF delete THEN "closing" ELSE "final"
  OBVIOUS
<1>2. Step(f, g)
  BY DEF Done
<1> HIDE DEF pc
<1>3. g \in Flow /\ g.run = f.run /\ g.saw = f.saw /\ g.ok = ok /\ g.pc = pc
  BY <1>1 DEF TypeOK, Flow
<1> QED BY <1>1, <1>2, <1>3

LEMMA CloseMove ==
  ASSUME TypeOK, NEW f \in flows, Close(f)
  PROVE  \E g \in Flow : /\ Step(f, g) /\ g.run = f.run /\ g.saw = f.saw
                         /\ f.pc = "closing" /\ g.pc = "final" /\ g.ok = f.ok
<1> DEFINE g == [f EXCEPT !.pc = "final"]
<1>1. g \in Flow /\ g.run = f.run /\ g.saw = f.saw /\ g.pc = "final" /\ g.ok = f.ok
  BY DEF TypeOK, Flow
<1>2. Step(f, g) /\ f.pc = "closing"
  BY DEF Close
<1> QED BY <1>1, <1>2

LEMMA ReplyReadCore == ASSUME Core, NEW f \in flows, ReplyRead(f) PROVE Core'
BY ReplyReadMove, MoveCore DEF ReplyRead, Core, TypeOK

LEMMA DeferredCore == ASSUME Core, NEW f \in flows, Deferred(f) PROVE Core'
BY DoneMove, MoveCore DEF Deferred, Core, TypeOK

(* What telling does to the history.                                       *)
LEMMA TellType ==
  ASSUME TypeOK, NEW r \in Runs,
         told' = [told EXCEPT ![r] = IF @ < 2 THEN @ + 1 ELSE @]
  PROVE  /\ told' \in [Runs -> 0..2] /\ told'[r] > 0
         /\ told[r] = 0 => told'[r] = 1
         /\ \A q \in Runs \ {r} : told'[q] = told[q]
BY DEF TypeOK

LEMMA SentCore == ASSUME Core, NEW f \in flows, Sent(f) PROVE Core'
<1>1. f.run \in Runs /\ (CleanupOf[f.run] = "delete") \in BOOLEAN
  BY DEF Core, TypeOK, Flow
<1>2. /\ told' \in [Runs -> 0..2]
      /\ \A q \in Runs \ {f.run} : told'[q] = told[q]
  BY <1>1, TellType DEF Sent, Core
<1>3. PICK g \in Flow : Step(f, g) /\ g.run = f.run
  BY <1>1, DoneMove DEF Sent, Core
<1> QED BY <1>2, <1>3, MoveCore DEF Sent, Core, TypeOK

LEMMA FlowThrowsCore ==
  ASSUME Core, NEW f \in flows, NEW heard \in BOOLEAN, FlowThrows(f, heard) PROVE Core'
<1>1. f.run \in Runs /\ (CleanupOf[f.run] = "delete") \in BOOLEAN
  BY DEF Core, TypeOK, Flow
<1>2. /\ told' \in [Runs -> 0..2]
      /\ \A q \in Runs \ {f.run} : told'[q] = told[q]
  BY <1>1, TellType DEF FlowThrows, Core, TypeOK
<1>3. doubted' \subseteq Runs
  BY <1>1 DEF FlowThrows, Core, TypeOK
<1>4. PICK g \in Flow : Step(f, g) /\ g.run = f.run
  BY <1>1, DoneMove DEF FlowThrows, Core
<1> QED BY <1>2, <1>3, <1>4, MoveCore DEF FlowThrows, Core, TypeOK

(* The deletion of a session may drop a child that waits.                  *)
LEMMA DeleteSessionTypes ==
  ASSUME TypeOK, NEW r \in Runs, DeleteSession(r)
  PROVE  /\ child' \in [Runs -> ChildPc] /\ session' \subseteq Runs
         /\ \A q \in Runs : /\ child'[q] = child[q] \/ child'[q] = "lost"
                            /\ child[q] = "none" => child'[q] = "none"
                            /\ child'[q] = "none" => child[q] = "none"
BY DEF TypeOK, DeleteSession, ChildPc

LEMMA CloseCore == ASSUME Core, NEW f \in flows, Close(f) PROVE Core'
<1>1. f.run \in Runs /\ DeleteSession(f.run)
  BY DEF Core, TypeOK, Flow, Close
<1>2. /\ child' \in [Runs -> ChildPc] /\ session' \subseteq Runs
      /\ \A q \in Runs : child'[q] = child[q] \/ child'[q] = "lost"
      /\ \A q \in Runs : child[q] = "none" => child'[q] = "none"
  BY <1>1, DeleteSessionTypes DEF Core
<1>3. PICK g \in Flow : Step(f, g) /\ g.run = f.run
  BY CloseMove DEF Core
<1> QED BY <1>2, <1>3, MoveCore DEF Close, Core, TypeOK

(* What ends a flow may set its entry, or take it out.                     *)
LEMMA FinalizeCore == ASSUME Core, NEW f \in flows, Finalize(f) PROVE Core'
<1> DEFINE r == f.run
<1>1. /\ r \in Runs /\ ~ Unknown(r)
      /\ flows' = flows \ {f}
      /\ \A h \in flows' : h \in flows /\ h.run # r
      /\ UNCHANGED <<up, wait, sweeper, sweep, child, session, crashes, told, doubted>>
  <2>1. r \in Runs
    BY DEF Core, TypeOK, Flow
  <2> QED BY <2>1 DEF Core, UnknownUntouched, OneFlow, Finalize
<1>2. \E e \in Entry \cup {Absent} :
        /\ Sound(e)
        /\ \/ UNCHANGED <<runs, file>>
           \/ Persist([runs EXCEPT ![r] = e])
  <2>1. CASE ~ Present(runs[r])
    <3>1. UNCHANGED <<runs, file>>
      BY <2>1 DEF Finalize
    <3>2. Absent \in Entry \cup {Absent} /\ Sound(Absent)
      BY AbsentSound
    <3> HIDE DEF r
    <3> WITNESS Absent \in Entry \cup {Absent}
    <3> QED BY <3>1, <3>2
  <2>2. CASE Present(runs[r])
    <3>1. runs[r] \in Entry /\ Taken(runs[r]) /\ runs \in Registry
      BY <1>1, <2>2, PresentEntry DEF Core, TypeOK, FlowsTook
    <3>2. CASE ~ f.ok
      <4> DEFINE e == [runs[r] EXCEPT !.handled = FALSE]
      <4>1. Persist([runs EXCEPT ![r] = e])
        BY <2>2, <3>1, <3>2 DEF Finalize, Registry
      <4>2. e \in Entry /\ e.handled = FALSE /\ e.completed = runs[r].completed
        BY <3>1, ReopenedEntry
      <4> HIDE DEF e
      <4>3. Sound(e)
        BY <2>2, <3>1, <4>2 DEF Sound, Taken
      <4> QED BY <4>1, <4>2, <4>3
    <3>3. CASE f.ok /\ CleanupOf[r] = "delete"
      BY <2>2, <3>3, AbsentSound DEF Finalize
    <3>4. CASE f.ok /\ CleanupOf[r] # "delete"
      <4> DEFINE e == [runs[r] EXCEPT !.completed = TRUE]
      <4>1. Persist([runs EXCEPT ![r] = e])
        BY <2>2, <3>1, <3>4 DEF Finalize, Registry
      <4>2. e \in Entry /\ e.ended = runs[r].ended /\ e.handled = runs[r].handled
        BY <3>1, CompletedEntry
      <4> HIDE DEF e
      <4>3. Sound(e)
        BY <2>2, <3>1, <4>2 DEF Sound, Taken
      <4> QED BY <4>1, <4>2, <4>3
    <3> QED BY <3>2, <3>3, <3>4
  <2> QED BY <2>1, <2>2
<1> HIDE DEF r
<1>3. /\ runs' \in Registry /\ file' \in Registry
      /\ \A q \in Runs : Sound(runs'[q]) /\ Sound(file'[q])
      /\ \A q \in Runs \ {r} : runs'[q] = runs[q] /\ file'[q] \in {file[q], runs[q]}
  <2>1. CASE UNCHANGED <<runs, file>>
    BY <2>1 DEF Core, TypeOK, FileSound, Sound
  <2>2. ASSUME NEW e \in Entry \cup {Absent}, Sound(e), Persist([runs EXCEPT ![r] = e])
        PROVE  <1>3!1 /\ <1>3!2 /\ <1>3!3
    <3>1. /\ runs' \in Registry /\ file' = runs' /\ runs'[r] = e
          /\ \A q \in Runs \ {r} : runs'[q] = runs[q]
      BY <1>1, <2>2, Put DEF Core, TypeOK
    <3> QED BY <2>2, <3>1 DEF Core, TypeOK, Sound
  <2> QED BY <1>2, <2>1, <2>2
<1>4. TypeOK'
  BY <1>1, <1>3 DEF Core, TypeOK, Sound
<1>5. FileSound' /\ OneFlow' /\ DownIsQuiet'
  BY <1>1, <1>3 DEF Core, FileSound, OneFlow, DownIsQuiet
<1>6. FlowsTook'
  BY <1>1, <1>3 DEF Core, FlowsTook, TypeOK, Flow
<1>7. UnknownUntouched'
  BY <1>1, <1>3 DEF Core, UnknownUntouched, Unknown
<1> QED BY <1>4, <1>5, <1>6, <1>7 DEF Core

LEMMA SweepDeletesCore ==
  ASSUME Core, NEW r \in Runs, SweepDeletes(r) PROVE Core'
<1>1. /\ runs' \in Registry /\ runs'[r] = Absent
      /\ \A q \in Runs \ {r} : runs'[q] = runs[q]
  BY DEF SweepDeletes, Core, TypeOK, Registry
<1>2. /\ sweep' \in [cur : Runs \cup {None}, mutated : BOOLEAN]
      /\ UNCHANGED <<up, file, wait, flows, sweeper, child, session, crashes, told, doubted>>
  BY DEF SweepDeletes
<1>3. TypeOK'
  BY <1>1, <1>2, AbsentSound DEF Core, TypeOK
<1>4. FileSound' /\ OneFlow' /\ DownIsQuiet'
  BY <1>2 DEF Core, FileSound, OneFlow, DownIsQuiet
<1>5. FlowsTook'
  BY <1>1, <1>2, AbsentSound DEF Core, FlowsTook, TypeOK, Flow
<1>6. UnknownUntouched'
  BY <1>1, <1>2 DEF Core, UnknownUntouched, Unknown
<1> QED BY <1>3, <1>4, <1>5, <1>6 DEF Core

LEMMA SweepResumesCore == ASSUME Core, SweepResumes PROVE Core'
<1>1. sweep.cur \in Runs /\ DeleteSession(sweep.cur)
  BY DEF SweepResumes, Core, TypeOK
<1>2. /\ child' \in [Runs -> ChildPc] /\ session' \subseteq Runs
      /\ \A q \in Runs : /\ child'[q] = child[q] \/ child'[q] = "lost"
                         /\ child[q] = "none" => child'[q] = "none"
                         /\ child'[q] = "none" => child[q] = "none"
  BY <1>1, DeleteSessionTypes DEF Core
<1>3. /\ UNCHANGED <<up, runs, file, wait, flows, sweeper, crashes, told, doubted>>
      /\ sweep' \in [cur : Runs \cup {None}, mutated : BOOLEAN]
  BY DEF SweepResumes, Core, TypeOK
<1>4. TypeOK'
  BY <1>2, <1>3 DEF Core, TypeOK
<1>5. DownIsQuiet' /\ \A q \in Runs : Unknown(q)' => Unknown(q)
  BY <1>2, <1>3, ChildCore
<1> QED BY <1>3, <1>4, <1>5, QuietCore

LEMMA SweepEndsCore == ASSUME Core, SweepEnds PROVE Core'
<1>1. /\ UNCHANGED <<up, runs, wait, flows, child, session, crashes, told, doubted>>
      /\ file' = file \/ file' = runs
  BY DEF SweepEnds, Persist
<1>2. /\ sweeper' \in BOOLEAN
      /\ sweep' \in [cur : Runs \cup {None}, mutated : BOOLEAN]
  BY DEF SweepEnds, NoSweep
<1>3. TypeOK'
  BY <1>1, <1>2 DEF Core, TypeOK
<1>4. FileSound'
  BY <1>1 DEF Core, FileSound, TypeOK, Sound
<1>5. FlowsTook'
  BY <1>1 DEF Core, FlowsTook
<1>6. UnknownUntouched' /\ OneFlow' /\ DownIsQuiet'
  BY <1>1 DEF Core, UnknownUntouched, OneFlow, DownIsQuiet, Unknown
<1> QED BY <1>3, <1>4, <1>5, <1>6 DEF Core

LEMMA CrashCore == ASSUME Core, Crash PROVE Core'
<1>1. \A r \in Runs : runs'[r] = Absent /\ (child'[r] = "none" \/ child'[r] = "lost")
  BY DEF Crash
<1>2. /\ runs' \in Registry /\ child' \in [Runs -> ChildPc]
      /\ wait' \in [Runs -> {"none", "asked", "answered", "failed"}]
      /\ sweep' \in [cur : Runs \cup {None}, mutated : BOOLEAN]
      /\ crashes' \in 0..MaxCrashes
  <2>1. runs' \in Registry
    BY DEF Crash, Registry
  <2>2. crashes' \in 0..MaxCrashes
    BY ConfigAssumption DEF Crash, Core, TypeOK
  <2> QED BY <2>1, <2>2 DEF Crash, ChildPc, NoSweep
<1>3. /\ up' = FALSE /\ flows' = {} /\ sweeper' = FALSE
      /\ UNCHANGED <<file, session, told, doubted>>
  BY DEF Crash
<1>4. TypeOK'
  BY <1>1, <1>2, <1>3, AbsentSound DEF Core, TypeOK
<1>5. FileSound' /\ FlowsTook' /\ OneFlow' /\ DownIsQuiet'
  BY <1>1, <1>3 DEF Core, FileSound, FlowsTook, OneFlow, DownIsQuiet
<1>6. \A q \in Runs : Unknown(q)' => Unknown(q)
  BY DEF Crash, Unknown
<1>7. UnknownUntouched'
  BY <1>1, <1>3, <1>6 DEF Core, UnknownUntouched
<1> QED BY <1>4, <1>5, <1>7 DEF Core

(* The flows that are resumed had been taken by none.                      *)
LEMMA RestartCore == ASSUME Core, Restart PROVE Core'
<1> DEFINE resumed == { r \in Runs : file[r].present /\ file[r].ended /\ MayBegin(file[r]) }
           Handled(r) == [file[r] EXCEPT !.handled = TRUE]
<1>1. \A r \in Runs : r \in resumed => /\ Handled(r) \in Entry
                                       /\ Sound(Handled(r)) /\ Taken(Handled(r))
  <2> SUFFICES ASSUME NEW r \in Runs, r \in resumed
               PROVE  /\ Handled(r) \in Entry
                      /\ Sound(Handled(r)) /\ Taken(Handled(r))
    OBVIOUS
  <2>1. file[r] \in Entry /\ file[r].ended /\ ~ file[r].completed
    BY PresentEntry DEF Core, TypeOK, MayBegin
  <2>2. /\ Handled(r) \in Entry /\ Handled(r).handled = TRUE
        /\ Handled(r).ended = file[r].ended /\ Handled(r).completed = file[r].completed
    BY <2>1, HandledEntry
  <2> HIDE DEF Handled
  <2> QED BY <2>1, <2>2 DEF Sound, Taken
<1>2. /\ up' = TRUE /\ flows' = { Started(r, "resume") : r \in resumed }
      /\ sweeper' \in BOOLEAN
      /\ UNCHANGED <<sweep, child, session, crashes, told, doubted>>
      /\ ~ up
  BY DEF Restart, Restored
<1>3. runs' = [r \in Runs |-> IF r \in resumed THEN Handled(r) ELSE file[r]] /\ file' = runs'
  BY DEF Restart, Restored, Persist
<1>4. wait' \in [Runs -> {"none", "asked", "answered", "failed"}]
  BY DEF Restart, Restored
<1>5. \A r \in Runs : r \in resumed => Present(file[r])
  BY DEF Present
<1> HIDE DEF resumed, Handled
<1>6. resumed \subseteq Runs
  BY DEF resumed
<1>7. /\ runs' \in Registry
      /\ \A r \in Runs : Sound(runs'[r])
      /\ \A r \in resumed : Taken(runs'[r])
      /\ \A r \in Runs \ resumed : runs'[r] = file[r]
  BY <1>1, <1>3, <1>6 DEF Core, TypeOK, FileSound, Registry
<1>8. /\ flows' \subseteq Flow
      /\ \A f \in flows' : f.run \in resumed /\ f = Started(f.run, "resume")
  BY <1>2, <1>6, StartedFlow
<1>9. TypeOK'
  BY <1>2, <1>3, <1>4, <1>7, <1>8 DEF Core, TypeOK, Sound
<1>10. FileSound' /\ FlowsTook' /\ OneFlow' /\ DownIsQuiet'
  BY <1>2, <1>3, <1>7, <1>8 DEF FileSound, FlowsTook, OneFlow, DownIsQuiet
<1>11. UnknownUntouched'
  <2> SUFFICES ASSUME NEW q \in Runs, Unknown(q)'
               PROVE  /\ runs'[q] = Absent /\ file'[q] = Absent /\ told'[q] = 0
                      /\ \A f \in flows' : f.run # q
    BY DEF UnknownUntouched
  <2>1. child[q] \in {"none", "lost"}
    BY <1>2 DEF Core, DownIsQuiet
  <2>2. Unknown(q)
    BY <1>2, <2>1 DEF Unknown
  <2>3. file[q] = Absent /\ told[q] = 0
    BY <2>2 DEF Core, UnknownUntouched
  <2>4. q \notin resumed
    BY <1>5, <2>3, AbsentSound
  <2> QED BY <1>2, <1>3, <1>7, <1>8, <2>3, <2>4
<1> QED BY <1>9, <1>10, <1>11 DEF Core

LEMMA CoreNext == Core /\ [Next]_vars => Core'
<1> SUFFICES ASSUME Core, [Next]_vars PROVE Core'
  OBVIOUS
<1>1. ASSUME NEW r \in Runs, Spawn(r) PROVE Core'
  BY <1>1, SpawnCore
<1>2. ASSUME NEW r \in Runs, Register(r) PROVE Core'
  BY <1>2, RegisterCore
<1>3. ASSUME NEW r \in Runs, ChildStarts(r) PROVE Core'
  BY <1>3, ChildStartsCore
<1>4. ASSUME NEW r \in Runs, ChildUnregistered(r) \/ NextAttempt(r) PROVE Core'
  BY <1>4, AttemptCore
<1>5. ASSUME NEW r \in Runs, LifecycleStart(r) PROVE Core'
  BY <1>5, LifecycleStartCore
<1>6. ASSUME NEW r \in Runs, LifecycleEnd(r) PROVE Core'
  BY <1>6, LifecycleEndCore
<1>7. ASSUME NEW r \in Runs, WaitReturns(r) PROVE Core'
  BY <1>7, WaitReturnsCore
<1>8. ASSUME NEW r \in Runs, WaitFails(r) PROVE Core'
  BY <1>8, WaitFailsCore
<1>9. ASSUME NEW r \in Runs, SweepDeletes(r) PROVE Core'
  BY <1>9, SweepDeletesCore
<1>10. ASSUME NEW f \in flows, FlowSteps(f) PROVE Core'
  BY <1>10, DeferredCore, ReplyReadCore, SentCore, CloseCore, FinalizeCore
  DEF FlowSteps
<1>11. ASSUME NEW f \in flows, NEW heard \in BOOLEAN, FlowThrows(f, heard) PROVE Core'
  BY <1>11, FlowThrowsCore
<1>12. CASE SweepResumes
  BY <1>12, SweepResumesCore
<1>13. CASE SweepEnds
  BY <1>13, SweepEndsCore
<1>14. CASE Crash
  BY <1>14, CrashCore
<1>15. CASE Restart
  BY <1>15, RestartCore
<1>16. CASE UNCHANGED vars
  BY <1>16
  DEF vars, Core, TypeOK, FileSound, FlowsTook, OneFlow, UnknownUntouched, DownIsQuiet, Unknown
<1> QED
  BY <1>1, <1>2, <1>3, <1>4, <1>5, <1>6, <1>7, <1>8, <1>9, <1>10, <1>11, <1>12, <1>13,
     <1>14, <1>15, <1>16 DEF Next

THEOREM CoreInvariant == Spec => []Core
BY CoreInit, CoreNext, PTL DEF Spec

(* All values are those of the type invariant, and an entry goes through   *)
(* its stages in their order.                                              *)
THEOREM Typing == Spec => []TypeOK
BY CoreInvariant, PTL DEF Core

(* At most one announce flow goes on for a run, whoever asks for it.       *)
THEOREM FlowExclusion == Spec => []OneFlow
BY CoreInvariant, PTL DEF Core

-----------------------------------------------------------------------------
(* What the steps do to the rest of the state.                             *)

(* The end of a run, as it is learnt from the event or from agent.wait.    *)
LEMMA EndFacts ==
  ASSUME Core, NEW r \in Runs, LifecycleEnd(r) \/ WaitReturns(r)
  PROVE  /\ UNCHANGED <<up, sweeper, sweep, session, told, doubted>>
         /\ \A q \in Runs : child'[q] = child[q]
                            \/ /\ child[q] \in {"running", "ended", "quiet"}
                               /\ child'[q] \in {"ended", "over"}
                               /\ child[q] = "quiet" => child'[q] = "over"
         /\ \/ UNCHANGED <<runs, file, flows>>
            \/ /\ file' = runs' /\ Present(runs[r]) /\ Present(runs'[r])
               /\ runs[r].handled => runs'[r].handled
               /\ \A q \in Runs \ {r} : runs'[q] = runs[q]
               /\ \A f \in flows' :
                    \/ f \in flows
                    \/ /\ MayBegin(runs[r])
                       /\ \E by \in {"event", "wait"} : f = Started(r, by)
<1>1. /\ UNCHANGED <<up, sweeper, sweep, session, told, doubted>>
      /\ \A q \in Runs : child'[q] = child[q]
                         \/ /\ child[q] \in {"running", "ended", "quiet"}
                            /\ child'[q] \in {"ended", "over"}
                            /\ child[q] = "quiet" => child'[q] = "over"
  BY DEF LifecycleEnd, WaitReturns, Core, TypeOK
<1>2. PICK by \in {"event", "wait"} : Conclude(r, by)
  BY DEF LifecycleEnd, WaitReturns
<1>3. CASE Unknown(r)
  <2>1. UNCHANGED <<runs, file, flows>>
    BY <1>2, <1>3, AbsentSound DEF Core, UnknownUntouched, Conclude
  <2> QED BY <1>1, <2>1
<1>4. CASE ~ Unknown(r)
  BY <1>1, <1>2, <1>4, ConcludeCore
<1> QED BY <1>3, <1>4

(* The end of a flow.                                                      *)
LEMMA FinalizeFacts ==
  ASSUME Core, NEW f \in flows, Finalize(f)
  PROVE  /\ f.run \in Runs /\ flows' = flows \ {f}
         /\ UNCHANGED <<up, wait, sweeper, sweep, child, session, crashes, told, doubted>>
         /\ \/ UNCHANGED <<runs, file>>
            \/ /\ file' = runs' /\ Present(runs[f.run])
               /\ \A q \in Runs \ {f.run} : runs'[q] = runs[q]
               /\ f.ok /\ Present(runs'[f.run]) => runs'[f.run].handled = runs[f.run].handled
<1> DEFINE r == f.run
<1>1. /\ r \in Runs /\ flows' = flows \ {f}
      /\ UNCHANGED <<up, wait, sweeper, sweep, child, session, crashes, told, doubted>>
  BY DEF Core, TypeOK, Flow, Finalize
<1>2. CASE ~ Present(runs[r])
  <2>1. UNCHANGED <<runs, file>>
    BY <1>2 DEF Finalize
  <2> QED BY <1>1, <2>1
<1>3. CASE Present(runs[r])
  <2>1. runs[r] \in Entry /\ runs \in Registry
    BY <1>1, <1>3, PresentEntry DEF Core, TypeOK
  <2>2. CASE ~ f.ok
    <3>1. /\ file' = runs' /\ \A q \in Runs \ {r} : runs'[q] = runs[q]
      BY <1>3, <2>1, <2>2 DEF Finalize, Registry, Persist
    <3> QED BY <1>1, <1>3, <2>2, <3>1
  <2>3. CASE f.ok /\ CleanupOf[r] = "delete"
    <3>1. /\ file' = runs' /\ runs'[r] = Absent
          /\ \A q \in Runs \ {r} : runs'[q] = runs[q]
      BY <1>1, <1>3, <2>1, <2>3 DEF Finalize, Registry, Persist
    <3> QED BY <1>1, <1>3, <3>1, AbsentSound
  <2>4. CASE f.ok /\ CleanupOf[r] # "delete"
    <3> DEFINE e == [runs[r] EXCEPT !.completed = TRUE]
    <3>1. /\ file' = runs' /\ runs'[r] = e
          /\ \A q \in Runs \ {r} : runs'[q] = runs[q]
      BY <1>1, <1>3, <2>1, <2>4 DEF Finalize, Registry, Persist
    <3>2. e.handled = runs[r].handled
      BY <2>1, CompletedEntry
    <3> HIDE DEF e
    <3> QED BY <1>1, <1>3, <3>1, <3>2
  <2> QED BY <2>2, <2>3, <2>4
<1> QED BY <1>2, <1>3

(* A resumption: what was not taken before stays as it was saved.          *)
LEMMA RestartFacts ==
  ASSUME Core, Restart
  PROVE  /\ ~ up /\ up' /\ file' = runs'
         /\ sweeper' = \E r \in Archived : Present(file[r])
         /\ UNCHANGED <<sweep, child, session, told, doubted>>
         /\ \A r \in Runs :
              \/ runs'[r] = file[r]
              \/ MayBegin(file[r]) /\ runs'[r].handled /\ Present(runs'[r])
         /\ \A f \in flows' : /\ f.run \in Runs /\ f = Started(f.run, "resume")
                              /\ MayBegin(file[f.run])
<1> DEFINE resumed == { r \in Runs : file[r].present /\ file[r].ended /\ MayBegin(file[r]) }
           Handled(r) == [file[r] EXCEPT !.handled = TRUE]
<1>1. \A r \in resumed : Handled(r).handled /\ Present(Handled(r)) /\ MayBegin(file[r])
  <2> SUFFICES ASSUME NEW r \in resumed
               PROVE  Handled(r).handled /\ Present(Handled(r)) /\ MayBegin(file[r])
    OBVIOUS
  <2>1. file[r] \in Entry /\ r \in Runs /\ MayBegin(file[r])
    BY PresentEntry DEF Core, TypeOK, MayBegin
  <2>2. Handled(r) \in Entry /\ Handled(r).handled = TRUE
    BY <2>1, HandledEntry
  <2> HIDE DEF Handled
  <2> QED BY <2>1, <2>2, EntryFields
<1>2. /\ runs' = [r \in Runs |-> IF r \in resumed THEN Handled(r) ELSE file[r]]
      /\ file' = runs'
  BY DEF Restart, Restored, Persist
<1>3. /\ up' = TRUE /\ flows' = { Started(r, "resume") : r \in resumed } /\ ~ up
      /\ sweeper' = \E r \in Archived : Present(file[r])
      /\ UNCHANGED <<sweep, child, session, told, doubted>>
  BY DEF Restart, Restored
<1> HIDE DEF resumed, Handled
<1>4. \A r \in Runs : \/ runs'[r] = file[r]
                      \/ MayBegin(file[r]) /\ runs'[r].handled /\ Present(runs'[r])
  BY <1>1, <1>2
<1>5. \A f \in flows' : f.run \in resumed /\ f = Started(f.run, "resume")
  <2>1. \A r \in resumed : r \in Runs
    BY DEF resumed
  <2> QED BY <1>3, <2>1, StartedFlow
<1>6. resumed \subseteq Runs
  BY DEF resumed
<1> QED BY <1>1, <1>2, <1>3, <1>4, <1>5, <1>6

-----------------------------------------------------------------------------
(* Memory, file and sweeper.                                               *)

LEMMA SavedInit == Init => Durable /\ SweeperRuns
BY AbsentSound DEF Init, Durable, SweeperRuns

LEMMA SavedNext ==
  ASSUME Core, Core', Durable, SweeperRuns, [Next]_vars
  PROVE  Durable' /\ SweeperRuns'
<1> USE DEF Durable, SweeperRuns
<1>1. CASE UNCHANGED <<up, runs, file, sweeper, sweep>>
  BY <1>1
<1>2. ASSUME NEW r \in Runs, \/ Spawn(r) \/ ChildStarts(r) \/ ChildUnregistered(r)
                             \/ NextAttempt(r) \/ WaitFails(r)
      PROVE  UNCHANGED <<up, runs, file, sweeper, sweep>>
  BY <1>2 DEF Spawn, ChildStarts, ChildUnregistered, NextAttempt, WaitFails
<1>3. ASSUME NEW r \in Runs, Register(r) PROVE Durable' /\ SweeperRuns'
  BY <1>3 DEF Register, Persist, Core, TypeOK, Registry
<1>4. ASSUME NEW r \in Runs, LifecycleStart(r) PROVE Durable' /\ SweeperRuns'
  BY <1>4 DEF LifecycleStart, Persist
<1>5. ASSUME NEW r \in Runs, LifecycleEnd(r) \/ WaitReturns(r)
      PROVE  Durable' /\ SweeperRuns'
  BY <1>5, EndFacts
<1>6. ASSUME NEW r \in Runs, SweepDeletes(r) PROVE Durable' /\ SweeperRuns'
  <2>1. /\ runs'[r] = Absent /\ \A q \in Runs \ {r} : runs'[q] = runs[q]
        /\ sweep'.mutated = TRUE /\ UNCHANGED <<up, file, sweeper>>
    BY <1>6 DEF SweepDeletes, Core, TypeOK, Registry
  <2> QED BY <2>1, AbsentSound DEF Core, TypeOK
<1>7. ASSUME NEW f \in flows, Finalize(f) PROVE Durable' /\ SweeperRuns'
  BY <1>7, FinalizeFacts
<1>8. ASSUME NEW f \in flows,
             \/ Deferred(f) \/ ReplyRead(f) \/ Sent(f) \/ Close(f)
             \/ \E heard \in BOOLEAN : FlowThrows(f, heard)
      PROVE  UNCHANGED <<up, runs, file, sweeper, sweep>>
  BY <1>8 DEF Deferred, ReplyRead, Sent, Close, FlowThrows
<1>9. CASE SweepResumes
  <2>1. UNCHANGED <<up, runs, file, sweeper>> /\ sweep'.mutated = sweep.mutated
    BY <1>9 DEF SweepResumes, Core, TypeOK
  <2> QED BY <2>1
<1>10. CASE SweepEnds
  <2>1. /\ UNCHANGED <<up, runs>>
        /\ sweeper' = \E r \in Runs : Present(runs[r])
        /\ IF sweep.mutated THEN file' = runs ELSE file' = file
    BY <1>10 DEF SweepEnds, Persist
  <2> QED BY <2>1
<1>11. CASE Crash
  <2>1. ~ up' /\ \A r \in Runs : runs'[r] = Absent
    BY <1>11 DEF Crash
  <2> QED BY <2>1, AbsentSound
<1>12. CASE Restart
  <2>1. /\ file' = runs' /\ sweeper' = \E r \in Archived : Present(file[r])
        /\ \A r \in Runs : runs'[r] = file[r] \/ MayBegin(file[r])
    BY <1>12, RestartFacts
  <2> QED BY <2>1 DEF MayBegin
<1> QED
  BY <1>1, <1>2, <1>3, <1>4, <1>5, <1>6, <1>7, <1>8, <1>9, <1>10, <1>11, <1>12
  DEF Next, FlowSteps, vars

(* What is in memory is in the file, whatever step a crash follows, but    *)
(* for the removals of a sweep that goes on.                               *)
THEOREM Durability == Spec => []Durable
<1>1. Core /\ Durable /\ SweeperRuns /\ [Next]_vars => (Core /\ Durable /\ SweeperRuns)'
  BY CoreNext, SavedNext
<1> QED BY <1>1, CoreInit, SavedInit, PTL DEF Spec

(* Whatever registers, is swept or resumed, the sweeper runs for what is   *)
(* to be archived.                                                         *)
THEOREM SweeperLives == Spec => []SweeperRuns
<1>1. Core /\ Durable /\ SweeperRuns /\ [Next]_vars => (Core /\ Durable /\ SweeperRuns)'
  BY CoreNext, SavedNext
<1> QED BY <1>1, CoreInit, SavedInit, PTL DEF Spec

-----------------------------------------------------------------------------
(* The requester is told once.                                             *)

LEMMA ToldInit == Init => ToldMarked
BY DEF Init, ToldMarked

(* A move of a flow that tells nobody.                                     *)
LEMMA SilentMove ==
  ASSUME Core, ToldMarked, NEW f \in flows, NEW g \in Flow, g.run = f.run, Step(f, g),
         f.pc \in {"closing", "final"} => g.pc \in {"closing", "final"} /\ g.ok = f.ok,
         UNCHANGED <<runs, file, told, doubted>>
  PROVE  ToldMarked'
<1>1. \A h \in flows' : h = g \/ (h \in flows /\ h.run # f.run)
  BY StepFlows DEF Core, TypeOK
<1> QED BY <1>1 DEF ToldMarked

(* A move of a flow that tells its requester, with or without success.     *)
LEMMA TellingMove ==
  ASSUME Core, ToldMarked, NEW f \in flows, NEW g \in Flow, g.run = f.run, Step(f, g),
         f.pc \in {"read", "send"}, UNCHANGED <<runs, file>>,
         told' = [told EXCEPT ![f.run] = IF @ < 2 THEN @ + 1 ELSE @],
         \/ doubted' = doubted /\ g.ok /\ g.pc \in {"closing", "final"}
         \/ doubted' = doubted \cup {f.run}
  PROVE  ToldMarked'
<1> DEFINE r == f.run
<1>1. r \in Runs
  BY DEF Core, TypeOK, Flow
<1>2. told[r] > 0 => r \in doubted
  BY <1>1 DEF ToldMarked
<1>3. /\ told[r] = 0 => told'[r] = 1
      /\ \A q \in Runs \ {r} : told'[q] = told[q]
  BY <1>1, TellType DEF Core
<1>4. told[r] \in 0..2
  BY <1>1 DEF Core, TypeOK
<1>5. \A h \in flows' : h = g \/ (h \in flows /\ h.run # r)
  BY StepFlows DEF Core, TypeOK
<1>6. /\ Present(runs[r]) => runs[r].handled
      /\ Present(file[r]) => file[r].handled
  BY DEF Core, FlowsTook, Taken
<1> SUFFICES ASSUME NEW q \in Runs, told'[q] > 0, q \notin doubted'
             PROVE  /\ told'[q] = 1
                    /\ Present(runs[q]) => runs[q].handled
                    /\ Present(file[q]) => file[q].handled
                    /\ \A h \in flows' : h.run = q => h.ok /\ h.pc \in {"closing", "final"}
  BY DEF ToldMarked
<1> HIDE DEF r
<1>7. CASE q = r
  <2>1. told[r] = 0 /\ g.ok /\ g.pc \in {"closing", "final"}
    BY <1>2, <1>4, <1>7 DEF r
  <2> QED BY <1>3, <1>5, <1>6, <1>7, <2>1
<1>8. CASE q # r
  <2>1. told[q] > 0 /\ q \notin doubted
    BY <1>3, <1>8
  <2> QED BY <1>3, <1>5, <1>8, <2>1 DEF ToldMarked, r
<1> QED BY <1>7, <1>8

LEMMA ToldNext ==
  ASSUME Core, Core', ToldMarked, [Next]_vars
  PROVE  ToldMarked'
<1>1. CASE UNCHANGED <<runs, file, flows, told, doubted>>
  BY <1>1 DEF ToldMarked
<1>2. ASSUME NEW r \in Runs, Spawn(r) \/ ChildStarts(r) \/ WaitFails(r)
      PROVE  UNCHANGED <<runs, file, flows, told, doubted>>
  BY <1>2 DEF Spawn, ChildStarts, WaitFails
<1>3. ASSUME NEW r \in Runs, Register(r) PROVE ToldMarked'
  <2>1. Unknown(r)
    BY <1>3 DEF Register, Unknown
  <2>2. told[r] = 0
    BY <2>1 DEF Core, UnknownUntouched
  <2>3. /\ file' = runs' /\ \A q \in Runs \ {r} : runs'[q] = runs[q]
        /\ UNCHANGED <<flows, told, doubted>>
    BY <1>3 DEF Register, Persist, Core, TypeOK, Registry
  <2> QED BY <2>2, <2>3 DEF ToldMarked
<1>4. ASSUME NEW r \in Runs, LifecycleStart(r) PROVE ToldMarked'
  BY <1>4 DEF LifecycleStart, Persist, ToldMarked
<1>5. ASSUME NEW r \in Runs, LifecycleEnd(r) \/ WaitReturns(r) PROVE ToldMarked'
  <2>1. CASE UNCHANGED <<runs, file, flows, told, doubted>>
    BY <2>1 DEF ToldMarked
  <2>2. CASE ~ UNCHANGED <<runs, file, flows>>
    <3>1. /\ file' = runs' /\ Present(runs[r]) /\ UNCHANGED <<told, doubted>>
          /\ runs[r].handled => runs'[r].handled
          /\ \A q \in Runs \ {r} : runs'[q] = runs[q]
      BY <1>5, <2>2, EndFacts
    <3>2. \A f \in flows' : f \in flows \/ (f.run = r /\ MayBegin(runs[r]))
      BY <1>5, <2>2, EndFacts, StartedFlow
    <3> QED BY <3>1, <3>2 DEF ToldMarked, MayBegin
  <2> QED BY <1>5, <2>1, <2>2, EndFacts
<1>6. ASSUME NEW r \in Runs, SweepDeletes(r) PROVE ToldMarked'
  <2>1. /\ runs'[r] = Absent /\ \A q \in Runs \ {r} : runs'[q] = runs[q]
        /\ UNCHANGED <<file, flows, told, doubted>>
    BY <1>6 DEF SweepDeletes, Core, TypeOK, Registry
  <2> QED BY <2>1, AbsentSound DEF ToldMarked
<1>7. ASSUME NEW f \in flows, Finalize(f) PROVE ToldMarked'
  <2>1. f.run \in Runs /\ flows' = flows \ {f} /\ UNCHANGED <<told, doubted>>
    BY <1>7, FinalizeFacts
  <2>2. CASE UNCHANGED <<runs, file>>
    BY <2>1, <2>2 DEF ToldMarked
  <2>3. CASE ~ UNCHANGED <<runs, file>>
    <3>1. /\ file' = runs' /\ Present(runs[f.run])
          /\ \A q \in Runs \ {f.run} : runs'[q] = runs[q]
          /\ f.ok /\ Present(runs'[f.run]) => runs'[f.run].handled = runs[f.run].handled
      BY <1>7, <2>3, FinalizeFacts
    <3> QED BY <2>1, <3>1 DEF ToldMarked
  <2> QED BY <2>2, <2>3
<1>8. ASSUME NEW f \in flows, Deferred(f) \/ ReplyRead(f) \/ Close(f)
      PROVE  ToldMarked'
  <2>1. UNCHANGED <<runs, file, told, doubted>>
    BY <1>8 DEF Deferred, ReplyRead, Close
  <2>2. CASE Deferred(f)
    BY <2>1, <2>2, DoneMove, SilentMove DEF Deferred, Core
  <2>3. CASE ReplyRead(f)
    BY <2>1, <2>3, ReplyReadMove, SilentMove DEF Core
  <2>4. CASE Close(f)
    BY <2>1, <2>4, CloseMove, SilentMove DEF Core
  <2> QED BY <1>8, <2>2, <2>3, <2>4
<1>9. ASSUME NEW f \in flows, Sent(f) PROVE ToldMarked'
  <2> DEFINE delete == CleanupOf[f.run] = "delete"
  <2>1. /\ delete \in BOOLEAN /\ Done(f, TRUE, delete) /\ f.pc = "send"
        /\ told' = [told EXCEPT ![f.run] = IF @ < 2 THEN @ + 1 ELSE @]
        /\ UNCHANGED <<runs, file, doubted>>
    BY <1>9 DEF Sent
  <2> HIDE DEF delete
  <2>2. PICK g \in Flow : /\ Step(f, g) /\ g.run = f.run /\ g.ok
                          /\ g.pc \in {"closing", "final"}
    BY <2>1, DoneMove DEF Core
  <2> QED BY <2>1, <2>2, TellingMove
<1>10. ASSUME NEW f \in flows, NEW heard \in BOOLEAN, FlowThrows(f, heard) PROVE ToldMarked'
  <2> DEFINE delete == CleanupOf[f.run] = "delete"
  <2>1. /\ delete \in BOOLEAN /\ Done(f, FALSE, delete) /\ f.pc \in {"read", "send"}
        /\ UNCHANGED <<runs, file>>
    BY <1>10 DEF FlowThrows
  <2> HIDE DEF delete
  <2>2. PICK g \in Flow : Step(f, g) /\ g.run = f.run
    BY <2>1, DoneMove DEF Core
  <2>3. CASE heard
    <3>1. /\ told' = [told EXCEPT ![f.run] = IF @ < 2 THEN @ + 1 ELSE @]
          /\ doubted' = doubted \cup {f.run}
      BY <1>10, <2>3 DEF FlowThrows
    <3> QED BY <2>1, <2>2, <3>1, TellingMove
  <2>4. CASE ~ heard
    <3>1. told' = told /\ doubted' = doubted
      BY <1>10, <2>4 DEF FlowThrows
    <3> QED BY <2>1, <2>2, <3>1, SilentMove
  <2> QED BY <2>3, <2>4
<1>11. CASE SweepResumes
  BY <1>1, <1>11 DEF SweepResumes
<1>12. CASE SweepEnds
  BY <1>12 DEF SweepEnds, Persist, ToldMarked
<1>13. CASE Crash
  <2>1. /\ flows' = {} /\ \A r \in Runs : runs'[r] = Absent
        /\ UNCHANGED <<file, told, doubted>>
    BY <1>13 DEF Crash
  <2> QED BY <2>1, AbsentSound DEF ToldMarked
<1>14. CASE Restart
  <2>1. /\ file' = runs' /\ UNCHANGED <<told, doubted>>
        /\ \A r \in Runs : \/ runs'[r] = file[r]
                           \/ MayBegin(file[r]) /\ runs'[r].handled
        /\ \A f \in flows' : f.run \in Runs /\ MayBegin(file[f.run])
    BY <1>14, RestartFacts
  <2> QED BY <2>1 DEF ToldMarked, MayBegin
<1>15. ASSUME NEW r \in Runs, ChildUnregistered(r) \/ NextAttempt(r) PROVE ToldMarked'
  <2>1. UNCHANGED <<runs, file, told, doubted>>
    BY <1>15 DEF ChildUnregistered, NextAttempt
  <2>2. \A h \in flows' : \E f \in flows :
          h.run = f.run /\ h.ok = f.ok /\ (h.pc = f.pc \/ f.pc = "settle")
    BY <1>15, UnregisteredFlows, AttemptFlows DEF Core
  <2> QED BY <2>1, <2>2 DEF ToldMarked
<1> QED
  BY <1>1, <1>2, <1>3, <1>4, <1>5, <1>6, <1>7, <1>8, <1>9, <1>10, <1>11, <1>12, <1>13, <1>14,
     <1>15 DEF Next, FlowSteps, vars

(* The requester is not told twice unless a call that failed was heard,    *)
(* over every crash and whoever learns of the end.                         *)
THEOREM ToldAtMostOnce == Spec => []ToldOnce
<1>1. Core /\ ToldMarked /\ [Next]_vars => (Core /\ ToldMarked)'
  BY CoreNext, ToldNext
<1>2. Core /\ ToldMarked => ToldOnce
  BY DEF ToldMarked, ToldOnce
<1> QED BY <1>1, <1>2, CoreInit, ToldInit, PTL DEF Spec

-----------------------------------------------------------------------------
(* Whole output.                                                           *)

LEMMA WholeInit == Init => SawActive /\ WholeOutput
BY DEF Init, SawActive, WholeOutput

(* Children that do not become active, nor wait again.                     *)
LEMMA ChildWhole ==
  ASSUME SawActive, WholeOutput, flows' \subseteq flows, flows \subseteq Flow,
         \A q \in Runs : child[q] \notin {"none", "lane"} =>
           /\ child'[q] \notin {"none", "lane"}
           /\ child'[q] \in {"running", "ended"} => child[q] \in {"running", "ended"}
  PROVE  SawActive' /\ WholeOutput'
BY DEF SawActive, WholeOutput, Active, Flow

(* A flow that goes on does so past an attempt that has ended.             *)
LEMMA MoveWhole ==
  ASSUME Core, SawActive, WholeOutput, NEW f \in flows, NEW g \in Flow,
         Step(f, g), g.run = f.run, g.saw = f.saw,
         g.pc \in {"read", "send"} => f.pc = "read" \/ ~ Active(f.run),
         \A q \in Runs : child'[q] = child[q] \/ child'[q] = "lost"
  PROVE  SawActive' /\ WholeOutput'
<1>1. \A h \in flows' : h = g \/ h \in flows
  BY DEF Step
<1>2. f.run \in Runs /\ \A h \in flows : h.run \in Runs
  BY DEF Core, TypeOK, Flow
<1> QED BY <1>1, <1>2 DEF SawActive, WholeOutput, Active

LEMMA WholeNext ==
  ASSUME Core, Core', SawActive, WholeOutput, [Next]_vars
  PROVE  SawActive' /\ WholeOutput'
<1> DEFINE Goal == SawActive' /\ WholeOutput'
<1>0. flows \subseteq Flow /\ \A f \in flows : f.run \in Runs
  BY DEF Core, TypeOK, Flow
<1>1. CASE UNCHANGED <<flows, child>>
  BY <1>1 DEF SawActive, WholeOutput, Active
<1>2. ASSUME NEW r \in Runs, Spawn(r) \/ ChildStarts(r)
      PROVE  Goal
  <2>1. /\ flows' = flows
        /\ \A q \in Runs : child[q] \notin {"none", "lane"} =>
             /\ child'[q] \notin {"none", "lane"}
             /\ child'[q] \in {"running", "ended"} => child[q] \in {"running", "ended"}
    BY <1>2 DEF Spawn, ChildStarts, Core, TypeOK, Active
  <2> QED BY <1>0, <2>1, ChildWhole
<1>3. ASSUME NEW r \in Runs,
             Register(r) \/ LifecycleStart(r) \/ WaitFails(r) \/ SweepDeletes(r)
      PROVE  UNCHANGED <<flows, child>>
  BY <1>3 DEF Register, LifecycleStart, WaitFails, SweepDeletes
<1>4. ASSUME NEW r \in Runs, LifecycleEnd(r) \/ WaitReturns(r) PROVE Goal
  <2>1. \A q \in Runs : child[q] \notin {"none", "lane"} =>
          /\ child'[q] \notin {"none", "lane"}
          /\ child'[q] \in {"running", "ended"} => child[q] \in {"running", "ended"}
    BY <1>4, EndFacts
  <2>2. \A f \in flows' : \/ f \in flows
                          \/ f.run = r /\ (f.saw = "active" => f.pc = "settle" /\ Active(r))
    BY <1>4, EndFacts, StartedFlow
  <2> QED BY <1>0, <2>1, <2>2 DEF SawActive, WholeOutput, Active
<1>5. ASSUME NEW f \in flows, Finalize(f) PROVE Goal
  <2>1. flows' \subseteq flows /\ child' = child
    BY <1>5, FinalizeFacts
  <2> QED BY <1>0, <2>1, ChildWhole
<1>6. ASSUME NEW r \in Runs, ChildUnregistered(r) PROVE Goal
  <2>1. /\ child'[r] \in {"over", "quiet"} /\ \A q \in Runs \ {r} : child'[q] = child[q]
        /\ child[r] \in {"running", "ended"}
    BY <1>6 DEF ChildUnregistered, Active, Core, TypeOK
  <2>2. \A h \in flows' : \E f \in flows :
          /\ h.run = f.run /\ h.saw = f.saw
          /\ h.pc = f.pc \/ f.run = r
    BY <1>6, UnregisteredFlows DEF Core
  <2> QED BY <1>0, <2>1, <2>2 DEF SawActive, WholeOutput, Active
<1>15. ASSUME NEW r \in Runs, NextAttempt(r) PROVE Goal
  <2>1. \A q \in Runs \ {r} : child'[q] = child[q]
    BY <1>15 DEF NextAttempt, Core, TypeOK
  <2>2. \A h \in flows' : \E f \in flows :
          /\ h.run = f.run /\ h.pc = f.pc
          /\ h.saw = "active" => f.saw = "active" /\ f.run # r
    BY <1>15, AttemptFlows DEF Core
  <2> QED BY <1>0, <2>1, <2>2 DEF SawActive, WholeOutput, Active
<1>7. ASSUME NEW f \in flows, ReplyRead(f) PROVE Goal
  <2>1. child' = child
    BY <1>7 DEF ReplyRead
  <2> QED BY <1>7, <2>1, ReplyReadMove, MoveWhole DEF Core
<1>8. ASSUME NEW f \in flows, NEW ok \in BOOLEAN, NEW delete \in BOOLEAN,
             Done(f, ok, delete), child' = child
      PROVE  Goal
  <2>1. PICK g \in Flow : /\ Step(f, g) /\ g.run = f.run /\ g.saw = f.saw
                          /\ g.pc \in {"closing", "final"}
    BY <1>8, DoneMove DEF Core
  <2> QED BY <1>8, <2>1, MoveWhole
<1>9. ASSUME NEW f \in flows, Deferred(f) \/ Sent(f) \/ \E h \in BOOLEAN : FlowThrows(f, h)
      PROVE  Goal
  <2>1. child' = child /\ \E ok, delete \in BOOLEAN : Done(f, ok, delete)
    BY <1>9 DEF Deferred, Sent, FlowThrows
  <2> QED BY <1>8, <2>1
<1>10. ASSUME NEW f \in flows, Close(f) PROVE Goal
  <2>1. DeleteSession(f.run)
    BY <1>10 DEF Close
  <2>2. \A q \in Runs : child'[q] = child[q] \/ child'[q] = "lost"
    BY <1>0, <2>1, DeleteSessionTypes DEF Core
  <2> QED BY <1>10, <2>2, CloseMove, MoveWhole DEF Core
<1>11. CASE SweepResumes
  <2>1. sweep.cur \in Runs /\ DeleteSession(sweep.cur) /\ flows' = flows
    BY <1>11 DEF SweepResumes, Core, TypeOK
  <2>2. \A q \in Runs : child'[q] = child[q] \/ child'[q] = "lost"
    BY <2>1, DeleteSessionTypes DEF Core
  <2> QED BY <1>0, <2>1, <2>2, ChildWhole
<1>12. CASE SweepEnds
  BY <1>1, <1>12 DEF SweepEnds
<1>13. CASE Crash
  BY <1>13 DEF Crash, SawActive, WholeOutput
<1>14. CASE Restart
  <2>1. child' = child /\ \A f \in flows' : f.run \in Runs /\ f = Started(f.run, "resume")
    BY <1>14, RestartFacts
  <2>2. \A f \in flows' : f.saw = "active" => f.pc = "settle" /\ Active(f.run)
    BY <2>1, StartedFlow
  <2> QED BY <2>1, <2>2 DEF SawActive, WholeOutput, Active
<1> QED
  BY <1>1, <1>2, <1>3, <1>4, <1>5, <1>6, <1>7, <1>9, <1>10, <1>11, <1>12, <1>13, <1>14, <1>15
  DEF Next, FlowSteps, vars

(* A flow that found an attempt of its child active does not announce      *)
(* while that attempt goes on.                                             *)
THEOREM WholeOutputs == Spec => []WholeOutput
<1>1. Core /\ SawActive /\ WholeOutput /\ [Next]_vars => (Core /\ SawActive /\ WholeOutput)'
  BY CoreNext, WholeNext
<1> QED BY <1>1, CoreInit, WholeInit, PTL DEF Spec

-----------------------------------------------------------------------------
(* Output is kept.                                                         *)

LEMMA KeptInit == Init => DeletesAfter /\ OutputKept
BY DEF Init, DeletesAfter, OutputKept, NoSweep

(* A flow that goes on and deletes at most what was told.                  *)
LEMMA MoveKept ==
  ASSUME Core, DeletesAfter, OutputKept, NEW f \in flows, NEW g \in Flow,
         Step(f, g), g.run = f.run,
         g.pc = "closing" => told'[f.run] > 0 \/ f.run \in Failing,
         \A q \in Runs : told[q] > 0 => told'[q] > 0,
         \A q \in Runs : told'[q] = 0 => told[q] = 0,
         sweep' = sweep,
         \A q \in Runs : child[q] = "none" => child'[q] = "none",
         \A q \in Runs : q \in session' \/ q \notin session
                         \/ (q = f.run /\ f.pc = "closing" /\ told' = told)
  PROVE  DeletesAfter' /\ OutputKept'
<1>1. \A h \in flows' : h = g \/ h \in flows
  BY DEF Step
<1>2. f.run \in Runs /\ \A h \in flows : h.run \in Runs
  BY DEF Core, TypeOK, Flow
<1>3. DeletesAfter'
  BY <1>1, <1>2 DEF DeletesAfter
<1>4. OutputKept'
  BY <1>2 DEF DeletesAfter, OutputKept, Core, TypeOK
<1> QED BY <1>3, <1>4

LEMMA KeptNext ==
  ASSUME Core, Core', DeletesAfter, OutputKept, [Next]_vars
  PROVE  DeletesAfter' /\ OutputKept'
<1> DEFINE Goal == DeletesAfter' /\ OutputKept'
<1>0. \A f \in flows : f.run \in Runs
  BY DEF Core, TypeOK, Flow
<1>1. ASSUME flows' \subseteq flows, UNCHANGED <<session, told>>,
             sweep' = sweep \/ sweep'.cur = None,
             \A q \in Runs : child[q] = "none" => child'[q] = "none"
      PROVE  Goal
  BY <1>1 DEF DeletesAfter, OutputKept
<1>2. ASSUME NEW r \in Runs, Spawn(r) PROVE Goal
  BY <1>2 DEF Spawn, DeletesAfter, OutputKept, Core, TypeOK
<1>3. ASSUME NEW r \in Runs, \/ ChildStarts(r) \/ Register(r)
                             \/ LifecycleStart(r) \/ WaitFails(r)
      PROVE  Goal
  <2>1. /\ UNCHANGED <<flows, session, told, sweep>>
        /\ \A q \in Runs : child[q] = "none" => child'[q] = "none"
    BY <1>3
    DEF ChildStarts, Register, LifecycleStart, WaitFails, Core, TypeOK
  <2> QED BY <1>1, <2>1
<1>4. ASSUME NEW r \in Runs, LifecycleEnd(r) \/ WaitReturns(r) PROVE Goal
  <2>1. /\ UNCHANGED <<session, told, sweep>>
        /\ \A q \in Runs : child[q] = "none" => child'[q] = "none"
    BY <1>4, EndFacts
  <2>2. \A f \in flows' : f \in flows \/ f.pc # "closing"
    BY <1>4, EndFacts, StartedFlow
  <2> QED BY <2>1, <2>2 DEF DeletesAfter, OutputKept
<1>5. ASSUME NEW r \in Runs, SweepDeletes(r) PROVE Goal
  BY <1>5 DEF SweepDeletes, DeletesAfter, OutputKept
<1>6. ASSUME NEW f \in flows, Finalize(f) PROVE Goal
  BY <1>1, <1>6, FinalizeFacts
<1>7. ASSUME NEW r \in Runs, ChildUnregistered(r) \/ NextAttempt(r) PROVE Goal
  <2>1. /\ UNCHANGED <<session, told, sweep>>
        /\ \A q \in Runs : child[q] = "none" => child'[q] = "none"
    BY <1>7 DEF ChildUnregistered, NextAttempt, Core, TypeOK, Active
  <2>2. \A h \in flows' : h.pc = "closing" =>
          \E f \in flows : f.run = h.run /\ f.pc = "closing"
    BY <1>7, UnregisteredFlows, AttemptFlows DEF Core
  <2> QED BY <2>1, <2>2 DEF DeletesAfter, OutputKept
<1>8. ASSUME NEW f \in flows, ReplyRead(f) PROVE Goal
  <2>1. UNCHANGED <<session, told, sweep, child>>
    BY <1>8 DEF ReplyRead
  <2> QED BY <1>8, <2>1, ReplyReadMove, MoveKept DEF Core
<1>9. ASSUME NEW f \in flows, Deferred(f) PROVE Goal
  <2>1. UNCHANGED <<session, told, sweep, child>> /\ Done(f, FALSE, FALSE)
    BY <1>9 DEF Deferred
  <2>2. PICK g \in Flow : Step(f, g) /\ g.run = f.run /\ g.pc = "final"
    BY <2>1, DoneMove DEF Core
  <2> QED BY <2>1, <2>2, MoveKept
<1>10. ASSUME NEW f \in flows, Sent(f) PROVE Goal
  <2> DEFINE delete == CleanupOf[f.run] = "delete"
  <2>1. /\ delete \in BOOLEAN /\ Done(f, TRUE, delete)
        /\ told' = [told EXCEPT ![f.run] = IF @ < 2 THEN @ + 1 ELSE @]
        /\ UNCHANGED <<session, sweep, child>>
    BY <1>10 DEF Sent
  <2> HIDE DEF delete
  <2>2. PICK g \in Flow : Step(f, g) /\ g.run = f.run
    BY <2>1, DoneMove DEF Core
  <2>3. told'[f.run] > 0 /\ \A q \in Runs \ {f.run} : told'[q] = told[q]
    BY <1>0, <2>1, TellType DEF Core
  <2> QED BY <1>0, <2>1, <2>2, <2>3, MoveKept
<1>11. ASSUME NEW f \in flows, NEW heard \in BOOLEAN, FlowThrows(f, heard) PROVE Goal
  <2> DEFINE delete == CleanupOf[f.run] = "delete"
  <2>1. /\ delete \in BOOLEAN /\ Done(f, FALSE, delete) /\ f.run \in Failing
        /\ UNCHANGED <<session, sweep, child>>
        /\ \/ told' = [told EXCEPT ![f.run] = IF @ < 2 THEN @ + 1 ELSE @]
           \/ told' = told
    BY <1>11 DEF FlowThrows
  <2> HIDE DEF delete
  <2>2. PICK g \in Flow : Step(f, g) /\ g.run = f.run
    BY <2>1, DoneMove DEF Core
  <2>3. \A q \in Runs : /\ told[q] > 0 => told'[q] > 0
                        /\ told'[q] = 0 => told[q] = 0
    BY <1>0, <2>1, TellType DEF Core, TypeOK
  <2> QED BY <2>1, <2>2, <2>3, MoveKept
<1>12. ASSUME NEW f \in flows, Close(f) PROVE Goal
  <2>1. UNCHANGED <<told, sweep>> /\ DeleteSession(f.run)
    BY <1>12 DEF Close
  <2>2. \A q \in Runs : child[q] = "none" => child'[q] = "none"
    BY <1>0, <2>1, DeleteSessionTypes DEF Core
  <2>3. \A q \in Runs : q \in session' \/ q \notin session \/ q = f.run
    BY <2>1 DEF DeleteSession
  <2> QED BY <1>12, <2>1, <2>2, <2>3, CloseMove, MoveKept DEF Core
<1>13. CASE SweepResumes
  <2>1. /\ sweep.cur \in Runs /\ sweep.cur \in Archived /\ DeleteSession(sweep.cur)
        /\ UNCHANGED <<flows, told>> /\ sweep'.cur = None
    BY <1>13 DEF SweepResumes, Core, TypeOK, DeletesAfter
  <2>2. \A q \in Runs : child[q] = "none" => child'[q] = "none"
    BY <2>1, DeleteSessionTypes DEF Core
  <2>3. \A q \in Runs : q \in session' \/ q \notin session \/ q = sweep.cur
    BY <2>1 DEF DeleteSession
  <2> QED BY <2>1, <2>2, <2>3 DEF DeletesAfter, OutputKept
<1>14. CASE SweepEnds
  <2>1. UNCHANGED <<flows, session, told, child>> /\ sweep'.cur = None
    BY <1>14 DEF SweepEnds, NoSweep
  <2> QED BY <1>1, <2>1
<1>15. CASE Crash
  <2>1. /\ flows' = {} /\ UNCHANGED <<session, told>> /\ sweep'.cur = None
        /\ \A q \in Runs : child[q] = "none" => child'[q] = "none"
    BY <1>15 DEF Crash, NoSweep
  <2> QED BY <1>1, <2>1
<1>16. CASE Restart
  <2>1. UNCHANGED <<sweep, child, session, told>> /\ \A f \in flows' : f.pc # "closing"
    BY <1>16, RestartFacts, StartedFlow
  <2> QED BY <2>1 DEF DeletesAfter, OutputKept
<1>17. CASE UNCHANGED vars
  BY <1>1, <1>17 DEF vars
<1> QED
  BY <1>2, <1>3, <1>4, <1>5, <1>6, <1>7, <1>8, <1>9, <1>10, <1>11, <1>12, <1>13,
     <1>14, <1>15, <1>16, <1>17 DEF Next, FlowSteps

(* No session is deleted before its output was told, but those to be       *)
(* archived and those about which a call failed.                           *)
THEOREM OutputsKept == Spec => []OutputKept
<1>1. Core /\ DeletesAfter /\ OutputKept /\ [Next]_vars => (Core /\ DeletesAfter /\ OutputKept)'
  BY CoreNext, KeptNext
<1> QED BY <1>1, CoreInit, KeptInit, PTL DEF Spec
=============================================================================
