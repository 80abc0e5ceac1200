-------------------------- MODULE CronServiceProofs --------------------------
(***************************************************************************)
(* Proofs about CronService, for any jobs, schedules, patches and outcomes *)
(* and any number of crashes.                                              *)
(*                                                                         *)
(* Types hold without a condition.  The others state what they need of the *)
(* clients and of the services: AllValid, since a refused update leaves a  *)
(* change in memory that is neither saved nor scheduled, and Alone, since  *)
(* the tick of a replaced service goes on and writes the same file.        *)
(***************************************************************************)
EXTENDS CronService, FiniteSetTheorems, WellFoundedInduction, TLAPS

-----------------------------------------------------------------------------
(* What the operators on job records return.                               *)

LEMMA NeverIsNot == Never = -1 /\ Never \notin Nat /\ Never \in Int
BY DEF Never

LEMMA TimeIsNat == (\A t \in Time : t \in Nat) /\ 0 \in Time /\ Second \in Time
BY TimingAssumption DEF Time

LEMMA ConstantsAreNat == StuckRun \in Nat /\ MaxTimerDelay \in Nat /\ MaxTime \in Nat
BY TimingAssumption

LEMMA CeilDivNat ==
  ASSUME NEW m \in Nat, NEW n \in Nat \ {0}
  PROVE  CeilDiv(m, n) \in Nat
<1>1. m + n - 1 \in Nat
  OBVIOUS
<1>2. \A k \in Nat : k \div n \in Nat
  OBVIOUS
<1> QED
  BY <1>1, <1>2 DEF CeilDiv

SchedType == [kind : Kinds, time : Nat \ {0}, anchor : Time]

LEMMA ComputeNextRunNat ==
  ASSUME NEW sched \in SchedType, NEW t \in Time
  PROVE  ComputeNextRun(sched, t) \in Nat
<1>1. /\ t \in Nat /\ sched.anchor \in Nat /\ sched.time \in Nat \ {0} /\ Second \in Nat \ {0}
  BY TimeIsNat, TimingAssumption DEF SchedType
<1>2. \A m, n \in Nat : m * n \in Nat /\ m + n \in Nat
  OBVIOUS
<1>3. CASE sched.kind = "every" /\ ~ (t < sched.anchor)
  <2>1. t - sched.anchor \in Nat
    BY <1>1, <1>3
  <2>2. CeilDiv(t - sched.anchor, sched.time) \in Nat
    BY <1>1, <2>1, CeilDivNat
  <2>3. Larger(1, CeilDiv(t - sched.anchor, sched.time)) \in Nat
    BY <2>2 DEF Larger
  <2> QED
    BY <1>1, <1>2, <1>3, <2>3 DEF ComputeNextRun
<1>4. CASE sched.kind # "every"
  <2>1. t \div Second \in Nat
    BY <1>1
  <2>2. (t \div Second) * Second \in Nat
    BY <1>1, <1>2, <2>1
  <2>3. CeilDiv((t \div Second) * Second, sched.time) \in Nat
    BY <1>1, <2>2, CeilDivNat
  <2> QED
    BY <1>1, <1>2, <1>4, <2>3 DEF ComputeNextRun
<1> QED
  BY <1>1, <1>3, <1>4 DEF ComputeNextRun

LEMMA JobNextRunFacts ==
  ASSUME NEW rec \in Record, NEW t \in Time
  PROVE  /\ JobNextRun(rec, t) \in Instants
         /\ JobNextRun(rec, t) = Never <=>
              ~ rec.enabled \/ (rec.sched.kind = "at" /\ rec.status = "ok")
<1>1. rec.sched \in SchedType
  BY DEF Record, SchedType
<1>2. rec.sched.time \in Nat /\ ComputeNextRun(rec.sched, t) \in Nat
  BY <1>1, ComputeNextRunNat DEF SchedType
<1> QED
  BY <1>2, NeverIsNot DEF JobNextRun, Instants

LEMMA AbsentFacts ==
  /\ ~ Present(Absent) /\ Absent \notin Record
  /\ \A rec \in Record : Present(rec)
  /\ \A rec \in Record \cup {Absent} : Present(rec) <=> rec \in Record
<1>1. ~ Present(Absent)
  BY DEF Absent, Present
<1>2. \A rec \in Record : Present(rec)
  BY DEF Record, Present
<1> QED
  BY <1>1, <1>2

(* Recomputed leaves who is enabled, and clears no marker but a stuck one. *)
LEMMA RecomputedFacts ==
  ASSUME NEW rec \in Record, NEW t \in Time
  PROVE  LET r == Recomputed(rec, t) IN
         /\ r \in Record /\ r.enabled = rec.enabled /\ r.sched = rec.sched /\ r.status = rec.status
         /\ r.running \in {rec.running, Never}
         /\ rec.enabled /\ (rec.running # Never => t - rec.running <= StuckRun) =>
              r.running = rec.running
         /\ r.next = IF rec.enabled /\ rec.next # Never /\ ~ (t >= rec.next) THEN rec.next
                     ELSE JobNextRun(rec, t)
<1>0. Present(rec) /\ rec.running \in Time \cup {Never} /\ rec.next \in Instants /\ rec.enabled \in BOOLEAN
  BY AbsentFacts DEF Record
<1>1. CASE ~ rec.enabled
  <2>1. Recomputed(rec, t) = [rec EXCEPT !.next = Never, !.running = Never]
    BY <1>0, <1>1 DEF Recomputed
  <2>2. Never \in Instants
    BY DEF Instants
  <2>3. JobNextRun(rec, t) = Never
    BY <1>1, JobNextRunFacts
  <2> QED
    BY <1>1, <2>1, <2>2, <2>3 DEF Record
<1>2. CASE rec.enabled
  <2> DEFINE n == IF rec.next = Never \/ t >= rec.next THEN JobNextRun(rec, t) ELSE rec.next
             stuck == rec.running # Never /\ t - rec.running > StuckRun
             m == IF stuck THEN Never ELSE rec.running
  <2>1. Recomputed(rec, t) = [rec EXCEPT !.running = m, !.next = n]
    BY <1>0, <1>2 DEF Recomputed
  <2>2. n \in Instants /\ m \in Time \cup {Never} /\ m \in {rec.running, Never}
    BY <1>0, JobNextRunFacts
  <2>3. (rec.running # Never => t - rec.running <= StuckRun) => m = rec.running
    <3>1. t \in Int /\ rec.running \in Int
      BY <1>0, TimeIsNat, NeverIsNot
    <3> QED
      BY <3>1, ConstantsAreNat
  <2>4. n = IF rec.enabled /\ rec.next # Never /\ ~ (t >= rec.next) THEN rec.next
                     ELSE JobNextRun(rec, t)
    BY <1>2
  <2> HIDE DEF n, m
  <2> QED
    BY <1>2, <2>1, <2>2, <2>3, <2>4 DEF Record
<1> QED
  BY <1>0, <1>1, <1>2

(* A job whose result is applied is not marked, nor due at once when it is *)
(* a one-shot.                                                             *)
LEMMA AppliedFacts ==
  ASSUME NEW rec \in Record, NEW status \in Outcomes, NEW t \in Time
  PROVE  LET r == JobResultApplied(rec, status, t) IN
         \/ r = Absent
         \/ /\ r \in Record /\ r.running = Never /\ r.sched = rec.sched
            /\ r.sched.kind = "at" => ~ r.enabled /\ r.next = Never
            /\ r.enabled => rec.enabled /\ r.next # Never
<1> DEFINE errors == Errors(rec, status)
           done == [rec EXCEPT !.running = Never, !.status = status, !.errors = errors]
           natural == JobNextRun(done, t)
           later == Larger(natural, t + Backoff[errors])
           no == FALSE
<1>1. /\ Present(rec) /\ rec.errors \in Nat
  BY AbsentFacts DEF Record
<1>2. Len(Backoff) \in Nat \ {0} /\ \A k \in 1..Len(Backoff) : Backoff[k] \in Nat
  BY TimingAssumption
<1>3. errors \in Nat /\ (status = "error" => errors \in 1..Len(Backoff))
  BY <1>1, <1>2 DEF Errors, Smaller
<1> HIDE DEF errors
<1>4. done \in Record /\ done.sched = rec.sched /\ done.enabled = rec.enabled /\ done.running = Never
  BY <1>3 DEF Record
<1> HIDE DEF done
<1>5. /\ natural \in Instants
      /\ natural = Never <=> ~ done.enabled \/ (done.sched.kind = "at" /\ done.status = "ok")
  BY <1>4, JobNextRunFacts
<1> HIDE DEF natural
<1>6. status = "error" => later \in Nat
  <2>1. ASSUME status = "error" PROVE later \in Nat
    <3>1. t + Backoff[errors] \in Nat
      BY <1>2, <1>3, <2>1, TimeIsNat
    <3> HIDE DEF errors
    <3>2. natural \in Int
      BY <1>5, NeverIsNot DEF Instants
    <3> QED
      BY <3>1, <3>2, <1>5, NeverIsNot DEF Larger, Instants
  <2> QED
    BY <2>1
<1> HIDE DEF later
<1>7. Never \in Instants /\ Nat \subseteq Instants /\ no \in BOOLEAN /\ no = FALSE
  BY DEF Instants
<1> HIDE DEF no
<1> DEFINE r == JobResultApplied(rec, status, t)
<1>8. CASE rec.sched.kind = "at"
  <2>1. r = Absent \/ r = [done EXCEPT !.enabled = no, !.next = Never]
    BY <1>1, <1>7, <1>8 DEF JobResultApplied, done, errors
  <2>2. LET off == [done EXCEPT !.enabled = no, !.next = Never]
        IN off \in Record /\ off.running = Never /\ off.sched = rec.sched /\ off.enabled = no /\ off.next = Never
    BY <1>4, <1>7 DEF Record
  <2> HIDE DEF r
  <2>3. LET off == [done EXCEPT !.enabled = no, !.next = Never]
        IN ~ off.enabled
    BY <2>2, <1>7
  <2> QED
    BY <2>1, <2>2, <2>3, <1>8 DEF r
<1>9. CASE rec.sched.kind # "at"
  <2> DEFINE next == IF status = "error" /\ rec.enabled THEN later ELSE natural
  <2>1. r = [done EXCEPT !.next = next]
    BY <1>1, <1>9 DEF JobResultApplied, done, errors, later, natural
  <2>2. next \in Instants /\ (rec.enabled => next # Never)
    BY <1>4, <1>5, <1>6, <1>7, <1>9, NeverIsNot
  <2> HIDE DEF next, r
  <2>3. r \in Record /\ r.running = Never /\ r.sched = rec.sched /\ r.enabled = rec.enabled /\ r.next = next
    BY <1>4, <2>1, <2>2 DEF Record
  <2> QED
    BY <2>2, <2>3, <1>9 DEF r
<1> QED
  BY <1>8, <1>9

LEMMA AppliedAbsent == \A status, t : JobResultApplied(Absent, status, t) = Absent
BY AbsentFacts DEF JobResultApplied

LEMMA CreatedFacts ==
  ASSUME NEW j \in Jobs, NEW sched \in SchedulesOf[j], NEW delete \in Deletable, now \in Time
  PROVE  LET r == Created(sched, delete) IN
         /\ r \in Record /\ r.running = Never /\ r.next # Never
<1> DEFINE anchored == Anchored(sched, now)
           yes == TRUE
           rec == [present |-> yes, enabled |-> yes, sched |-> anchored,
                   deleteAfterRun |-> delete, next |-> Never, running |-> Never,
                   status |-> "none", errors |-> 0]
           next == JobNextRun(rec, now)
<1>1. sched \in [kind : Kinds, time : Nat \ {0}]
  BY TimingAssumption
<1>2. anchored \in SchedType
  BY <1>1, TimeIsNat DEF Anchored, SchedType
<1>3. yes \in BOOLEAN /\ yes \in {TRUE} /\ delete \in BOOLEAN /\ yes
  BY ClientsAssumption
<1>4. Created(sched, delete) = [rec EXCEPT !.next = next]
  BY DEF Created
<1> HIDE DEF yes, anchored
<1>5. rec \in Record /\ rec.status = "none" /\ rec.enabled = yes /\ rec.running = Never
  BY <1>2, <1>3, AbsentFacts DEF Record, SchedType, Instants
<1> HIDE DEF rec
<1>6. next \in Instants /\ next # Never
  BY <1>3, <1>5, JobNextRunFacts
<1> HIDE DEF next
<1> QED
  BY <1>4, <1>5, <1>6 DEF Record

PatchType == [enabled : BOOLEAN \cup {None}, schedule : [kind : Kinds, time : Nat \ {0}] \cup {None},
              valid : BOOLEAN]

LEMMA PatchedFacts ==
  ASSUME NEW rec \in Record, NEW patch \in Patches, now \in Time
  PROVE  LET r == Patched(rec, patch) IN
         /\ r \in Record /\ r.running = rec.running /\ r.next = rec.next /\ r.status = rec.status
         /\ patch.enabled = None => r.enabled = rec.enabled
         /\ patch.schedule = None => r.sched = rec.sched
<1> DEFINE e == IF patch.enabled = None THEN rec.enabled ELSE patch.enabled
           sched == IF patch.schedule = None THEN rec.sched ELSE Anchored(patch.schedule, now)
<1>1. patch \in PatchType
  BY ClientsAssumption DEF PatchType
<1>2. e \in BOOLEAN
  BY <1>1 DEF Record, PatchType
<1>3. sched \in SchedType
  <2>1. CASE patch.schedule = None
    BY <2>1 DEF Record, SchedType
  <2>2. CASE patch.schedule # None
    <3>1. patch.schedule \in [kind : Kinds, time : Nat \ {0}]
      BY <1>1, <2>2 DEF PatchType
    <3>2. Anchored(patch.schedule, now) \in SchedType
      BY <3>1, TimeIsNat DEF Anchored, SchedType
    <3> QED
      BY <2>2, <3>2
  <2> QED
    BY <2>1, <2>2
<1>4. Patched(rec, patch) = [rec EXCEPT !.enabled = e, !.sched = sched]
  BY DEF Patched
<1>5. (patch.enabled = None => e = rec.enabled) /\ (patch.schedule = None => sched = rec.sched)
  OBVIOUS
<1> HIDE DEF e, sched
<1> QED
  BY <1>2, <1>3, <1>4, <1>5 DEF Record, SchedType

-----------------------------------------------------------------------------
(* Stores.                                                                 *)

LEMMA InStore ==
  ASSUME NEW store \in Store, NEW j \in Jobs
  PROVE  /\ store[j] \in Record \cup {Absent}
         /\ Present(store[j]) <=> store[j] \in Record
         /\ ~ Present(store[j]) <=> store[j] = Absent
BY AbsentFacts DEF Store

LEMMA RecomputedStore ==
  ASSUME NEW store \in Store, now \in Time
  PROVE  /\ RecomputeNextRuns(store) \in Store
         /\ \A j \in Jobs :
              /\ RecomputeNextRuns(store)[j] = Recomputed(store[j], now)
              /\ store[j] = Absent => RecomputeNextRuns(store)[j] = Absent
              /\ store[j] \in Record => RecomputeNextRuns(store)[j] \in Record
<1>1. \A j \in Jobs : RecomputeNextRuns(store)[j] = Recomputed(store[j], now)
  BY DEF RecomputeNextRuns
<1>2. \A j \in Jobs : store[j] = Absent => Recomputed(store[j], now) = Absent
  BY AbsentFacts DEF Recomputed
<1>3. \A j \in Jobs : store[j] \in Record => Recomputed(store[j], now) \in Record
  BY RecomputedFacts
<1>4. \A j \in Jobs : Recomputed(store[j], now) \in Record \cup {Absent}
  BY <1>2, <1>3, InStore
<1>5. RecomputeNextRuns(store) \in Store
  BY <1>4 DEF RecomputeNextRuns, Store
<1> QED
  BY <1>1, <1>2, <1>3, <1>5

LEMMA MarkedRecord ==
  ASSUME NEW rec \in Record, now \in Time
  PROVE  LET r == [rec EXCEPT !.running = now] IN
         /\ r \in Record /\ r.running = now /\ r.next = rec.next /\ r.enabled = rec.enabled
         /\ r.sched = rec.sched /\ r.status = rec.status
BY DEF Record

LEMMA MarkedStore ==
  ASSUME NEW store \in Store, NEW jobs, now \in Time
  PROVE  /\ Marked(store, jobs) \in Store
         /\ \A j \in Jobs :
              /\ store[j] = Absent => Marked(store, jobs)[j] = Absent
              /\ store[j] \in Record =>
                   LET r == Marked(store, jobs)[j] IN
                   /\ r \in Record /\ r.running = IF j \in jobs THEN now ELSE store[j].running
                   /\ r.next = store[j].next /\ r.enabled = store[j].enabled
                   /\ r.sched = store[j].sched /\ r.status = store[j].status
<1> DEFINE marked == Marked(store, jobs)
<1>1. ASSUME NEW j \in Jobs
      PROVE  /\ marked[j] \in Record \cup {Absent}
             /\ store[j] = Absent => marked[j] = Absent
             /\ store[j] \in Record =>
                   LET r == marked[j] IN
                   /\ r \in Record /\ r.running = IF j \in jobs THEN now ELSE store[j].running
                   /\ r.next = store[j].next /\ r.enabled = store[j].enabled
                   /\ r.sched = store[j].sched /\ r.status = store[j].status
  <2>1. marked[j] = IF j \in jobs /\ Present(store[j]) THEN [store[j] EXCEPT !.running = now] ELSE store[j]
    BY DEF Marked
  <2>2. CASE store[j] = Absent
    BY <2>1, <2>2, AbsentFacts
  <2>3. CASE store[j] \in Record
    BY <2>1, <2>3, AbsentFacts, MarkedRecord
  <2> QED
    BY <2>2, <2>3, InStore, AbsentFacts
<1>2. marked \in Store
  <2>1. marked \in [Jobs -> Record \cup {Absent}]
    <3>1. marked = [j \in Jobs |-> marked[j]]
      BY DEF Marked
    <3> HIDE DEF marked
    <3> QED
      BY <1>1, <3>1
  <2> QED
    BY <2>1 DEF Store
<1> QED
  BY <1>1, <1>2

LEMMA AppliedType ==
  ASSUME NEW rec \in Record \cup {Absent}, NEW status \in Outcomes, NEW t \in Time
  PROVE  JobResultApplied(rec, status, t) \in Record \cup {Absent}
BY AppliedFacts, AppliedAbsent

LEMMA ChangedStore ==
  ASSUME NEW store \in Store, NEW j \in Jobs, NEW rec \in Record \cup {Absent}
  PROVE  [store EXCEPT ![j] = rec] \in Store
BY DEF Store

(* A set of times has its earliest.                                        *)
LEMMA EarliestExists ==
  ASSUME NEW T \in SUBSET Nat, T # {}
  PROVE  \E t \in T : \A u \in T : t <= u
<1> DEFINE R == OpToRel(<, Nat)
<1>1. IsWellFoundedOn(R, Nat)
  BY NatLessThanWellFounded
<1>2. \A m, n \in Nat : m < n => <<m, n>> \in R
  BY DEF OpToRel
<1> HIDE DEF R
<1>3. \E t \in T : \A u \in T : ~ (<<u, t>> \in R)
  <2> DEFINE S == Nat
  <2>1. IsWellFoundedOn(R, S) /\ T \subseteq S
    BY <1>1
  <2> HIDE DEF S
  <2> QED
    BY <2>1, WFMin, ZenonT(30)
<1>4. PICK t \in T : \A u \in T : ~ (<<u, t>> \in R)
  BY <1>3
<1>5. ASSUME NEW u \in T PROVE t <= u
  <2>1. u \in Nat /\ t \in Nat
    OBVIOUS
  <2>2. ~ (u < t)
    BY <2>1, <1>2, <1>4, Zenon
  <2> QED
    BY <2>1, <2>2
<1> QED
  BY <1>5

Planned(store) == { j \in Jobs : store[j] \in Record /\ store[j].enabled /\ store[j].next # Never }

LEMMA NextWakeFacts ==
  ASSUME NEW store \in Store
  PROVE  /\ NextWakeAt(store) = Never <=> Planned(store) = {}
         /\ NextWakeAt(store) # Never =>
              /\ NextWakeAt(store) \in Nat
              /\ \E j \in Planned(store) : NextWakeAt(store) = store[j].next
         /\ \A j \in Planned(store) : store[j].next \in Nat /\ NextWakeAt(store) <= store[j].next
<1> DEFINE times == { store[j].next : j \in Planned(store) }
<1>1. \A j \in Planned(store) : store[j].next \in Nat
  BY NeverIsNot DEF Planned, Record, Instants
<1>2. { store[j].next : j \in { i \in Jobs : Present(store[i]) /\ store[i].enabled } } \ {Never} = times
  <2>1. \A j \in Jobs : Present(store[j]) <=> store[j] \in Record
    BY InStore
  <2> QED
    BY <2>1 DEF Planned
<1>3. NextWakeAt(store) = IF times = {} THEN Never ELSE Min(times)
  BY <1>2 DEF NextWakeAt
<1>4. CASE Planned(store) = {}
  BY <1>3, <1>4
<1>5. CASE Planned(store) # {}
  <2>1. times \in SUBSET Nat /\ times # {}
    BY <1>1, <1>5
  <2> HIDE DEF times
  <2>2. \E t \in times : \A u \in times : t <= u
    BY <2>1, EarliestExists
  <2>3. Min(times) \in times /\ \A u \in times : Min(times) <= u
    BY <2>2 DEF Min
  <2>4. NextWakeAt(store) = Min(times)
    BY <1>3, <2>1
  <2> QED
    BY <1>1, <1>5, <2>1, <2>3, <2>4, NeverIsNot DEF times
<1> QED
  BY <1>4, <1>5

LEMMA ArmedFacts ==
  ASSUME NEW store \in Store, now \in Time
  PROVE  /\ Armed(store) \in Instants
         /\ NextWakeAt(store) # Never =>
              Armed(store) # Never /\ Armed(store) <= Larger(NextWakeAt(store), now)
<1>1. CASE NextWakeAt(store) = Never
  BY <1>1 DEF Armed, Instants
<1>2. CASE NextWakeAt(store) # Never
  <2> DEFINE wake == NextWakeAt(store)
  <2>1. wake \in Nat /\ now \in Nat
    BY <1>2, NextWakeFacts, TimeIsNat
  <2>2. Armed(store) = Smaller(Larger(wake, now), now + MaxTimerDelay)
    BY <1>2 DEF Armed
  <2> HIDE DEF wake
  <2>3. Larger(wake, now) \in Nat /\ now + MaxTimerDelay \in Nat
    BY <2>1, ConstantsAreNat DEF Larger
  <2>4. Armed(store) \in Nat /\ Armed(store) <= Larger(wake, now)
    BY <2>2, <2>3 DEF Smaller
  <2> QED
    BY <2>4, NeverIsNot DEF Instants, wake
<1> QED
  BY <1>1, <1>2

-----------------------------------------------------------------------------
(* Types.                                                                  *)

TickType == [pc : {"idle", "mark", "run", "sweep"}, todo : SUBSET Jobs, cur : Jobs \cup {None},
             since : Time \cup {Never}, results : SUBSET [job : Jobs, status : Outcomes, ended : Time]]

Busy(t) == t.todo # {} \/ t.cur # None \/ t.results # {}

(* Who holds the lock executes a job.                                      *)
HeldGood(h) ==
  /\ h \in [svc : Services \cup {None}, todo : SUBSET Jobs, cur : Jobs \cup {None}]
  /\ h.svc = None => h = Unheld
  /\ h.svc # None => h.cur \in Jobs

Typed ==
  /\ now \in Time /\ crashes \in 0..MaxCrashes /\ born \subseteq Jobs
  /\ file \in Store /\ mem \in [Services -> Store] /\ timer \in [Services -> Instants]
  /\ tick \in [Services -> TickType]
  /\ \A s \in Services : tick[s].pc = "run" <=> Busy(tick[s])
  /\ HeldGood(held)
  /\ life \in [Services -> {"new", "starting", "up", "stopped"}]
  /\ begun \in [Jobs -> Instants] /\ unmarked \subseteq Jobs

LEMMA TypedImplies == Typed /\ refused \subseteq Jobs => TypeOK
BY DEF Typed, TypeOK, TickType, Busy, HeldGood

LEMMA IdleFacts ==
  /\ Idle \in TickType /\ Idle.pc = "idle" /\ Idle.todo = {} /\ Idle.cur = None /\ Idle.results = {}
  /\ [Idle EXCEPT !.pc = "sweep"] \in TickType
  /\ [Idle EXCEPT !.pc = "sweep"].pc = "sweep" /\ [Idle EXCEPT !.pc = "sweep"].todo = {}
  /\ [Idle EXCEPT !.pc = "sweep"].cur = None /\ [Idle EXCEPT !.pc = "sweep"].results = {}
BY DEF Idle, TickType

LEMMA UnheldFacts ==
  HeldGood(Unheld) /\ Unheld.svc = None /\ Unheld.cur = None /\ Unheld.todo = {}
BY DEF Unheld, HeldGood

(* While nobody holds the lock, and when somebody does.                    *)
LEMMA LockFacts ==
  ASSUME HeldGood(held)
  PROVE  /\ LockFree <=> held.svc = None
         /\ LockFree => held.cur = None /\ held.todo = {}
BY UnheldFacts DEF HeldGood, LockFree

(* A store that is saved, or kept in memory only.                          *)
LEMMA RememberFacts ==
  ASSUME NEW s \in Services, NEW store \in Store, mem \in [Services -> Store], Remember(s, store)
  PROVE  /\ mem' \in [Services -> Store] /\ mem'[s] = store
         /\ \A o \in Services : o # s => mem'[o] = mem[o]
BY DEF Remember

LEMMA PersistFacts ==
  ASSUME NEW s \in Services, NEW store \in Store, mem \in [Services -> Store], Persist(s, store)
  PROVE  /\ mem' \in [Services -> Store] /\ mem'[s] = store /\ file' = store
         /\ \A o \in Services : o # s => mem'[o] = mem[o]
BY RememberFacts DEF Persist

LEMMA ArmTimerFacts ==
  ASSUME NEW s \in Services, mem' \in [Services -> Store], timer \in [Services -> Instants],
         now \in Time, ArmTimer(s)
  PROVE  /\ timer' \in [Services -> Instants] /\ timer'[s] = Armed(mem'[s])
         /\ \A o \in Services : o # s => timer'[o] = timer[o]
<1>1. mem'[s] \in Store
  OBVIOUS
<1>2. Armed(mem'[s]) \in Instants
  BY <1>1, ArmedFacts
<1> QED
  BY <1>2 DEF ArmTimer

(* One of the jobs is taken, and marked.                                   *)
LEMMA HoldFacts ==
  ASSUME NEW s \in Services, NEW todo \in SUBSET Jobs, NEW store \in Store, now \in Time,
         mem \in [Services -> Store], Hold(s, todo, store)
  PROVE  /\ HeldGood(held') /\ held'.svc = s /\ held'.cur \in todo
         /\ held'.todo = todo \ {held'.cur}
         /\ mem' \in [Services -> Store] /\ mem'[s] = Marked(store, {held'.cur})
         /\ \A o \in Services : o # s => mem'[o] = mem[o]
<1>1. PICK j \in todo : /\ held' = [svc |-> s, todo |-> todo \ {j}, cur |-> j]
                        /\ Remember(s, Marked(store, {j}))
  BY DEF Hold
<1>2. /\ held'.svc = s /\ held'.cur = j /\ held'.todo = todo \ {j}
      /\ held' \in [svc : Services \cup {None}, todo : SUBSET Jobs, cur : Jobs \cup {None}]
  BY <1>1
<1>3. HeldGood(held')
  BY <1>2, ClientsAssumption DEF HeldGood
<1>4. Marked(store, {j}) \in Store
  BY MarkedStore
<1> QED
  BY <1>1, <1>2, <1>3, <1>4, RememberFacts

LEMMA InitTyped == Init => Typed
<1> SUFFICES ASSUME Init PROVE Typed
  OBVIOUS
<1>1. now \in Time /\ 0 \in 0..MaxCrashes
  BY TimeIsNat, TimingAssumption DEF Init
<1>2. file \in Store /\ mem \in [Services -> Store]
  BY DEF Init, Store
<1>3. Never \in Instants
  BY DEF Instants
<1>4. tick \in [Services -> TickType] /\ \A s \in Services : tick[s] = Idle
  BY IdleFacts DEF Init
<1>5. \A s \in Services : tick[s].pc = "run" <=> Busy(tick[s])
  BY <1>4, IdleFacts DEF Busy
<1>6. HeldGood(held)
  BY UnheldFacts DEF Init
<1> QED
  BY <1>1, <1>2, <1>3, <1>4, <1>5, <1>6 DEF Init, Typed

(* What start finds in the file, without the markers.                      *)
Cleaned(store) ==
  [j \in Jobs |-> IF Present(store[j]) THEN [store[j] EXCEPT !.running = Never] ELSE store[j]]

LEMMA CleanedStore ==
  ASSUME NEW store \in Store
  PROVE  /\ Cleaned(store) \in Store
         /\ \A j \in Jobs :
              /\ store[j] = Absent => Cleaned(store)[j] = Absent
              /\ store[j] \in Record =>
                   LET r == Cleaned(store)[j] IN
                   /\ r \in Record /\ r.running = Never
                   /\ r.next = store[j].next /\ r.enabled = store[j].enabled
                   /\ r.sched = store[j].sched /\ r.status = store[j].status
<1> DEFINE clean == Cleaned(store)
<1>1. ASSUME NEW j \in Jobs
      PROVE  /\ clean[j] \in Record \cup {Absent}
             /\ store[j] = Absent => clean[j] = Absent
             /\ store[j] \in Record =>
                   LET r == clean[j] IN
                   /\ r \in Record /\ r.running = Never
                   /\ r.next = store[j].next /\ r.enabled = store[j].enabled
                   /\ r.sched = store[j].sched /\ r.status = store[j].status
  <2>1. clean[j] = IF Present(store[j]) THEN [store[j] EXCEPT !.running = Never] ELSE store[j]
    BY DEF Cleaned
  <2>2. CASE store[j] = Absent
    BY <2>1, <2>2, AbsentFacts
  <2>3. CASE store[j] \in Record
    <3>1. LET r == [store[j] EXCEPT !.running = Never] IN
           /\ r \in Record /\ r.running = Never
           /\ r.next = store[j].next /\ r.enabled = store[j].enabled
           /\ r.sched = store[j].sched /\ r.status = store[j].status
      BY <2>3 DEF Record
    <3> QED
      BY <2>1, <2>3, <3>1, AbsentFacts
  <2> QED
    BY <2>2, <2>3, InStore, AbsentFacts
<1>2. clean \in Store
  <2>1. clean = [j \in Jobs |-> clean[j]]
    BY DEF Cleaned
  <2> HIDE DEF clean
  <2>2. clean \in [Jobs -> Record \cup {Absent}]
    BY <1>1, <2>1
  <2> QED
    BY <2>2 DEF Store
<1> QED
  BY <1>1, <1>2

(* The two ways start can go.                                              *)
Missed == { j \in Jobs : /\ IsDue(Cleaned(file)[j], now)
                         /\ ~ (Cleaned(file)[j].sched.kind = "at" /\ Cleaned(file)[j].status = "ok") }

LEMMA StartCases ==
  ASSUME NEW s \in Services, Start(s)
  PROVE  /\ life[s] = "new" /\ LockFree
         /\ UNCHANGED <<now, tick, born, crashes, unmarked>>
         /\ \/ /\ Persist(s, RecomputeNextRuns(Cleaned(file))) /\ ArmTimer(s)
               /\ life' = [life EXCEPT ![s] = "up"]
               /\ UNCHANGED <<held, begun>>
            \/ /\ Hold(s, Missed, Cleaned(file))
               /\ life' = [life EXCEPT ![s] = "starting"]
               /\ begun' = [j \in Jobs |-> IF j \in Missed THEN Cleaned(file)[j].next ELSE begun[j]]
               /\ UNCHANGED <<file, timer>>
BY DEF Start, Missed, Cleaned

LEMMA HoldTyped ==
  ASSUME Typed, NEW s \in Services, NEW todo \in SUBSET Jobs, NEW store \in Store,
         Hold(s, todo, store), UNCHANGED <<now, file, timer, tick, born, crashes, unmarked>>,
         life' \in [Services -> {"new", "starting", "up", "stopped"}], begun' \in [Jobs -> Instants]
  PROVE  Typed'
<1>1. HeldGood(held') /\ mem' \in [Services -> Store]
  BY HoldFacts DEF Typed
<1> QED
  BY <1>1 DEF Typed

(* A store is saved, and the timer armed or left.                          *)
LEMMA PersistTyped ==
  ASSUME Typed, NEW s \in Services, NEW store \in Store, Persist(s, store),
         ArmTimer(s) \/ UNCHANGED timer, UNCHANGED <<now, crashes>>
  PROVE  /\ now' \in Time /\ crashes' \in 0..MaxCrashes /\ file' \in Store
         /\ mem' \in [Services -> Store] /\ timer' \in [Services -> Instants]
<1>1. file' \in Store /\ mem' \in [Services -> Store]
  BY PersistFacts DEF Typed
<1>2. timer' \in [Services -> Instants]
  BY <1>1, ArmTimerFacts DEF Typed
<1> QED
  BY <1>1, <1>2 DEF Typed

LEMMA StartTyped ==
  ASSUME Typed, NEW s \in Services, Start(s)
  PROVE  Typed'
<1>1. Cleaned(file) \in Store /\ RecomputeNextRuns(Cleaned(file)) \in Store
  BY CleanedStore, RecomputedStore DEF Typed
<1>2. life' \in [Services -> {"new", "starting", "up", "stopped"}]
  BY StartCases DEF Typed
<1>3. CASE Persist(s, RecomputeNextRuns(Cleaned(file))) /\ ArmTimer(s) /\ UNCHANGED <<held, begun>>
  BY <1>1, <1>2, <1>3, StartCases, PersistTyped DEF Typed
<1>4. CASE /\ Hold(s, Missed, Cleaned(file))
           /\ begun' = [j \in Jobs |-> IF j \in Missed THEN Cleaned(file)[j].next ELSE begun[j]]
           /\ UNCHANGED <<file, timer>>
  <2>1. ASSUME NEW j \in Missed PROVE Cleaned(file)[j].next \in Instants
    <3>1. Present(Cleaned(file)[j]) /\ j \in Jobs
      BY DEF Missed, IsDue
    <3> QED
      BY <1>1, <3>1, InStore DEF Record
  <2>2. begun' \in [Jobs -> Instants]
    BY <1>4, <2>1 DEF Typed
  <2>3. Missed \in SUBSET Jobs
    BY DEF Missed
  <2> QED
    BY <1>1, <1>2, <1>4, <2>2, <2>3, StartCases, HoldTyped
<1> QED
  BY <1>3, <1>4, StartCases

LEMMA RunTyped ==
  ASSUME Typed, NEW s \in Services, NEW j \in Jobs, NEW force \in BOOLEAN, Run(s, j, force)
  PROVE  Typed'
<1>1. mem[s] \in Store /\ {j} \in SUBSET Jobs
  BY DEF Typed
<1> QED
  BY <1>1, HoldTyped DEF Run, Typed

(* The result of the job executed under the lock, in its service's memory. *)
AfterHeld(outcome) ==
  [mem[held.svc] EXCEPT ![held.cur] = JobResultApplied(@, outcome, now)]

LEMMA HeldEndsCases ==
  ASSUME Typed, NEW outcome \in Outcomes, HeldEnds(outcome)
  PROVE  /\ held.svc \in Services /\ held.cur \in Jobs /\ AfterHeld(outcome) \in Store
         /\ AfterHeld(outcome)[held.cur] = JobResultApplied(mem[held.svc][held.cur], outcome, now)
         /\ \A j \in Jobs : j # held.cur => AfterHeld(outcome)[j] = mem[held.svc][j]
         /\ UNCHANGED <<now, tick, born, crashes, begun, unmarked>>
         /\ \/ /\ held.todo # {} /\ Hold(held.svc, held.todo, AfterHeld(outcome))
               /\ UNCHANGED <<file, timer, life>>
            \/ /\ held.todo = {}
               /\ Persist(held.svc, RecomputeNextRuns(AfterHeld(outcome))) /\ ArmTimer(held.svc)
               /\ held' = Unheld
               /\ life' = [life EXCEPT ![held.svc] = IF @ = "starting" THEN "up" ELSE @]
<1>1. held.svc # None
  BY DEF HeldEnds
<1>2. held.svc \in Services /\ held.cur \in Jobs /\ mem[held.svc] \in Store
  BY <1>1 DEF Typed, HeldGood
<1>3. mem[held.svc][held.cur] \in Record \cup {Absent}
  BY <1>2, InStore
<1>4. JobResultApplied(mem[held.svc][held.cur], outcome, now) \in Record \cup {Absent}
  BY <1>3, AppliedType DEF Typed
<1>5. AfterHeld(outcome) \in Store
  BY <1>2, <1>4, ChangedStore DEF AfterHeld
<1>6. /\ AfterHeld(outcome)[held.cur] = JobResultApplied(mem[held.svc][held.cur], outcome, now)
      /\ \A j \in Jobs : j # held.cur => AfterHeld(outcome)[j] = mem[held.svc][j]
  BY <1>2 DEF AfterHeld, Store
<1> QED
  BY <1>2, <1>5, <1>6 DEF HeldEnds, AfterHeld

LEMMA HeldEndsTyped ==
  ASSUME Typed, NEW outcome \in Outcomes, HeldEnds(outcome)
  PROVE  Typed'
<1> DEFINE s == held.svc
<1>1. s \in Services /\ AfterHeld(outcome) \in Store /\ UNCHANGED <<now, tick, born, crashes, begun, unmarked>>
  BY HeldEndsCases
<1>2. CASE Hold(s, held.todo, AfterHeld(outcome)) /\ UNCHANGED <<file, timer, life>>
  <2>1. held.todo \in SUBSET Jobs
    BY DEF Typed, HeldGood
  <2>2. life' \in [Services -> {"new", "starting", "up", "stopped"}] /\ begun' \in [Jobs -> Instants]
    BY <1>1, <1>2 DEF Typed
  <2> HIDE DEF s
  <2> QED
    BY <1>1, <1>2, <2>1, <2>2, HoldTyped
<1>3. CASE /\ Persist(s, RecomputeNextRuns(AfterHeld(outcome))) /\ ArmTimer(s)
           /\ held' = Unheld
           /\ life' = [life EXCEPT ![s] = IF @ = "starting" THEN "up" ELSE @]
  <2>1. RecomputeNextRuns(AfterHeld(outcome)) \in Store
    BY <1>1, RecomputedStore DEF Typed
  <2>2. life' \in [Services -> {"new", "starting", "up", "stopped"}]
    BY <1>3 DEF Typed
  <2> HIDE DEF s
  <2> QED
    BY <1>1, <1>3, <2>1, <2>2, PersistTyped, UnheldFacts DEF Typed
<1> QED
  BY <1>2, <1>3, HeldEndsCases

(* The record an update leaves.                                            *)
Changed(rec, patch) ==
  LET new == Patched(rec, patch)
  IN IF patch.enabled = None /\ patch.schedule = None THEN new
     ELSE IF new.enabled THEN [new EXCEPT !.next = JobNextRun(new, now)]
     ELSE [new EXCEPT !.next = Never, !.running = Never]

LEMMA ChangedFacts ==
  ASSUME NEW rec \in Record, NEW patch \in Patches, now \in Time
  PROVE  LET r == Changed(rec, patch) IN
         /\ r \in Record /\ r.running \in {rec.running, Never} /\ r.status = rec.status
         /\ r.enabled => r.running = rec.running
         /\ \/ /\ r.next = rec.next /\ r.enabled = rec.enabled /\ r.sched = rec.sched
               /\ r.running = rec.running
            \/ r.next = JobNextRun(r, now)
<1> DEFINE new == Patched(rec, patch)
           r == Changed(rec, patch)
<1>1. /\ new \in Record /\ new.running = rec.running /\ new.next = rec.next /\ new.status = rec.status
      /\ patch.enabled = None => new.enabled = rec.enabled
      /\ patch.schedule = None => new.sched = rec.sched
  BY PatchedFacts
<1>2. r = IF patch.enabled = None /\ patch.schedule = None THEN new
          ELSE IF new.enabled THEN [new EXCEPT !.next = JobNextRun(new, now)]
          ELSE [new EXCEPT !.next = Never, !.running = Never]
  BY DEF Changed
<1> HIDE DEF new, r
<1>3. CASE patch.enabled = None /\ patch.schedule = None
  BY <1>1, <1>2, <1>3 DEF r
<1>4. CASE ~ (patch.enabled = None /\ patch.schedule = None) /\ new.enabled
  <2> DEFINE n == JobNextRun(new, now)
  <2>1. n \in Instants
    BY <1>1, JobNextRunFacts
  <2>2. r = [new EXCEPT !.next = n]
    BY <1>2, <1>4
  <2>3. JobNextRun([new EXCEPT !.next = n], now) = n
    <3> DEFINE q == [new EXCEPT !.next = n]
    <3>1. q.enabled = new.enabled /\ q.sched = new.sched /\ q.status = new.status
      BY <1>1 DEF Record
    <3> HIDE DEF q
    <3>2. JobNextRun(q, now) = JobNextRun(new, now)
      BY <3>1 DEF JobNextRun
    <3> QED
      BY <3>2 DEF q
  <2> HIDE DEF n
  <2>4. r \in Record /\ r.running = new.running /\ r.status = new.status /\ r.next = n
    BY <1>1, <2>1, <2>2 DEF Record
  <2> QED
    BY <1>1, <2>2, <2>3, <2>4 DEF r
<1>5. CASE ~ (patch.enabled = None /\ patch.schedule = None) /\ ~ new.enabled
  <2>1. Never \in Instants /\ Never \in Time \cup {Never}
    BY DEF Instants
  <2>2. r = [new EXCEPT !.next = Never, !.running = Never]
    BY <1>2, <1>5
  <2>3. /\ r \in Record /\ r.running = Never /\ r.status = new.status /\ r.next = Never
        /\ r.enabled = new.enabled
    BY <1>1, <2>1, <2>2 DEF Record
  <2>4. JobNextRun(r, now) = Never
    BY <1>5, <2>3 DEF JobNextRun
  <2> QED
    BY <1>1, <1>5, <2>3, <2>4 DEF r
<1> QED
  BY <1>3, <1>4, <1>5

(* The client operations, but run: what they make of the store.            *)
LEMMA ReadCases ==
  ASSUME Typed, NEW s \in Services, Read(s)
  PROVE  /\ life[s] = "up" /\ LockFree
         /\ UNCHANGED <<now, timer, tick, held, life, born, crashes, begun, unmarked>>
         /\ RecomputeNextRuns(mem[s]) \in Store
         /\ \/ UNCHANGED <<file, mem>>
            \/ Persist(s, RecomputeNextRuns(mem[s]))
<1>1. mem[s] \in Store
  BY DEF Typed
<1> QED
  BY <1>1, RecomputedStore DEF Read, Typed

LEMMA AddCases ==
  ASSUME Typed, NEW s \in Services, NEW j \in Jobs, NEW sched \in SchedulesOf[j],
         NEW delete \in Deletable, Add(s, j, sched, delete)
  PROVE  /\ life[s] = "up" /\ LockFree /\ j \notin born /\ born' = born \cup {j}
         /\ UNCHANGED <<now, tick, held, life, crashes, begun, unmarked>>
         /\ ArmTimer(s)
         /\ \E store \in Store :
              /\ store[j] = Created(sched, delete) /\ \A i \in Jobs : i # j => store[i] = mem[s][i]
              /\ RecomputeNextRuns(store) \in Store
              /\ Persist(s, RecomputeNextRuns(store))
<1> DEFINE store == [mem[s] EXCEPT ![j] = Created(sched, delete)]
<1>1. mem[s] \in Store /\ now \in Time
  BY DEF Typed
<1>2. Created(sched, delete) \in Record \cup {Absent}
  BY <1>1, CreatedFacts
<1>3. store \in Store
  BY <1>1, <1>2, ChangedStore
<1>4. store[j] = Created(sched, delete) /\ \A i \in Jobs : i # j => store[i] = mem[s][i]
  BY <1>1 DEF Store
<1>5. Persist(s, RecomputeNextRuns(store))
  BY DEF Add
<1> HIDE DEF store
<1>6. RecomputeNextRuns(store) \in Store
  BY <1>1, <1>3, RecomputedStore
<1> QED
  BY <1>3, <1>4, <1>5, <1>6 DEF Add

LEMMA UpdateCases ==
  ASSUME Typed, NEW s \in Services, NEW j \in Jobs, NEW patch \in Patches, Update(s, j, patch)
  PROVE  /\ life[s] = "up" /\ LockFree /\ mem[s][j] \in Record
         /\ UNCHANGED <<now, tick, held, life, born, crashes>>
         /\ ArmTimer(s)
         /\ begun' = [begun EXCEPT ![j] = Never]
         /\ unmarked' = IF ~ Changed(mem[s][j], patch).enabled /\ \E o \in Services : InTick(o, j)
                        THEN unmarked \cup {j} ELSE unmarked
         /\ \E store \in Store :
              /\ store[j] = Changed(mem[s][j], patch) /\ \A i \in Jobs : i # j => store[i] = mem[s][i]
              /\ Persist(s, store)
<1> DEFINE store == [mem[s] EXCEPT ![j] = Changed(mem[s][j], patch)]
<1>1. mem[s] \in Store /\ now \in Time
  BY DEF Typed
<1>2. mem[s][j] \in Record
  BY <1>1, InStore DEF Update
<1>3. Changed(mem[s][j], patch) \in Record
  BY <1>1, <1>2, ChangedFacts
<1>4. store \in Store
  BY <1>1, <1>3, ChangedStore
<1>5. store[j] = Changed(mem[s][j], patch) /\ \A i \in Jobs : i # j => store[i] = mem[s][i]
  BY <1>1 DEF Store
<1>6. Persist(s, store)
  BY DEF Update, Changed
<1>7. unmarked' = IF ~ Changed(mem[s][j], patch).enabled /\ \E o \in Services : InTick(o, j)
                  THEN unmarked \cup {j} ELSE unmarked
  BY DEF Update, Changed
<1> HIDE DEF store
<1> QED
  BY <1>2, <1>4, <1>5, <1>6, <1>7 DEF Update

LEMMA UpdateThrowsCases ==
  ASSUME Typed, NEW s \in Services, NEW j \in Jobs, NEW patch \in Patches, UpdateThrows(s, j, patch)
  PROVE  /\ ~ patch.valid /\ patch.schedule = None /\ mem[s][j] \in Record
         /\ UNCHANGED <<now, file, timer, tick, held, life, born, crashes, begun, unmarked>>
         /\ \E store \in Store :
              /\ store[j] = Patched(mem[s][j], patch) /\ \A i \in Jobs : i # j => store[i] = mem[s][i]
              /\ Remember(s, store)
<1> DEFINE store == [mem[s] EXCEPT ![j] = Patched(mem[s][j], patch)]
<1>1. mem[s] \in Store /\ now \in Time
  BY DEF Typed
<1>2. mem[s][j] \in Record
  BY <1>1, InStore DEF UpdateThrows
<1>3. Patched(mem[s][j], patch) \in Record
  BY <1>1, <1>2, PatchedFacts
<1>4. store \in Store
  BY <1>1, <1>3, ChangedStore
<1>5. store[j] = Patched(mem[s][j], patch) /\ \A i \in Jobs : i # j => store[i] = mem[s][i]
  BY <1>1 DEF Store
<1>6. Remember(s, store)
  BY DEF UpdateThrows
<1> HIDE DEF store
<1> QED
  BY <1>2, <1>4, <1>5, <1>6 DEF UpdateThrows

LEMMA RemoveCases ==
  ASSUME Typed, NEW s \in Services, NEW j \in Jobs, Remove(s, j)
  PROVE  /\ life[s] = "up" /\ LockFree
         /\ UNCHANGED <<now, tick, held, life, born, crashes, begun, unmarked>>
         /\ ArmTimer(s)
         /\ \E store \in Store :
              /\ store[j] = Absent /\ \A i \in Jobs : i # j => store[i] = mem[s][i]
              /\ Persist(s, store)
<1> DEFINE store == [mem[s] EXCEPT ![j] = Absent]
<1>1. mem[s] \in Store
  BY DEF Typed
<1>2. store \in Store
  BY <1>1, ChangedStore
<1>3. store[j] = Absent /\ \A i \in Jobs : i # j => store[i] = mem[s][i]
  BY <1>1 DEF Store
<1>4. Persist(s, store)
  BY DEF Remove
<1> HIDE DEF store
<1> QED
  BY <1>2, <1>3, <1>4 DEF Remove

LEMMA ClientTyped ==
  ASSUME Typed, NEW s \in Services, Client(s)
  PROVE  Typed'
<1>1. CASE Read(s)
  BY <1>1, ReadCases, PersistTyped DEF Typed
<1>2. ASSUME NEW j \in Jobs, Remove(s, j) PROVE Typed'
  BY <1>2, RemoveCases, PersistTyped DEF Typed
<1>3. ASSUME NEW j \in Jobs, NEW force \in BOOLEAN, Run(s, j, force) PROVE Typed'
  BY <1>3, RunTyped
<1>4. ASSUME NEW j \in Jobs, NEW sched \in SchedulesOf[j], NEW delete \in Deletable,
             Add(s, j, sched, delete)
      PROVE  Typed'
  BY <1>4, AddCases, PersistTyped DEF Typed
<1>5. ASSUME NEW j \in Jobs, NEW patch \in Patches, Update(s, j, patch) PROVE Typed'
  <2>1. Never \in Instants
    BY DEF Instants
  <2>2. begun' \in [Jobs -> Instants] /\ unmarked' \subseteq Jobs
    BY <1>5, <2>1, UpdateCases DEF Typed
  <2> QED
    BY <1>5, <2>2, UpdateCases, PersistTyped DEF Typed
<1>6. ASSUME NEW j \in Jobs, NEW patch \in Patches, UpdateThrows(s, j, patch) PROVE Typed'
  BY <1>6, UpdateThrowsCases, RememberFacts DEF Typed
<1> QED
  BY <1>1, <1>2, <1>3, <1>4, <1>5, <1>6 DEF Client

(* The tick.                                                               *)
LEMMA TickChanged ==
  ASSUME Typed, NEW s \in Services, NEW t \in TickType, tick' = [tick EXCEPT ![s] = t],
         t.pc = "run" <=> Busy(t)
  PROVE  /\ tick' \in [Services -> TickType] /\ tick'[s] = t
         /\ \A o \in Services : o # s => tick'[o] = tick[o]
         /\ \A o \in Services : tick'[o].pc = "run" <=> Busy(tick'[o])
BY DEF Typed

LEMMA FireTyped ==
  ASSUME Typed, NEW s \in Services, Fire(s)
  PROVE  Typed'
<1>1. Never \in Instants
  BY DEF Instants
<1>2. timer' \in [Services -> Instants]
  BY <1>1 DEF Fire, Typed
<1>3. tick' \in [Services -> TickType] /\ \A o \in Services : tick'[o].pc = "run" <=> Busy(tick'[o])
  <2>1. CASE tick' = tick
    BY <2>1 DEF Typed, Busy
  <2>2. CASE tick[s].pc = "idle" /\ tick' = [tick EXCEPT ![s].pc = "mark"]
    <3> DEFINE t == [tick[s] EXCEPT !.pc = "mark"]
    <3>1. tick[s] \in TickType /\ ~ Busy(tick[s])
      BY <2>2 DEF Typed
    <3>2. t \in TickType /\ t.pc = "mark" /\ ~ Busy(t)
      BY <3>1 DEF TickType, Busy
    <3>3. tick' = [tick EXCEPT ![s] = t]
      BY <2>2
    <3> HIDE DEF t
    <3> QED
      BY <3>2, <3>3, TickChanged
  <2> QED
    BY <2>1, <2>2 DEF Fire
<1> QED
  BY <1>2, <1>3 DEF Fire, Typed

Due == { j \in Jobs : IsDue(file[j], now) }

LEMMA MarkCases ==
  ASSUME Typed, NEW s \in Services, Mark(s)
  PROVE  /\ tick[s].pc = "mark" /\ LockFree /\ ~ Busy(tick[s])
         /\ UNCHANGED <<now, timer, held, life, born, crashes, begun, unmarked>>
         /\ \E t \in TickType :
              /\ tick' = [tick EXCEPT ![s] = t] /\ (t.pc = "run" <=> Busy(t)) /\ t.pc # "idle"
              /\ t.cur = None /\ t.results = {}
              /\ \/ /\ Due = {} /\ t.todo = {} /\ RecomputeNextRuns(file) \in Store
                    /\ Persist(s, RecomputeNextRuns(file))
                 \/ /\ t.pc = "run" /\ t.todo = Due /\ Marked(file, Due) \in Store
                    /\ Persist(s, Marked(file, Due))
<1>1. tick[s] \in TickType /\ tick[s].pc = "mark" /\ ~ Busy(tick[s])
  BY DEF Mark, Typed
<1>2. tick[s].todo = {} /\ tick[s].cur = None /\ tick[s].results = {}
  BY <1>1 DEF Busy
<1>3. RecomputeNextRuns(file) \in Store /\ Marked(file, Due) \in Store
  BY RecomputedStore, MarkedStore DEF Typed
<1>4. CASE Due = {}
  <2> DEFINE t == [tick[s] EXCEPT !.pc = "sweep"]
  <2>1. tick' = [tick EXCEPT ![s] = t]
    BY <1>4 DEF Mark, Due
  <2>2. t \in TickType /\ t.pc = "sweep" /\ t.cur = None /\ t.results = {} /\ t.todo = {}
    BY <1>1, <1>2 DEF TickType
  <2>3. Persist(s, RecomputeNextRuns(file))
    BY <1>4 DEF Mark, Due
  <2> HIDE DEF t
  <2>4. ~ Busy(t)
    BY <2>2 DEF Busy
  <2> QED
    BY <1>1, <1>3, <1>4, <2>1, <2>2, <2>3, <2>4 DEF Mark
<1>5. CASE Due # {}
  <2> DEFINE t == [tick[s] EXCEPT !.pc = "run", !.todo = Due]
  <2>1. tick' = [tick EXCEPT ![s] = t]
    BY <1>5 DEF Mark, Due
  <2>2. t \in TickType /\ t.pc = "run" /\ t.cur = None /\ t.results = {} /\ t.todo = Due
    BY <1>1, <1>2 DEF TickType, Due
  <2>3. Persist(s, Marked(file, Due))
    BY <1>5 DEF Mark, Due
  <2> HIDE DEF t
  <2>4. Busy(t)
    BY <1>5, <2>2 DEF Busy
  <2> QED
    BY <1>1, <1>3, <2>1, <2>2, <2>3, <2>4 DEF Mark
<1> QED
  BY <1>4, <1>5

LEMMA BeginCases ==
  ASSUME Typed, NEW s \in Services, NEW j \in Jobs, Begin(s, j)
  PROVE  /\ tick[s].cur = None /\ j \in tick[s].todo /\ tick[s].pc = "run"
         /\ UNCHANGED <<now, file, timer, held, life, born, crashes, unmarked>>
         /\ Marked(mem[s], {j}) \in Store /\ Remember(s, Marked(mem[s], {j}))
         /\ begun' = [begun EXCEPT ![j] = IF Present(mem[s][j]) THEN mem[s][j].next ELSE Never]
         /\ \E t \in TickType :
              /\ tick' = [tick EXCEPT ![s] = t] /\ t.pc = "run" /\ Busy(t)
              /\ t.cur = j /\ t.todo = tick[s].todo \ {j} /\ t.results = tick[s].results
<1> DEFINE t == [tick[s] EXCEPT !.cur = j, !.since = now, !.todo = @ \ {j}]
<1>1. tick[s] \in TickType /\ now \in Time /\ mem[s] \in Store /\ j # None
  BY ClientsAssumption DEF Typed
<1>2. tick' = [tick EXCEPT ![s] = t]
  BY DEF Begin
<1>3. /\ t \in TickType /\ t.pc = tick[s].pc /\ t.cur = j /\ t.todo = tick[s].todo \ {j}
      /\ t.results = tick[s].results
  BY <1>1 DEF TickType
<1>4. Marked(mem[s], {j}) \in Store
  BY <1>1, MarkedStore
<1> HIDE DEF t
<1>5. Busy(t)
  BY <1>1, <1>3 DEF Busy
<1> QED
  BY <1>2, <1>3, <1>4, <1>5 DEF Begin

LEMMA EndCases ==
  ASSUME Typed, NEW s \in Services, NEW outcome \in Outcomes, End(s, outcome)
  PROVE  /\ tick[s].cur \in Jobs /\ tick[s].pc = "run"
         /\ UNCHANGED <<now, file, mem, timer, held, life, born, crashes, begun, unmarked>>
         /\ \E t \in TickType :
              /\ tick' = [tick EXCEPT ![s] = t] /\ t.pc = "run" /\ Busy(t)
              /\ t.cur = None /\ t.todo = tick[s].todo
              /\ t.results = tick[s].results \cup
                               {[job |-> tick[s].cur, status |-> outcome, ended |-> now]}
<1> DEFINE r == [job |-> tick[s].cur, status |-> outcome, ended |-> now]
           t == [tick[s] EXCEPT !.cur = None, !.since = Never, !.results = @ \cup {r}]
<1>1. tick[s] \in TickType /\ now \in Time /\ tick[s].cur # None
  BY DEF End, Typed
<1>2. tick[s].cur \in Jobs /\ tick[s].pc = "run"
  BY <1>1 DEF TickType, Typed, Busy
<1>3. r \in [job : Jobs, status : Outcomes, ended : Time]
  BY <1>1, <1>2
<1>4. tick' = [tick EXCEPT ![s] = t]
  BY DEF End
<1> HIDE DEF r
<1>5. /\ t \in TickType /\ t.pc = tick[s].pc /\ t.cur = None /\ t.todo = tick[s].todo
      /\ t.results = tick[s].results \cup {r}
  BY <1>1, <1>3 DEF TickType
<1> HIDE DEF t
<1>6. Busy(t)
  BY <1>5 DEF Busy
<1> QED
  BY <1>2, <1>4, <1>5, <1>6 DEF End, r

HasResult(s, j) == \E r \in tick[s].results : r.job = j

(* The file with the results of a tick.                                    *)
LEMMA ApplyCases ==
  ASSUME Typed, NEW s \in Services, Apply(s)
  PROVE  /\ tick[s].pc = "run" /\ tick[s].cur = None /\ tick[s].todo = {} /\ LockFree
         /\ UNCHANGED <<now, timer, held, life, born, crashes, begun>>
         /\ tick' = [tick EXCEPT ![s] = [Idle EXCEPT !.pc = "sweep"]]
         /\ unmarked' = unmarked \ { r.job : r \in tick[s].results }
         /\ \E store \in Store :
              /\ \A j \in Jobs :
                   IF HasResult(s, j)
                   THEN \E status \in Outcomes, t \in Time :
                          store[j] = JobResultApplied(file[j], status, t)
                   ELSE store[j] = file[j]
              /\ RecomputeNextRuns(store) \in Store
              /\ Persist(s, RecomputeNextRuns(store))
<1> DEFINE results == tick[s].results
           resultOf(j) == CHOOSE r \in results : r.job = j
           store == [j \in Jobs |->
                       IF \E r \in results : r.job = j
                       THEN JobResultApplied(file[j], resultOf(j).status, resultOf(j).ended)
                       ELSE file[j]]
<1>1. results \subseteq [job : Jobs, status : Outcomes, ended : Time] /\ file \in Store
  BY DEF Typed, TickType
<1>2. ASSUME NEW j \in Jobs, HasResult(s, j)
      PROVE  resultOf(j).status \in Outcomes /\ resultOf(j).ended \in Time
  <2>1. resultOf(j) \in results
    BY <1>2 DEF HasResult
  <2> HIDE DEF resultOf
  <2> QED
    BY <1>1, <2>1
<1>3. ASSUME NEW j \in Jobs
      PROVE  IF HasResult(s, j)
             THEN \E status \in Outcomes, t \in Time :
                    store[j] = JobResultApplied(file[j], status, t)
             ELSE store[j] = file[j]
  <2> DEFINE q == resultOf(j)
  <2>1. store[j] = IF HasResult(s, j) THEN JobResultApplied(file[j], q.status, q.ended) ELSE file[j]
    BY DEF HasResult
  <2> HIDE DEF q, store
  <2> QED
    BY <1>2, <2>1 DEF q
<1>4. \A j \in Jobs : store[j] \in Record \cup {Absent}
  <2>1. \A j \in Jobs : file[j] \in Record \cup {Absent}
    BY <1>1, InStore
  <2> HIDE DEF store
  <2> QED
    BY <1>3, <2>1, AppliedType
<1>5. store \in Store
  <2>1. store = [j \in Jobs |-> store[j]]
    OBVIOUS
  <2> HIDE DEF store
  <2>2. store \in [Jobs -> Record \cup {Absent}]
    BY <1>4, <2>1
  <2> QED
    BY <2>2 DEF Store
<1>6. Persist(s, RecomputeNextRuns(store))
  BY DEF Apply
<1>7. /\ tick[s].pc = "run" /\ tick[s].cur = None /\ tick[s].todo = {} /\ LockFree
      /\ UNCHANGED <<now, timer, held, life, born, crashes, begun>>
      /\ tick' = [tick EXCEPT ![s] = [Idle EXCEPT !.pc = "sweep"]]
      /\ unmarked' = unmarked \ { r.job : r \in tick[s].results }
  BY DEF Apply
<1> HIDE DEF store
<1>8. RecomputeNextRuns(store) \in Store
  BY <1>5, RecomputedStore DEF Typed
<1> QED
  BY <1>3, <1>5, <1>6, <1>7, <1>8

LEMMA TickTyped ==
  ASSUME Typed, NEW s \in Services
  PROVE  /\ Mark(s) => Typed'
         /\ \A j \in Jobs : Begin(s, j) => Typed'
         /\ \A outcome \in Outcomes : End(s, outcome) => Typed'
         /\ Apply(s) => Typed'
         /\ TickEnds(s) => Typed'
<1>1. ASSUME Mark(s) PROVE Typed'
  <2>1. PICK t \in TickType :
              /\ tick' = [tick EXCEPT ![s] = t] /\ (t.pc = "run" <=> Busy(t))
              /\ \/ RecomputeNextRuns(file) \in Store /\ Persist(s, RecomputeNextRuns(file))
                 \/ Marked(file, Due) \in Store /\ Persist(s, Marked(file, Due))
    BY <1>1, MarkCases
  <2>2. tick' \in [Services -> TickType] /\ \A o \in Services : tick'[o].pc = "run" <=> Busy(tick'[o])
    BY <2>1, TickChanged
  <2>3. UNCHANGED <<now, timer, held, life, born, crashes, begun, unmarked>>
    BY <1>1, MarkCases
  <2> QED
    BY <2>1, <2>2, <2>3, PersistTyped DEF Typed
<1>2. ASSUME NEW j \in Jobs, Begin(s, j) PROVE Typed'
  <2>1. PICK t \in TickType : tick' = [tick EXCEPT ![s] = t] /\ t.pc = "run" /\ Busy(t)
    BY <1>2, BeginCases
  <2>2. tick' \in [Services -> TickType] /\ \A o \in Services : tick'[o].pc = "run" <=> Busy(tick'[o])
    BY <2>1, TickChanged
  <2>3. mem' \in [Services -> Store]
    BY <1>2, BeginCases, RememberFacts DEF Typed
  <2>4. (IF Present(mem[s][j]) THEN mem[s][j].next ELSE Never) \in Instants
    <3>1. mem[s] \in Store /\ Never \in Instants
      BY DEF Typed, Instants
    <3> QED
      BY <3>1, InStore DEF Record
  <2>5. begun' \in [Jobs -> Instants]
    <3> DEFINE n == IF Present(mem[s][j]) THEN mem[s][j].next ELSE Never
    <3>1. begun' = [begun EXCEPT ![j] = n] /\ n \in Instants
      BY <1>2, <2>4, BeginCases
    <3> HIDE DEF n
    <3> QED
      BY <3>1 DEF Typed
  <2> QED
    BY <1>2, <2>2, <2>3, <2>5, BeginCases DEF Typed
<1>3. ASSUME NEW outcome \in Outcomes, End(s, outcome) PROVE Typed'
  <2>1. PICK t \in TickType : tick' = [tick EXCEPT ![s] = t] /\ t.pc = "run" /\ Busy(t)
    BY <1>3, EndCases
  <2>2. tick' \in [Services -> TickType] /\ \A o \in Services : tick'[o].pc = "run" <=> Busy(tick'[o])
    BY <2>1, TickChanged
  <2> QED
    BY <1>3, <2>2, EndCases DEF Typed
<1>4. ASSUME Apply(s) PROVE Typed'
  <2> DEFINE t == [Idle EXCEPT !.pc = "sweep"]
  <2>1. t \in TickType /\ t.pc # "run" /\ ~ Busy(t)
    BY IdleFacts DEF Busy
  <2>2. tick' = [tick EXCEPT ![s] = t]
    BY <1>4, ApplyCases
  <2> HIDE DEF t
  <2>3. tick' \in [Services -> TickType] /\ \A o \in Services : tick'[o].pc = "run" <=> Busy(tick'[o])
    BY <2>1, <2>2, TickChanged
  <2>4. unmarked' \subseteq Jobs
    BY <1>4, ApplyCases DEF Typed
  <2> QED
    BY <1>4, <2>3, <2>4, ApplyCases, PersistTyped DEF Typed
<1>5. ASSUME TickEnds(s) PROVE Typed'
  <2>1. Idle.pc # "run" /\ ~ Busy(Idle) /\ Idle \in TickType /\ tick' = [tick EXCEPT ![s] = Idle]
    BY <1>5, IdleFacts DEF Busy, TickEnds
  <2>2. tick' \in [Services -> TickType] /\ \A o \in Services : tick'[o].pc = "run" <=> Busy(tick'[o])
    BY <2>1, TickChanged
  <2>3. mem' \in [Services -> Store] /\ ArmTimer(s)
    BY <1>5 DEF TickEnds, Typed
  <2>4. timer' \in [Services -> Instants]
    BY <2>3, ArmTimerFacts DEF Typed
  <2> QED
    BY <1>5, <2>2, <2>4 DEF TickEnds, Typed
<1> QED
  BY <1>1, <1>2, <1>3, <1>4, <1>5

LEMMA OthersTyped ==
  ASSUME Typed
  PROVE  /\ \A s \in Services : Stop(s) => Typed'
         /\ Crash => Typed'
         /\ Advance => Typed'
<1> DEFINE absent == [j \in Jobs |-> Absent]
<1>1. Never \in Instants /\ absent \in Store
  BY DEF Instants, Store
<1>2. ASSUME NEW s \in Services, Stop(s) PROVE Typed'
  BY <1>1, <1>2 DEF Stop, Typed
<1>3. ASSUME Crash PROVE Typed'
  <2>1. tick' \in [Services -> TickType] /\ \A s \in Services : tick'[s] = Idle
    BY <1>3, IdleFacts DEF Crash
  <2>2. \A s \in Services : tick'[s].pc = "run" <=> Busy(tick'[s])
    BY <2>1, IdleFacts DEF Busy
  <2>3. HeldGood(held')
    BY <1>3, UnheldFacts DEF Crash
  <2>4. crashes' \in 0..MaxCrashes
    BY <1>3, TimingAssumption DEF Crash, Typed
  <2>5. mem' \in [Services -> Store]
    BY <1>1, <1>3 DEF Crash
  <2>6. begun' \in [Jobs -> Instants] /\ timer' \in [Services -> Instants]
    BY <1>1, <1>3 DEF Crash
  <2> QED
    BY <1>3, <2>1, <2>2, <2>3, <2>4, <2>5, <2>6 DEF Crash, Typed
<1>4. ASSUME Advance PROVE Typed'
  <2>1. now \in Nat
    BY TimeIsNat DEF Typed
  <2>2. now' \in Time
    BY <1>4, <2>1, ConstantsAreNat DEF Advance, Time
  <2> QED
    BY <1>4, <2>2 DEF Advance, Typed
<1> QED
  BY <1>2, <1>3, <1>4

LEMMA StepTyped ==
  ASSUME Typed, [Next]_vars
  PROVE  Typed'
<1>1. CASE UNCHANGED vars
  BY <1>1 DEF vars, Typed, Busy
<1>2. ASSUME NEW s \in Services,
             \/ Start(s) \/ Client(s) \/ Stop(s)
             \/ Fire(s) \/ Mark(s) \/ Apply(s) \/ TickEnds(s)
             \/ \E j \in Jobs : Begin(s, j)
             \/ \E outcome \in Outcomes : End(s, outcome)
      PROVE  Typed'
  BY <1>2, StartTyped, ClientTyped, OthersTyped, FireTyped, TickTyped
<1>3. ASSUME NEW outcome \in Outcomes, HeldEnds(outcome) PROVE Typed'
  BY <1>3, HeldEndsTyped
<1> QED
  BY <1>1, <1>2, <1>3, OthersTyped DEF Next

LEMMA RefusedStep ==
  ASSUME refused \subseteq Jobs, [Next]_vars
  PROVE  refused' \subseteq Jobs
<1>1. ASSUME NEW s \in Services, Client(s) PROVE refused' \subseteq Jobs
  BY <1>1 DEF Client, Read, Run, Add, Update, UpdateThrows, Remove
<1>2. ASSUME NEW s \in Services, Start(s) \/ Stop(s) \/ Fire(s) PROVE refused' \subseteq Jobs
  BY <1>2 DEF Start, Stop, Fire
<1>3. ASSUME NEW s \in Services,
             \/ Mark(s) \/ Apply(s) \/ TickEnds(s)
             \/ \E j \in Jobs : Begin(s, j)
             \/ \E outcome \in Outcomes : End(s, outcome)
      PROVE  refused' \subseteq Jobs
  BY <1>3 DEF Mark, Apply, TickEnds, Begin, End
<1>4. ASSUME NEW outcome \in Outcomes, HeldEnds(outcome) PROVE refused' \subseteq Jobs
  BY <1>4 DEF HeldEnds
<1>5. CASE Crash \/ Advance
  BY <1>5 DEF Crash, Advance
<1>6. CASE UNCHANGED vars
  BY <1>6 DEF vars
<1> QED
  BY <1>1, <1>2, <1>3, <1>4, <1>5, <1>6 DEF Next

(* Every variable keeps its type: what a tick, an operation that executes  *)
(* under the lock and the two copies of the jobs hold, over loads, edits,  *)
(* results, reloads and crashes.                                           *)
THEOREM CronTypes == Spec => []TypeOK
<1>1. Spec => []Typed
  BY InitTyped, StepTyped, PTL DEF Spec
<1>2. Init => refused \subseteq Jobs
  BY DEF Init
<1>3. refused \subseteq Jobs /\ [Next]_vars => (refused \subseteq Jobs)'
  BY RefusedStep
<1> QED
  BY <1>1, <1>2, <1>3, TypedImplies, PTL DEF Spec

-----------------------------------------------------------------------------
(* The timer.                                                              *)

(* assertSupportedJobSpec refuses no patch.                                *)
AllValid == \A patch \in Patches : patch.valid

(* An enabled job has a next run, unless it is a one-shot that ran well.   *)
PlanRec(rec) ==
  rec \in Record /\ rec.enabled /\ rec.next = Never => rec.sched.kind = "at" /\ rec.status = "ok"

PlanStore(store) == \A j \in Jobs : PlanRec(store[j])

(* TimerCovers of one service, while others may hold the lock.             *)
CoveredService(s) ==
  life[s] = "up" /\ held.svc # s /\ tick[s].pc = "idle" /\ NextWakeAt(mem[s]) # Never =>
    timer[s] # Never /\ timer[s] <= Larger(NextWakeAt(mem[s]), now)

CInv ==
  /\ Typed
  /\ PlanStore(file) /\ \A s \in Services : PlanStore(mem[s])
  /\ \A s \in Services : CoveredService(s)

LEMMA RecomputedPlan ==
  ASSUME NEW store \in Store, now \in Time
  PROVE  PlanStore(RecomputeNextRuns(store))
<1>1. ASSUME NEW j \in Jobs PROVE PlanRec(RecomputeNextRuns(store)[j])
  <2>1. CASE store[j] = Absent
    BY <2>1, RecomputedStore, AbsentFacts DEF PlanRec
  <2>2. CASE store[j] \in Record
    <3> DEFINE r == Recomputed(store[j], now)
    <3>1. RecomputeNextRuns(store)[j] = r
      BY RecomputedStore
    <3>2. /\ r.enabled = store[j].enabled /\ r.sched = store[j].sched /\ r.status = store[j].status
          /\ r.next = IF store[j].enabled /\ store[j].next # Never /\ ~ (now >= store[j].next)
                      THEN store[j].next ELSE JobNextRun(store[j], now)
      BY <2>2, RecomputedFacts
    <3> HIDE DEF r
    <3> QED
      BY <2>2, <3>1, <3>2, JobNextRunFacts DEF PlanRec
  <2> QED
    BY <2>1, <2>2, InStore
<1> QED
  BY <1>1 DEF PlanStore

LEMMA MarkedPlan ==
  ASSUME NEW store \in Store, NEW jobs, now \in Time, PlanStore(store)
  PROVE  PlanStore(Marked(store, jobs))
<1>1. ASSUME NEW j \in Jobs PROVE PlanRec(Marked(store, jobs)[j])
  <2>1. CASE store[j] = Absent
    BY <2>1, MarkedStore, AbsentFacts DEF PlanRec
  <2>2. CASE store[j] \in Record
    BY <2>2, MarkedStore DEF PlanRec, PlanStore
  <2> QED
    BY <2>1, <2>2, InStore
<1> QED
  BY <1>1 DEF PlanStore

LEMMA CleanedPlan ==
  ASSUME NEW store \in Store, PlanStore(store)
  PROVE  PlanStore(Cleaned(store))
<1>1. ASSUME NEW j \in Jobs PROVE PlanRec(Cleaned(store)[j])
  <2>1. CASE store[j] = Absent
    BY <2>1, CleanedStore, AbsentFacts DEF PlanRec
  <2>2. CASE store[j] \in Record
    BY <2>2, CleanedStore DEF PlanRec, PlanStore
  <2> QED
    BY <2>1, <2>2, InStore
<1> QED
  BY <1>1 DEF PlanStore

LEMMA AppliedPlan ==
  ASSUME NEW rec \in Record \cup {Absent}, NEW status \in Outcomes, NEW t \in Time
  PROVE  PlanRec(JobResultApplied(rec, status, t))
BY AppliedFacts, AppliedAbsent, AbsentFacts DEF PlanRec

LEMMA ChangedPlan ==
  ASSUME NEW rec \in Record, NEW patch \in Patches, now \in Time, PlanRec(rec)
  PROVE  PlanRec(Changed(rec, patch))
<1> DEFINE r == Changed(rec, patch)
<1>1. /\ r \in Record /\ r.status = rec.status
      /\ \/ r.next = rec.next /\ r.enabled = rec.enabled /\ r.sched = rec.sched
         \/ r.next = JobNextRun(r, now)
  BY ChangedFacts
<1> HIDE DEF r
<1>2. PlanRec(r)
  BY <1>1, JobNextRunFacts DEF PlanRec
<1> QED
  BY <1>2 DEF r

(* A service whose timer was just armed, and one that a step left alone.   *)
LEMMA ArmedCovered ==
  ASSUME NEW s \in Services, mem'[s] \in Store, timer'[s] = Armed(mem'[s]), now \in Time,
         UNCHANGED now
  PROVE  CoveredService(s)'
BY ArmedFacts DEF CoveredService

LEMMA OtherCovered ==
  ASSUME NEW o \in Services, CoveredService(o), held.svc # o \/ UNCHANGED held, UNCHANGED now,
         mem'[o] = mem[o], timer'[o] = timer[o], tick'[o] = tick[o], life'[o] = life[o]
  PROVE  CoveredService(o)'
BY DEF CoveredService

(* A step of s that arms its timer.                                        *)
LEMMA ArmingCInv ==
  ASSUME CInv, Typed', NEW s \in Services, LockFree \/ held.svc = s \/ UNCHANGED held,
         NEW store \in Store,
         Remember(s, store), file' \in {file, store}, PlanStore(store), ArmTimer(s), UNCHANGED now,
         \A o \in Services : o # s => tick'[o] = tick[o] /\ life'[o] = life[o]
  PROVE  CInv'
<1>1. /\ mem'[s] = store /\ \A o \in Services : o # s => mem'[o] = mem[o]
      /\ timer'[s] = Armed(mem'[s]) /\ \A o \in Services : o # s => timer'[o] = timer[o]
  BY RememberFacts, ArmTimerFacts DEF CInv, Typed
<1>2. PlanStore(file') /\ \A o \in Services : PlanStore(mem'[o])
  BY <1>1 DEF CInv
<1>3. CoveredService(s)'
  BY <1>1, ArmedCovered DEF CInv, Typed
<1>4. ASSUME NEW o \in Services, o # s PROVE CoveredService(o)'
  <2>1. held.svc # o \/ UNCHANGED held
    BY <1>4, LockFacts, ClientsAssumption DEF CInv, Typed
  <2> QED
    BY <1>1, <1>4, <2>1, OtherCovered DEF CInv
<1> QED
  BY <1>2, <1>3, <1>4 DEF CInv, PlanStore

(* A step of s that leaves s without a timer to speak of.                  *)
LEMMA RestlessCInv ==
  ASSUME CInv, Typed', NEW s \in Services, LockFree \/ held.svc = s \/ UNCHANGED held,
         PlanStore(mem'[s]), PlanStore(file'),
         held'.svc = s \/ tick'[s].pc # "idle" \/ life'[s] # "up", UNCHANGED now,
         \A o \in Services :
           o # s => mem'[o] = mem[o] /\ timer'[o] = timer[o] /\ tick'[o] = tick[o] /\ life'[o] = life[o]
  PROVE  CInv'
<1>1. \A o \in Services : PlanStore(mem'[o])
  BY DEF CInv
<1>2. CoveredService(s)'
  BY DEF CoveredService
<1>3. ASSUME NEW o \in Services, o # s PROVE CoveredService(o)'
  <2>1. held.svc # o \/ UNCHANGED held
    BY <1>3, LockFacts, ClientsAssumption DEF CInv, Typed
  <2> QED
    BY <1>3, <2>1, OtherCovered DEF CInv
<1> QED
  BY <1>1, <1>2, <1>3 DEF CInv, PlanStore

(* Nothing is put off, or the timer was to fire by now: a store whose next *)
(* runs were recomputed needs no earlier timer.                            *)
LEMMA RecomputedWake ==
  ASSUME NEW store \in Store, PlanStore(store), now \in Time, NEW t \in Instants,
         NextWakeAt(store) # Never => t # Never /\ t <= Larger(NextWakeAt(store), now)
  PROVE  NextWakeAt(RecomputeNextRuns(store)) # Never =>
           t # Never /\ t <= Larger(NextWakeAt(RecomputeNextRuns(store)), now)
<1> DEFINE new == RecomputeNextRuns(store)
<1>1. new \in Store /\ \A j \in Jobs : new[j] = Recomputed(store[j], now)
  BY RecomputedStore
<1>2. \A j \in Jobs : store[j] = Absent => new[j] = Absent
  BY RecomputedStore
<1> HIDE DEF new
<1> SUFFICES ASSUME NextWakeAt(new) # Never
             PROVE  t # Never /\ t <= Larger(NextWakeAt(new), now)
  BY DEF new
<1>3. PICK j \in Planned(new) : NextWakeAt(new) = new[j].next /\ NextWakeAt(new) \in Nat
  BY <1>1, NextWakeFacts
<1>4. store[j] \in Record /\ j \in Jobs /\ new[j].enabled
  BY <1>2, <1>3, InStore, AbsentFacts DEF Planned
<1>5. /\ new[j].enabled = store[j].enabled
      /\ new[j].next = IF store[j].enabled /\ store[j].next # Never /\ ~ (now >= store[j].next)
                       THEN store[j].next ELSE JobNextRun(store[j], now)
  <2> DEFINE r == Recomputed(store[j], now)
  <2>1. /\ r.enabled = store[j].enabled
        /\ r.next = IF store[j].enabled /\ store[j].next # Never /\ ~ (now >= store[j].next)
                    THEN store[j].next ELSE JobNextRun(store[j], now)
    BY <1>4, RecomputedFacts
  <2>2. new[j] = r
    BY <1>1, <1>4
  <2> HIDE DEF r
  <2> QED
    BY <2>1, <2>2
<1>6. store[j].next # Never
  <2>1. SUFFICES ASSUME store[j].next = Never PROVE FALSE
    OBVIOUS
  <2>2. store[j].sched.kind = "at" /\ store[j].status = "ok"
    BY <1>4, <1>5, <2>1 DEF PlanStore, PlanRec
  <2>3. new[j].next = Never
    BY <1>4, <1>5, <2>1, <2>2, JobNextRunFacts
  <2> QED
    BY <1>3, <2>3, NeverIsNot
<1>7. j \in Planned(store)
  BY <1>4, <1>5, <1>6 DEF Planned
<1> DEFINE wake == NextWakeAt(store)
           next == store[j].next
           wakes == NextWakeAt(new)
<1>8. wake \in Nat /\ wake # Never /\ wake <= next /\ next \in Nat /\ wakes \in Nat /\ now \in Nat
  BY <1>3, <1>7, NextWakeFacts, NeverIsNot, TimeIsNat
<1>9. next <= now \/ wakes = next
  BY <1>3, <1>4, <1>5, <1>6, <1>8
<1>10. t # Never /\ t <= Larger(wake, now) /\ t \in Int
  BY <1>8, NeverIsNot DEF Instants
<1> HIDE DEF wake, next, wakes
<1>11. t <= Larger(wakes, now)
  BY <1>8, <1>9, <1>10 DEF Larger
<1> QED
  BY <1>10, <1>11 DEF wakes

LEMMA InitCInv == Init => CInv
<1> SUFFICES ASSUME Init PROVE CInv
  OBVIOUS
<1>1. PlanStore(file) /\ \A s \in Services : PlanStore(mem[s])
  BY AbsentFacts DEF Init, PlanStore, PlanRec
<1>2. \A s \in Services : CoveredService(s)
  BY DEF Init, CoveredService
<1> QED
  BY <1>1, <1>2, InitTyped DEF CInv

LEMMA StartCInv ==
  ASSUME CInv, Typed', NEW s \in Services, Start(s)
  PROVE  CInv'
<1>1. /\ Cleaned(file) \in Store /\ PlanStore(Cleaned(file)) /\ now \in Time
      /\ mem \in [Services -> Store] /\ life \in [Services -> {"new", "starting", "up", "stopped"}]
  BY CleanedStore, CleanedPlan DEF CInv, Typed
<1>2. CASE /\ Persist(s, RecomputeNextRuns(Cleaned(file))) /\ ArmTimer(s)
           /\ life' = [life EXCEPT ![s] = "up"] /\ UNCHANGED held
  <2> DEFINE store == RecomputeNextRuns(Cleaned(file))
  <2>1. store \in Store /\ PlanStore(store)
    BY <1>1, RecomputedStore, RecomputedPlan
  <2>2. Remember(s, store) /\ file' = store
    BY <1>1, <1>2, <2>1, PersistFacts DEF Persist
  <2>3. \A o \in Services : o # s => tick'[o] = tick[o] /\ life'[o] = life[o]
    BY <1>1, <1>2, StartCases
  <2> HIDE DEF store
  <2> QED
    BY <1>2, <2>1, <2>2, <2>3, StartCases, ArmingCInv
<1>3. CASE /\ Hold(s, Missed, Cleaned(file)) /\ UNCHANGED <<file, timer>>
           /\ life' = [life EXCEPT ![s] = "starting"]
  <2>1. Missed \in SUBSET Jobs
    BY DEF Missed
  <2>2. /\ held'.svc = s /\ mem'[s] = Marked(Cleaned(file), {held'.cur})
        /\ \A o \in Services : o # s => mem'[o] = mem[o]
    BY <1>1, <1>3, <2>1, HoldFacts
  <2>3. PlanStore(mem'[s]) /\ PlanStore(file')
    BY <1>1, <1>3, <2>2, MarkedPlan DEF CInv
  <2>4. \A o \in Services : o # s =>
          mem'[o] = mem[o] /\ timer'[o] = timer[o] /\ tick'[o] = tick[o] /\ life'[o] = life[o]
    BY <1>1, <1>3, <2>2, StartCases
  <2> QED
    BY <2>2, <2>3, <2>4, StartCases, RestlessCInv
<1> QED
  BY <1>2, <1>3, StartCases

LEMMA RunCInv ==
  ASSUME CInv, Typed', NEW s \in Services, NEW j \in Jobs, NEW force \in BOOLEAN, Run(s, j, force)
  PROVE  CInv'
<1>1. /\ mem[s] \in Store /\ mem \in [Services -> Store] /\ now \in Time /\ {j} \in SUBSET Jobs
      /\ PlanStore(mem[s]) /\ Hold(s, {j}, mem[s]) /\ LockFree
      /\ UNCHANGED <<now, file, timer, tick, life>>
  BY DEF CInv, Typed, Run
<1>2. /\ held'.svc = s /\ mem'[s] = Marked(mem[s], {held'.cur})
      /\ \A o \in Services : o # s => mem'[o] = mem[o]
  BY <1>1, HoldFacts
<1>3. PlanStore(mem'[s]) /\ PlanStore(file')
  BY <1>1, <1>2, MarkedPlan DEF CInv
<1> QED
  BY <1>1, <1>2, <1>3, RestlessCInv

LEMMA HeldEndsCInv ==
  ASSUME CInv, Typed', NEW outcome \in Outcomes, HeldEnds(outcome)
  PROVE  CInv'
<1> DEFINE s == held.svc
           store == AfterHeld(outcome)
<1>0. Typed
  BY DEF CInv
<1>1. /\ s \in Services /\ store \in Store /\ UNCHANGED <<now, tick>>
      /\ mem \in [Services -> Store] /\ now \in Time /\ held.todo \in SUBSET Jobs
      /\ life \in [Services -> {"new", "starting", "up", "stopped"}]
  BY <1>0, HeldEndsCases DEF Typed, HeldGood
<1>2. \/ Hold(s, held.todo, store) /\ UNCHANGED <<file, timer, life>>
      \/ /\ Persist(s, RecomputeNextRuns(store)) /\ ArmTimer(s)
         /\ life' = [life EXCEPT ![s] = IF @ = "starting" THEN "up" ELSE @]
  BY <1>0, HeldEndsCases
<1>3. PlanStore(store)
  <2>1. ASSUME NEW j \in Jobs PROVE PlanRec(store[j])
    <3>1. CASE j = held.cur
      <4>1. mem[s][j] \in Record \cup {Absent} /\ store[j] = JobResultApplied(mem[s][j], outcome, now)
        BY <1>0, <1>1, <3>1, HeldEndsCases, InStore
      <4> QED
        BY <1>1, <4>1, AppliedPlan
    <3>2. CASE j # held.cur
      <4>1. store[j] = mem[s][j] /\ PlanStore(mem[s])
        BY <1>0, <1>1, <3>2, HeldEndsCases DEF CInv
      <4> QED
        BY <4>1 DEF PlanStore
    <3> QED
      BY <3>1, <3>2
  <2> QED
    BY <2>1 DEF PlanStore
<1>4. held.svc = s
  OBVIOUS
<1> HIDE DEF s, store
<1>5. CASE Hold(s, held.todo, store) /\ UNCHANGED <<file, timer, life>>
  <2>1. /\ held'.svc = s /\ mem'[s] = Marked(store, {held'.cur})
        /\ \A o \in Services : o # s => mem'[o] = mem[o]
    BY <1>1, <1>5, HoldFacts
  <2>2. PlanStore(mem'[s]) /\ PlanStore(file')
    BY <1>1, <1>3, <1>5, <2>1, MarkedPlan DEF CInv
  <2> QED
    BY <1>1, <1>4, <1>5, <2>1, <2>2, RestlessCInv
<1>6. CASE /\ Persist(s, RecomputeNextRuns(store)) /\ ArmTimer(s)
           /\ life' = [life EXCEPT ![s] = IF @ = "starting" THEN "up" ELSE @]
  <2> DEFINE final == RecomputeNextRuns(store)
  <2>1. final \in Store /\ PlanStore(final)
    BY <1>1, RecomputedStore, RecomputedPlan
  <2>2. Remember(s, final) /\ file' = final
    BY <1>1, <1>6, <2>1, PersistFacts DEF Persist
  <2>3. \A o \in Services : o # s => tick'[o] = tick[o] /\ life'[o] = life[o]
    BY <1>1, <1>6
  <2> HIDE DEF final
  <2> QED
    BY <1>1, <1>4, <1>6, <2>1, <2>2, <2>3, ArmingCInv
<1> QED
  BY <1>2, <1>5, <1>6

LEMMA ReadCInv ==
  ASSUME CInv, Typed', NEW s \in Services, Read(s)
  PROVE  CInv'
<1>0. Typed /\ UNCHANGED <<now, timer, tick, held, life>>
  BY ReadCases DEF CInv
<1>1. CASE UNCHANGED <<file, mem>>
  BY <1>0, <1>1 DEF CInv, CoveredService, PlanStore
<1>2. CASE Persist(s, RecomputeNextRuns(mem[s]))
  <2> DEFINE store == RecomputeNextRuns(mem[s])
  <2>1. /\ mem[s] \in Store /\ now \in Time /\ timer[s] \in Instants /\ PlanStore(mem[s])
        /\ mem \in [Services -> Store]
    BY DEF CInv, Typed
  <2>2. store \in Store /\ PlanStore(store)
    BY <2>1, RecomputedStore, RecomputedPlan
  <2>3. mem'[s] = store /\ file' = store /\ \A o \in Services : o # s => mem'[o] = mem[o]
    BY <1>2, <2>1, <2>2, PersistFacts
  <2>4. PlanStore(file') /\ \A o \in Services : PlanStore(mem'[o])
    BY <2>2, <2>3 DEF CInv
  <2>5. CoveredService(s)'
    <3>1. CoveredService(s)
      BY DEF CInv
    <3>2. (NextWakeAt(mem[s]) # Never => timer[s] # Never /\ timer[s] <= Larger(NextWakeAt(mem[s]), now))
          => (NextWakeAt(store) # Never => timer[s] # Never /\ timer[s] <= Larger(NextWakeAt(store), now))
      BY <2>1, RecomputedWake
    <3> HIDE DEF store
    <3> QED
      BY <1>0, <2>3, <3>1, <3>2 DEF CoveredService
  <2>6. ASSUME NEW o \in Services, o # s PROVE CoveredService(o)'
    BY <1>0, <2>3, <2>6, OtherCovered DEF CInv
  <2> QED
    BY <2>4, <2>5, <2>6 DEF CInv, PlanStore
<1> QED
  BY <1>1, <1>2, ReadCases, <1>0

LEMMA ClientCInv ==
  ASSUME CInv, AllValid, Typed', NEW s \in Services, Client(s)
  PROVE  CInv'
<1>0. Typed /\ mem \in [Services -> Store] /\ mem[s] \in Store /\ now \in Time /\ PlanStore(mem[s])
  BY DEF CInv, Typed
<1>1. ASSUME NEW store \in Store, PlanStore(store), Persist(s, store), ArmTimer(s),
             UNCHANGED <<now, tick, held, life>>
      PROVE  CInv'
  <2>1. Remember(s, store) /\ file' = store
    BY <1>0, <1>1, PersistFacts DEF Persist
  <2> QED
    BY <1>1, <2>1, ArmingCInv
<1>2. ASSUME NEW j \in Jobs, Remove(s, j) PROVE CInv'
  <2>1. PICK store \in Store :
          /\ store[j] = Absent /\ \A i \in Jobs : i # j => store[i] = mem[s][i]
          /\ Persist(s, store)
    BY <1>0, <1>2, RemoveCases
  <2>2. PlanStore(store)
    BY <1>0, <2>1, AbsentFacts DEF PlanStore, PlanRec
  <2> QED
    BY <1>0, <1>1, <1>2, <2>1, <2>2, RemoveCases
<1>3. ASSUME NEW j \in Jobs, NEW sched \in SchedulesOf[j], NEW delete \in Deletable,
             Add(s, j, sched, delete)
      PROVE  CInv'
  <2>1. PICK store \in Store :
          RecomputeNextRuns(store) \in Store /\ Persist(s, RecomputeNextRuns(store))
    BY <1>0, <1>3, AddCases
  <2>2. PlanStore(RecomputeNextRuns(store))
    BY <1>0, RecomputedPlan
  <2> QED
    BY <1>0, <1>1, <1>3, <2>1, <2>2, AddCases
<1>4. ASSUME NEW j \in Jobs, NEW patch \in Patches, Update(s, j, patch) PROVE CInv'
  <2>1. PICK store \in Store :
          /\ store[j] = Changed(mem[s][j], patch) /\ \A i \in Jobs : i # j => store[i] = mem[s][i]
          /\ Persist(s, store)
    BY <1>0, <1>4, UpdateCases
  <2>2. mem[s][j] \in Record /\ PlanRec(mem[s][j])
    BY <1>0, <1>4, UpdateCases DEF PlanStore
  <2>3. PlanRec(store[j])
    BY <1>0, <2>1, <2>2, ChangedPlan
  <2>4. PlanStore(store)
    BY <1>0, <2>1, <2>3 DEF PlanStore
  <2> QED
    BY <1>0, <1>1, <1>4, <2>1, <2>4, UpdateCases
<1>5. ASSUME NEW j \in Jobs, NEW patch \in Patches, UpdateThrows(s, j, patch) PROVE CInv'
  BY <1>5 DEF UpdateThrows, AllValid
<1> QED
  BY <1>2, <1>3, <1>4, <1>5, RunCInv, ReadCInv DEF Client

LEMMA TickCInv ==
  ASSUME CInv, Typed', NEW s \in Services
  PROVE  /\ Fire(s) => CInv'
         /\ Mark(s) => CInv'
         /\ \A j \in Jobs : Begin(s, j) => CInv'
         /\ \A outcome \in Outcomes : End(s, outcome) => CInv'
         /\ Apply(s) => CInv'
         /\ TickEnds(s) => CInv'
<1>0. /\ Typed /\ mem \in [Services -> Store] /\ mem[s] \in Store /\ now \in Time
      /\ PlanStore(mem[s]) /\ PlanStore(file) /\ file \in Store
      /\ tick \in [Services -> TickType] /\ timer \in [Services -> Instants]
  BY DEF CInv, Typed
<1>1. ASSUME Fire(s) PROVE CInv'
  <2>1. UNCHANGED <<now, file, mem, held, life>>
    BY <1>1 DEF Fire
  <2>2. \A o \in Services : o # s => timer'[o] = timer[o] /\ tick'[o] = tick[o]
    BY <1>0, <1>1 DEF Fire
  <2>3. tick'[s].pc # "idle"
    BY <1>0, <1>1 DEF Fire, TickType
  <2> QED
    BY <1>0, <2>1, <2>2, <2>3, RestlessCInv
<1>2. ASSUME Mark(s) PROVE CInv'
  <2>1. PICK t \in TickType :
              /\ tick' = [tick EXCEPT ![s] = t] /\ t.pc # "idle"
              /\ \/ RecomputeNextRuns(file) \in Store /\ Persist(s, RecomputeNextRuns(file))
                 \/ Marked(file, Due) \in Store /\ Persist(s, Marked(file, Due))
    BY <1>0, <1>2, MarkCases
  <2>2. tick'[s].pc # "idle" /\ \A o \in Services : o # s => tick'[o] = tick[o]
    BY <1>0, <2>1
  <2>3. PlanStore(RecomputeNextRuns(file)) /\ PlanStore(Marked(file, Due))
    BY <1>0, RecomputedPlan, MarkedPlan
  <2>4. /\ PlanStore(mem'[s]) /\ PlanStore(file') /\ \A o \in Services : o # s => mem'[o] = mem[o]
    BY <1>0, <2>1, <2>3, PersistFacts
  <2>5. UNCHANGED <<now, timer, held, life>>
    BY <1>0, <1>2, MarkCases
  <2> QED
    BY <2>2, <2>4, <2>5, RestlessCInv
<1>3. ASSUME NEW j \in Jobs, Begin(s, j) PROVE CInv'
  <2>1. PICK t \in TickType : tick' = [tick EXCEPT ![s] = t] /\ t.pc = "run" /\ Busy(t)
    BY <1>0, <1>3, BeginCases
  <2>2. tick'[s].pc # "idle" /\ \A o \in Services : o # s => tick'[o] = tick[o]
    BY <1>0, <2>1
  <2>3. mem'[s] = Marked(mem[s], {j}) /\ \A o \in Services : o # s => mem'[o] = mem[o]
    BY <1>0, <1>3, BeginCases, RememberFacts
  <2>4. PlanStore(mem'[s])
    BY <1>0, <2>3, MarkedPlan
  <2>5. UNCHANGED <<now, file, timer, held, life>>
    BY <1>0, <1>3, BeginCases
  <2> QED
    BY <1>0, <2>2, <2>3, <2>4, <2>5, RestlessCInv
<1>4. ASSUME NEW outcome \in Outcomes, End(s, outcome) PROVE CInv'
  <2>1. PICK t \in TickType : tick' = [tick EXCEPT ![s] = t] /\ t.pc = "run"
    BY <1>0, <1>4, EndCases
  <2>2. tick'[s].pc # "idle" /\ \A o \in Services : o # s => tick'[o] = tick[o]
    BY <1>0, <2>1
  <2>3. UNCHANGED <<now, file, mem, timer, held, life>>
    BY <1>0, <1>4, EndCases
  <2> QED
    BY <1>0, <2>2, <2>3, RestlessCInv
<1>5. ASSUME Apply(s) PROVE CInv'
  <2>1. PICK store \in Store :
          RecomputeNextRuns(store) \in Store /\ Persist(s, RecomputeNextRuns(store))
    BY <1>0, <1>5, ApplyCases
  <2>2. PlanStore(RecomputeNextRuns(store))
    BY <1>0, RecomputedPlan
  <2>3. /\ PlanStore(mem'[s]) /\ PlanStore(file') /\ \A o \in Services : o # s => mem'[o] = mem[o]
    BY <1>0, <2>1, <2>2, PersistFacts
  <2>4. tick'[s].pc # "idle" /\ \A o \in Services : o # s => tick'[o] = tick[o]
    BY <1>0, <1>5, ApplyCases, IdleFacts
  <2>5. UNCHANGED <<now, timer, held, life>>
    BY <1>0, <1>5, ApplyCases
  <2> QED
    BY <2>3, <2>4, <2>5, RestlessCInv
<1>6. ASSUME TickEnds(s) PROVE CInv'
  <2>1. ArmTimer(s) /\ UNCHANGED <<now, file, mem, held, life>> /\ tick' = [tick EXCEPT ![s] = Idle]
    BY <1>6 DEF TickEnds
  <2>2. Remember(s, mem[s])
    BY <1>0, <2>1 DEF Remember
  <2>3. \A o \in Services : o # s => tick'[o] = tick[o] /\ life'[o] = life[o]
    BY <1>0, <2>1
  <2> QED
    BY <1>0, <2>1, <2>2, <2>3, ArmingCInv
<1> QED
  BY <1>1, <1>2, <1>3, <1>4, <1>5, <1>6

LEMMA OthersCInv ==
  ASSUME CInv, Typed'
  PROVE  /\ \A s \in Services : Stop(s) => CInv'
         /\ Crash => CInv'
         /\ Advance => CInv'
<1>1. ASSUME NEW s \in Services, Stop(s) PROVE CInv'
  <2>1. /\ UNCHANGED <<now, file, mem, tick, held>> /\ life'[s] = "stopped"
        /\ \A o \in Services : o # s => life'[o] = life[o] /\ timer'[o] = timer[o]
    BY <1>1 DEF Stop, CInv, Typed
  <2>2. PlanStore(mem'[s]) /\ PlanStore(file')
    BY <2>1 DEF CInv
  <2> QED
    BY <2>1, <2>2, RestlessCInv
<1>2. ASSUME Crash PROVE CInv'
  <2>1. PlanStore(file') /\ \A s \in Services : PlanStore(mem'[s])
    BY <1>2, AbsentFacts DEF Crash, CInv, PlanStore, PlanRec
  <2>2. \A s \in Services : CoveredService(s)'
    BY <1>2 DEF Crash, CoveredService
  <2> QED
    BY <2>1, <2>2 DEF CInv
<1>3. ASSUME Advance PROVE CInv'
  <2>1. UNCHANGED <<file, mem, timer, tick, held, life>> /\ now' = now + 1 /\ now \in Nat
    BY <1>3, TimeIsNat DEF Advance, CInv, Typed
  <2>2. ASSUME NEW s \in Services PROVE CoveredService(s)'
    <3> DEFINE wake == NextWakeAt(mem[s])
    <3>1. wake # Never => wake \in Nat
      BY NextWakeFacts DEF CInv, Typed
    <3>2. timer[s] \in Instants
      BY DEF CInv, Typed
    <3>3. timer[s] \in Int
      BY <3>2, NeverIsNot DEF Instants
    <3>4. CoveredService(s)
      BY DEF CInv
    <3>5. wake \in Nat /\ timer[s] <= Larger(wake, now) => timer[s] <= Larger(wake, now + 1)
      <4> HIDE DEF wake
      <4> QED
        BY <2>1, <3>3 DEF Larger
    <3> QED
      BY <2>1, <3>1, <3>4, <3>5 DEF CoveredService
  <2> QED
    BY <2>1, <2>2 DEF CInv, PlanStore
<1> QED
  BY <1>1, <1>2, <1>3

LEMMA StepCInv ==
  ASSUME CInv, AllValid, [Next]_vars
  PROVE  CInv'
<1>0. Typed'
  BY StepTyped DEF CInv
<1>1. CASE UNCHANGED vars
  BY <1>0, <1>1 DEF vars, CInv, CoveredService, PlanStore
<1>2. ASSUME NEW s \in Services,
             \/ Start(s) \/ Client(s) \/ Stop(s)
             \/ Fire(s) \/ Mark(s) \/ Apply(s) \/ TickEnds(s)
             \/ \E j \in Jobs : Begin(s, j)
             \/ \E outcome \in Outcomes : End(s, outcome)
      PROVE  CInv'
  BY <1>0, <1>2, StartCInv, ClientCInv, OthersCInv, TickCInv
<1>3. ASSUME NEW outcome \in Outcomes, HeldEnds(outcome) PROVE CInv'
  BY <1>0, <1>3, HeldEndsCInv
<1> QED
  BY <1>0, <1>1, <1>2, <1>3, OthersCInv DEF Next

(* A service that is up and between its ticks has its timer set no later   *)
(* than the next run of an enabled job, or for now: armTimer comes after   *)
(* every change of the jobs, if no patch is refused.                       *)
THEOREM CronTimerCovers == ASSUME AllValid PROVE Spec => []TimerCovers
<1>1. CInv => TimerCovers
  BY LockFacts, ClientsAssumption DEF CInv, Typed, CoveredService, TimerCovers
<1>2. CInv /\ [Next]_vars => CInv'
  BY StepCInv
<1> QED
  BY <1>1, <1>2, InitCInv, PTL DEF Spec

-----------------------------------------------------------------------------
(* A process that keeps its service: nothing else writes the file.         *)

(* The process keeps its one service.                                      *)
Alone == \A s, o \in Services : s = o

DInv == Typed /\ Durable

LEMMA SavedDurable ==
  ASSUME Alone, Typed, NEW s \in Services, NEW store \in Store, Persist(s, store)
  PROVE  Durable'
<1>1. mem'[s] = store /\ file' = store
  BY PersistFacts DEF Typed
<1> QED
  BY <1>1 DEF Durable, Alone

(* A step that leaves memory and file, or must not be looked at.           *)
LEMMA KeptDurable ==
  ASSUME Alone, Durable, NEW s \in Services,
         \/ life'[s] # "up" \/ ~ LockFree' \/ tick'[s].pc = "run"
         \/ /\ UNCHANGED <<file, mem, held>> /\ life'[s] = life[s]
            /\ tick'[s].pc # "run" => tick[s].pc # "run"
  PROVE  Durable'
BY DEF Durable, Alone, LockFree

LEMMA ClientDInv ==
  ASSUME DInv, Alone, AllValid, Typed', NEW s \in Services, Client(s)
  PROVE  Durable'
<1>0. Typed /\ Durable
  BY DEF DInv
<1>1. CASE Read(s)
  <2>1. /\ UNCHANGED <<now, tick, held, life>> /\ RecomputeNextRuns(mem[s]) \in Store
        /\ UNCHANGED <<file, mem>> \/ Persist(s, RecomputeNextRuns(mem[s]))
    BY <1>0, <1>1, ReadCases
  <2> QED
    BY <1>0, <2>1, SavedDurable, KeptDurable
<1>2. ASSUME NEW j \in Jobs, Remove(s, j) PROVE Durable'
  BY <1>0, <1>2, RemoveCases, SavedDurable
<1>3. ASSUME NEW j \in Jobs, NEW force \in BOOLEAN, Run(s, j, force) PROVE Durable'
  <2>1. mem[s] \in Store /\ {j} \in SUBSET Jobs /\ Hold(s, {j}, mem[s])
    BY <1>0, <1>3 DEF Run, Typed
  <2>2. held'.svc = s
    BY <1>0, <2>1, HoldFacts DEF Typed
  <2>3. ~ LockFree'
    BY <2>2, UnheldFacts, ClientsAssumption DEF LockFree
  <2> QED
    BY <1>0, <2>3, KeptDurable
<1>4. ASSUME NEW j \in Jobs, NEW sched \in SchedulesOf[j], NEW delete \in Deletable,
             Add(s, j, sched, delete)
      PROVE  Durable'
  BY <1>0, <1>4, AddCases, SavedDurable
<1>5. ASSUME NEW j \in Jobs, NEW patch \in Patches, Update(s, j, patch) PROVE Durable'
  BY <1>0, <1>5, UpdateCases, SavedDurable
<1>6. ASSUME NEW j \in Jobs, NEW patch \in Patches, UpdateThrows(s, j, patch) PROVE Durable'
  BY <1>6 DEF UpdateThrows, AllValid
<1> QED
  BY <1>1, <1>2, <1>3, <1>4, <1>5, <1>6 DEF Client

LEMMA TickDInv ==
  ASSUME DInv, Alone, Typed', NEW s \in Services
  PROVE  /\ Fire(s) => Durable'
         /\ Mark(s) => Durable'
         /\ \A j \in Jobs : Begin(s, j) => Durable'
         /\ \A outcome \in Outcomes : End(s, outcome) => Durable'
         /\ Apply(s) => Durable'
         /\ TickEnds(s) => Durable'
<1>0. Typed /\ Durable /\ tick \in [Services -> TickType]
  BY DEF DInv, Typed
<1>1. ASSUME Fire(s) PROVE Durable'
  <2>1. UNCHANGED <<file, mem, held, life>> /\ (tick'[s].pc # "run" => tick[s].pc # "run")
    BY <1>0, <1>1 DEF Fire
  <2> QED
    BY <1>0, <2>1, KeptDurable
<1>2. ASSUME Mark(s) PROVE Durable'
  <2>1. \E store \in Store : Persist(s, store)
    BY <1>0, <1>2, MarkCases
  <2> QED
    BY <1>0, <2>1, SavedDurable
<1>3. ASSUME NEW j \in Jobs, Begin(s, j) PROVE Durable'
  <2>1. PICK t \in TickType : tick' = [tick EXCEPT ![s] = t] /\ t.pc = "run" /\ Busy(t)
    BY <1>0, <1>3, BeginCases
  <2>2. tick'[s].pc = "run"
    BY <1>0, <2>1
  <2> QED
    BY <1>0, <2>2, KeptDurable
<1>4. ASSUME NEW outcome \in Outcomes, End(s, outcome) PROVE Durable'
  <2>1. PICK t \in TickType : tick' = [tick EXCEPT ![s] = t] /\ t.pc = "run" /\ Busy(t)
    BY <1>0, <1>4, EndCases
  <2>2. tick'[s].pc = "run"
    BY <1>0, <2>1
  <2> QED
    BY <1>0, <2>2, KeptDurable
<1>5. ASSUME Apply(s) PROVE Durable'
  BY <1>0, <1>5, ApplyCases, SavedDurable
<1>6. ASSUME TickEnds(s) PROVE Durable'
  <2>1. UNCHANGED <<file, mem, held, life>> /\ tick[s].pc = "sweep"
    BY <1>6 DEF TickEnds
  <2> QED
    BY <1>0, <2>1, KeptDurable
<1> QED
  BY <1>1, <1>2, <1>3, <1>4, <1>5, <1>6

LEMMA StepDInv ==
  ASSUME DInv, Alone, AllValid, [Next]_vars
  PROVE  DInv'
<1>0. Typed' /\ Typed /\ Durable
  BY StepTyped DEF DInv
<1>1. CASE UNCHANGED vars
  BY <1>0, <1>1 DEF vars, DInv, Durable, LockFree
<1>2. ASSUME NEW s \in Services, Start(s) PROVE Durable'
  <2>1. Cleaned(file) \in Store /\ RecomputeNextRuns(Cleaned(file)) \in Store /\ Missed \in SUBSET Jobs
    BY <1>0, CleanedStore, RecomputedStore DEF Typed, Missed
  <2>2. CASE Persist(s, RecomputeNextRuns(Cleaned(file)))
    BY <1>0, <2>1, <2>2, SavedDurable
  <2>3. CASE life' = [life EXCEPT ![s] = "starting"]
    <3>1. life'[s] # "up"
      BY <1>0, <2>3 DEF Typed
    <3> QED
      BY <1>0, <3>1, KeptDurable
  <2> QED
    BY <1>2, <2>2, <2>3, StartCases
<1>3. ASSUME NEW s \in Services, Stop(s) PROVE Durable'
  BY <1>3 DEF Stop, Alone
<1>4. ASSUME NEW outcome \in Outcomes, HeldEnds(outcome) PROVE Durable'
  <2> DEFINE s == held.svc
             store == AfterHeld(outcome)
  <2>1. s \in Services /\ store \in Store /\ now \in Time /\ held.todo \in SUBSET Jobs
        /\ mem \in [Services -> Store]
    BY <1>0, <1>4, HeldEndsCases DEF Typed, HeldGood
  <2>2. Hold(s, held.todo, store) \/ Persist(s, RecomputeNextRuns(store))
    BY <1>0, <1>4, HeldEndsCases
  <2> HIDE DEF s, store
  <2>3. CASE Hold(s, held.todo, store)
    <3>1. held'.svc = s
      BY <2>1, <2>3, HoldFacts
    <3>2. ~ LockFree'
      BY <2>1, <3>1, UnheldFacts, ClientsAssumption DEF LockFree
    <3> QED
      BY <1>0, <2>1, <3>2, KeptDurable
  <2>4. CASE Persist(s, RecomputeNextRuns(store))
    BY <1>0, <2>1, <2>4, RecomputedStore, SavedDurable
  <2> QED
    BY <2>2, <2>3, <2>4
<1>5. ASSUME Crash PROVE Durable'
  BY <1>5 DEF Crash, Durable
<1>6. ASSUME Advance PROVE Durable'
  BY <1>0, <1>6 DEF Advance, Durable, LockFree
<1> QED
  BY <1>0, <1>1, <1>2, <1>3, <1>4, <1>5, <1>6, ClientDInv, TickDInv DEF Next, DInv

(* Between two operations, while no tick executes jobs, the file holds     *)
(* what memory does, so that a crash loses nothing a client was told:      *)
(* every change is persisted under the lock that covers it.                *)
THEOREM CronDurable == ASSUME Alone, AllValid PROVE Spec => []Durable
<1>1. Init => DInv
  BY InitTyped DEF Init, DInv, Durable
<1>2. DInv /\ [Next]_vars => DInv'
  BY StepDInv
<1>3. DInv => Durable
  BY DEF DInv
<1> QED
  BY <1>1, <1>2, <1>3, PTL DEF Spec

-----------------------------------------------------------------------------
(* Markers.                                                                *)

MarkedIn(store) == { j \in Jobs : store[j] \in Record /\ store[j].running # Never }

(* The jobs a tick executes, is to execute, or has results of.             *)
Ticking(s) == { j \in Jobs : InTick(s, j) \/ HasResult(s, j) }

MarkersOf(s) ==
  /\ life[s] = "up" => MarkedIn(file) \subseteq Ticking(s)
  /\ life[s] \in {"up", "starting"} => MarkedIn(mem[s]) \subseteq Ticking(s) \cup {held.cur}

(* A start that executes jobs holds the lock.                              *)
StartHolds(s) == life[s] = "starting" => held.svc = s

MInv == Typed /\ \A s \in Services : MarkersOf(s) /\ StartHolds(s)

LEMMA MarkedInRecomputed ==
  ASSUME NEW store \in Store, now \in Time
  PROVE  MarkedIn(RecomputeNextRuns(store)) \subseteq MarkedIn(store)
<1>1. ASSUME NEW j \in MarkedIn(RecomputeNextRuns(store)) PROVE j \in MarkedIn(store)
  <2> DEFINE r == Recomputed(store[j], now)
  <2>1. j \in Jobs /\ RecomputeNextRuns(store)[j] = r /\ r \in Record /\ r.running # Never
    BY RecomputedStore DEF MarkedIn
  <2>2. store[j] \in Record
    BY <2>1, RecomputedStore, InStore, AbsentFacts
  <2>3. r.running \in {store[j].running, Never}
    BY <2>2, RecomputedFacts
  <2> HIDE DEF r
  <2> QED
    BY <2>1, <2>2, <2>3 DEF MarkedIn
<1> QED
  BY <1>1

LEMMA MarkedInMarked ==
  ASSUME NEW store \in Store, NEW jobs, now \in Time
  PROVE  MarkedIn(Marked(store, jobs)) \subseteq MarkedIn(store) \cup jobs
<1>1. ASSUME NEW j \in MarkedIn(Marked(store, jobs)), j \notin jobs PROVE j \in MarkedIn(store)
  <2>1. j \in Jobs /\ Marked(store, jobs)[j] \in Record /\ Marked(store, jobs)[j].running # Never
    BY DEF MarkedIn
  <2>2. store[j] \in Record
    BY <2>1, MarkedStore, InStore, AbsentFacts
  <2>3. Marked(store, jobs)[j].running = store[j].running
    BY <1>1, <2>1, <2>2, MarkedStore
  <2> QED
    BY <2>1, <2>2, <2>3 DEF MarkedIn
<1> QED
  BY <1>1

LEMMA MarkedInCleaned ==
  ASSUME NEW store \in Store
  PROVE  MarkedIn(Cleaned(store)) = {}
BY CleanedStore, InStore, AbsentFacts DEF MarkedIn

(* A job whose result is applied is not marked any more.                   *)
LEMMA AppliedUnmarked ==
  ASSUME NEW rec \in Record \cup {Absent}, NEW status \in Outcomes, NEW t \in Time
  PROVE  LET r == JobResultApplied(rec, status, t) IN ~ (r \in Record /\ r.running # Never)
BY AppliedFacts, AppliedAbsent, AbsentFacts

LEMMA MarkedInAfterHeld ==
  ASSUME Typed, NEW outcome \in Outcomes, HeldEnds(outcome)
  PROVE  MarkedIn(AfterHeld(outcome)) \subseteq MarkedIn(mem[held.svc]) \ {held.cur}
<1> DEFINE s == held.svc
           store == AfterHeld(outcome)
<1>1. s \in Services /\ held.cur \in Jobs /\ now \in Time /\ mem[s] \in Store
  BY HeldEndsCases DEF Typed
<1>2. /\ store[held.cur] = JobResultApplied(mem[s][held.cur], outcome, now)
      /\ \A j \in Jobs : j # held.cur => store[j] = mem[s][j]
  BY HeldEndsCases
<1>3. mem[s][held.cur] \in Record \cup {Absent}
  BY <1>1, InStore
<1> HIDE DEF s, store
<1>4. held.cur \notin MarkedIn(store)
  <2> DEFINE r == JobResultApplied(mem[s][held.cur], outcome, now)
  <2>1. ~ (r \in Record /\ r.running # Never)
    BY <1>1, <1>3, AppliedUnmarked
  <2>2. store[held.cur] = r
    BY <1>2
  <2> HIDE DEF r
  <2> QED
    BY <2>1, <2>2 DEF MarkedIn
<1>5. MarkedIn(store) \subseteq MarkedIn(mem[s]) \ {held.cur}
  BY <1>2, <1>4 DEF MarkedIn
<1> QED
  BY <1>5 DEF s, store

LEMMA TickingSame ==
  ASSUME NEW s \in Services, tick'[s] = tick[s]
  PROVE  Ticking(s)' = Ticking(s)
BY DEF Ticking, InTick, HasResult

LEMMA TickingIdle ==
  ASSUME NEW s \in Services, ~ Busy(tick[s])
  PROVE  Ticking(s) = {}
<1>1. tick[s].todo = {} /\ tick[s].cur = None /\ tick[s].results = {}
  BY DEF Busy
<1> QED
  BY <1>1, ClientsAssumption DEF Ticking, InTick, HasResult

LEMMA FreeMarkers ==
  ASSUME MInv, NEW s \in Services, LockFree, life[s] = "up"
  PROVE  MarkedIn(mem[s]) \subseteq Ticking(s) /\ MarkedIn(file) \subseteq Ticking(s)
<1>1. held.cur = None
  BY LockFacts DEF MInv, Typed
<1>2. MarkersOf(s) /\ \A store : MarkedIn(store) \subseteq Jobs
  BY DEF MInv, MarkedIn
<1> QED
  BY <1>1, <1>2, ClientsAssumption DEF MarkersOf

LEMMA SavedMarkers ==
  ASSUME Alone, Typed, NEW s \in Services, NEW store \in Store, Persist(s, store),
         MarkedIn(store) \subseteq Ticking(s)'
  PROVE  \A o \in Services : MarkersOf(o)'
<1>1. mem'[s] = store /\ file' = store
  BY PersistFacts DEF Typed
<1>2. MarkersOf(s)'
  BY <1>1 DEF MarkersOf, MarkedIn
<1> QED
  BY <1>2 DEF Alone

(* A step that leaves memory, file and lock, and forgets no job it has.    *)
LEMMA KeptMarkers ==
  ASSUME Alone, MInv, NEW s \in Services, UNCHANGED <<file, mem, held>>,
         life'[s] # life[s] => life'[s] \notin {"up", "starting"},
         Ticking(s) \subseteq Ticking(s)'
  PROVE  \A o \in Services : MarkersOf(o)'
<1>1. MarkersOf(s)
  BY DEF MInv
<1>2. MarkersOf(s)'
  BY <1>1 DEF MarkersOf, MarkedIn
<1> QED
  BY <1>2 DEF Alone

LEMMA ClientMInv ==
  ASSUME MInv, Alone, Typed', NEW s \in Services, Client(s)
  PROVE  \A o \in Services : MarkersOf(o)'
<1>0. Typed /\ mem[s] \in Store /\ now \in Time /\ mem \in [Services -> Store]
  BY DEF MInv, Typed
<1>1. CASE Read(s)
  <2>1. /\ UNCHANGED <<now, tick, held, life>> /\ RecomputeNextRuns(mem[s]) \in Store
        /\ UNCHANGED <<file, mem>> \/ Persist(s, RecomputeNextRuns(mem[s]))
        /\ LockFree /\ life[s] = "up"
    BY <1>0, <1>1, ReadCases
  <2>2. MarkedIn(RecomputeNextRuns(mem[s])) \subseteq Ticking(s)'
    BY <1>0, <2>1, MarkedInRecomputed, FreeMarkers, TickingSame
  <2> QED
    BY <1>0, <2>1, <2>2, SavedMarkers, KeptMarkers, TickingSame
<1>2. ASSUME NEW j \in Jobs, Remove(s, j) PROVE \A o \in Services : MarkersOf(o)'
  <2>1. PICK store \in Store :
          /\ store[j] = Absent /\ \A i \in Jobs : i # j => store[i] = mem[s][i]
          /\ Persist(s, store)
    BY <1>0, <1>2, RemoveCases
  <2>2. MarkedIn(store) \subseteq MarkedIn(mem[s])
    BY <2>1, AbsentFacts DEF MarkedIn
  <2>3. MarkedIn(store) \subseteq Ticking(s)'
    BY <1>0, <1>2, <2>2, RemoveCases, FreeMarkers, TickingSame
  <2> QED
    BY <1>0, <2>1, <2>3, SavedMarkers
<1>3. ASSUME NEW j \in Jobs, NEW force \in BOOLEAN, Run(s, j, force)
      PROVE  \A o \in Services : MarkersOf(o)'
  <2>1. /\ {j} \in SUBSET Jobs /\ Hold(s, {j}, mem[s]) /\ LockFree /\ life[s] = "up"
        /\ UNCHANGED <<file, tick, life>>
    BY <1>3 DEF Run
  <2>2. mem'[s] = Marked(mem[s], {held'.cur})
    BY <1>0, <2>1, HoldFacts
  <2>3. MarkedIn(mem'[s]) \subseteq Ticking(s) \cup {held'.cur} /\ MarkedIn(file) \subseteq Ticking(s)
    BY <1>0, <2>1, <2>2, MarkedInMarked, FreeMarkers
  <2>4. MarkersOf(s)'
    BY <2>1, <2>3, TickingSame DEF MarkersOf, MarkedIn
  <2> QED
    BY <2>4 DEF Alone
<1>4. ASSUME NEW j \in Jobs, NEW sched \in SchedulesOf[j], NEW delete \in Deletable,
             Add(s, j, sched, delete)
      PROVE  \A o \in Services : MarkersOf(o)'
  <2>1. PICK store \in Store :
          /\ store[j] = Created(sched, delete) /\ \A i \in Jobs : i # j => store[i] = mem[s][i]
          /\ RecomputeNextRuns(store) \in Store
          /\ Persist(s, RecomputeNextRuns(store))
    BY <1>0, <1>4, AddCases
  <2>2. store[j].running = Never
    BY <1>0, <2>1, CreatedFacts
  <2>3. MarkedIn(store) \subseteq MarkedIn(mem[s])
    BY <2>1, <2>2 DEF MarkedIn
  <2>4. MarkedIn(RecomputeNextRuns(store)) \subseteq Ticking(s)'
    BY <1>0, <1>4, <2>3, MarkedInRecomputed, AddCases, FreeMarkers, TickingSame
  <2> QED
    BY <1>0, <2>1, <2>4, SavedMarkers
<1>5. ASSUME NEW j \in Jobs, NEW patch \in Patches, Update(s, j, patch)
      PROVE  \A o \in Services : MarkersOf(o)'
  <2>1. PICK store \in Store :
          /\ store[j] = Changed(mem[s][j], patch) /\ \A i \in Jobs : i # j => store[i] = mem[s][i]
          /\ Persist(s, store)
    BY <1>0, <1>5, UpdateCases
  <2>2. mem[s][j] \in Record /\ store[j].running \in {mem[s][j].running, Never}
    BY <1>0, <1>5, <2>1, UpdateCases, ChangedFacts
  <2>3. MarkedIn(store) \subseteq MarkedIn(mem[s])
    BY <2>1, <2>2 DEF MarkedIn
  <2>4. MarkedIn(store) \subseteq Ticking(s)'
    BY <1>0, <1>5, <2>3, UpdateCases, FreeMarkers, TickingSame
  <2> QED
    BY <1>0, <2>1, <2>4, SavedMarkers
<1>6. ASSUME NEW j \in Jobs, NEW patch \in Patches, UpdateThrows(s, j, patch)
      PROVE  \A o \in Services : MarkersOf(o)'
  <2>1. PICK store \in Store :
          /\ store[j] = Patched(mem[s][j], patch) /\ \A i \in Jobs : i # j => store[i] = mem[s][i]
          /\ Remember(s, store)
    BY <1>0, <1>6, UpdateThrowsCases
  <2>2. mem[s][j] \in Record /\ store[j].running = mem[s][j].running
    BY <1>0, <1>6, <2>1, UpdateThrowsCases, PatchedFacts
  <2>3. MarkedIn(store) \subseteq MarkedIn(mem[s])
    BY <2>1, <2>2 DEF MarkedIn
  <2>4. mem'[s] = store /\ UNCHANGED <<file, held, life, tick>>
    BY <1>0, <1>6, <2>1, RememberFacts, UpdateThrowsCases
  <2>5. MarkersOf(s)
    BY DEF MInv
  <2>6. MarkersOf(s)'
    BY <2>3, <2>4, <2>5, TickingSame DEF MarkersOf, MarkedIn
  <2> QED
    BY <2>6 DEF Alone
<1> QED
  BY <1>1, <1>2, <1>3, <1>4, <1>5, <1>6 DEF Client

LEMMA TickMInv ==
  ASSUME MInv, Alone, Typed', NEW s \in Services
  PROVE  /\ Fire(s) => \A o \in Services : MarkersOf(o)'
         /\ Mark(s) => \A o \in Services : MarkersOf(o)'
         /\ \A j \in Jobs : Begin(s, j) => \A o \in Services : MarkersOf(o)'
         /\ \A outcome \in Outcomes : End(s, outcome) => \A o \in Services : MarkersOf(o)'
         /\ Apply(s) => \A o \in Services : MarkersOf(o)'
         /\ TickEnds(s) => \A o \in Services : MarkersOf(o)'
<1>0. /\ Typed /\ tick \in [Services -> TickType] /\ file \in Store /\ mem[s] \in Store /\ now \in Time
      /\ mem \in [Services -> Store] /\ (tick[s].pc = "run" <=> Busy(tick[s])) /\ MarkersOf(s)
  BY DEF MInv, Typed
<1>1. ASSUME Fire(s) PROVE \A o \in Services : MarkersOf(o)'
  <2>1. /\ UNCHANGED <<file, mem, held, life>>
        /\ tick'[s] = tick[s] \/ (tick[s].pc = "idle")
    BY <1>0, <1>1 DEF Fire
  <2>2. Ticking(s) \subseteq Ticking(s)'
    BY <1>0, <2>1, TickingSame, TickingIdle
  <2> QED
    BY <2>1, <2>2, KeptMarkers
<1>2. ASSUME Mark(s) PROVE \A o \in Services : MarkersOf(o)'
  <2>1. PICK t \in TickType :
              /\ tick' = [tick EXCEPT ![s] = t]
              /\ \/ /\ RecomputeNextRuns(file) \in Store /\ Persist(s, RecomputeNextRuns(file))
                 \/ /\ t.todo = Due /\ Marked(file, Due) \in Store
                    /\ Persist(s, Marked(file, Due))
    BY <1>0, <1>2, MarkCases
  <2>2. tick'[s] = t /\ ~ Busy(tick[s]) /\ LockFree
    BY <1>0, <1>2, <2>1, MarkCases
  <2>3. CASE life[s] = "up"
    <3>1. MarkedIn(file) = {}
      BY <2>2, <2>3, FreeMarkers, TickingIdle
    <3>2. CASE RecomputeNextRuns(file) \in Store /\ Persist(s, RecomputeNextRuns(file))
      <4>1. MarkedIn(RecomputeNextRuns(file)) \subseteq Ticking(s)'
        BY <1>0, <3>1, MarkedInRecomputed
      <4> QED
        BY <1>0, <3>2, <4>1, SavedMarkers
    <3>3. CASE t.todo = Due /\ Marked(file, Due) \in Store /\ Persist(s, Marked(file, Due))
      <4>1. Due \subseteq Ticking(s)'
        BY <2>2, <3>3 DEF Due, Ticking, InTick
      <4>2. MarkedIn(Marked(file, Due)) \subseteq Ticking(s)'
        BY <1>0, <3>1, <4>1, MarkedInMarked
      <4> QED
        BY <1>0, <3>3, <4>2, SavedMarkers
    <3> QED
      BY <2>1, <3>2, <3>3
  <2>4. CASE life[s] # "up"
    <3>1. life[s] # "starting" /\ UNCHANGED life
      BY <1>0, <1>2, <2>2, LockFacts, ClientsAssumption, MarkCases DEF MInv, Typed, StartHolds
    <3> QED
      BY <2>4, <3>1 DEF MarkersOf, Alone
  <2> QED
    BY <2>3, <2>4
<1>3. ASSUME NEW j \in Jobs, Begin(s, j) PROVE \A o \in Services : MarkersOf(o)'
  <2>1. PICK t \in TickType :
              /\ tick' = [tick EXCEPT ![s] = t] /\ t.pc = "run" /\ Busy(t)
              /\ t.cur = j /\ t.todo = tick[s].todo \ {j} /\ t.results = tick[s].results
    BY <1>0, <1>3, BeginCases
  <2>2. tick'[s] = t /\ tick[s].cur = None /\ j \in tick[s].todo
    BY <1>0, <1>3, <2>1, BeginCases
  <2>3. Ticking(s) \subseteq Ticking(s)' /\ j \in Ticking(s)'
    BY <2>1, <2>2, ClientsAssumption DEF Ticking, InTick, HasResult
  <2>4. mem'[s] = Marked(mem[s], {j}) /\ UNCHANGED <<file, held, life>>
    BY <1>0, <1>3, BeginCases, RememberFacts
  <2>5. MarkedIn(mem'[s]) \subseteq MarkedIn(mem[s]) \cup {j}
    BY <1>0, <2>4, MarkedInMarked
  <2>6. MarkersOf(s)'
    BY <1>0, <2>3, <2>4, <2>5 DEF MarkersOf, MarkedIn
  <2> QED
    BY <2>6 DEF Alone
<1>4. ASSUME NEW outcome \in Outcomes, End(s, outcome) PROVE \A o \in Services : MarkersOf(o)'
  <2> DEFINE r == [job |-> tick[s].cur, status |-> outcome, ended |-> now]
  <2>1. PICK t \in TickType :
              /\ tick' = [tick EXCEPT ![s] = t] /\ t.todo = tick[s].todo
              /\ t.results = tick[s].results \cup {r}
    BY <1>0, <1>4, EndCases
  <2>2. tick'[s] = t /\ UNCHANGED <<file, mem, held, life>> /\ r.job = tick[s].cur
    BY <1>0, <1>4, <2>1, EndCases
  <2> HIDE DEF r
  <2>3. Ticking(s) \subseteq Ticking(s)'
    BY <2>1, <2>2 DEF Ticking, InTick, HasResult
  <2> QED
    BY <2>2, <2>3, KeptMarkers
<1>5. ASSUME Apply(s) PROVE \A o \in Services : MarkersOf(o)'
  <2>1. PICK store \in Store :
              /\ \A j \in Jobs :
                   IF HasResult(s, j)
                   THEN \E status \in Outcomes, t \in Time :
                          store[j] = JobResultApplied(file[j], status, t)
                   ELSE store[j] = file[j]
              /\ RecomputeNextRuns(store) \in Store
              /\ Persist(s, RecomputeNextRuns(store))
    BY <1>0, <1>5, ApplyCases
  <2>2. /\ tick[s].cur = None /\ tick[s].todo = {} /\ LockFree /\ UNCHANGED life
    BY <1>0, <1>5, ApplyCases
  <2>3. CASE life[s] = "up"
    <3>1. MarkedIn(file) \subseteq { j \in Jobs : HasResult(s, j) }
      BY <2>2, <2>3, FreeMarkers, ClientsAssumption DEF Ticking, InTick
    <3>2. ASSUME NEW j \in Jobs PROVE j \notin MarkedIn(store)
      <4>1. CASE HasResult(s, j)
        <5>1. file[j] \in Record \cup {Absent}
          BY <1>0, InStore
        <5>2. PICK status \in Outcomes, t \in Time : store[j] = JobResultApplied(file[j], status, t)
          BY <2>1, <4>1
        <5>3. LET r == JobResultApplied(file[j], status, t) IN ~ (r \in Record /\ r.running # Never)
          BY <5>1, AppliedUnmarked
        <5> QED
          BY <5>2, <5>3 DEF MarkedIn
      <4>2. CASE ~ HasResult(s, j)
        BY <2>1, <3>1, <4>2 DEF MarkedIn
      <4> QED
        BY <4>1, <4>2
    <3>3. MarkedIn(store) = {}
      BY <3>2 DEF MarkedIn
    <3>4. MarkedIn(RecomputeNextRuns(store)) \subseteq Ticking(s)'
      BY <1>0, <3>3, MarkedInRecomputed
    <3> QED
      BY <1>0, <2>1, <3>4, SavedMarkers
  <2>4. CASE life[s] # "up"
    <3>1. life[s] # "starting"
      BY <1>0, <2>2, LockFacts, ClientsAssumption DEF MInv, Typed, StartHolds
    <3> QED
      BY <2>2, <2>4, <3>1 DEF MarkersOf, Alone
  <2> QED
    BY <2>3, <2>4
<1>6. ASSUME TickEnds(s) PROVE \A o \in Services : MarkersOf(o)'
  <2>1. UNCHANGED <<file, mem, held, life>> /\ tick[s].pc = "sweep"
    BY <1>6 DEF TickEnds
  <2>2. Ticking(s) = {}
    BY <1>0, <2>1, TickingIdle
  <2> QED
    BY <2>1, <2>2, KeptMarkers
<1> QED
  BY <1>1, <1>2, <1>3, <1>4, <1>5, <1>6

LEMMA StartMInv ==
  ASSUME MInv, Alone, NEW s \in Services, Start(s)
  PROVE  \A o \in Services : MarkersOf(o)' /\ StartHolds(o)'
<1>0. /\ Typed /\ now \in Time /\ mem \in [Services -> Store] /\ Missed \in SUBSET Jobs
      /\ life \in [Services -> {"new", "starting", "up", "stopped"}]
      /\ Cleaned(file) \in Store /\ MarkedIn(Cleaned(file)) = {}
  BY CleanedStore, MarkedInCleaned DEF MInv, Typed, Missed
<1>1. CASE Persist(s, RecomputeNextRuns(Cleaned(file))) /\ life' = [life EXCEPT ![s] = "up"]
  <2>1. RecomputeNextRuns(Cleaned(file)) \in Store /\ MarkedIn(RecomputeNextRuns(Cleaned(file))) = {}
    BY <1>0, RecomputedStore, MarkedInRecomputed
  <2>2. life'[s] = "up"
    BY <1>0, <1>1
  <2> QED
    BY <1>0, <1>1, <2>1, <2>2, SavedMarkers DEF StartHolds, Alone
<1>2. CASE Hold(s, Missed, Cleaned(file)) /\ life' = [life EXCEPT ![s] = "starting"]
  <2>1. held'.svc = s /\ mem'[s] = Marked(Cleaned(file), {held'.cur})
    BY <1>0, <1>2, HoldFacts
  <2>2. MarkedIn(mem'[s]) \subseteq {held'.cur}
    BY <1>0, <2>1, MarkedInMarked
  <2>3. life'[s] = "starting"
    BY <1>0, <1>2
  <2>4. MarkersOf(s)' /\ StartHolds(s)'
    BY <2>1, <2>2, <2>3 DEF MarkersOf, StartHolds, MarkedIn
  <2> QED
    BY <2>4 DEF Alone
<1> QED
  BY <1>1, <1>2, StartCases

LEMMA HeldEndsMInv ==
  ASSUME MInv, Alone, NEW outcome \in Outcomes, HeldEnds(outcome)
  PROVE  \A o \in Services : MarkersOf(o)' /\ StartHolds(o)'
<1>a. PICK s \in Services, store \in Store : s = held.svc /\ store = AfterHeld(outcome)
  BY HeldEndsCases DEF MInv
<1>0. /\ Typed /\ s \in Services /\ store \in Store /\ now \in Time /\ held.todo \in SUBSET Jobs
      /\ mem \in [Services -> Store] /\ UNCHANGED tick
      /\ life \in [Services -> {"new", "starting", "up", "stopped"}]
  BY <1>a, HeldEndsCases DEF MInv, Typed, HeldGood
<1>1. \/ Hold(s, held.todo, store) /\ UNCHANGED <<file, timer, life>>
      \/ /\ Persist(s, RecomputeNextRuns(store))
         /\ life' = [life EXCEPT ![s] = IF @ = "starting" THEN "up" ELSE @]
  BY <1>a, <1>0, HeldEndsCases
<1>2. MarkedIn(store) \subseteq MarkedIn(mem[s]) \ {held.cur}
  BY <1>a, <1>0, MarkedInAfterHeld
<1>3. MarkersOf(s) /\ StartHolds(s)
  BY <1>0 DEF MInv
<1>4. Ticking(s)' = Ticking(s)
  BY <1>0, TickingSame
<1>5. CASE Hold(s, held.todo, store) /\ UNCHANGED <<file, timer, life>>
  <2>1. held'.svc = s /\ mem'[s] = Marked(store, {held'.cur})
    BY <1>0, <1>5, HoldFacts
  <2>2. MarkedIn(mem'[s]) \subseteq MarkedIn(store) \cup {held'.cur}
    BY <1>0, <2>1, MarkedInMarked
  <2>3. MarkersOf(s)' /\ StartHolds(s)'
    BY <1>a, <1>2, <1>3, <1>4, <1>5, <2>1, <2>2 DEF MarkersOf, StartHolds, MarkedIn
  <2> QED
    BY <1>0, <2>3 DEF Alone
<1>6. CASE /\ Persist(s, RecomputeNextRuns(store))
           /\ life' = [life EXCEPT ![s] = IF @ = "starting" THEN "up" ELSE @]
  <2> DEFINE final == RecomputeNextRuns(store)
  <2>1. final \in Store /\ MarkedIn(final) \subseteq MarkedIn(store)
    BY <1>0, RecomputedStore, MarkedInRecomputed
  <2>2. mem'[s] = final /\ file' = final
    BY <1>0, <1>6, <2>1, PersistFacts
  <2>3. life'[s] = IF life[s] = "starting" THEN "up" ELSE life[s]
    BY <1>0, <1>6
  <2> HIDE DEF final
  <2>4. life[s] \in {"up", "starting"} => MarkedIn(final) \subseteq Ticking(s)
    BY <1>a, <1>2, <1>3, <2>1 DEF MarkersOf
  <2>5. MarkersOf(s)' /\ StartHolds(s)'
    BY <1>4, <2>2, <2>3, <2>4 DEF MarkersOf, StartHolds, MarkedIn
  <2> QED
    BY <1>0, <2>5 DEF Alone
<1> QED
  BY <1>1, <1>5, <1>6

LEMMA StepMInv ==
  ASSUME MInv, Alone, [Next]_vars
  PROVE  MInv'
<1>0. Typed' /\ Typed
  BY StepTyped DEF MInv
<1>1. CASE UNCHANGED vars
  <2>1. ASSUME NEW s \in Services PROVE MarkersOf(s)' /\ StartHolds(s)'
    <3>1. Ticking(s)' = Ticking(s) /\ MarkersOf(s) /\ StartHolds(s)
      BY <1>1, TickingSame DEF vars, MInv
    <3> QED
      BY <1>1, <3>1 DEF vars, MarkersOf, StartHolds, MarkedIn
  <2> QED
    BY <1>0, <2>1 DEF MInv
<1>2. ASSUME NEW s \in Services, Start(s) PROVE MInv'
  BY <1>0, <1>2, StartMInv DEF MInv
<1>3. ASSUME NEW s \in Services, Client(s) PROVE MInv'
  <2>1. life[s] = "up" /\ UNCHANGED life
    BY <1>3, ZenonT(60) DEF Client, Read, Remove, Run, Add, Update, UpdateThrows
  <2>2. \A o \in Services : StartHolds(o)'
    BY <2>1 DEF StartHolds, Alone
  <2> QED
    BY <1>0, <1>3, <2>2, ClientMInv, SMTT(30) DEF MInv
<1>4. ASSUME NEW s \in Services,
             \/ Fire(s) \/ Mark(s) \/ Apply(s) \/ TickEnds(s)
             \/ \E j \in Jobs : Begin(s, j)
             \/ \E outcome \in Outcomes : End(s, outcome)
      PROVE  MInv'
  <2>1. UNCHANGED <<life, held>>
    BY <1>4 DEF Fire, Mark, Apply, TickEnds, Begin, End
  <2>2. \A o \in Services : StartHolds(o)'
    BY <2>1 DEF StartHolds, MInv
  <2> QED
    BY <1>0, <1>4, <2>2, TickMInv DEF MInv
<1>5. ASSUME NEW s \in Services, Stop(s) PROVE MInv'
  BY <1>5 DEF Stop, Alone
<1>6. ASSUME NEW outcome \in Outcomes, HeldEnds(outcome) PROVE MInv'
  BY <1>0, <1>6, HeldEndsMInv DEF MInv
<1>7. ASSUME Crash PROVE MInv'
  BY <1>0, <1>7 DEF Crash, MInv, MarkersOf, StartHolds
<1>8. ASSUME Advance PROVE MInv'
  <2>1. UNCHANGED <<file, mem, held, tick, life>>
    BY <1>8 DEF Advance
  <2>2. ASSUME NEW s \in Services PROVE MarkersOf(s)' /\ StartHolds(s)'
    <3>1. Ticking(s)' = Ticking(s) /\ MarkersOf(s) /\ StartHolds(s)
      BY <2>1, TickingSame DEF MInv
    <3> QED
      BY <2>1, <3>1 DEF MarkersOf, StartHolds, MarkedIn
  <2> QED
    BY <1>0, <2>2 DEF MInv
<1> QED
  BY <1>1, <1>2, <1>3, <1>4, <1>5, <1>6, <1>7, <1>8 DEF Next

(* A runningAtMs marker, which makes run refuse and the tick pass a job    *)
(* over, belongs to an execution in progress or whose result is to be      *)
(* applied: start clears those it finds, the result of a run its own.      *)
THEOREM CronMarkers == ASSUME Alone PROVE Spec => []MarkerJustified
<1>1. Init => MInv
  <2> SUFFICES ASSUME Init PROVE MInv
    OBVIOUS
  <2>1. \A s \in Services : MarkersOf(s) /\ StartHolds(s)
    BY DEF Init, MarkersOf, StartHolds
  <2> QED
    BY <2>1, InitTyped DEF MInv
<1>2. MInv /\ [Next]_vars => MInv'
  BY StepMInv
<1>3. MInv => MarkerJustified
  <2> SUFFICES ASSUME MInv, NEW s \in Services, NEW j \in Jobs,
                      life[s] = "up", Present(mem[s][j]), mem[s][j].running # Never
               PROVE  \/ held.cur = j
                      \/ \E o \in Services : InTick(o, j) \/ \E r \in tick[o].results : r.job = j
    BY DEF MarkerJustified
  <2>1. mem[s] \in Store /\ MarkersOf(s)
    BY DEF MInv, Typed
  <2>2. j \in MarkedIn(mem[s])
    BY <2>1, InStore DEF MarkedIn
  <2>3. j \in Ticking(s) \/ j = held.cur
    BY <2>1, <2>2 DEF MarkersOf
  <2> QED
    BY <2>3 DEF Ticking, HasResult
<1> QED
  BY <1>1, <1>2, <1>3, PTL DEF Spec

-----------------------------------------------------------------------------
(* What a process that keeps its service is doing, and with which jobs.    *)

PresentIn(store) == { j \in Jobs : store[j] \in Record }

Phases(s) ==
  /\ life[s] # "stopped"
  /\ life[s] \in {"new", "starting"} => tick[s].pc = "idle" /\ timer[s] = Never
  /\ StartHolds(s)
  /\ held.todo # {} => life[s] = "starting"
  /\ life[s] = "new" => held.svc = None /\ \A j \in Jobs : begun[j] = Never

(* A job a tick began waits in it no more.                                 *)
InOrder(t) ==
  /\ t.cur \notin t.todo
  /\ \A r \in t.results : r.job \notin t.todo

Known(s) ==
  /\ PresentIn(file) \subseteq born /\ PresentIn(mem[s]) \subseteq born
  /\ \A j \in Jobs : begun[j] # Never \/ InTick(s, j) => j \in born

BInv == Typed /\ \A s \in Services : Phases(s) /\ InOrder(tick[s]) /\ Known(s)

LEMMA PresentInStore ==
  ASSUME NEW store \in Store, now \in Time
  PROVE  /\ PresentIn(RecomputeNextRuns(store)) = PresentIn(store)
         /\ \A jobs : PresentIn(Marked(store, jobs)) = PresentIn(store)
         /\ PresentIn(Cleaned(store)) = PresentIn(store)
<1>1. PresentIn(RecomputeNextRuns(store)) = PresentIn(store)
  BY RecomputedStore, InStore, AbsentFacts DEF PresentIn
<1>2. \A jobs : PresentIn(Marked(store, jobs)) = PresentIn(store)
  <2> SUFFICES ASSUME NEW jobs PROVE PresentIn(Marked(store, jobs)) = PresentIn(store)
    OBVIOUS
  <2> QED
    BY MarkedStore, InStore, AbsentFacts DEF PresentIn
<1>3. PresentIn(Cleaned(store)) = PresentIn(store)
  BY CleanedStore, InStore, AbsentFacts DEF PresentIn
<1> QED
  BY <1>1, <1>2, <1>3

LEMMA StartBInv ==
  ASSUME BInv, Alone, Typed', NEW s \in Services, Start(s)
  PROVE  BInv'
<1>0. /\ Typed /\ now \in Time /\ mem \in [Services -> Store] /\ Missed \in SUBSET Jobs
      /\ life \in [Services -> {"new", "starting", "up", "stopped"}]
      /\ file \in Store /\ Cleaned(file) \in Store /\ PresentIn(Cleaned(file)) = PresentIn(file)
      /\ Phases(s) /\ InOrder(tick[s]) /\ Known(s)
  BY CleanedStore, PresentInStore DEF BInv, Typed, Missed
<1>1. UNCHANGED <<now, tick, born>> /\ life[s] = "new" /\ held.todo = {}
  BY <1>0, StartCases, LockFacts DEF Typed
<1>2. CASE /\ Persist(s, RecomputeNextRuns(Cleaned(file)))
           /\ life' = [life EXCEPT ![s] = "up"] /\ UNCHANGED <<held, begun>>
  <2> DEFINE store == RecomputeNextRuns(Cleaned(file))
  <2>1. store \in Store /\ PresentIn(store) = PresentIn(file)
    BY <1>0, RecomputedStore, PresentInStore
  <2>2. mem'[s] = store /\ file' = store /\ life'[s] = "up"
    BY <1>0, <1>2, <2>1, PersistFacts
  <2> HIDE DEF store
  <2>3. Phases(s)'
    BY <1>1, <1>2, <2>2 DEF Phases, StartHolds
  <2>4. Known(s)'
    BY <1>0, <1>1, <1>2, <2>1, <2>2 DEF Known, PresentIn, InTick
  <2> QED
    BY <1>0, <1>1, <2>3, <2>4 DEF BInv, Alone, InOrder
<1>3. CASE /\ Hold(s, Missed, Cleaned(file)) /\ UNCHANGED <<file, timer>>
           /\ life' = [life EXCEPT ![s] = "starting"]
           /\ begun' = [j \in Jobs |-> IF j \in Missed THEN Cleaned(file)[j].next ELSE begun[j]]
  <2>1. /\ held'.svc = s /\ mem'[s] = Marked(Cleaned(file), {held'.cur}) /\ life'[s] = "starting"
    BY <1>0, <1>3, HoldFacts
  <2>2. PresentIn(mem'[s]) = PresentIn(file)
    BY <1>0, <2>1, PresentInStore
  <2>3. Missed \subseteq PresentIn(file)
    <3>1. Missed \subseteq PresentIn(Cleaned(file))
      BY <1>0, InStore DEF Missed, IsDue, PresentIn
    <3> QED
      BY <1>0, <3>1
  <2>4. Phases(s)'
    BY <1>0, <1>1, <1>3, <2>1 DEF Phases, StartHolds
  <2>5. Known(s)'
    BY <1>0, <1>1, <1>3, <2>2, <2>3 DEF Known, PresentIn, InTick
  <2> QED
    BY <1>0, <1>1, <2>4, <2>5 DEF BInv, Alone, InOrder
<1> QED
  BY <1>2, <1>3, StartCases

LEMMA HeldEndsBInv ==
  ASSUME BInv, Alone, Typed', NEW outcome \in Outcomes, HeldEnds(outcome)
  PROVE  BInv'
<1>a. PICK s \in Services, store \in Store : s = held.svc /\ store = AfterHeld(outcome)
  BY HeldEndsCases DEF BInv
<1>0. /\ Typed /\ now \in Time /\ held.todo \in SUBSET Jobs
      /\ mem \in [Services -> Store] /\ mem[s] \in Store /\ UNCHANGED <<now, tick, born, begun>>
      /\ life \in [Services -> {"new", "starting", "up", "stopped"}]
      /\ Phases(s) /\ InOrder(tick[s]) /\ Known(s)
  BY <1>a, HeldEndsCases DEF BInv, Typed, HeldGood
<1>1. \/ Hold(s, held.todo, store) /\ UNCHANGED <<file, timer, life>> /\ held.todo # {}
      \/ /\ Persist(s, RecomputeNextRuns(store))
         /\ life' = [life EXCEPT ![s] = IF @ = "starting" THEN "up" ELSE @]
         /\ held' = Unheld /\ ArmTimer(s)
  BY <1>a, <1>0, HeldEndsCases
<1>2. PresentIn(store) \subseteq PresentIn(mem[s])
  <2>1. /\ \A j \in Jobs : j # held.cur => store[j] = mem[s][j]
        /\ store[held.cur] = JobResultApplied(mem[s][held.cur], outcome, now) /\ held.cur \in Jobs
    BY <1>a, <1>0, HeldEndsCases
  <2>2. mem[s][held.cur] = Absent => store[held.cur] = Absent
    BY <2>1, AppliedAbsent
  <2> QED
    BY <1>0, <2>1, <2>2, InStore, AbsentFacts DEF PresentIn
<1>3. InOrder(tick[s])'
  BY <1>0 DEF InOrder
<1>4. CASE Hold(s, held.todo, store) /\ UNCHANGED <<file, timer, life>> /\ held.todo # {}
  <2>1. held'.svc = s /\ mem'[s] = Marked(store, {held'.cur})
    BY <1>0, <1>4, HoldFacts
  <2>2. PresentIn(mem'[s]) \subseteq PresentIn(mem[s])
    BY <1>0, <1>2, <2>1, PresentInStore
  <2>3. Phases(s)'
    BY <1>0, <1>4, <2>1 DEF Phases, StartHolds
  <2>4. Known(s)'
    BY <1>0, <1>4, <2>2 DEF Known, PresentIn, InTick
  <2> QED
    BY <1>3, <2>3, <2>4 DEF BInv, Alone
<1>5. CASE /\ Persist(s, RecomputeNextRuns(store)) /\ held' = Unheld
           /\ life' = [life EXCEPT ![s] = IF @ = "starting" THEN "up" ELSE @]
  <2> DEFINE final == RecomputeNextRuns(store)
  <2>1. final \in Store /\ PresentIn(final) = PresentIn(store)
    BY <1>0, RecomputedStore, PresentInStore
  <2>2. mem'[s] = final /\ file' = final
    BY <1>0, <1>5, <2>1, PersistFacts
  <2>3. life'[s] = IF life[s] = "starting" THEN "up" ELSE life[s]
    BY <1>0, <1>5
  <2> HIDE DEF final
  <2>4. life[s] # "new"
    <3>1. held.svc # None
      BY <1>a, ClientsAssumption
    <3> QED
      BY <1>0, <3>1 DEF Phases
  <2>5. Phases(s)'
    BY <1>0, <1>5, <2>3, <2>4, UnheldFacts DEF Phases, StartHolds
  <2>6. Known(s)'
    BY <1>0, <1>2, <2>1, <2>2 DEF Known, PresentIn, InTick
  <2> QED
    BY <1>3, <2>5, <2>6 DEF BInv, Alone
<1> QED
  BY <1>1, <1>4, <1>5

LEMMA SavedBInv ==
  ASSUME BInv, Alone, Typed', NEW s \in Services, NEW store \in Store, Persist(s, store),
         life[s] = "up", UNCHANGED <<tick, held, life>>,
         PresentIn(store) \subseteq born', born \subseteq born',
         \A j \in Jobs : begun'[j] \in {begun[j], Never}
  PROVE  BInv'
<1>1. mem'[s] = store /\ file' = store
  BY PersistFacts DEF BInv, Typed
<1>2. Phases(s) /\ InOrder(tick[s]) /\ Known(s)
  BY DEF BInv
<1>3. Phases(s)'
  BY <1>2 DEF Phases, StartHolds
<1>4. Known(s)'
  BY <1>1, <1>2 DEF Known, PresentIn, InTick
<1> QED
  BY <1>2, <1>3, <1>4 DEF BInv, Alone, InOrder

LEMMA ClientBInv ==
  ASSUME BInv, Alone, AllValid, Typed', NEW s \in Services, Client(s)
  PROVE  BInv'
<1>0. /\ Typed /\ mem[s] \in Store /\ now \in Time /\ mem \in [Services -> Store]
      /\ Phases(s) /\ InOrder(tick[s]) /\ Known(s) /\ begun \in [Jobs -> Instants]
  BY DEF BInv, Typed
<1>1. CASE Read(s)
  <2>1. /\ UNCHANGED <<timer, tick, held, life, born, begun>>
        /\ RecomputeNextRuns(mem[s]) \in Store /\ life[s] = "up"
        /\ UNCHANGED <<file, mem>> \/ Persist(s, RecomputeNextRuns(mem[s]))
    BY <1>0, <1>1, ReadCases
  <2>2. CASE UNCHANGED <<file, mem>>
    BY <1>0, <2>1, <2>2 DEF BInv, Alone, Phases, InOrder, Known, PresentIn, InTick, StartHolds
  <2>3. CASE Persist(s, RecomputeNextRuns(mem[s]))
    <3>1. PresentIn(RecomputeNextRuns(mem[s])) \subseteq born'
      BY <1>0, <2>1, PresentInStore DEF Known
    <3> QED
      BY <2>1, <2>3, <3>1, SavedBInv
  <2> QED
    BY <2>1, <2>2, <2>3
<1>2. ASSUME NEW j \in Jobs, Remove(s, j) PROVE BInv'
  <2>1. PICK store \in Store :
          /\ store[j] = Absent /\ \A i \in Jobs : i # j => store[i] = mem[s][i]
          /\ Persist(s, store)
    BY <1>0, <1>2, RemoveCases
  <2>2. PresentIn(store) \subseteq born
    BY <1>0, <2>1, AbsentFacts DEF Known, PresentIn
  <2>3. life[s] = "up" /\ UNCHANGED <<tick, held, life, born, begun>>
    BY <1>0, <1>2, RemoveCases
  <2> QED
    BY <2>1, <2>2, <2>3, SavedBInv
<1>3. ASSUME NEW j \in Jobs, NEW force \in BOOLEAN, Run(s, j, force) PROVE BInv'
  <2>1. /\ {j} \in SUBSET Jobs /\ Hold(s, {j}, mem[s]) /\ life[s] = "up"
        /\ UNCHANGED <<file, timer, tick, life, born, begun>>
    BY <1>3 DEF Run
  <2>2. /\ held'.svc = s /\ held'.todo = {j} \ {held'.cur} /\ held'.cur \in {j}
        /\ mem'[s] = Marked(mem[s], {held'.cur})
    BY <1>0, <2>1, HoldFacts
  <2>3. PresentIn(mem'[s]) = PresentIn(mem[s])
    BY <1>0, <2>2, PresentInStore
  <2>4. Phases(s)'
    BY <1>0, <2>1, <2>2 DEF Phases, StartHolds
  <2>5. Known(s)'
    BY <1>0, <2>1, <2>3 DEF Known, PresentIn, InTick
  <2> QED
    BY <1>0, <2>1, <2>4, <2>5 DEF BInv, Alone, InOrder
<1>4. ASSUME NEW j \in Jobs, NEW sched \in SchedulesOf[j], NEW delete \in Deletable,
             Add(s, j, sched, delete)
      PROVE  BInv'
  <2>1. PICK store \in Store :
          /\ store[j] = Created(sched, delete) /\ \A i \in Jobs : i # j => store[i] = mem[s][i]
          /\ RecomputeNextRuns(store) \in Store
          /\ Persist(s, RecomputeNextRuns(store))
    BY <1>0, <1>4, AddCases
  <2>2. life[s] = "up" /\ UNCHANGED <<tick, held, life, begun>> /\ born' = born \cup {j}
    BY <1>0, <1>4, AddCases
  <2>3. PresentIn(store) \subseteq born'
    BY <1>0, <2>1, <2>2 DEF Known, PresentIn
  <2>4. PresentIn(RecomputeNextRuns(store)) \subseteq born'
    BY <1>0, <2>1, <2>3, PresentInStore
  <2> QED
    BY <2>1, <2>2, <2>4, SavedBInv
<1>5. ASSUME NEW j \in Jobs, NEW patch \in Patches, Update(s, j, patch) PROVE BInv'
  <2>1. PICK store \in Store :
          /\ store[j] = Changed(mem[s][j], patch) /\ \A i \in Jobs : i # j => store[i] = mem[s][i]
          /\ Persist(s, store)
    BY <1>0, <1>5, UpdateCases
  <2>2. /\ life[s] = "up" /\ UNCHANGED <<tick, held, life, born>> /\ mem[s][j] \in Record
        /\ begun' = [begun EXCEPT ![j] = Never]
    BY <1>0, <1>5, UpdateCases
  <2>3. PresentIn(store) \subseteq born
    BY <1>0, <2>1, <2>2 DEF Known, PresentIn
  <2>4. \A i \in Jobs : begun'[i] \in {begun[i], Never}
    BY <1>0, <2>2
  <2> QED
    BY <2>1, <2>2, <2>3, <2>4, SavedBInv
<1>6. ASSUME NEW j \in Jobs, NEW patch \in Patches, UpdateThrows(s, j, patch) PROVE BInv'
  BY <1>6 DEF UpdateThrows, AllValid
<1> QED
  BY <1>1, <1>2, <1>3, <1>4, <1>5, <1>6 DEF Client

(* A step of the tick: files and memory get no new jobs.                   *)
LEMMA TickStepBInv ==
  ASSUME BInv, Alone, Typed', NEW s \in Services,
         UNCHANGED <<held, life, born>>, life[s] = "up" \/ timer'[s] = Never,
         tick'[s].pc = "idle" \/ life[s] = "up",
         InOrder(tick'[s]), \A j \in Jobs : InTick(s, j)' => j \in born,
         PresentIn(mem'[s]) \subseteq born, PresentIn(file') \subseteq born,
         \A j \in Jobs : begun'[j] # Never => begun[j] # Never \/ (j \in born /\ life[s] = "up")
  PROVE  BInv'
<1>1. Phases(s) /\ Known(s)
  BY DEF BInv
<1>2. Phases(s)'
  BY <1>1 DEF Phases, StartHolds
<1>3. Known(s)'
  BY <1>1 DEF Known, PresentIn
<1> QED
  BY <1>2, <1>3 DEF BInv, Alone, InOrder

LEMMA TickBInv ==
  ASSUME BInv, Alone, Typed', NEW s \in Services
  PROVE  /\ Fire(s) => BInv'
         /\ Mark(s) => BInv'
         /\ \A j \in Jobs : Begin(s, j) => BInv'
         /\ \A outcome \in Outcomes : End(s, outcome) => BInv'
         /\ Apply(s) => BInv'
         /\ TickEnds(s) => BInv'
<1>0. /\ Typed /\ mem[s] \in Store /\ file \in Store /\ now \in Time /\ mem \in [Services -> Store]
      /\ tick \in [Services -> TickType] /\ begun \in [Jobs -> Instants]
      /\ timer \in [Services -> Instants] /\ life[s] \in {"new", "starting", "up", "stopped"}
      /\ Phases(s) /\ InOrder(tick[s]) /\ Known(s) /\ (tick[s].pc = "run" <=> Busy(tick[s]))
  BY DEF BInv, Typed
<1>a. tick[s].pc # "idle" \/ timer[s] # Never => life[s] = "up"
  BY <1>0 DEF Phases
<1>1. ASSUME Fire(s) PROVE BInv'
  <2>1. UNCHANGED <<file, mem, held, life, born, begun>> /\ life[s] = "up" /\ timer'[s] = Never
    BY <1>0, <1>a, <1>1 DEF Fire
  <2>2. tick'[s].todo = tick[s].todo /\ tick'[s].cur = tick[s].cur /\ tick'[s].results = tick[s].results
    BY <1>0, <1>1 DEF Fire, TickType
  <2>3. InOrder(tick'[s]) /\ \A j \in Jobs : InTick(s, j)' => j \in born
    BY <1>0, <2>2 DEF InOrder, Known, InTick
  <2>4. PresentIn(mem'[s]) \subseteq born /\ PresentIn(file') \subseteq born
    BY <1>0, <2>1 DEF Known
  <2> QED
    BY <2>1, <2>3, <2>4, TickStepBInv
<1>2. ASSUME Mark(s) PROVE BInv'
  <2>1. PICK t \in TickType :
              /\ tick' = [tick EXCEPT ![s] = t] /\ t.cur = None /\ t.results = {}
              /\ \/ /\ t.todo = {} /\ RecomputeNextRuns(file) \in Store
                    /\ Persist(s, RecomputeNextRuns(file))
                 \/ /\ t.todo = Due /\ Marked(file, Due) \in Store
                    /\ Persist(s, Marked(file, Due))
    BY <1>0, <1>2, MarkCases
  <2>2. tick'[s] = t /\ life[s] = "up" /\ UNCHANGED <<timer, held, life, born, begun>>
    BY <1>0, <1>a, <1>2, <2>1, MarkCases
  <2>3. PresentIn(mem'[s]) = PresentIn(file) /\ PresentIn(file') = PresentIn(file)
    BY <1>0, <2>1, PersistFacts, PresentInStore
  <2>4. Due \subseteq born
    <3>1. Due \subseteq PresentIn(file)
      BY <1>0, InStore DEF Due, IsDue, PresentIn
    <3> QED
      BY <1>0, <3>1 DEF Known
  <2>5. InOrder(t) /\ \A j \in Jobs : InTick(s, j)' => j \in born
    <3>1. t.todo \in SUBSET Jobs
      BY DEF TickType
    <3> QED
      BY <2>1, <2>2, <2>4, <3>1, ClientsAssumption DEF InOrder, InTick
  <2> QED
    BY <1>0, <2>2, <2>3, <2>5, TickStepBInv DEF Known
<1>3. ASSUME NEW j \in Jobs, Begin(s, j) PROVE BInv'
  <2>1. PICK t \in TickType :
              /\ tick' = [tick EXCEPT ![s] = t] /\ t.pc = "run" /\ Busy(t)
              /\ t.cur = j /\ t.todo = tick[s].todo \ {j} /\ t.results = tick[s].results
    BY <1>0, <1>3, BeginCases
  <2>2. /\ tick'[s] = t /\ j \in tick[s].todo /\ tick[s].pc = "run" /\ life[s] = "up"
        /\ UNCHANGED <<file, timer, held, life, born>>
    BY <1>0, <1>a, <1>3, <2>1, BeginCases
  <2>3. mem'[s] = Marked(mem[s], {j})
    BY <1>0, <1>3, BeginCases, RememberFacts
  <2>4. PresentIn(mem'[s]) \subseteq born /\ PresentIn(file') \subseteq born
    BY <1>0, <2>2, <2>3, PresentInStore DEF Known
  <2>5. InOrder(t) /\ \A i \in Jobs : InTick(s, i)' => i \in born
    BY <1>0, <2>1, <2>2 DEF InOrder, InTick, Known
  <2>6. \A i \in Jobs : i # j => begun'[i] = begun[i]
    BY <1>0, <1>3 DEF Begin
  <2>7. j \in born
    BY <1>0, <2>2 DEF Known, InTick
  <2> QED
    BY <2>2, <2>4, <2>5, <2>6, <2>7, TickStepBInv
<1>4. ASSUME NEW outcome \in Outcomes, End(s, outcome) PROVE BInv'
  <2> DEFINE r == [job |-> tick[s].cur, status |-> outcome, ended |-> now]
  <2>1. PICK t \in TickType :
              /\ tick' = [tick EXCEPT ![s] = t] /\ t.cur = None /\ t.todo = tick[s].todo
              /\ t.results = tick[s].results \cup {r}
    BY <1>0, <1>4, EndCases
  <2>2. /\ tick'[s] = t /\ UNCHANGED <<file, mem, timer, held, life, born, begun>>
        /\ r.job = tick[s].cur /\ life[s] = "up"
    BY <1>0, <1>a, <1>4, <2>1, EndCases
  <2> HIDE DEF r
  <2>3. InOrder(t) /\ \A i \in Jobs : InTick(s, i)' => i \in born
    <3>1. t.todo \in SUBSET Jobs
      BY DEF TickType
    <3> QED
      BY <1>0, <2>1, <2>2, <3>1, ClientsAssumption DEF InOrder, InTick, Known
  <2> QED
    BY <1>0, <2>2, <2>3, TickStepBInv DEF Known
<1>5. ASSUME Apply(s) PROVE BInv'
  <2>1. PICK store \in Store :
              /\ \A j \in Jobs :
                   IF HasResult(s, j)
                   THEN \E status \in Outcomes, t \in Time :
                          store[j] = JobResultApplied(file[j], status, t)
                   ELSE store[j] = file[j]
              /\ RecomputeNextRuns(store) \in Store
              /\ Persist(s, RecomputeNextRuns(store))
    BY <1>0, <1>5, ApplyCases
  <2>2. PresentIn(store) \subseteq PresentIn(file)
    <3>1. ASSUME NEW j \in Jobs, file[j] = Absent PROVE store[j] = Absent
      BY <2>1, <3>1, AppliedAbsent
    <3> QED
      BY <1>0, <3>1, InStore, AbsentFacts DEF PresentIn
  <2>3. PresentIn(mem'[s]) \subseteq born /\ PresentIn(file') \subseteq born
    BY <1>0, <2>1, <2>2, PersistFacts, PresentInStore DEF Known
  <2>4. /\ tick'[s].todo = {} /\ tick'[s].cur = None /\ tick'[s].results = {} /\ life[s] = "up"
        /\ UNCHANGED <<timer, held, life, born, begun>>
    BY <1>0, <1>a, <1>5, ApplyCases, IdleFacts
  <2>5. InOrder(tick'[s]) /\ \A i \in Jobs : InTick(s, i)' => i \in born
    BY <2>4, ClientsAssumption DEF InOrder, InTick
  <2> QED
    BY <2>3, <2>4, <2>5, TickStepBInv
<1>6. ASSUME TickEnds(s) PROVE BInv'
  <2>1. /\ UNCHANGED <<file, mem, held, life, born, begun>> /\ tick[s].pc = "sweep"
        /\ tick' = [tick EXCEPT ![s] = Idle]
    BY <1>6 DEF TickEnds
  <2>2. tick'[s] = Idle /\ life[s] = "up"
    BY <1>0, <1>a, <2>1
  <2>3. InOrder(tick'[s]) /\ \A i \in Jobs : InTick(s, i)' => i \in born
    BY <2>2, IdleFacts, ClientsAssumption DEF InOrder, InTick
  <2> QED
    BY <1>0, <2>1, <2>2, <2>3, TickStepBInv DEF Known
<1> QED
  BY <1>1, <1>2, <1>3, <1>4, <1>5, <1>6

LEMMA StepBInv ==
  ASSUME BInv, Alone, AllValid, [Next]_vars
  PROVE  BInv'
<1>0. Typed' /\ Typed
  BY StepTyped DEF BInv
<1>1. CASE UNCHANGED vars
  BY <1>0, <1>1 DEF vars, BInv, Phases, InOrder, Known, PresentIn, InTick, StartHolds
<1>2. ASSUME NEW s \in Services,
             \/ Start(s) \/ Client(s)
             \/ Fire(s) \/ Mark(s) \/ Apply(s) \/ TickEnds(s)
             \/ \E j \in Jobs : Begin(s, j)
             \/ \E outcome \in Outcomes : End(s, outcome)
      PROVE  BInv'
  BY <1>0, <1>2, StartBInv, ClientBInv, TickBInv
<1>3. ASSUME NEW s \in Services, Stop(s) PROVE BInv'
  BY <1>3 DEF Stop, Alone
<1>4. ASSUME NEW outcome \in Outcomes, HeldEnds(outcome) PROVE BInv'
  BY <1>0, <1>4, HeldEndsBInv
<1>5. ASSUME Crash PROVE BInv'
  <2>1. ASSUME NEW s \in Services PROVE Phases(s)' /\ InOrder(tick[s])' /\ Known(s)'
    <3>1. /\ life'[s] = "new" /\ tick'[s] = Idle /\ timer'[s] = Never /\ held' = Unheld
          /\ \A j \in Jobs : begun'[j] = Never /\ mem'[s][j] = Absent
          /\ UNCHANGED <<file, born>>
      BY <1>5 DEF Crash
    <3>2. Phases(s)'
      BY <3>1, IdleFacts, UnheldFacts DEF Phases, StartHolds
    <3>3. InOrder(tick[s])'
      BY <3>1, IdleFacts DEF InOrder
    <3>4. Known(s)'
      BY <3>1, IdleFacts, AbsentFacts, ClientsAssumption DEF Known, PresentIn, InTick, BInv
    <3> QED
      BY <3>2, <3>3, <3>4
  <2> QED
    BY <1>0, <2>1 DEF BInv
<1>6. ASSUME Advance PROVE BInv'
  <2>1. UNCHANGED <<file, mem, timer, tick, held, life, born, begun>>
    BY <1>6 DEF Advance
  <2> QED
    BY <1>0, <2>1 DEF BInv, Phases, InOrder, Known, PresentIn, InTick, StartHolds
<1> QED
  BY <1>1, <1>2, <1>3, <1>4, <1>5, <1>6 DEF Next

LEMMA InitBInv == Init => BInv
<1> SUFFICES ASSUME Init PROVE BInv
  OBVIOUS
<1>1. ASSUME NEW s \in Services PROVE Phases(s) /\ InOrder(tick[s]) /\ Known(s)
  <2>1. /\ life[s] = "new" /\ tick[s] = Idle /\ timer[s] = Never /\ held = Unheld
        /\ \A j \in Jobs : begun[j] = Never /\ mem[s][j] = Absent /\ file[j] = Absent
    BY DEF Init
  <2> QED
    BY <2>1, IdleFacts, UnheldFacts, AbsentFacts, ClientsAssumption
    DEF Phases, StartHolds, InOrder, Known, PresentIn, InTick
<1> QED
  BY <1>1, InitTyped DEF BInv

-----------------------------------------------------------------------------
(* A job is executed by one of the tick and the operations.                *)

Safe(store, j) == store[j] \in Record => store[j].enabled /\ store[j].running # Never

(* What a tick has to execute is marked, and so refused to run.            *)
Excludes(s) ==
  \A j \in Jobs \ unmarked : InTick(s, j) => held.cur # j /\ Safe(mem[s], j)

XInv == BInv /\ \A s \in Services : Excludes(s)

(* The jobs of a tick end before they are taken for stuck.                 *)
Timely ==
  \A s \in Services, j \in Jobs :
    InTick(s, j) /\ Present(mem[s][j]) /\ mem[s][j].running # Never =>
      now - mem[s][j].running <= StuckRun

LEMMA RecomputedSafe ==
  ASSUME NEW store \in Store, NEW j \in Jobs, now \in Time, Safe(store, j),
         store[j] \in Record => now - store[j].running <= StuckRun
  PROVE  Safe(RecomputeNextRuns(store), j)
<1>1. CASE store[j] = Absent
  BY <1>1, RecomputedStore, AbsentFacts DEF Safe
<1>2. CASE store[j] \in Record
  <2> DEFINE r == Recomputed(store[j], now)
  <2>1. r.enabled = store[j].enabled /\ r.running = store[j].running
    BY <1>2, RecomputedFacts DEF Safe
  <2>2. RecomputeNextRuns(store)[j] = r
    BY RecomputedStore
  <2> HIDE DEF r
  <2> QED
    BY <1>2, <2>1, <2>2 DEF Safe
<1> QED
  BY <1>1, <1>2, InStore

LEMMA MarkedSafe ==
  ASSUME NEW store \in Store, NEW jobs, NEW j \in Jobs, now \in Time, Safe(store, j)
  PROVE  Safe(Marked(store, jobs), j)
<1>1. now # Never
  BY TimeIsNat, NeverIsNot
<1>2. CASE store[j] = Absent
  BY <1>2, MarkedStore, AbsentFacts DEF Safe
<1>3. CASE store[j] \in Record
  BY <1>1, <1>3, MarkedStore DEF Safe
<1> QED
  BY <1>2, <1>3, InStore

(* A tick that is idle, or nearly so.                                      *)
LEMMA NothingExcluded ==
  ASSUME NEW s \in Services, tick[s].cur = None, tick[s].todo = {}
  PROVE  Excludes(s)
BY ClientsAssumption DEF Excludes, InTick

(* A step that leaves the tick.                                            *)
LEMMA KeptExcludes ==
  ASSUME Alone, XInv, NEW s \in Services, tick'[s] = tick[s], unmarked \subseteq unmarked',
         \A j \in Jobs \ unmarked' :
           InTick(s, j) /\ held.cur # j /\ Safe(mem[s], j) => held'.cur # j /\ Safe(mem'[s], j)
  PROVE  \A o \in Services : Excludes(o)'
<1>1. Excludes(s)
  BY DEF XInv
<1>2. Excludes(s)'
  BY <1>1 DEF Excludes, InTick, Safe
<1> QED
  BY <1>2 DEF Alone

LEMMA ClientXInv ==
  ASSUME XInv, Timely, Alone, AllValid, NEW s \in Services, Client(s)
  PROVE  \A o \in Services : Excludes(o)'
<1>0. /\ Typed /\ mem[s] \in Store /\ now \in Time /\ mem \in [Services -> Store]
      /\ Known(s)
  BY DEF XInv, BInv, Typed
<1>a. ASSUME NEW j \in Jobs, InTick(s, j), Safe(mem[s], j)
      PROVE  mem[s][j] \in Record => now - mem[s][j].running <= StuckRun
  BY <1>0, <1>a, InStore DEF Timely, Safe
<1>1. CASE Read(s)
  <2>1. /\ UNCHANGED <<tick, held, unmarked>> /\ RecomputeNextRuns(mem[s]) \in Store
        /\ UNCHANGED <<file, mem>> \/ Persist(s, RecomputeNextRuns(mem[s]))
    BY <1>0, <1>1, ReadCases
  <2>2. mem'[s] \in {mem[s], RecomputeNextRuns(mem[s])}
    BY <1>0, <2>1, PersistFacts
  <2>3. ASSUME NEW j \in Jobs, InTick(s, j), Safe(mem[s], j) PROVE Safe(mem'[s], j)
    BY <1>0, <1>a, <2>2, <2>3, RecomputedSafe
  <2> QED
    BY <2>1, <2>3, KeptExcludes
<1>2. ASSUME NEW j \in Jobs, Remove(s, j) PROVE \A o \in Services : Excludes(o)'
  <2>1. PICK store \in Store :
          /\ store[j] = Absent /\ \A i \in Jobs : i # j => store[i] = mem[s][i]
          /\ Persist(s, store)
    BY <1>0, <1>2, RemoveCases
  <2>2. mem'[s] = store /\ UNCHANGED <<tick, held, unmarked>>
    BY <1>0, <1>2, <2>1, PersistFacts, RemoveCases
  <2>3. \A i \in Jobs : Safe(mem[s], i) => Safe(mem'[s], i)
    BY <2>1, <2>2, AbsentFacts DEF Safe
  <2> QED
    BY <2>2, <2>3, KeptExcludes
<1>3. ASSUME NEW j \in Jobs, NEW force \in BOOLEAN, Run(s, j, force)
      PROVE  \A o \in Services : Excludes(o)'
  <2>1. /\ {j} \in SUBSET Jobs /\ Hold(s, {j}, mem[s]) /\ mem[s][j] \in Record
        /\ mem[s][j].running = Never /\ UNCHANGED <<tick, unmarked>>
    BY <1>0, <1>3, InStore DEF Run
  <2>2. held'.cur = j /\ mem'[s] = Marked(mem[s], {j})
    BY <1>0, <2>1, HoldFacts
  <2>3. ~ Safe(mem[s], j)
    BY <2>1 DEF Safe
  <2>4. \A i \in Jobs : Safe(mem[s], i) => Safe(mem'[s], i)
    BY <1>0, <2>2, MarkedSafe
  <2> QED
    BY <2>1, <2>2, <2>3, <2>4, KeptExcludes
<1>4. ASSUME NEW j \in Jobs, NEW sched \in SchedulesOf[j], NEW delete \in Deletable,
             Add(s, j, sched, delete)
      PROVE  \A o \in Services : Excludes(o)'
  <2>1. PICK store \in Store :
          /\ store[j] = Created(sched, delete) /\ \A i \in Jobs : i # j => store[i] = mem[s][i]
          /\ RecomputeNextRuns(store) \in Store
          /\ Persist(s, RecomputeNextRuns(store))
    BY <1>0, <1>4, AddCases
  <2>2. /\ mem'[s] = RecomputeNextRuns(store) /\ UNCHANGED <<tick, held, unmarked>>
        /\ j \notin born
    BY <1>0, <1>4, <2>1, PersistFacts, AddCases
  <2>3. ASSUME NEW i \in Jobs, InTick(s, i), Safe(mem[s], i) PROVE Safe(mem'[s], i)
    <3>1. i # j
      BY <1>0, <2>2, <2>3 DEF Known
    <3>2. Safe(store, i) /\ store[i] = mem[s][i]
      BY <2>1, <2>3, <3>1 DEF Safe
    <3> QED
      BY <1>0, <1>a, <2>2, <2>3, <3>2, RecomputedSafe
  <2> QED
    BY <2>2, <2>3, KeptExcludes
<1>5. ASSUME NEW j \in Jobs, NEW patch \in Patches, Update(s, j, patch)
      PROVE  \A o \in Services : Excludes(o)'
  <2>1. PICK store \in Store :
          /\ store[j] = Changed(mem[s][j], patch) /\ \A i \in Jobs : i # j => store[i] = mem[s][i]
          /\ Persist(s, store)
    BY <1>0, <1>5, UpdateCases
  <2>2. /\ mem'[s] = store /\ UNCHANGED <<tick, held>> /\ mem[s][j] \in Record
        /\ unmarked' = IF ~ store[j].enabled /\ \E o \in Services : InTick(o, j)
                       THEN unmarked \cup {j} ELSE unmarked
    BY <1>0, <1>5, <2>1, PersistFacts, UpdateCases
  <2>3. store[j].enabled => store[j].running = mem[s][j].running
    BY <1>0, <2>1, <2>2, ChangedFacts
  <2>4. ASSUME NEW i \in Jobs \ unmarked', InTick(s, i), Safe(mem[s], i) PROVE Safe(mem'[s], i)
    <3>1. CASE i = j
      <4>1. store[j].enabled
        BY <2>2, <2>4, <3>1
      <4> QED
        BY <2>2, <2>3, <2>4, <3>1, <4>1 DEF Safe
    <3>2. CASE i # j
      BY <2>1, <2>2, <2>4, <3>2 DEF Safe
    <3> QED
      BY <3>1, <3>2
  <2>5. unmarked \subseteq unmarked'
    BY <2>2
  <2> QED
    BY <2>2, <2>4, <2>5, KeptExcludes
<1>6. ASSUME NEW j \in Jobs, NEW patch \in Patches, UpdateThrows(s, j, patch)
      PROVE  \A o \in Services : Excludes(o)'
  BY <1>6 DEF UpdateThrows, AllValid
<1> QED
  BY <1>1, <1>2, <1>3, <1>4, <1>5, <1>6 DEF Client

LEMMA HeldEndsXInv ==
  ASSUME XInv, Timely, Alone, NEW outcome \in Outcomes, HeldEnds(outcome)
  PROVE  \A o \in Services : Excludes(o)'
<1>a. PICK s \in Services, store \in Store : s = held.svc /\ store = AfterHeld(outcome)
  BY HeldEndsCases DEF XInv, BInv
<1>0. /\ Typed /\ now \in Time /\ held.todo \in SUBSET Jobs
      /\ mem \in [Services -> Store] /\ mem[s] \in Store /\ UNCHANGED <<now, tick, unmarked>>
      /\ Phases(s)
  BY <1>a, HeldEndsCases DEF XInv, BInv, Typed, HeldGood
<1>1. \/ held.todo # {}
      \/ Persist(s, RecomputeNextRuns(store)) /\ held' = Unheld
  BY <1>a, <1>0, HeldEndsCases
<1>2. CASE held.todo # {}
  <2>1. tick[s].pc = "idle" /\ (tick[s].pc = "run" <=> Busy(tick[s]))
    BY <1>0, <1>2 DEF Phases, Typed
  <2>2. tick'[s].cur = None /\ tick'[s].todo = {}
    BY <1>0, <2>1 DEF Busy
  <2>3. Excludes(s)'
    BY <2>2, ClientsAssumption DEF Excludes, InTick
  <2> QED
    BY <2>3 DEF Alone
<1>3. CASE Persist(s, RecomputeNextRuns(store)) /\ held' = Unheld
  <2>1. mem'[s] = RecomputeNextRuns(store) /\ held'.cur = None
    BY <1>0, <1>3, RecomputedStore, PersistFacts, UnheldFacts
  <2>2. ASSUME NEW j \in Jobs, InTick(s, j), held.cur # j, Safe(mem[s], j) PROVE Safe(mem'[s], j)
    <3>1. store[j] = mem[s][j]
      BY <1>a, <1>0, <2>2, HeldEndsCases
    <3>2. Safe(store, j) /\ (store[j] \in Record => now - store[j].running <= StuckRun)
      BY <1>0, <2>2, <3>1, InStore DEF Timely, Safe
    <3> QED
      BY <1>0, <2>1, <3>2, RecomputedSafe
  <2> QED
    BY <1>0, <2>1, <2>2, ClientsAssumption, KeptExcludes
<1> QED
  BY <1>1, <1>2, <1>3

LEMMA TickXInv ==
  ASSUME XInv, Alone, NEW s \in Services
  PROVE  /\ Fire(s) => \A o \in Services : Excludes(o)'
         /\ Mark(s) => \A o \in Services : Excludes(o)'
         /\ \A j \in Jobs : Begin(s, j) => \A o \in Services : Excludes(o)'
         /\ \A outcome \in Outcomes : End(s, outcome) => \A o \in Services : Excludes(o)'
         /\ Apply(s) => \A o \in Services : Excludes(o)'
         /\ TickEnds(s) => \A o \in Services : Excludes(o)'
<1>0. /\ Typed /\ mem[s] \in Store /\ file \in Store /\ now \in Time /\ mem \in [Services -> Store]
      /\ tick \in [Services -> TickType] /\ Excludes(s)
  BY DEF XInv, BInv, Typed
<1>1. ASSUME Fire(s) PROVE \A o \in Services : Excludes(o)'
  <2>1. /\ UNCHANGED <<mem, held, unmarked>>
        /\ tick'[s].todo = tick[s].todo /\ tick'[s].cur = tick[s].cur
    BY <1>0, <1>1 DEF Fire, TickType
  <2>2. Excludes(s)'
    BY <1>0, <2>1 DEF Excludes, InTick, Safe
  <2> QED
    BY <2>2 DEF Alone
<1>2. ASSUME Mark(s) PROVE \A o \in Services : Excludes(o)'
  <2>1. PICK t \in TickType :
              /\ tick' = [tick EXCEPT ![s] = t] /\ t.cur = None
              /\ \/ t.todo = {}
                 \/ /\ t.todo = Due /\ Marked(file, Due) \in Store
                    /\ Persist(s, Marked(file, Due))
    BY <1>0, <1>2, MarkCases
  <2>2. tick'[s] = t /\ UNCHANGED held /\ held.cur = None
    BY <1>0, <1>2, <2>1, MarkCases, LockFacts DEF Typed
  <2>3. CASE t.todo = {}
    <3>1. Excludes(s)'
      BY <2>1, <2>2, <2>3, ClientsAssumption DEF Excludes, InTick
    <3> QED
      BY <3>1 DEF Alone
  <2>4. CASE t.todo = Due /\ Marked(file, Due) \in Store /\ Persist(s, Marked(file, Due))
    <3>1. mem'[s] = Marked(file, Due)
      BY <1>0, <2>4, PersistFacts
    <3>2. now # Never
      BY <1>0, TimeIsNat, NeverIsNot
    <3>3. ASSUME NEW j \in Due PROVE Safe(mem'[s], j)
      <4>1. j \in Jobs /\ file[j] \in Record /\ file[j].enabled
        BY <1>0, InStore DEF Due, IsDue
      <4> QED
        BY <1>0, <3>1, <3>2, <4>1, MarkedStore DEF Safe
    <3>4. Excludes(s)'
      BY <2>1, <2>2, <2>4, <3>3, ClientsAssumption DEF Excludes, InTick, Safe
    <3> QED
      BY <3>4 DEF Alone
  <2> QED
    BY <2>1, <2>3, <2>4
<1>3. ASSUME NEW j \in Jobs, Begin(s, j) PROVE \A o \in Services : Excludes(o)'
  <2>1. PICK t \in TickType :
              /\ tick' = [tick EXCEPT ![s] = t] /\ t.pc = "run" /\ Busy(t)
              /\ t.cur = j /\ t.todo = tick[s].todo \ {j} /\ t.results = tick[s].results
    BY <1>0, <1>3, BeginCases
  <2>2. /\ tick'[s] = t /\ j \in tick[s].todo /\ UNCHANGED <<held, unmarked>>
        /\ mem'[s] = Marked(mem[s], {j})
    BY <1>0, <1>3, <2>1, BeginCases, RememberFacts
  <2>3. \A i \in Jobs : Safe(mem[s], i) => Safe(mem'[s], i)
    BY <1>0, <2>2, MarkedSafe
  <2>4. \A i \in Jobs : InTick(s, i)' => InTick(s, i)
    BY <2>1, <2>2 DEF InTick
  <2>5. Excludes(s)'
    BY <1>0, <2>2, <2>3, <2>4 DEF Excludes, Safe
  <2> QED
    BY <2>5 DEF Alone
<1>4. ASSUME NEW outcome \in Outcomes, End(s, outcome) PROVE \A o \in Services : Excludes(o)'
  <2>1. /\ UNCHANGED <<mem, held, unmarked>>
        /\ tick'[s].todo = tick[s].todo /\ tick'[s].cur = None
    BY <1>0, <1>4 DEF End, TickType
  <2>2. Excludes(s)'
    BY <1>0, <2>1, ClientsAssumption DEF Excludes, InTick, Safe
  <2> QED
    BY <2>2 DEF Alone
<1>5. ASSUME Apply(s) \/ TickEnds(s) PROVE \A o \in Services : Excludes(o)'
  <2>1. tick'[s].cur = None /\ tick'[s].todo = {}
    BY <1>0, <1>5, IdleFacts DEF Apply, TickEnds
  <2>2. Excludes(s)'
    BY <2>1, ClientsAssumption DEF Excludes, InTick
  <2> QED
    BY <2>2 DEF Alone
<1> QED
  BY <1>1, <1>2, <1>3, <1>4, <1>5

LEMMA StepXInv ==
  ASSUME XInv, Timely, Alone, AllValid, [Next]_vars
  PROVE  XInv'
<1>0. BInv' /\ Typed
  BY StepBInv DEF XInv, BInv
<1>1. CASE UNCHANGED vars
  BY <1>0, <1>1 DEF vars, XInv, Excludes, InTick, Safe
<1>2. ASSUME NEW s \in Services, Start(s) PROVE XInv'
  <2>1. tick[s].pc = "idle" /\ (tick[s].pc = "run" <=> Busy(tick[s])) /\ UNCHANGED tick
    BY <1>2, StartCases DEF XInv, BInv, Phases, Typed
  <2>2. tick'[s].cur = None /\ tick'[s].todo = {}
    BY <2>1 DEF Busy
  <2>3. Excludes(s)'
    BY <2>2, ClientsAssumption DEF Excludes, InTick
  <2> QED
    BY <1>0, <2>3 DEF XInv, Alone
<1>3. ASSUME NEW s \in Services,
             \/ Client(s)
             \/ Fire(s) \/ Mark(s) \/ Apply(s) \/ TickEnds(s)
             \/ \E j \in Jobs : Begin(s, j)
             \/ \E outcome \in Outcomes : End(s, outcome)
      PROVE  XInv'
  BY <1>0, <1>3, ClientXInv, TickXInv DEF XInv
<1>4. ASSUME NEW s \in Services, Stop(s) PROVE XInv'
  BY <1>4 DEF Stop, Alone
<1>5. ASSUME NEW outcome \in Outcomes, HeldEnds(outcome) PROVE XInv'
  BY <1>0, <1>5, HeldEndsXInv DEF XInv
<1>6. ASSUME Crash PROVE XInv'
  <2>1. \A s \in Services : tick'[s] = Idle
    BY <1>6 DEF Crash
  <2>2. \A s \in Services : Excludes(s)'
    BY <2>1, IdleFacts, ClientsAssumption DEF Excludes, InTick
  <2> QED
    BY <1>0, <2>2 DEF XInv
<1>7. ASSUME Advance PROVE XInv'
  <2>1. UNCHANGED <<mem, tick, held, unmarked>>
    BY <1>7 DEF Advance
  <2> QED
    BY <1>0, <2>1 DEF XInv, Excludes, InTick, Safe
<1> QED
  BY <1>1, <1>2, <1>3, <1>4, <1>5, <1>6, <1>7 DEF Next

(* The tick, a manual run and the catch-up of a start do not execute one   *)
(* job at a time, as long as the jobs of a tick end before                 *)
(* recomputeNextRuns takes their markers for stuck ones (STUCK_RUN_MS).    *)
THEOREM CronNoOverlap == ASSUME Alone, AllValid PROVE Spec /\ []Timely => []NoOverlap
<1>1. Init => XInv
  <2> SUFFICES ASSUME Init PROVE XInv
    OBVIOUS
  <2>1. \A s \in Services : Excludes(s)
    BY IdleFacts, NothingExcluded DEF Init
  <2> QED
    BY <2>1, InitBInv DEF XInv
<1>2. XInv /\ Timely /\ [Next]_vars => XInv'
  BY StepXInv
<1>3. XInv => NoOverlap
  <2> SUFFICES ASSUME XInv, NEW j \in Jobs \ unmarked PROVE Cardinality(Runners(j)) <= 1
    BY DEF NoOverlap
  <2>1. \A s \in Services : tick[s].cur = j => held.cur # j
    BY DEF XInv, Excludes, InTick
  <2>2. \A s, o \in Runners(j) : s = o
    BY <2>1 DEF Runners, Alone
  <2>3. CASE Runners(j) = {}
    <3>1. Cardinality(Runners(j)) = 0
      BY <2>3, FS_EmptySet
    <3> QED
      BY <3>1
  <2>4. CASE Runners(j) # {}
    <3>1. PICK s : s \in Runners(j)
      BY <2>4
    <3>2. Runners(j) = {s}
      BY <2>2, <3>1
    <3>3. Cardinality(Runners(j)) = 1
      BY <3>2, FS_Singleton
    <3> QED
      BY <3>3
  <2> QED
    BY <2>3, <2>4
<1> QED
  BY <1>1, <1>2, <1>3, PTL DEF Spec

-----------------------------------------------------------------------------
(* One-shots.                                                              *)

(* The next run of a one-shot, if it has one, is the time it was given.    *)
AtRec(rec) == rec \in Record /\ rec.sched.kind = "at" /\ rec.next # Never => rec.next = rec.sched.time

AtStore(store) == \A j \in Jobs : AtRec(store[j])

(* The one-shots with a next run in one store have it in the other.        *)
SameOneShots(new, old) ==
  \A j \in Jobs :
    new[j] \in Record /\ new[j].sched.kind = "at" /\ new[j].next # Never =>
      old[j] \in Record /\ old[j].sched.kind = "at" /\ old[j].next = new[j].next

(* A one-shot is still to be run at the time t at which it was begun.      *)
Again(store, t, j) ==
  store[j] \in Record /\ store[j].sched.kind = "at" /\ t # Never /\ store[j].next = t

Started(s, j) ==
  \/ tick[s].cur = j \/ HasResult(s, j)
  \/ life[s] = "starting" /\ (j \in held.todo \/ held.cur = j)

(* Such a one-shot is being run, or its result is to be applied.           *)
OnceGood(s) ==
  /\ AtStore(file) /\ AtStore(mem[s])
  /\ \A j \in Jobs :
       /\ life[s] \in {"up", "starting"} /\ Again(mem[s], begun[j], j) => Started(s, j)
       /\ life[s] = "up" /\ Again(file, begun[j], j) => Started(s, j)

OInv == BInv /\ CInv /\ \A s \in Services : OnceGood(s)

LEMMA NextRunAt ==
  ASSUME NEW rec \in Record, NEW t \in Time, rec.sched.kind = "at"
  PROVE  JobNextRun(rec, t) \in {Never, rec.sched.time}
BY DEF JobNextRun

LEMMA AgainSame ==
  ASSUME NEW new, NEW old, SameOneShots(new, old), NEW j \in Jobs, NEW t, Again(new, t, j)
  PROVE  Again(old, t, j)
BY DEF SameOneShots, Again

LEMMA RecomputedOnce ==
  ASSUME NEW store \in Store, now \in Time, PlanStore(store), AtStore(store)
  PROVE  /\ AtStore(RecomputeNextRuns(store))
         /\ SameOneShots(RecomputeNextRuns(store), store)
<1> DEFINE new == RecomputeNextRuns(store)
<1>1. ASSUME NEW j \in Jobs, new[j] \in Record, new[j].sched.kind = "at", new[j].next # Never
      PROVE  /\ new[j].next = new[j].sched.time
             /\ store[j] \in Record /\ store[j].sched.kind = "at" /\ store[j].next = new[j].next
  <2> DEFINE r == Recomputed(store[j], now)
  <2>1. store[j] \in Record
    BY <1>1, RecomputedStore, InStore, AbsentFacts
  <2>2. new[j] = r
    BY RecomputedStore
  <2>3. /\ r.enabled = store[j].enabled /\ r.sched = store[j].sched /\ r.status = store[j].status
        /\ r.next = IF store[j].enabled /\ store[j].next # Never /\ ~ (now >= store[j].next)
                    THEN store[j].next ELSE JobNextRun(store[j], now)
    BY <2>1, RecomputedFacts
  <2> HIDE DEF r, new
  <2>4. store[j].sched.kind = "at" /\ r.next # Never
    BY <1>1, <2>2, <2>3
  <2>5. r.next = store[j].next \/ r.next = store[j].sched.time
    BY <2>1, <2>3, <2>4, NextRunAt
  <2>6. store[j].next # Never
    <3>1. SUFFICES ASSUME store[j].next = Never PROVE FALSE
      OBVIOUS
    <3>2. r.next = JobNextRun(store[j], now)
      BY <2>3, <3>1
    <3>3. store[j].enabled /\ store[j].status # "ok"
      BY <2>1, <2>4, <3>2, JobNextRunFacts
    <3> QED
      BY <2>1, <3>1, <3>3 DEF PlanStore, PlanRec
  <2>7. store[j].next = store[j].sched.time
    BY <2>1, <2>4, <2>6 DEF AtStore, AtRec
  <2> QED
    BY <2>1, <2>2, <2>3, <2>4, <2>5, <2>7
<1> HIDE DEF new
<1>2. AtStore(new) /\ SameOneShots(new, store)
  BY <1>1 DEF AtStore, AtRec, SameOneShots
<1> QED
  BY <1>2 DEF new

LEMMA MarkedOnce ==
  ASSUME NEW store \in Store, NEW jobs, now \in Time, AtStore(store)
  PROVE  AtStore(Marked(store, jobs)) /\ SameOneShots(Marked(store, jobs), store)
<1>1. ASSUME NEW j \in Jobs
      PROVE  LET r == Marked(store, jobs)[j] IN
             r \in Record => store[j] \in Record /\ r.next = store[j].next /\ r.sched = store[j].sched
  BY MarkedStore, InStore, AbsentFacts
<1> QED
  BY <1>1 DEF AtStore, AtRec, SameOneShots

LEMMA CleanedOnce ==
  ASSUME NEW store \in Store, AtStore(store)
  PROVE  AtStore(Cleaned(store))
<1>1. ASSUME NEW j \in Jobs
      PROVE  LET r == Cleaned(store)[j] IN
             r \in Record => store[j] \in Record /\ r.next = store[j].next /\ r.sched = store[j].sched
  BY CleanedStore, InStore, AbsentFacts
<1> QED
  BY <1>1 DEF AtStore, AtRec

LEMMA AppliedOnce ==
  ASSUME NEW rec \in Record \cup {Absent}, NEW status \in Outcomes, NEW t \in Time
  PROVE  LET r == JobResultApplied(rec, status, t) IN
         r \in Record => r.sched.kind # "at" \/ r.next = Never
BY AppliedFacts, AppliedAbsent, AbsentFacts

LEMMA ChangedOnce ==
  ASSUME NEW rec \in Record, NEW patch \in Patches, now \in Time, AtRec(rec)
  PROVE  AtRec(Changed(rec, patch))
<1> DEFINE r == Changed(rec, patch)
<1>1. /\ r \in Record
      /\ \/ r.next = rec.next /\ r.sched = rec.sched
         \/ r.next = JobNextRun(r, now)
  BY ChangedFacts
<1> HIDE DEF r
<1>2. AtRec(r)
  BY <1>1, NextRunAt DEF AtRec
<1> QED
  BY <1>2 DEF r

LEMMA CreatedOnce ==
  ASSUME NEW j \in Jobs, NEW sched \in SchedulesOf[j], NEW delete \in Deletable, now \in Time
  PROVE  AtRec(Created(sched, delete)) /\ PlanRec(Created(sched, delete))
<1> DEFINE rec == [present |-> TRUE, enabled |-> TRUE, sched |-> Anchored(sched, now),
                   deleteAfterRun |-> delete, next |-> Never, running |-> Never,
                   status |-> "none", errors |-> 0]
           next == JobNextRun(rec, now)
<1>1. Created(sched, delete) = [rec EXCEPT !.next = next]
  BY DEF Created
<1>2. rec.sched.kind = "at" => next \in {Never, rec.sched.time}
  BY DEF JobNextRun
<1> HIDE DEF next
<1>3. Created(sched, delete).sched = rec.sched /\ Created(sched, delete).next = next
  BY <1>1
<1>4. Created(sched, delete).next # Never
  BY CreatedFacts
<1> HIDE DEF rec
<1> QED
  BY <1>2, <1>3, <1>4 DEF AtRec, PlanRec

(* A step of a service that is up, in which what is again to be run was so *)
(* before or is begun.                                                     *)
LEMMA SavedOnce ==
  ASSUME NEW s \in Services, OnceGood(s), life[s] = "up", NEW store,
         mem'[s] = store, file' \in {file, store}, AtStore(store),
         \A j \in Jobs : Started(s, j) => Started(s, j)',
         \A j \in Jobs : Again(store, begun'[j], j) =>
           Again(mem[s], begun[j], j) \/ Again(file, begun[j], j) \/ Started(s, j)',
         \A j \in Jobs : Again(file, begun'[j], j) => Again(file, begun[j], j) \/ Started(s, j)'
  PROVE  OnceGood(s)'
<1>1. AtStore(file') /\ AtStore(mem'[s])
  BY DEF OnceGood
<1>2. ASSUME NEW j \in Jobs
      PROVE  /\ Again(mem'[s], begun'[j], j) => Started(s, j)'
             /\ Again(file', begun'[j], j) => Started(s, j)'
  BY DEF OnceGood
<1> QED
  BY <1>1, <1>2 DEF OnceGood, AtStore, AtRec, Again

LEMMA ClientOnce ==
  ASSUME OInv, AllValid, NEW s \in Services, Client(s)
  PROVE  OnceGood(s)'
<1>0. /\ Typed /\ mem[s] \in Store /\ now \in Time /\ mem \in [Services -> Store]
      /\ begun \in [Jobs -> Instants]
      /\ Known(s) /\ PlanStore(mem[s]) /\ AtStore(mem[s]) /\ AtStore(file) /\ OnceGood(s)
  BY DEF OInv, BInv, CInv, Typed, OnceGood
<1>a. ASSUME life[s] = "up", UNCHANGED tick PROVE \A j \in Jobs : Started(s, j) => Started(s, j)'
  BY <1>a DEF Started, HasResult
<1>b. RecomputeNextRuns(mem[s]) \in Store /\ AtStore(RecomputeNextRuns(mem[s]))
      /\ SameOneShots(RecomputeNextRuns(mem[s]), mem[s])
  BY <1>0, RecomputedStore, RecomputedOnce
<1>1. CASE Read(s)
  <2>1. /\ life[s] = "up" /\ UNCHANGED <<tick, begun>>
        /\ UNCHANGED <<file, mem>> \/ Persist(s, RecomputeNextRuns(mem[s]))
    BY <1>0, <1>1, ReadCases
  <2>2. CASE UNCHANGED <<file, mem>>
    BY <1>0, <1>a, <2>1, <2>2, SavedOnce
  <2>3. CASE Persist(s, RecomputeNextRuns(mem[s]))
    <3>1. mem'[s] = RecomputeNextRuns(mem[s]) /\ file' = RecomputeNextRuns(mem[s])
      BY <1>0, <1>b, <2>3, PersistFacts
    <3>2. \A j \in Jobs : Again(RecomputeNextRuns(mem[s]), begun'[j], j) => Again(mem[s], begun[j], j)
      BY <1>b, <2>1, AgainSame
    <3> QED
      BY <1>0, <1>a, <1>b, <2>1, <3>1, <3>2, SavedOnce
  <2> QED
    BY <2>1, <2>2, <2>3
<1>2. ASSUME NEW j \in Jobs, Remove(s, j) PROVE OnceGood(s)'
  <2>1. PICK store \in Store :
          /\ store[j] = Absent /\ \A i \in Jobs : i # j => store[i] = mem[s][i]
          /\ Persist(s, store)
    BY <1>0, <1>2, RemoveCases
  <2>2. mem'[s] = store /\ file' = store /\ life[s] = "up" /\ UNCHANGED <<tick, begun>>
    BY <1>0, <1>2, <2>1, PersistFacts, RemoveCases
  <2>3. AtStore(store) /\ \A i \in Jobs : Again(store, begun'[i], i) => Again(mem[s], begun[i], i)
    BY <1>0, <2>1, <2>2, AbsentFacts DEF AtStore, AtRec, Again
  <2> QED
    BY <1>0, <1>a, <2>2, <2>3, SavedOnce
<1>3. ASSUME NEW j \in Jobs, NEW force \in BOOLEAN, Run(s, j, force) PROVE OnceGood(s)'
  <2>1. /\ {j} \in SUBSET Jobs /\ Hold(s, {j}, mem[s]) /\ life[s] = "up"
        /\ UNCHANGED <<tick, file, begun>>
    BY <1>3 DEF Run
  <2>2. held'.cur = j /\ mem'[s] = Marked(mem[s], {j})
    BY <1>0, <2>1, HoldFacts
  <2>3. AtStore(Marked(mem[s], {j})) /\ SameOneShots(Marked(mem[s], {j}), mem[s])
    BY <1>0, MarkedOnce
  <2>4. \A i \in Jobs : Again(Marked(mem[s], {j}), begun'[i], i) => Again(mem[s], begun[i], i)
    BY <2>1, <2>3, AgainSame
  <2> QED
    BY <1>0, <1>a, <2>1, <2>2, <2>3, <2>4, SavedOnce
<1>4. ASSUME NEW j \in Jobs, NEW sched \in SchedulesOf[j], NEW delete \in Deletable,
             Add(s, j, sched, delete)
      PROVE  OnceGood(s)'
  <2>1. PICK store \in Store :
          /\ store[j] = Created(sched, delete) /\ \A i \in Jobs : i # j => store[i] = mem[s][i]
          /\ RecomputeNextRuns(store) \in Store
          /\ Persist(s, RecomputeNextRuns(store))
    BY <1>0, <1>4, AddCases
  <2>2. /\ mem'[s] = RecomputeNextRuns(store) /\ file' = RecomputeNextRuns(store)
        /\ life[s] = "up" /\ UNCHANGED <<tick, begun>> /\ j \notin born
    BY <1>0, <1>4, <2>1, PersistFacts, AddCases
  <2>3. begun[j] = Never
    BY <1>0, <2>2 DEF Known
  <2>4. PlanStore(store) /\ AtStore(store)
    BY <1>0, <2>1, CreatedOnce DEF PlanStore, AtStore
  <2>5. AtStore(RecomputeNextRuns(store)) /\ SameOneShots(RecomputeNextRuns(store), store)
    BY <1>0, <2>4, RecomputedOnce
  <2>6. ASSUME NEW i \in Jobs, Again(RecomputeNextRuns(store), begun'[i], i)
        PROVE  Again(mem[s], begun[i], i)
    <3>1. Again(store, begun[i], i)
      BY <2>2, <2>5, <2>6, AgainSame
    <3>2. i # j
      BY <2>3, <3>1 DEF Again
    <3> QED
      BY <2>1, <3>1, <3>2 DEF Again
  <2> QED
    BY <1>0, <1>a, <2>2, <2>5, <2>6, SavedOnce
<1>5. ASSUME NEW j \in Jobs, NEW patch \in Patches, Update(s, j, patch) PROVE OnceGood(s)'
  <2>1. PICK store \in Store :
          /\ store[j] = Changed(mem[s][j], patch) /\ \A i \in Jobs : i # j => store[i] = mem[s][i]
          /\ Persist(s, store)
    BY <1>0, <1>5, UpdateCases
  <2>2. /\ mem'[s] = store /\ file' = store /\ mem[s][j] \in Record
        /\ life[s] = "up" /\ UNCHANGED tick /\ begun' = [begun EXCEPT ![j] = Never]
    BY <1>0, <1>5, <2>1, PersistFacts, UpdateCases
  <2>3. AtStore(store)
    BY <1>0, <2>1, <2>2, ChangedOnce DEF AtStore
  <2>4. ASSUME NEW i \in Jobs
        PROVE  /\ Again(store, begun'[i], i) => Again(mem[s], begun[i], i)
               /\ Again(file, begun'[i], i) => Again(file, begun[i], i)
    BY <1>0, <2>1, <2>2 DEF Again
  <2> QED
    BY <1>0, <1>a, <2>2, <2>3, <2>4, SavedOnce
<1>6. ASSUME NEW j \in Jobs, NEW patch \in Patches, UpdateThrows(s, j, patch) PROVE OnceGood(s)'
  BY <1>6 DEF UpdateThrows, AllValid
<1> QED
  BY <1>1, <1>2, <1>3, <1>4, <1>5, <1>6 DEF Client


LEMMA StartOnce ==
  ASSUME OInv, NEW s \in Services, Start(s)
  PROVE  OnceGood(s)'
<1>0. /\ Typed /\ file \in Store /\ now \in Time /\ mem \in [Services -> Store]
      /\ life \in [Services -> {"new", "starting", "up", "stopped"}]
      /\ PlanStore(file) /\ AtStore(file) /\ Phases(s) /\ Missed \in SUBSET Jobs
  BY DEF OInv, BInv, CInv, Typed, OnceGood, Missed
<1>1. /\ Cleaned(file) \in Store /\ PlanStore(Cleaned(file)) /\ AtStore(Cleaned(file))
      /\ life[s] = "new" /\ \A j \in Jobs : begun[j] = Never
  BY <1>0, CleanedStore, CleanedPlan, CleanedOnce, StartCases DEF Phases
<1>2. CASE /\ Persist(s, RecomputeNextRuns(Cleaned(file)))
           /\ life' = [life EXCEPT ![s] = "up"] /\ UNCHANGED <<held, begun>>
  <2> DEFINE store == RecomputeNextRuns(Cleaned(file))
  <2>1. store \in Store /\ AtStore(store)
    BY <1>0, <1>1, RecomputedStore, RecomputedOnce
  <2>2. mem'[s] = store /\ file' = store
    BY <1>0, <1>2, <2>1, PersistFacts
  <2> HIDE DEF store
  <2>3. \A j \in Jobs : begun'[j] = Never
    BY <1>1, <1>2
  <2>4. AtStore(file') /\ AtStore(mem'[s])
    BY <2>1, <2>2
  <2> QED
    BY <2>3, <2>4 DEF OnceGood, AtStore, AtRec, Again
<1>3. CASE /\ Hold(s, Missed, Cleaned(file)) /\ UNCHANGED <<file, timer>>
           /\ life' = [life EXCEPT ![s] = "starting"]
           /\ begun' = [j \in Jobs |-> IF j \in Missed THEN Cleaned(file)[j].next ELSE begun[j]]
  <2>1. /\ held'.cur \in Missed /\ held'.todo = Missed \ {held'.cur}
        /\ mem'[s] = Marked(Cleaned(file), {held'.cur})
    BY <1>0, <1>1, <1>3, HoldFacts
  <2>2. AtStore(mem'[s]) /\ AtStore(file')
    BY <1>0, <1>1, <1>3, <2>1, MarkedOnce
  <2>3. life'[s] = "starting"
    BY <1>0, <1>3
  <2>4. ASSUME NEW j \in Jobs, Again(mem'[s], begun'[j], j) PROVE j \in held'.todo \/ held'.cur = j
    <3>1. begun'[j] # Never
      BY <2>4 DEF Again
    <3>2. j \in Missed
      BY <1>1, <1>3, <3>1
    <3> QED
      BY <2>1, <3>2
  <2> QED
    BY <2>2, <2>3, <2>4 DEF OnceGood, Started, AtStore, AtRec, Again
<1> QED
  BY <1>2, <1>3, StartCases

LEMMA HeldEndsOnce ==
  ASSUME OInv, Alone, NEW outcome \in Outcomes, HeldEnds(outcome)
  PROVE  \A s \in Services : OnceGood(s)'
<1>a. PICK s \in Services, store \in Store : s = held.svc /\ store = AfterHeld(outcome)
  BY HeldEndsCases DEF OInv, BInv
<1>0. /\ Typed /\ now \in Time /\ held.todo \in SUBSET Jobs /\ held.cur \in Jobs
      /\ life \in [Services -> {"new", "starting", "up", "stopped"}]
      /\ mem \in [Services -> Store] /\ mem[s] \in Store /\ UNCHANGED <<now, tick, begun>>
      /\ Phases(s) /\ OnceGood(s) /\ PlanStore(mem[s]) /\ AtStore(mem[s]) /\ AtStore(file)
  BY <1>a, HeldEndsCases DEF OInv, BInv, CInv, Typed, HeldGood, OnceGood
<1>b. /\ store[held.cur] \in Record => store[held.cur].sched.kind # "at" \/ store[held.cur].next = Never
      /\ PlanRec(store[held.cur])
      /\ \A j \in Jobs : j # held.cur => store[j] = mem[s][j]
  <2>1. /\ store[held.cur] = JobResultApplied(mem[s][held.cur], outcome, now)
        /\ \A j \in Jobs : j # held.cur => store[j] = mem[s][j]
    BY <1>a, <1>0, HeldEndsCases
  <2> QED
    BY <1>0, <2>1, AppliedOnce, AppliedPlan, InStore
<1>c. AtStore(store) /\ PlanStore(store)
  BY <1>0, <1>b DEF AtStore, AtRec, PlanStore
<1>d. ASSUME NEW j \in Jobs, Again(store, begun'[j], j) PROVE j # held.cur /\ Again(mem[s], begun[j], j)
  BY <1>0, <1>b, <1>d DEF Again
<1>e. life[s] \in {"up", "starting"}
  <2>1. held.svc # None
    BY <1>a, ClientsAssumption
  <2> QED
    BY <1>0, <2>1 DEF Phases
<1>f. ASSUME NEW j \in Jobs, Again(store, begun'[j], j)
      PROVE  \/ tick'[s].cur = j \/ HasResult(s, j)'
             \/ life[s] = "starting" /\ j \in held.todo
  BY <1>0, <1>d, <1>e, <1>f DEF OnceGood, Started, HasResult
<1>1. CASE held.todo # {} /\ Hold(s, held.todo, store) /\ UNCHANGED <<file, life>>
  <2>1. /\ held'.cur \in held.todo /\ held'.todo = held.todo \ {held'.cur}
        /\ mem'[s] = Marked(store, {held'.cur})
    BY <1>0, <1>1, HoldFacts
  <2>2. AtStore(Marked(store, {held'.cur})) /\ SameOneShots(Marked(store, {held'.cur}), store)
    BY <1>0, <1>c, MarkedOnce
  <2>3. life[s] = "starting"
    BY <1>0, <1>1 DEF Phases
  <2>4. ASSUME NEW j \in Jobs, Again(mem'[s], begun'[j], j) PROVE Started(s, j)'
    <3>1. Again(store, begun'[j], j)
      BY <2>1, <2>2, <2>4, AgainSame
    <3> QED
      BY <1>1, <1>f, <2>1, <2>3, <3>1 DEF Started
  <2>5. AtStore(file') /\ AtStore(mem'[s]) /\ life'[s] = "starting"
    BY <1>0, <1>1, <2>1, <2>2, <2>3
  <2>6. OnceGood(s)'
    BY <2>4, <2>5 DEF OnceGood, AtStore, AtRec, Again
  <2> QED
    BY <2>6 DEF Alone
<1>2. CASE held.todo = {} /\ Persist(s, RecomputeNextRuns(store))
  <2>1. RecomputeNextRuns(store) \in Store /\ AtStore(RecomputeNextRuns(store))
        /\ SameOneShots(RecomputeNextRuns(store), store)
    BY <1>0, <1>c, RecomputedStore, RecomputedOnce
  <2>2. mem'[s] = RecomputeNextRuns(store) /\ file' = RecomputeNextRuns(store)
    BY <1>0, <1>2, <2>1, PersistFacts
  <2>3. ASSUME NEW j \in Jobs, Again(RecomputeNextRuns(store), begun'[j], j) PROVE Started(s, j)'
    <3>1. Again(store, begun'[j], j)
      BY <2>1, <2>3, AgainSame
    <3> QED
      BY <1>2, <1>f, <3>1 DEF Started
  <2>4. AtStore(file') /\ AtStore(mem'[s])
    BY <2>1, <2>2
  <2>5. \A j \in Jobs :
          /\ Again(mem'[s], begun'[j], j) => Started(s, j)'
          /\ Again(file', begun'[j], j) => Started(s, j)'
    BY <2>2, <2>3
  <2>6. OnceGood(s)'
    BY <2>4, <2>5 DEF OnceGood, AtStore, AtRec, Again
  <2> QED
    BY <2>6 DEF Alone
<1> QED
  BY <1>a, <1>0, <1>1, <1>2, HeldEndsCases

LEMMA TickOnce ==
  ASSUME OInv, NEW s \in Services
  PROVE  /\ Fire(s) => OnceGood(s)'
         /\ Mark(s) => OnceGood(s)'
         /\ \A j \in Jobs : Begin(s, j) => OnceGood(s)'
         /\ \A outcome \in Outcomes : End(s, outcome) => OnceGood(s)'
         /\ Apply(s) => OnceGood(s)'
         /\ TickEnds(s) => OnceGood(s)'
<1>0. /\ Typed /\ mem[s] \in Store /\ file \in Store /\ now \in Time /\ mem \in [Services -> Store]
      /\ tick \in [Services -> TickType] /\ begun \in [Jobs -> Instants]
      /\ life \in [Services -> {"new", "starting", "up", "stopped"}]
      /\ tick[s].pc = "run" <=> Busy(tick[s])
      /\ Phases(s) /\ PlanStore(file) /\ AtStore(file) /\ AtStore(mem[s]) /\ OnceGood(s)
  BY DEF OInv, BInv, CInv, Typed, OnceGood
<1>a. tick[s].pc # "idle" => life[s] = "up"
  BY <1>0 DEF Phases
<1>1. ASSUME Fire(s) PROVE OnceGood(s)'
  <2>1. /\ UNCHANGED <<file, mem, held, life, begun>>
        /\ tick'[s].results = tick[s].results /\ tick'[s].cur = tick[s].cur
    BY <1>0, <1>1 DEF Fire, TickType
  <2> QED
    BY <1>0, <2>1 DEF OnceGood, AtStore, AtRec, Again, Started, HasResult
<1>2. ASSUME Mark(s) PROVE OnceGood(s)'
  <2>1. /\ life[s] = "up" /\ ~ Busy(tick[s]) /\ UNCHANGED begun
    BY <1>0, <1>a, <1>2, MarkCases
  <2>2. \A j \in Jobs : ~ Started(s, j)
    BY <2>1, ClientsAssumption DEF Busy, Started, HasResult
  <2>3. PICK store \in Store : Persist(s, store) /\ AtStore(store) /\ SameOneShots(store, file)
    BY <1>0, <1>2, MarkCases, RecomputedOnce, MarkedOnce
  <2>4. mem'[s] = store /\ file' = store
    BY <1>0, <2>3, PersistFacts
  <2>5. \A j \in Jobs : Again(store, begun'[j], j) => Again(file, begun[j], j)
    BY <2>1, <2>3, AgainSame
  <2> QED
    BY <1>0, <2>1, <2>2, <2>3, <2>4, <2>5, SavedOnce
<1>3. ASSUME NEW j \in Jobs, Begin(s, j) PROVE OnceGood(s)'
  <2>1. PICK t \in TickType :
              /\ tick' = [tick EXCEPT ![s] = t] /\ t.pc = "run" /\ Busy(t)
              /\ t.cur = j /\ t.todo = tick[s].todo \ {j} /\ t.results = tick[s].results
    BY <1>0, <1>3, BeginCases, ZenonT(60)
  <2>2. /\ tick'[s] = t /\ tick[s].cur = None /\ UNCHANGED <<file, life>> /\ life[s] = "up"
        /\ mem'[s] = Marked(mem[s], {j})
        /\ begun' = [begun EXCEPT ![j] = IF Present(mem[s][j]) THEN mem[s][j].next ELSE Never]
    BY <1>0, <1>a, <1>3, <2>1, BeginCases, RememberFacts, ZenonT(60)
  <2>3. Started(s, j)' /\ \A i \in Jobs : Started(s, i) => Started(s, i)'
    BY <2>1, <2>2, ClientsAssumption DEF Started, HasResult
  <2>4. \A i \in Jobs : i # j => begun'[i] = begun[i]
    BY <1>0, <2>2
  <2>5. AtStore(Marked(mem[s], {j})) /\ SameOneShots(Marked(mem[s], {j}), mem[s])
    BY <1>0, MarkedOnce
  <2>6. ASSUME NEW i \in Jobs
        PROVE  /\ Again(Marked(mem[s], {j}), begun'[i], i) => Again(mem[s], begun[i], i) \/ Started(s, i)'
               /\ Again(file, begun'[i], i) => Again(file, begun[i], i) \/ Started(s, i)'
    <3>1. CASE i = j
      BY <2>3, <3>1
    <3>2. CASE i # j
      BY <2>4, <2>5, <3>2, AgainSame
    <3> QED
      BY <3>1, <3>2
  <2> QED
    BY <1>0, <2>2, <2>3, <2>5, <2>6, SavedOnce
<1>4. ASSUME NEW outcome \in Outcomes, End(s, outcome) PROVE OnceGood(s)'
  <2>1. PICK t \in TickType :
              /\ tick' = [tick EXCEPT ![s] = t]
              /\ t.results = tick[s].results \cup
                               {[job |-> tick[s].cur, status |-> outcome, ended |-> now]}
    BY <1>0, <1>4, EndCases
  <2>2. /\ tick'[s] = t /\ UNCHANGED <<file, mem, held, life, begun>>
    BY <1>0, <1>4, <2>1, EndCases
  <2>3. ASSUME NEW i \in Jobs, Started(s, i) PROVE Started(s, i)'
    <3>1. CASE tick[s].cur = i
      <4>1. [job |-> tick[s].cur, status |-> outcome, ended |-> now] \in tick'[s].results
        BY <2>1, <2>2
      <4>2. HasResult(s, i)'
        BY <3>1, <4>1 DEF HasResult
      <4> QED
        BY <4>2 DEF Started
    <3>2. CASE tick[s].cur # i
      BY <2>1, <2>2, <2>3, <3>2 DEF Started, HasResult
    <3> QED
      BY <3>1, <3>2
  <2> QED
    BY <1>0, <2>2, <2>3 DEF OnceGood, AtStore, AtRec, Again
<1>5. ASSUME Apply(s) PROVE OnceGood(s)'
  <2>1. PICK store \in Store :
              /\ \A j \in Jobs :
                   IF HasResult(s, j)
                   THEN \E status \in Outcomes, t \in Time :
                          store[j] = JobResultApplied(file[j], status, t)
                   ELSE store[j] = file[j]
              /\ RecomputeNextRuns(store) \in Store
              /\ Persist(s, RecomputeNextRuns(store))
    BY <1>0, <1>5, ApplyCases
  <2>2. /\ mem'[s] = RecomputeNextRuns(store) /\ file' = RecomputeNextRuns(store)
        /\ life[s] = "up" /\ UNCHANGED begun /\ tick[s].cur = None
    BY <1>0, <1>a, <1>5, <2>1, PersistFacts, ApplyCases
  <2>3. ASSUME NEW j \in Jobs
        PROVE  /\ PlanRec(store[j]) /\ AtRec(store[j]) /\ ~ Again(store, begun[j], j)
    <3>1. CASE HasResult(s, j)
      <4>1. PICK status \in Outcomes, t \in Time : store[j] = JobResultApplied(file[j], status, t)
        BY <2>1, <3>1
      <4>2. PlanRec(store[j]) /\ (store[j] \in Record => store[j].sched.kind # "at" \/ store[j].next = Never)
        BY <1>0, <4>1, AppliedPlan, AppliedOnce, InStore
      <4> QED
        BY <4>2 DEF AtRec, Again
    <3>2. CASE ~ HasResult(s, j)
      <4>1. store[j] = file[j]
        BY <2>1, <3>2
      <4>2. ~ Started(s, j)
        BY <2>2, <3>2, ClientsAssumption DEF Started
      <4>3. ~ Again(file, begun[j], j)
        BY <1>0, <2>2, <4>2 DEF OnceGood
      <4> QED
        BY <1>0, <4>1, <4>3 DEF PlanStore, AtStore, Again
    <3> QED
      BY <3>1, <3>2
  <2>4. PlanStore(store) /\ AtStore(store)
    BY <2>3 DEF PlanStore, AtStore
  <2>5. AtStore(RecomputeNextRuns(store)) /\ SameOneShots(RecomputeNextRuns(store), store)
    BY <1>0, <2>4, RecomputedOnce
  <2>6. \A j \in Jobs : ~ Again(RecomputeNextRuns(store), begun'[j], j)
    BY <2>2, <2>3, <2>5, AgainSame
  <2>7. /\ AtStore(mem'[s]) /\ AtStore(file')
        /\ \A j \in Jobs : ~ Again(mem'[s], begun'[j], j) /\ ~ Again(file', begun'[j], j)
    BY <2>2, <2>5, <2>6
  <2> QED
    BY <2>7 DEF OnceGood, AtStore, AtRec, Again
<1>6. ASSUME TickEnds(s) PROVE OnceGood(s)'
  <2>1. /\ UNCHANGED <<file, mem, held, life, begun>> /\ life[s] = "up"
        /\ tick[s].cur = None /\ tick[s].results = {}
    BY <1>0, <1>a, <1>6 DEF TickEnds, Busy
  <2>2. \A j \in Jobs : ~ Started(s, j)
    BY <2>1, ClientsAssumption DEF Started, HasResult
  <2> QED
    BY <1>0, <2>1, <2>2 DEF OnceGood, AtStore, AtRec, Again
<1> QED
  BY <1>1, <1>2, <1>3, <1>4, <1>5, <1>6

LEMMA StepOInv ==
  ASSUME OInv, Alone, AllValid, [Next]_vars
  PROVE  OInv'
<1>0. BInv' /\ CInv' /\ Typed
  BY StepBInv, StepCInv DEF OInv, BInv
<1>1. CASE UNCHANGED vars
  BY <1>0, <1>1 DEF vars, OInv, OnceGood, AtStore, AtRec, Again, Started, HasResult
<1>2. ASSUME NEW s \in Services,
             \/ Start(s) \/ Client(s)
             \/ Fire(s) \/ Mark(s) \/ Apply(s) \/ TickEnds(s)
             \/ \E j \in Jobs : Begin(s, j)
             \/ \E outcome \in Outcomes : End(s, outcome)
      PROVE  OInv'
  <2>1. OnceGood(s)'
    BY <1>2, StartOnce, ClientOnce, TickOnce
  <2> QED
    BY <1>0, <2>1 DEF OInv, Alone
<1>3. ASSUME NEW s \in Services, Stop(s) PROVE OInv'
  BY <1>3 DEF Stop, Alone
<1>4. ASSUME NEW outcome \in Outcomes, HeldEnds(outcome) PROVE OInv'
  BY <1>0, <1>4, HeldEndsOnce DEF OInv
<1>5. ASSUME Crash PROVE OInv'
  <2>1. ASSUME NEW s \in Services PROVE OnceGood(s)'
    <3>1. /\ AtStore(file) /\ UNCHANGED file
          /\ \A j \in Jobs : begun'[j] = Never /\ mem'[s][j] = Absent
      BY <1>5 DEF Crash, OInv, OnceGood
    <3>2. AtStore(file') /\ AtStore(mem'[s])
      BY <3>1, AbsentFacts DEF AtStore, AtRec
    <3> QED
      BY <3>1, <3>2 DEF OnceGood, AtStore, AtRec, Again
  <2> QED
    BY <1>0, <2>1 DEF OInv
<1>6. ASSUME Advance PROVE OInv'
  <2>1. UNCHANGED <<file, mem, tick, held, life, begun>>
    BY <1>6 DEF Advance
  <2> QED
    BY <1>0, <2>1 DEF OInv, OnceGood, AtStore, AtRec, Again, Started, HasResult
<1> QED
  BY <1>1, <1>2, <1>3, <1>4, <1>5, <1>6 DEF Next

LEMMA ClientTick == ASSUME NEW s \in Services, Client(s) PROVE tick' = tick
<1>1. Read(s) => tick' = tick
  BY DEF Read
<1>2. \A j \in Jobs : Remove(s, j) => tick' = tick
  BY DEF Remove
<1>3. \A j \in Jobs, force \in BOOLEAN : Run(s, j, force) => tick' = tick
  BY DEF Run
<1>4. ASSUME NEW j \in Jobs, NEW sched, NEW delete, Add(s, j, sched, delete) PROVE tick' = tick
  BY <1>4 DEF Add
<1>5. ASSUME NEW j \in Jobs, NEW patch, Update(s, j, patch) PROVE tick' = tick
  BY <1>5 DEF Update
<1>6. ASSUME NEW j \in Jobs, NEW patch, UpdateThrows(s, j, patch) PROVE tick' = tick
  BY <1>6 DEF UpdateThrows
<1> QED
  BY <1>1, <1>2, <1>3, <1>4, <1>5, <1>6 DEF Client

(* Only Begin begins a job, and what waits in the tick is not yet begun.   *)
LEMMA BeginsOnce ==
  ASSUME OInv, Alone, [Next]_vars, NEW j \in Jobs, Repeats(j)
  PROVE  \E s \in Services : mem[s][j].sched.kind # "at"
<1>1. PICK s \in Services :
        /\ tick[s].cur # j /\ tick'[s].cur = j
        /\ Present(mem[s][j]) /\ mem[s][j].next # Never
        /\ mem[s][j].next = begun[j]
  BY DEF Repeats
<1>2. /\ Typed /\ tick \in [Services -> TickType] /\ mem[s] \in Store
      /\ Phases(s) /\ InOrder(tick[s]) /\ OnceGood(s) /\ j # None
  BY ClientsAssumption DEF OInv, BInv, Typed
<1>3. Begin(s, j)
  <2>1. tick' # tick
    BY <1>1
  <2>2. \/ Fire(s) \/ Mark(s) \/ Apply(s) \/ TickEnds(s) \/ Crash
        \/ \E i \in Jobs : Begin(s, i)
        \/ \E outcome \in Outcomes : End(s, outcome)
    <3>1. \A o \in Services : Start(o) \/ Stop(o) => tick' = tick
      BY DEF Start, Stop
    <3>2. \A o \in Services : Client(o) => tick' = tick
      BY ClientTick
    <3>3. \A outcome \in Outcomes : HeldEnds(outcome) => tick' = tick
      BY DEF HeldEnds
    <3>4. (UNCHANGED vars => tick' = tick) /\ (Advance => tick' = tick)
      BY DEF vars, Advance
    <3>5. \A o \in Services : o = s
      BY DEF Alone
    <3> QED
      BY <2>1, <3>1, <3>2, <3>3, <3>4, <3>5 DEF Next
  <2>3. ~ Fire(s) /\ ~ Mark(s)
    <3>1. ASSUME Fire(s) PROVE tick'[s].cur = tick[s].cur
      BY <1>2, <3>1 DEF Fire, TickType
    <3>2. ASSUME Mark(s) PROVE tick'[s].cur = None
      BY <1>2, <3>2, MarkCases
    <3> QED
      BY <1>1, <1>2, <3>1, <3>2
  <2>4. ~ Apply(s) /\ ~ TickEnds(s) /\ ~ Crash
    BY <1>1, <1>2, IdleFacts DEF Apply, TickEnds, Crash
  <2>5. \A outcome \in Outcomes : ~ End(s, outcome)
    BY <1>1, <1>2 DEF End, TickType
  <2>6. \A i \in Jobs : Begin(s, i) => i = j
    BY <1>1, <1>2 DEF Begin, TickType
  <2> QED
    BY <2>2, <2>3, <2>4, <2>5, <2>6
<1>4. /\ j \in tick[s].todo /\ tick[s].cur = None /\ tick[s].pc = "run"
  BY <1>2, <1>3, BeginCases
<1>5. life[s] = "up"
  BY <1>2, <1>4 DEF Phases, Typed
<1>6. ~ Started(s, j)
  BY <1>2, <1>4, <1>5 DEF Started, HasResult, InOrder
<1>7. ~ Again(mem[s], begun[j], j)
  BY <1>2, <1>5, <1>6 DEF OnceGood
<1>8. mem[s][j] \in Record
  BY <1>1, <1>2, InStore
<1> QED
  BY <1>1, <1>7, <1>8 DEF Again

(* A one-shot that the scheduler executed, in a tick or on the start after *)
(* a restart, is not executed by it again, whatever its outcome, until a   *)
(* client changes it or the process crashes.                               *)
THEOREM CronOneShotOnce == ASSUME Alone, AllValid PROVE Spec => OneShotOnce
<1>1. Init => OInv
  <2> SUFFICES ASSUME Init PROVE OInv
    OBVIOUS
  <2>1. ASSUME NEW s \in Services PROVE OnceGood(s)
    <3>1. \A j \in Jobs : begun[j] = Never /\ mem[s][j] = Absent /\ file[j] = Absent
      BY DEF Init
    <3> QED
      BY <3>1, AbsentFacts DEF OnceGood, AtStore, AtRec, Again
  <2> QED
    BY <2>1, InitBInv, InitCInv DEF OInv
<1>2. OInv /\ [Next]_vars => OInv'
  BY StepOInv
<1>3. OInv /\ [Next]_vars => [\A j \in Jobs : Repeats(j) => \E s \in Services : mem[s][j].sched.kind # "at"]_vars
  BY BeginsOnce
<1> QED
  BY <1>1, <1>2, <1>3, PTL DEF Spec, OneShotOnce

=============================================================================
