------------------------ MODULE AnnounceQueueProofs ------------------------
(***************************************************************************)
(* Proofs about CommandLanes, for any finite set of runs and any lanes,    *)
(* and about AnnounceQueue on top of it, for any of the runs announcements *)
(* with any routes and settings.                                           *)
(*                                                                         *)
(* A step of CommandLanes is one or two pumps applied to a slightly        *)
(* changed state, so the invariant of the lanes is stated of state records *)
(* and each helper (a change of one run's stage, PumpGlobal, PumpSession)  *)
(* is shown to preserve it; the action proofs then only combine these      *)
(* lemmas.  The announcements inherit what is proved of the lanes, because *)
(* a step of theirs is a step of the lanes or leaves them alone.           *)
(***************************************************************************)
EXTENDS AnnounceQueue, ListProofs

WaitIn(st, l) ==
  { r \in Runs : \/ st.stage[r] = "sessionWait" /\ SessionOf[r] = l
                 \/ st.stage[r] = "globalWait" /\ GlobalOf[r] = l }

HoldSession(st, s) ==
  { r \in Runs : SessionOf[r] = s /\ st.stage[r] \in {"globalWait", "running", "released"} }

HoldGlobal(st, g) == { r \in Runs : GlobalOf[r] = g /\ st.stage[r] = "running" }

(* The fields have their types.                                            *)
Shape(st) ==
  /\ st.queue \in [Lanes -> Seq(Runs)]
  /\ st.active \in [Lanes -> Nat]
  /\ st.stage \in [Runs -> Stage]

(* Every lane's queue lists exactly the runs that wait in it, once each.   *)
LinedUp(st) == \A l \in Lanes : Lists(st.queue[l], WaitIn(st, l))

(* Every slot counter is the number of holders; a session has one slot.    *)
Counted(st) ==
  /\ \A s \in Sessions : st.active[s] = Cardinality(HoldSession(st, s))
  /\ \A g \in Globals : st.active[g] = Cardinality(HoldGlobal(st, g))
  /\ \A s \in Sessions : st.active[s] <= 1

Good(st) == Shape(st) /\ LinedUp(st) /\ Counted(st)

(* Slots are positive, and those of a session lane were never configured.  *)
SlotsOK ==
  /\ maxConcurrent \in [Lanes -> Nat \ {0}]
  /\ \A s \in Sessions : maxConcurrent[s] = 1

IInv == Good(State) /\ SlotsOK

-----------------------------------------------------------------------------
(* Holders of a lane are finitely many.                                    *)
LEMMA HoldersFinite ==
  ASSUME NEW st, NEW l
  PROVE  IsFiniteSet(HoldSession(st, l)) /\ IsFiniteSet(HoldGlobal(st, l))
<1>1. HoldSession(st, l) \in SUBSET Runs /\ HoldGlobal(st, l) \in SUBSET Runs
  BY DEF HoldSession, HoldGlobal
<1> QED
  BY <1>1, FS_Subset, RunsAssumption

(* Counting the first runs of a queue.                                     *)
LEMMA FirstRunsCount ==
  ASSUME NEW q \in Seq(Runs), NEW n \in 0..Len(q),
         \A i, j \in 1..Len(q) : q[i] = q[j] => i = j
  PROVE  /\ IsFiniteSet({ q[i] : i \in 1..n })
         /\ Cardinality({ q[i] : i \in 1..n }) = n
<1> DEFINE W == { q[i] : i \in 1..Len(q) }
<1>1. Lists(q, W)
  BY DEF Lists
<1> HIDE DEF W
<1> QED
  BY <1>1, PrefixCount, SMTT(30)

(* How many entries a pump takes: no more than wait, and never beyond the  *)
(* slots; and it stops only when the queue or the slots are exhausted.     *)
LEMMA TakenFacts ==
  ASSUME NEW length \in Nat, NEW used \in Nat, NEW slots \in Nat
  PROVE  LET n == Taken(length, used, slots)
         IN /\ n \in 0..length
            /\ n > 0 => used + n <= slots
            /\ n < length => used + n >= slots
BY DEF Taken

(* A pump of a global lane keeps the invariant.                            *)
LEMMA PumpGlobalGood ==
  ASSUME NEW st, Good(st), NEW g \in Globals, NEW slots \in Nat
  PROVE  Good(PumpGlobal(st, g, slots))
<1> DEFINE q == st.queue[g]
           n == Taken(Len(q), st.active[g], slots)
           begun == { q[i] : i \in 1..n }
           post == PumpGlobal(st, g, slots)
<1>0. /\ st.queue \in [Lanes -> Seq(Runs)]
      /\ st.active \in [Lanes -> Nat]
      /\ st.stage \in [Runs -> Stage]
      /\ q \in Seq(Runs) /\ Len(q) \in Nat /\ st.active[g] \in Nat
      /\ g \in Lanes /\ g \notin Sessions
  BY LanesAssumption DEF Good, Shape, Lanes
<1>1. n \in 0..Len(q)
  BY <1>0, TakenFacts
<1>2. /\ post.queue = [st.queue EXCEPT ![g] = SubSeq(q, n + 1, Len(q))]
      /\ post.active = [st.active EXCEPT ![g] = st.active[g] + n]
      /\ post.stage = [r \in Runs |-> IF r \in begun THEN "running" ELSE st.stage[r]]
  BY DEF PumpGlobal
<1>3. /\ \A i \in 1..Len(q) : q[i] \in WaitIn(st, g)
      /\ \A i, j \in 1..Len(q) : q[i] = q[j] => i = j
      /\ \A r \in WaitIn(st, g) : \E i \in 1..Len(q) : q[i] = r
  BY <1>0 DEF Good, LinedUp, Lists
<1>4. begun \subseteq { r \in Runs : st.stage[r] = "globalWait" /\ GlobalOf[r] = g }
  BY <1>0, <1>1, <1>3, RoutesAssumption DEF WaitIn
<1> HIDE DEF n, begun, post, q
<1>5. Shape(post)
  <2>1. post.queue \in [Lanes -> Seq(Runs)]
    BY <1>0, <1>1, <1>2
  <2>2. post.active \in [Lanes -> Nat]
    BY <1>0, <1>1, <1>2
  <2>3. post.stage \in [Runs -> Stage]
    BY <1>0, <1>2 DEF Stage
  <2> QED
    BY <2>1, <2>2, <2>3 DEF Shape
<1>6. LinedUp(post)
  <2> SUFFICES ASSUME NEW l \in Lanes
               PROVE  Lists(post.queue[l], WaitIn(post, l))
    BY DEF LinedUp
  <2>1. CASE l # g
    <3>1. post.queue[l] = st.queue[l]
      BY <2>1, <1>0, <1>2
    <3>2. WaitIn(post, l) = WaitIn(st, l)
      BY <2>1, <1>0, <1>2, <1>4, RoutesAssumption, LanesAssumption DEF WaitIn, Lanes
    <3> QED
      BY <3>1, <3>2 DEF Good, LinedUp
  <2>2. CASE l = g
    <3>1. post.queue[l] = SubSeq(q, n + 1, Len(q))
      BY <2>2, <1>0, <1>2
    <3>2. Len(post.queue[l]) = Len(q) - n
          /\ \A i \in 1..(Len(q) - n) : post.queue[l][i] = q[n + i] /\ n + i \in 1..Len(q)
      <4>1. n \in Nat /\ n <= Len(q) /\ n + 1 \in 1..(Len(q) + 1)
        BY <1>0, <1>1
      <4>2. SubSeq(q, n + 1, Len(q)) = [i \in 1..(Len(q) - n) |-> q[n + i]]
        BY <4>1, <1>0
      <4>3. Len(SubSeq(q, n + 1, Len(q))) = Len(q) - n
        BY <4>1, <1>0
      <4>4. \A i \in 1..(Len(q) - n) : n + i \in 1..Len(q)
        BY <4>1, <1>0
      <4> QED
        BY <3>1, <4>2, <4>3, <4>4
    <3>3. WaitIn(post, l) = WaitIn(st, g) \ begun
      BY <2>2, <1>0, <1>2, <1>4, RoutesAssumption DEF WaitIn
    <3>4. \A i \in 1..Len(q) : q[i] \in begun <=> i <= n
      <4> SUFFICES ASSUME NEW i \in 1..Len(q)
                   PROVE  q[i] \in begun <=> i <= n
        OBVIOUS
      <4>1. q[i] \in begun <=> \E k \in 1..n : q[k] = q[i]
        BY DEF begun
      <4>2. /\ n \in Nat /\ Len(q) \in Nat /\ i \in Nat /\ i >= 1
            /\ \A k \in 1..n : k \in 1..Len(q) /\ k <= n
        BY <1>0, <1>1
      <4>3. (\E k \in 1..n : q[k] = q[i]) => i <= n
        BY <4>2, <1>3
      <4>4. i <= n => i \in 1..n
        BY <4>2
      <4> QED
        BY <4>1, <4>3, <4>4
    <3>5. ASSUME NEW i \in 1..Len(post.queue[l])
          PROVE  post.queue[l][i] \in WaitIn(post, l)
      <4>1. post.queue[l][i] = q[n + i] /\ n + i \in 1..Len(q)
        BY <3>2
      <4>2. i \in Nat /\ i >= 1 /\ n \in Nat
        BY <1>1
      <4>3. ~ n + i <= n
        BY <4>2
      <4>4. q[n + i] \in WaitIn(st, g) /\ q[n + i] \notin begun
        BY <4>1, <4>3, <3>4, <1>3
      <4> QED
        BY <4>1, <4>4, <3>3
    <3>6. ASSUME NEW i \in 1..Len(post.queue[l]), NEW j \in 1..Len(post.queue[l]),
                 post.queue[l][i] = post.queue[l][j]
          PROVE  i = j
      <4>1. q[n + i] = q[n + j] /\ n + i \in 1..Len(q) /\ n + j \in 1..Len(q)
        BY <3>2, <3>6
      <4>2. n + i = n + j
        BY <4>1, <1>3
      <4> QED
        BY <4>2, <1>0, <1>1, <3>2
    <3>7. ASSUME NEW r \in WaitIn(post, l)
          PROVE  \E i \in 1..Len(post.queue[l]) : post.queue[l][i] = r
      <4>1. r \in WaitIn(st, g) /\ r \notin begun
        BY <3>3
      <4>2. PICK j \in 1..Len(q) : q[j] = r
        BY <4>1, <1>3
      <4>3. j > n
        BY <4>1, <4>2, <3>4, <1>0, <1>1
      <4>4. j - n \in 1..(Len(q) - n) /\ n + (j - n) = j
        BY <4>3, <1>0, <1>1
      <4> QED
        BY <4>2, <4>4, <3>2
    <3> QED
      BY <3>5, <3>6, <3>7 DEF Lists
  <2> QED
    BY <2>1, <2>2
<1>7. Counted(post)
  <2>1. ASSUME NEW s \in Sessions
        PROVE  post.active[s] = Cardinality(HoldSession(post, s)) /\ post.active[s] <= 1
    <3>1. post.active[s] = st.active[s]
      BY <1>0, <1>2 DEF Lanes
    <3>2. HoldSession(post, s) = HoldSession(st, s)
      BY <1>0, <1>2, <1>4 DEF HoldSession
    <3> QED
      BY <3>1, <3>2 DEF Good, Counted
  <2>2. ASSUME NEW k \in Globals
        PROVE  post.active[k] = Cardinality(HoldGlobal(post, k))
    <3>1. CASE k # g
      <4>1. post.active[k] = st.active[k]
        BY <3>1, <1>0, <1>2 DEF Lanes
      <4>2. HoldGlobal(post, k) = HoldGlobal(st, k)
        BY <3>1, <1>0, <1>2, <1>4 DEF HoldGlobal
      <4> QED
        BY <4>1, <4>2 DEF Good, Counted
    <3>2. CASE k = g
      <4>1. HoldGlobal(post, k) = HoldGlobal(st, g) \cup begun
        BY <3>2, <1>0, <1>2, <1>4 DEF HoldGlobal
      <4>2. HoldGlobal(st, g) \cap begun = {}
        BY <1>4 DEF HoldGlobal
      <4>3. IsFiniteSet(begun) /\ Cardinality(begun) = n
        BY <1>0, <1>1, <1>3, FirstRunsCount DEF begun
      <4>4. IsFiniteSet(HoldGlobal(st, g))
        BY HoldersFinite
      <4>5. Cardinality(HoldGlobal(post, k)) = Cardinality(HoldGlobal(st, g)) + n
        <5>1. Cardinality(HoldGlobal(st, g)) \in Nat
          BY <4>4, FS_CardinalityType
        <5>2. Cardinality(HoldGlobal(st, g) \cup begun)
                = Cardinality(HoldGlobal(st, g)) + Cardinality(begun)
                    - Cardinality(HoldGlobal(st, g) \cap begun)
          BY <4>3, <4>4, FS_Union
        <5>3. Cardinality(HoldGlobal(st, g) \cap begun) = 0
          BY <4>2, FS_EmptySet
        <5>4. n \in Nat
          BY <1>0, <1>1
        <5> HIDE DEF begun, n
        <5> QED
          BY <5>1, <5>2, <5>3, <5>4, <4>1, <4>3
      <4>6. post.active[k] = st.active[g] + n
        BY <3>2, <1>0, <1>2
      <4> QED
        BY <4>5, <4>6 DEF Good, Counted
    <3> QED
      BY <3>1, <3>2
  <2> QED
    BY <2>1, <2>2 DEF Counted
<1> QED
  BY <1>5, <1>6, <1>7 DEF Good, post

-----------------------------------------------------------------------------
(* The session pump's own part: the first run in line takes the session    *)
(* slot and joins the global lane's queue.                                 *)
Promoted(st, s) ==
  LET r == Head(st.queue[s])
      g == GlobalOf[r]
  IN [ queue  |-> [[st.queue EXCEPT ![s] = Tail(@)] EXCEPT ![g] = Append(@, r)],
       active |-> [st.active EXCEPT ![s] = @ + 1],
       stage  |-> [st.stage EXCEPT ![r] = "globalWait"] ]

LEMMA PromotedGood ==
  ASSUME NEW st, Good(st), NEW s \in Sessions, st.active[s] < 1, st.queue[s] # <<>>
  PROVE  Good(Promoted(st, s)) /\ Head(st.queue[s]) \in Runs
<1> DEFINE q == st.queue[s]
           r == Head(q)
           g == GlobalOf[r]
           post == Promoted(st, s)
<1>1. /\ st.queue \in [Lanes -> Seq(Runs)]
      /\ st.active \in [Lanes -> Nat]
      /\ st.stage \in [Runs -> Stage]
      /\ s \in Lanes /\ s \notin Globals /\ q \in Seq(Runs)
  BY LanesAssumption DEF Good, Shape, Lanes
<1>2. Lists(q, WaitIn(st, s))
  BY <1>1 DEF Good, LinedUp
<1>3. /\ Tail(q) \in Seq(Runs) /\ r \in Runs /\ r \in WaitIn(st, s)
      /\ Lists(Tail(q), WaitIn(st, s) \ {r})
  BY <1>1, <1>2, TailListed
<1>4. /\ st.stage[r] = "sessionWait" /\ SessionOf[r] = s
      /\ g \in Globals /\ g \in Lanes /\ g # s /\ g \notin Sessions
  BY <1>1, <1>3, RoutesAssumption, LanesAssumption DEF WaitIn, Lanes
<1>5. /\ post.queue[s] = Tail(q)
      /\ post.queue[g] = Append(st.queue[g], r)
      /\ \A l \in Lanes : l # s /\ l # g => post.queue[l] = st.queue[l]
      /\ post.active = [st.active EXCEPT ![s] = st.active[s] + 1]
      /\ post.stage = [st.stage EXCEPT ![r] = "globalWait"]
  BY <1>1, <1>4 DEF Promoted
<1>6. post.queue \in [Lanes -> Seq(Runs)]
  <2>1. Append(st.queue[g], r) \in Seq(Runs)
    BY <1>1, <1>3, <1>4
  <2>2. [st.queue EXCEPT ![s] = Tail(q)][g] = st.queue[g]
    BY <1>1, <1>4, SMTT(30)
  <2>3. post.queue
          = [[st.queue EXCEPT ![s] = Tail(q)] EXCEPT ![g] = Append(st.queue[g], r)]
    BY <2>2 DEF Promoted
  <2> DEFINE shorter == [st.queue EXCEPT ![s] = Tail(q)]
  <2>4. shorter \in [Lanes -> Seq(Runs)]
    BY <1>1, <1>3
  <2>5. post.queue = [shorter EXCEPT ![g] = Append(st.queue[g], r)]
    BY <2>3
  <2> HIDE DEF post, shorter, r, g
  <2> QED
    BY <2>1, <2>4, <2>5
<1> HIDE DEF post, r, g
<1>7. Shape(post)
  <2>1. post.active \in [Lanes -> Nat]
    BY <1>1, <1>5
  <2>2. post.stage \in [Runs -> Stage]
    BY <1>1, <1>5 DEF Stage
  <2> QED
    BY <1>6, <2>1, <2>2 DEF Shape
<1>8. LinedUp(post)
  <2>1. WaitIn(post, s) = WaitIn(st, s) \ {r}
    BY <1>1, <1>3, <1>4, <1>5 DEF WaitIn, g
  <2>2. WaitIn(post, g) = WaitIn(st, g) \cup {r} /\ r \notin WaitIn(st, g)
    BY <1>1, <1>3, <1>4, <1>5 DEF WaitIn, g
  <2>3. ASSUME NEW l \in Lanes, l # s, l # g
        PROVE  WaitIn(post, l) = WaitIn(st, l)
    BY <2>3, <1>1, <1>3, <1>4, <1>5 DEF WaitIn, g
  <2>4. st.queue[g] \in Seq(Runs) /\ Lists(st.queue[g], WaitIn(st, g))
    BY <1>1, <1>4 DEF Good, LinedUp
  <2>5. Lists(post.queue[g], WaitIn(post, g))
    BY <2>2, <2>4, <1>3, <1>5, AppendListed
  <2>6. Lists(post.queue[s], WaitIn(post, s))
    BY <2>1, <1>3, <1>5
  <2>7. ASSUME NEW l \in Lanes, l # s, l # g
        PROVE  Lists(post.queue[l], WaitIn(post, l))
    BY <2>3, <2>7, <1>5 DEF Good, LinedUp
  <2> QED
    BY <2>5, <2>6, <2>7 DEF LinedUp
<1>9. Counted(post)
  <2>1. HoldSession(post, s) = HoldSession(st, s) \cup {r} /\ r \notin HoldSession(st, s)
    BY <1>1, <1>3, <1>4, <1>5 DEF HoldSession
  <2>2. Cardinality(HoldSession(post, s)) = Cardinality(HoldSession(st, s)) + 1
    BY <2>1, HoldersFinite, FS_AddElement
  <2>3. post.active[s] = Cardinality(HoldSession(post, s)) /\ post.active[s] <= 1
    BY <2>2, <1>1, <1>5 DEF Good, Counted
  <2>4. ASSUME NEW k \in Sessions, k # s
        PROVE  post.active[k] = Cardinality(HoldSession(post, k)) /\ post.active[k] <= 1
    <3>1. HoldSession(post, k) = HoldSession(st, k)
      BY <2>4, <1>1, <1>3, <1>4, <1>5 DEF HoldSession
    <3>2. post.active[k] = st.active[k]
      BY <2>4, <1>1, <1>5 DEF Lanes
    <3> QED
      BY <3>1, <3>2 DEF Good, Counted
  <2>5. ASSUME NEW k \in Globals
        PROVE  post.active[k] = Cardinality(HoldGlobal(post, k))
    <3>1. HoldGlobal(post, k) = HoldGlobal(st, k)
      BY <1>1, <1>3, <1>4, <1>5 DEF HoldGlobal
    <3>2. post.active[k] = st.active[k]
      BY <1>1, <1>5 DEF Lanes
    <3> QED
      BY <3>1, <3>2 DEF Good, Counted
  <2> QED
    BY <2>3, <2>4, <2>5 DEF Counted
<1> QED
  BY <1>3, <1>7, <1>8, <1>9 DEF Good, post, r

(* A pump of a session lane keeps the invariant.                           *)
LEMMA PumpSessionGood ==
  ASSUME NEW st, Good(st), SlotsOK, NEW s \in Sessions
  PROVE  Good(PumpSession(st, s))
<1>1. CASE st.active[s] < maxConcurrent[s] /\ st.queue[s] # <<>>
  <2> DEFINE r == Head(st.queue[s])
             g == GlobalOf[r]
  <2>1. st.active[s] < 1
    BY <1>1 DEF SlotsOK
  <2>2. Good(Promoted(st, s)) /\ r \in Runs
    BY <1>1, <2>1, PromotedGood
  <2>3. g \in Globals /\ maxConcurrent[g] \in Nat
    BY <2>2, RoutesAssumption DEF SlotsOK, Lanes
  <2>4. Good(PumpGlobal(Promoted(st, s), g, maxConcurrent[g]))
    BY <2>2, <2>3, PumpGlobalGood
  <2>5. PumpSession(st, s) = PumpGlobal(Promoted(st, s), g, maxConcurrent[g])
    BY <1>1 DEF PumpSession, EnqueueGlobal, Promoted
  <2> QED
    BY <2>4, <2>5
<1>2. CASE ~ (st.active[s] < maxConcurrent[s] /\ st.queue[s] # <<>>)
  BY <1>2 DEF PumpSession
<1> QED
  BY <1>1, <1>2

-----------------------------------------------------------------------------
(* The changes the actions make before they pump.                          *)
Joined(st, r) ==
  [ queue  |-> [st.queue EXCEPT ![SessionOf[r]] = Append(@, r)],
    active |-> st.active,
    stage  |-> [st.stage EXCEPT ![r] = "sessionWait"] ]

GlobalReleased(st, r) ==
  [ queue  |-> st.queue,
    active |-> [st.active EXCEPT ![GlobalOf[r]] = @ - 1],
    stage  |-> [st.stage EXCEPT ![r] = "released"] ]

SessionReleased(st, r) ==
  [ queue  |-> st.queue,
    active |-> [st.active EXCEPT ![SessionOf[r]] = @ - 1],
    stage  |-> [st.stage EXCEPT ![r] = "settled"] ]

LEMMA JoinedGood ==
  ASSUME NEW st, Good(st), NEW r \in Runs, st.stage[r] = "new"
  PROVE  Good(Joined(st, r))
<1> DEFINE s == SessionOf[r]
           post == Joined(st, r)
<1>1. /\ st.queue \in [Lanes -> Seq(Runs)]
      /\ st.active \in [Lanes -> Nat]
      /\ st.stage \in [Runs -> Stage]
      /\ s \in Lanes /\ s \in Sessions /\ s \notin Globals
  BY LanesAssumption, RoutesAssumption DEF Good, Shape, Lanes
<1>2. /\ post.queue = [st.queue EXCEPT ![s] = Append(st.queue[s], r)]
      /\ post.active = st.active
      /\ post.stage = [st.stage EXCEPT ![r] = "sessionWait"]
  BY DEF Joined
<1> HIDE DEF post
<1>3. Shape(post)
  <2>1. Append(st.queue[s], r) \in Seq(Runs)
    BY <1>1
  <2>2. post.queue \in [Lanes -> Seq(Runs)]
    BY <2>1, <1>1, <1>2
  <2> QED
    BY <2>2, <1>1, <1>2 DEF Shape, Stage
<1>4. LinedUp(post)
  <2>1. WaitIn(post, s) = WaitIn(st, s) \cup {r} /\ r \notin WaitIn(st, s)
    BY <1>1, <1>2 DEF WaitIn
  <2>2. ASSUME NEW l \in Lanes, l # s
        PROVE  WaitIn(post, l) = WaitIn(st, l) /\ post.queue[l] = st.queue[l]
    BY <2>2, <1>1, <1>2 DEF WaitIn
  <2>3. st.queue[s] \in Seq(Runs) /\ Lists(st.queue[s], WaitIn(st, s))
    BY <1>1 DEF Good, LinedUp
  <2>4. post.queue[s] = Append(st.queue[s], r)
    BY <1>1, <1>2
  <2> HIDE DEF s
  <2>5. Lists(post.queue[s], WaitIn(post, s))
    BY <2>1, <2>3, <2>4, AppendListed
  <2>6. ASSUME NEW l \in Lanes, l # s
        PROVE  Lists(post.queue[l], WaitIn(post, l))
    BY <2>2, <2>6 DEF Good, LinedUp
  <2> QED
    BY <2>5, <2>6 DEF LinedUp
<1>5. Counted(post)
  <2>1. \A k : HoldSession(post, k) = HoldSession(st, k) /\ HoldGlobal(post, k) = HoldGlobal(st, k)
    BY <1>1, <1>2 DEF HoldSession, HoldGlobal
  <2> QED
    BY <2>1, <1>2 DEF Good, Counted
<1> QED
  BY <1>3, <1>4, <1>5 DEF Good, post

LEMMA GlobalReleasedGood ==
  ASSUME NEW st, Good(st), NEW r \in Runs, st.stage[r] = "running"
  PROVE  Good(GlobalReleased(st, r))
<1> DEFINE g == GlobalOf[r]
           post == GlobalReleased(st, r)
<1>1. /\ st.active \in [Lanes -> Nat]
      /\ st.stage \in [Runs -> Stage]
      /\ g \in Lanes /\ g \in Globals /\ g \notin Sessions
  BY LanesAssumption, RoutesAssumption DEF Good, Shape, Lanes
<1>2. /\ post.queue = st.queue
      /\ post.active = [st.active EXCEPT ![g] = st.active[g] - 1]
      /\ post.stage = [st.stage EXCEPT ![r] = "released"]
  BY DEF GlobalReleased
<1> HIDE DEF post
<1>3. HoldGlobal(post, g) = HoldGlobal(st, g) \ {r} /\ r \in HoldGlobal(st, g)
  BY <1>1, <1>2 DEF HoldGlobal
<1>4. /\ Cardinality(HoldGlobal(post, g)) = Cardinality(HoldGlobal(st, g)) - 1
      /\ Cardinality(HoldGlobal(post, g)) \in Nat
  BY <1>3, HoldersFinite, FS_RemoveElement, FS_CardinalityType
<1>5. st.active[g] = Cardinality(HoldGlobal(st, g))
  BY <1>1 DEF Good, Counted
<1>6. Shape(post)
  <2>1. st.active[g] - 1 \in Nat
    BY <1>4, <1>5
  <2>2. post.active \in [Lanes -> Nat]
    BY <2>1, <1>1, <1>2
  <2> QED
    BY <2>2, <1>1, <1>2 DEF Good, Shape, Stage
<1>7. LinedUp(post)
  <2>1. \A l : WaitIn(post, l) = WaitIn(st, l)
    BY <1>1, <1>2 DEF WaitIn
  <2> QED
    BY <2>1, <1>2 DEF Good, LinedUp
<1>8. Counted(post)
  <2>1. \A s : HoldSession(post, s) = HoldSession(st, s)
    BY <1>1, <1>2 DEF HoldSession
  <2>2. \A s \in Sessions : post.active[s] = st.active[s]
    BY <1>1, <1>2 DEF Lanes
  <2>3. post.active[g] = Cardinality(HoldGlobal(post, g))
    BY <1>1, <1>2, <1>4, <1>5
  <2>4. ASSUME NEW k \in Globals, k # g
        PROVE  post.active[k] = Cardinality(HoldGlobal(post, k))
    <3>1. HoldGlobal(post, k) = HoldGlobal(st, k) /\ post.active[k] = st.active[k]
      BY <2>4, <1>1, <1>2 DEF HoldGlobal, Lanes
    <3> QED
      BY <3>1 DEF Good, Counted
  <2> QED
    BY <2>1, <2>2, <2>3, <2>4 DEF Good, Counted
<1> QED
  BY <1>6, <1>7, <1>8 DEF Good, post

LEMMA SessionReleasedGood ==
  ASSUME NEW st, Good(st), NEW r \in Runs, st.stage[r] = "released"
  PROVE  Good(SessionReleased(st, r))
<1> DEFINE s == SessionOf[r]
           post == SessionReleased(st, r)
<1>1. /\ st.active \in [Lanes -> Nat]
      /\ st.stage \in [Runs -> Stage]
      /\ s \in Lanes /\ s \in Sessions /\ s \notin Globals
  BY LanesAssumption, RoutesAssumption DEF Good, Shape, Lanes
<1>2. /\ post.queue = st.queue
      /\ post.active = [st.active EXCEPT ![s] = st.active[s] - 1]
      /\ post.stage = [st.stage EXCEPT ![r] = "settled"]
  BY DEF SessionReleased
<1> HIDE DEF post
<1>3. HoldSession(post, s) = HoldSession(st, s) \ {r} /\ r \in HoldSession(st, s)
  BY <1>1, <1>2 DEF HoldSession
<1>4. /\ Cardinality(HoldSession(post, s)) = Cardinality(HoldSession(st, s)) - 1
      /\ Cardinality(HoldSession(post, s)) \in Nat
  BY <1>3, HoldersFinite, FS_RemoveElement, FS_CardinalityType
<1>5. st.active[s] = Cardinality(HoldSession(st, s)) /\ st.active[s] <= 1
  BY <1>1 DEF Good, Counted
<1>6. Shape(post)
  <2>1. st.active[s] - 1 \in Nat
    BY <1>4, <1>5
  <2>2. post.active \in [Lanes -> Nat]
    BY <2>1, <1>1, <1>2
  <2> QED
    BY <2>2, <1>1, <1>2 DEF Good, Shape, Stage
<1>7. LinedUp(post)
  <2>1. \A l : WaitIn(post, l) = WaitIn(st, l)
    BY <1>1, <1>2 DEF WaitIn
  <2> QED
    BY <2>1, <1>2 DEF Good, LinedUp
<1>8. Counted(post)
  <2>1. \A g : HoldGlobal(post, g) = HoldGlobal(st, g)
    BY <1>1, <1>2 DEF HoldGlobal
  <2>2. \A g \in Globals : post.active[g] = st.active[g]
    BY <1>1, <1>2 DEF Lanes
  <2>3. post.active[s] = Cardinality(HoldSession(post, s)) /\ post.active[s] <= 1
    BY <1>1, <1>2, <1>4, <1>5
  <2>4. ASSUME NEW k \in Sessions, k # s
        PROVE  post.active[k] = Cardinality(HoldSession(post, k)) /\ post.active[k] <= 1
    <3>1. HoldSession(post, k) = HoldSession(st, k) /\ post.active[k] = st.active[k]
      BY <2>4, <1>1, <1>2 DEF HoldSession, Lanes
    <3> QED
      BY <3>1 DEF Good, Counted
  <2> QED
    BY <2>1, <2>2, <2>3, <2>4 DEF Good, Counted
<1> QED
  BY <1>6, <1>7, <1>8 DEF Good, post

-----------------------------------------------------------------------------
(* The inductive invariant, one lemma per action.                          *)
LEMMA InitIInv == Init => IInv
<1> SUFFICES ASSUME Init PROVE IInv
  OBVIOUS
<1>1. /\ State.queue = [l \in Lanes |-> <<>>]
      /\ State.active = [l \in Lanes |-> 0]
      /\ State.stage = [r \in Runs |-> "new"]
  BY DEF Init, State
<1>2. Shape(State)
  BY <1>1 DEF Shape, Stage
<1>3. \A l : WaitIn(State, l) = {} /\ HoldSession(State, l) = {} /\ HoldGlobal(State, l) = {}
  BY <1>1 DEF WaitIn, HoldSession, HoldGlobal
<1>4. LinedUp(State)
  BY <1>1, <1>3 DEF LinedUp, Lists
<1>5. Counted(State)
  <2>1. \A l \in Lanes : State.active[l] = 0
    BY <1>1
  <2>2. \A l : Cardinality(HoldSession(State, l)) = 0 /\ Cardinality(HoldGlobal(State, l)) = 0
    BY <1>3, FS_EmptySet
  <2> QED
    BY <2>1, <2>2 DEF Counted, Lanes
<1>6. SlotsOK
  BY DEF Init, SlotsOK, Lanes
<1> QED
  BY <1>2, <1>4, <1>5, <1>6 DEF IInv, Good

LEMMA BecomeGood ==
  ASSUME NEW st, Become(st), Good(st)
  PROVE  Good(State)'
BY DEF Become, State, Good, Shape, LinedUp, Lists, Counted, WaitIn, HoldSession, HoldGlobal

LEMMA SubmitIInv ==
  ASSUME IInv, NEW r \in Runs, Submit(r)
  PROVE  IInv'
<1>1. State.stage[r] = "new" /\ SessionOf[r] \in Sessions
  BY RoutesAssumption DEF Submit, State
<1>2. Good(PumpSession(Joined(State, r), SessionOf[r]))
  BY <1>1, JoinedGood, PumpSessionGood DEF IInv
<1>3. Become(PumpSession(Joined(State, r), SessionOf[r]))
  BY DEF Submit, Joined, State
<1>4. Good(State)'
  BY <1>2, <1>3, BecomeGood
<1> QED
  BY <1>4 DEF IInv, SlotsOK, Submit

LEMMA FinishIInv ==
  ASSUME IInv, NEW r \in Runs, Finish(r)
  PROVE  IInv'
<1> DEFINE g == GlobalOf[r]
<1>1. State.stage[r] = "running" /\ g \in Globals /\ maxConcurrent[g] \in Nat
  BY RoutesAssumption DEF Finish, State, IInv, SlotsOK, Lanes
<1>2. Good(PumpGlobal(GlobalReleased(State, r), g, maxConcurrent[g]))
  BY <1>1, GlobalReleasedGood, PumpGlobalGood DEF IInv
<1>3. Become(PumpGlobal(GlobalReleased(State, r), g, maxConcurrent[g]))
  BY DEF Finish, GlobalReleased, State
<1>4. Good(State)'
  BY <1>2, <1>3, BecomeGood
<1> QED
  BY <1>4 DEF IInv, SlotsOK, Finish

LEMMA SettleIInv ==
  ASSUME IInv, NEW r \in Runs, Settle(r)
  PROVE  IInv'
<1>1. State.stage[r] = "released" /\ SessionOf[r] \in Sessions
  BY RoutesAssumption DEF Settle, State
<1>2. Good(PumpSession(SessionReleased(State, r), SessionOf[r]))
  BY <1>1, SessionReleasedGood, PumpSessionGood DEF IInv
<1>3. Become(PumpSession(SessionReleased(State, r), SessionOf[r]))
  BY DEF Settle, SessionReleased, State
<1>4. Good(State)'
  BY <1>2, <1>3, BecomeGood
<1> QED
  BY <1>4 DEF IInv, SlotsOK, Settle

LEMMA SetConcurrencyIInv ==
  ASSUME IInv, NEW g \in Globals, NEW n \in Limits, SetConcurrency(g, n)
  PROVE  IInv'
<1>1. AtLeastOne(n) \in Nat \ {0}
  BY LimitsAssumption DEF AtLeastOne
<1>2. Good(PumpGlobal(State, g, AtLeastOne(n)))
  BY <1>1, PumpGlobalGood DEF IInv
<1>3. Good(State)'
  BY <1>2, BecomeGood DEF SetConcurrency
<1>4. SlotsOK'
  BY <1>1, LanesAssumption DEF IInv, SlotsOK, SetConcurrency, Lanes
<1> QED
  BY <1>3, <1>4 DEF IInv

LEMMA ClearLaneIInv ==
  ASSUME IInv, NEW s \in Sessions, ClearLane(s)
  PROVE  IInv'
<1> DEFINE gone == { queue[s][i] : i \in DOMAIN queue[s] }
<1>1. /\ queue \in [Lanes -> Seq(Runs)]
      /\ active \in [Lanes -> Nat]
      /\ stage \in [Runs -> Stage]
      /\ s \in Lanes /\ s \notin Globals
      /\ DOMAIN queue[s] = 1..Len(queue[s])
  BY LanesAssumption DEF IInv, Good, Shape, State, Lanes
<1>2. gone = { r \in Runs : stage[r] = "sessionWait" /\ SessionOf[r] = s }
  <2>1. /\ \A i \in 1..Len(queue[s]) : queue[s][i] \in WaitIn(State, s)
        /\ \A r \in WaitIn(State, s) : \E i \in 1..Len(queue[s]) : queue[s][i] = r
    BY <1>1 DEF IInv, Good, LinedUp, Lists, State
  <2>2. WaitIn(State, s) = { r \in Runs : stage[r] = "sessionWait" /\ SessionOf[r] = s }
    BY <1>1, RoutesAssumption DEF WaitIn, State
  <2>3. gone = { queue[s][i] : i \in 1..Len(queue[s]) }
    BY <1>1
  <2> HIDE DEF gone
  <2>4. gone = WaitIn(State, s)
    BY <2>1, <2>3
  <2> QED
    BY <2>2, <2>4
<1>3. /\ queue' = [queue EXCEPT ![s] = <<>>]
      /\ stage' = [r \in Runs |-> IF r \in gone THEN "dropped" ELSE stage[r]]
      /\ active' = active /\ maxConcurrent' = maxConcurrent
  BY DEF ClearLane
<1> HIDE DEF gone
<1>4. Shape(State)'
  BY <1>1, <1>3 DEF Shape, State, Stage
<1>5. LinedUp(State)'
  <2>1. WaitIn(State, s)' = {}
    BY <1>1, <1>2, <1>3, RoutesAssumption DEF WaitIn, State
  <2>2. ASSUME NEW l \in Lanes, l # s
        PROVE  WaitIn(State, l)' = WaitIn(State, l) /\ queue'[l] = queue[l]
    BY <2>2, <1>1, <1>2, <1>3 DEF WaitIn, State
  <2>3. queue'[s] = <<>>
    BY <1>1, <1>3
  <2> QED
    BY <2>1, <2>2, <2>3 DEF IInv, Good, LinedUp, Lists, State
<1>6. Counted(State)'
  <2>1. \A k : /\ HoldSession(State, k)' = HoldSession(State, k)
               /\ HoldGlobal(State, k)' = HoldGlobal(State, k)
    BY <1>1, <1>2, <1>3 DEF HoldSession, HoldGlobal, State
  <2> QED
    BY <2>1, <1>3 DEF IInv, Good, Counted, State
<1> QED
  BY <1>3, <1>4, <1>5, <1>6 DEF IInv, Good, SlotsOK

LEMMA StepIInv == IInv /\ [Next]_vars => IInv'
<1> SUFFICES ASSUME IInv, [Next]_vars PROVE IInv'
  OBVIOUS
<1>1. ASSUME NEW r \in Runs, Submit(r) PROVE IInv'
  BY <1>1, SubmitIInv
<1>2. ASSUME NEW r \in Runs, Finish(r) PROVE IInv'
  BY <1>2, FinishIInv
<1>3. ASSUME NEW r \in Runs, Settle(r) PROVE IInv'
  BY <1>3, SettleIInv
<1>4. ASSUME NEW g \in Globals, NEW n \in Limits, SetConcurrency(g, n) PROVE IInv'
  BY <1>4, SetConcurrencyIInv
<1>5. ASSUME NEW s \in Sessions, ClearLane(s) PROVE IInv'
  BY <1>5, ClearLaneIInv
<1>6. CASE UNCHANGED vars
  BY <1>6 DEF vars, IInv, Good, Shape, LinedUp, Lists, Counted, WaitIn, HoldSession, HoldGlobal,
              State, SlotsOK
<1> QED
  BY <1>1, <1>2, <1>3, <1>4, <1>5, <1>6 DEF Next

(* The lanes are well formed, listed and counted in every reachable state. *)
THEOREM InductiveInvariant == Spec => []IInv
<1> QED
  BY InitIInv, StepIInv, PTL DEF Spec

-----------------------------------------------------------------------------
(* The variables keep their types, whatever limits are configured.         *)
THEOREM TypeCorrect == Spec => []TypeOK
<1>1. IInv => TypeOK
  BY DEF IInv, Good, Shape, State, SlotsOK, TypeOK
<1> QED
  BY <1>1, InductiveInvariant, PTL

(* The runs of a session exclude each other at any number of runs.         *)
THEOREM SessionsExclusive == Spec => []SessionExclusion
<1>1. IInv => SessionExclusion
  <2> SUFFICES ASSUME IInv, NEW s \in Sessions
               PROVE  \A r1, r2 \in SessionHolders(s) : r1 = r2
    BY DEF SessionExclusion
  <2>1. SessionHolders(s) = HoldSession(State, s)
    BY DEF SessionHolders, HoldSession, State
  <2>2. Cardinality(SessionHolders(s)) <= 1 /\ IsFiniteSet(SessionHolders(s))
    BY <2>1, HoldersFinite DEF IInv, Good, Counted
  <2>3. Cardinality(SessionHolders(s)) = 0 \/ Cardinality(SessionHolders(s)) = 1
    BY <2>2, FS_CardinalityType
  <2>4. CASE Cardinality(SessionHolders(s)) = 0
    BY <2>2, <2>4, FS_EmptySet
  <2>5. CASE Cardinality(SessionHolders(s)) = 1
    <3>1. \E x : SessionHolders(s) = {x}
      BY <2>2, <2>5, FS_Singleton
    <3> QED
      BY <3>1
  <2> QED
    BY <2>3, <2>4, <2>5
<1> QED
  BY <1>1, InductiveInvariant, PTL

(* Counters and queues tell the truth about the runs at any instance size. *)
THEOREM SlotsAccounted == Spec => []SlotAccounting
<1>1. IInv => SlotAccounting
  <2> SUFFICES ASSUME IInv, NEW l \in Lanes
               PROVE  /\ active[l] = Cardinality(Holders(l))
                      /\ { queue[l][i] : i \in DOMAIN queue[l] } = Waiting(l)
                      /\ Len(queue[l]) = Cardinality(Waiting(l))
    BY DEF SlotAccounting
  <2>1. active[l] = Cardinality(Holders(l))
    BY LanesAssumption
       DEF IInv, Good, Counted, State, Holders, SessionHolders, GlobalHolders, HoldSession,
           HoldGlobal, Lanes
  <2>2. /\ queue[l] \in Seq(Runs) /\ DOMAIN queue[l] = 1..Len(queue[l])
        /\ Len(queue[l]) \in Nat
    BY DEF IInv, Good, Shape, State
  <2>3. /\ \A i \in 1..Len(queue[l]) : queue[l][i] \in Waiting(l)
        /\ \A i, j \in 1..Len(queue[l]) : queue[l][i] = queue[l][j] => i = j
        /\ \A r \in Waiting(l) : \E i \in 1..Len(queue[l]) : queue[l][i] = r
    BY DEF IInv, Good, LinedUp, Lists, State, WaitIn, Waiting
  <2>4. { queue[l][i] : i \in 1..Len(queue[l]) } = Waiting(l)
    BY <2>3
  <2>5. Len(queue[l]) \in 0..Len(queue[l])
    BY <2>2
  <2>6. Cardinality({ queue[l][i] : i \in 1..Len(queue[l]) }) = Len(queue[l])
    BY <2>2, <2>3, <2>5, FirstRunsCount
  <2> QED
    BY <2>1, <2>2, <2>4, <2>6
<1> QED
  BY <1>1, InductiveInvariant, PTL

-----------------------------------------------------------------------------
(* No lane sleeps on a free slot.                                          *)
Busy(st, l, slots) == st.queue[l] # <<>> => st.active[l] >= slots

LEMMA PumpGlobalBusy ==
  ASSUME NEW st, Good(st), NEW g \in Globals, NEW slots \in Nat
  PROVE  LET post == PumpGlobal(st, g, slots)
         IN /\ Busy(post, g, slots)
            /\ \A l \in Lanes : l # g => post.queue[l] = st.queue[l] /\ post.active[l] = st.active[l]
            /\ \A k \in Globals : ~ HoldGlobal(post, k) \subseteq HoldGlobal(st, k)
                                     => k = g /\ post.active[g] <= slots
<1> DEFINE q == st.queue[g]
           n == Taken(Len(q), st.active[g], slots)
           post == PumpGlobal(st, g, slots)
<1>1. /\ st.queue \in [Lanes -> Seq(Runs)]
      /\ st.active \in [Lanes -> Nat]
      /\ q \in Seq(Runs) /\ Len(q) \in Nat /\ st.active[g] \in Nat
      /\ g \in Lanes
  BY DEF Good, Shape, Lanes
<1>2. /\ n \in 0..Len(q)
      /\ n > 0 => st.active[g] + n <= slots
      /\ n < Len(q) => st.active[g] + n >= slots
  BY <1>1, TakenFacts
<1>3. /\ post.queue[g] = SubSeq(q, n + 1, Len(q))
      /\ post.active[g] = st.active[g] + n
      /\ \A l \in Lanes : l # g => post.queue[l] = st.queue[l] /\ post.active[l] = st.active[l]
      /\ post.stage = [r \in Runs |-> IF r \in { q[i] : i \in 1..n } THEN "running"
                                      ELSE st.stage[r]]
  BY <1>1 DEF PumpGlobal
<1>4. \A i \in 1..n : GlobalOf[q[i]] = g
  <2>1. \A i \in 1..Len(q) : q[i] \in WaitIn(st, g)
    BY <1>1 DEF Good, LinedUp, Lists
  <2> QED
    BY <2>1, <1>1, <1>2, LanesAssumption, RoutesAssumption DEF WaitIn
<1> HIDE DEF n, post
<1>5. Busy(post, g, slots)
  <2>1. n = Len(q) => post.queue[g] = <<>>
    BY <1>1, <1>3
  <2> QED
    BY <2>1, <1>1, <1>2, <1>3 DEF Busy
<1>6. ASSUME NEW k \in Globals, ~ HoldGlobal(post, k) \subseteq HoldGlobal(st, k)
      PROVE  k = g /\ post.active[g] <= slots
  <2>1. PICK r \in Runs : GlobalOf[r] = k /\ post.stage[r] = "running" /\ st.stage[r] # "running"
    BY <1>6 DEF HoldGlobal
  <2>2. \E i \in 1..n : r = q[i]
    BY <2>1, <1>3
  <2>3. k = g /\ n > 0
    BY <2>1, <2>2, <1>1, <1>2, <1>4
  <2> QED
    BY <2>3, <1>2, <1>3
<1> QED
  BY <1>3, <1>5, <1>6 DEF post

LEMMA PumpSessionBusy ==
  ASSUME NEW st, Good(st), SlotsOK, NEW s \in Sessions,
         \A l \in Lanes : l # s => Busy(st, l, maxConcurrent[l])
  PROVE  LET post == PumpSession(st, s)
         IN /\ \A l \in Lanes : Busy(post, l, maxConcurrent[l])
            /\ \A k \in Globals : ~ HoldGlobal(post, k) \subseteq HoldGlobal(st, k)
                                     => post.active[k] <= maxConcurrent[k]
<1> DEFINE post == PumpSession(st, s)
<1>0. st.active[s] \in Nat /\ maxConcurrent[s] = 1 /\ s \in Lanes /\ s \notin Globals
  BY LanesAssumption DEF Good, Shape, SlotsOK, Lanes
<1>1. CASE st.active[s] < maxConcurrent[s] /\ st.queue[s] # <<>>
  <2> DEFINE r == Head(st.queue[s])
             g == GlobalOf[r]
             mid == Promoted(st, s)
  <2>1. Good(mid) /\ r \in Runs
    BY <1>0, <1>1, PromotedGood
  <2>2. g \in Globals /\ maxConcurrent[g] \in Nat /\ g \in Lanes /\ g # s
    BY <1>0, <2>1, RoutesAssumption DEF SlotsOK, Lanes
  <2>3. post = PumpGlobal(mid, g, maxConcurrent[g])
    BY <1>1 DEF PumpSession, EnqueueGlobal, Promoted
  <2>4. /\ mid.active[s] = 1
        /\ \A l \in Lanes : l # s /\ l # g
             => mid.queue[l] = st.queue[l] /\ mid.active[l] = st.active[l]
        /\ mid.stage = [st.stage EXCEPT ![r] = "globalWait"]
    BY <1>0, <1>1, <2>2 DEF Promoted, Good, Shape
  <2> HIDE DEF post, g, r, mid
  <2>5. /\ Busy(post, g, maxConcurrent[g])
        /\ \A l \in Lanes : l # g => post.queue[l] = mid.queue[l] /\ post.active[l] = mid.active[l]
        /\ \A k \in Globals : ~ HoldGlobal(post, k) \subseteq HoldGlobal(mid, k)
                                 => k = g /\ post.active[g] <= maxConcurrent[g]
    BY <2>1, <2>2, <2>3, PumpGlobalBusy
  <2>6. ASSUME NEW l \in Lanes
        PROVE  Busy(post, l, maxConcurrent[l])
    <3>1. CASE l = s
      BY <3>1, <1>0, <2>2, <2>4, <2>5 DEF Busy
    <3>2. CASE l = g
      BY <3>2, <2>5
    <3>3. CASE l # s /\ l # g
      BY <3>3, <2>4, <2>5 DEF Busy
    <3> QED
      BY <3>1, <3>2, <3>3
  <2>7. \A k : HoldGlobal(mid, k) \subseteq HoldGlobal(st, k)
    BY <2>1, <2>4 DEF HoldGlobal, Good, Shape
  <2> QED
    BY <2>5, <2>6, <2>7 DEF post
<1>2. CASE ~ (st.active[s] < maxConcurrent[s] /\ st.queue[s] # <<>>)
  <2>1. post = st
    BY <1>2 DEF PumpSession
  <2>2. Busy(st, s, maxConcurrent[s])
    BY <1>0, <1>2 DEF Busy
  <2> QED
    BY <2>1, <2>2
<1> QED
  BY <1>1, <1>2

(* What one step does to the free slots and to the sets of running tasks.  *)
Within == \A g \in Globals :
            GlobalHolders(g)' \ GlobalHolders(g) # {}
              => Cardinality(GlobalHolders(g)') <= maxConcurrent'[g]

LEMMA HoldersAre ==
  \A g \in Globals : GlobalHolders(g) = HoldGlobal(State, g)
BY DEF GlobalHolders, HoldGlobal, State

LEMMA StepBusy ==
  ASSUME IInv, WorkConserving, [Next]_vars
  PROVE  WorkConserving' /\ Within
<1>0. /\ Good(State) /\ SlotsOK /\ IInv'
      /\ \A l \in Lanes : Busy(State, l, maxConcurrent[l])
  BY StepIInv DEF IInv, WorkConserving, Busy, State
<1> DEFINE Result(post) ==
             /\ Become(post)
             /\ \A l \in Lanes : Busy(post, l, maxConcurrent'[l])
             /\ \A k \in Globals : ~ HoldGlobal(post, k) \subseteq HoldGlobal(State, k)
                                      => post.active[k] <= maxConcurrent'[k]
<1>1. ASSUME NEW post, Result(post)
      PROVE  WorkConserving' /\ Within
  <2>1. queue' = post.queue /\ active' = post.active /\ stage' = post.stage
    BY <1>1 DEF Become
  <2>2. WorkConserving'
    BY <1>1, <2>1 DEF WorkConserving, Busy
  <2>3. \A k \in Globals : GlobalHolders(k)' = HoldGlobal(post, k)
                           /\ GlobalHolders(k) = HoldGlobal(State, k)
    BY <2>1, HoldersAre DEF GlobalHolders, HoldGlobal
  <2>4. \A k \in Globals : active'[k] = Cardinality(GlobalHolders(k)')
    BY <1>0 DEF IInv, Good, Counted, GlobalHolders, HoldGlobal, State
  <2>5. Within
    BY <1>1, <2>1, <2>3, <2>4 DEF Within
  <2> QED
    BY <2>2, <2>5
<1>2. ASSUME NEW r \in Runs, Submit(r)
      PROVE  WorkConserving' /\ Within
  <2> DEFINE s == SessionOf[r]
             pre == Joined(State, r)
             post == PumpSession(pre, s)
  <2>1. s \in Sessions /\ State.stage[r] = "new"
    BY <1>2, RoutesAssumption DEF Submit, State
  <2>2. Good(pre)
    BY <1>0, <2>1, JoinedGood
  <2>3. /\ \A l \in Lanes : l # s => pre.queue[l] = State.queue[l]
        /\ pre.active = State.active
        /\ pre.stage = [State.stage EXCEPT ![r] = "sessionWait"]
    BY <1>0 DEF Joined, Good, Shape
  <2>4. Become(post) /\ maxConcurrent' = maxConcurrent
    BY <1>2 DEF Submit, Joined, State
  <2> HIDE DEF pre, s
  <2>5. \A l \in Lanes : l # s => Busy(pre, l, maxConcurrent[l])
    BY <1>0, <2>3 DEF Busy
  <2>6. /\ \A l \in Lanes : Busy(post, l, maxConcurrent[l])
        /\ \A k \in Globals : ~ HoldGlobal(post, k) \subseteq HoldGlobal(pre, k)
                                 => post.active[k] <= maxConcurrent[k]
    BY <1>0, <2>1, <2>2, <2>5, PumpSessionBusy
  <2>7. \A k : HoldGlobal(pre, k) \subseteq HoldGlobal(State, k)
    BY <1>0, <2>3 DEF HoldGlobal, Good, Shape
  <2> HIDE DEF post
  <2>8. Result(post)
    BY <2>4, <2>6, <2>7
  <2> QED
    BY <2>8, <1>1
<1>3. ASSUME NEW r \in Runs, Settle(r)
      PROVE  WorkConserving' /\ Within
  <2> DEFINE s == SessionOf[r]
             pre == SessionReleased(State, r)
             post == PumpSession(pre, s)
  <2>1. s \in Sessions /\ State.stage[r] = "released"
    BY <1>3, RoutesAssumption DEF Settle, State
  <2>2. Good(pre)
    BY <1>0, <2>1, SessionReleasedGood
  <2>3. /\ pre.queue = State.queue
        /\ \A l \in Lanes : l # s => pre.active[l] = State.active[l]
        /\ pre.stage = [State.stage EXCEPT ![r] = "settled"]
    BY <1>0 DEF SessionReleased, Good, Shape
  <2>4. Become(post) /\ maxConcurrent' = maxConcurrent
    BY <1>3 DEF Settle, SessionReleased, State
  <2> HIDE DEF pre, s
  <2>5. \A l \in Lanes : l # s => Busy(pre, l, maxConcurrent[l])
    BY <1>0, <2>3 DEF Busy
  <2>6. /\ \A l \in Lanes : Busy(post, l, maxConcurrent[l])
        /\ \A k \in Globals : ~ HoldGlobal(post, k) \subseteq HoldGlobal(pre, k)
                                 => post.active[k] <= maxConcurrent[k]
    BY <1>0, <2>1, <2>2, <2>5, PumpSessionBusy
  <2>7. \A k : HoldGlobal(pre, k) \subseteq HoldGlobal(State, k)
    BY <1>0, <2>3 DEF HoldGlobal, Good, Shape
  <2> HIDE DEF post
  <2>8. Result(post)
    BY <2>4, <2>6, <2>7
  <2> QED
    BY <2>8, <1>1
<1>4. ASSUME NEW r \in Runs, Finish(r)
      PROVE  WorkConserving' /\ Within
  <2> DEFINE g == GlobalOf[r]
             pre == GlobalReleased(State, r)
             post == PumpGlobal(pre, g, maxConcurrent[g])
  <2>1. g \in Globals /\ State.stage[r] = "running" /\ maxConcurrent[g] \in Nat
    BY <1>0, <1>4, RoutesAssumption DEF Finish, State, SlotsOK, Lanes
  <2>2. Good(pre)
    BY <1>0, <2>1, GlobalReleasedGood
  <2>3. /\ pre.queue = State.queue
        /\ \A l \in Lanes : l # g => pre.active[l] = State.active[l]
        /\ pre.stage = [State.stage EXCEPT ![r] = "released"]
    BY <1>0 DEF GlobalReleased, Good, Shape
  <2>4. Become(post) /\ maxConcurrent' = maxConcurrent
    BY <1>4 DEF Finish, GlobalReleased, State
  <2> HIDE DEF pre, g
  <2>5. /\ Busy(post, g, maxConcurrent[g])
        /\ \A l \in Lanes : l # g => post.queue[l] = pre.queue[l] /\ post.active[l] = pre.active[l]
        /\ \A k \in Globals : ~ HoldGlobal(post, k) \subseteq HoldGlobal(pre, k)
                                 => k = g /\ post.active[g] <= maxConcurrent[g]
    BY <2>1, <2>2, PumpGlobalBusy
  <2> HIDE DEF post
  <2>6. \A l \in Lanes : Busy(post, l, maxConcurrent[l])
    BY <1>0, <2>3, <2>5 DEF Busy
  <2>7. \A k : HoldGlobal(pre, k) \subseteq HoldGlobal(State, k)
    BY <1>0, <2>3 DEF HoldGlobal, Good, Shape
  <2>8. Result(post)
    BY <2>4, <2>5, <2>6, <2>7
  <2> QED
    BY <2>8, <1>1
<1>5. ASSUME NEW g \in Globals, NEW n \in Limits, SetConcurrency(g, n)
      PROVE  WorkConserving' /\ Within
  <2> DEFINE slots == AtLeastOne(n)
             post == PumpGlobal(State, g, slots)
  <2>1. slots \in Nat
    BY LimitsAssumption DEF AtLeastOne
  <2>2. /\ Become(post)
        /\ maxConcurrent'[g] = slots
        /\ \A l \in Lanes : l # g => maxConcurrent'[l] = maxConcurrent[l]
    BY <1>0, <1>5 DEF SetConcurrency, SlotsOK, Lanes
  <2> HIDE DEF slots
  <2>3. /\ Busy(post, g, slots)
        /\ \A l \in Lanes : l # g => post.queue[l] = State.queue[l] /\ post.active[l] = State.active[l]
        /\ \A k \in Globals : ~ HoldGlobal(post, k) \subseteq HoldGlobal(State, k)
                                 => k = g /\ post.active[g] <= slots
    BY <1>0, <2>1, PumpGlobalBusy
  <2> HIDE DEF post
  <2>4. \A l \in Lanes : Busy(post, l, maxConcurrent'[l])
    BY <1>0, <2>2, <2>3 DEF Busy
  <2>5. Result(post)
    BY <2>2, <2>3, <2>4
  <2> QED
    BY <2>5, <1>1
<1>6. ASSUME NEW s \in Sessions, ClearLane(s)
      PROVE  WorkConserving' /\ Within
  <2>1. /\ \A l \in Lanes : queue'[l] = queue[l] \/ queue'[l] = <<>>
        /\ active' = active /\ maxConcurrent' = maxConcurrent
        /\ \A r \in Runs : stage'[r] = "running" => stage[r] = "running"
    BY <1>0, <1>6 DEF ClearLane, Good, Shape, State
  <2>2. WorkConserving'
    BY <2>1 DEF WorkConserving
  <2>3. Within
    BY <2>1 DEF Within, GlobalHolders
  <2> QED
    BY <2>2, <2>3
<1>7. CASE UNCHANGED vars
  BY <1>7 DEF vars, WorkConserving, Within, GlobalHolders
<1> QED
  BY <1>2, <1>3, <1>4, <1>5, <1>6, <1>7 DEF Next

(* No wake-up is lost, for any number of lanes, runs and reconfigurations. *)
THEOREM NoLostWakeup == Spec => []WorkConserving
<1>1. Init => WorkConserving
  BY DEF Init, WorkConserving
<1>2. IInv /\ WorkConserving /\ [Next]_vars => WorkConserving'
  BY StepBusy
<1> QED
  BY <1>1, <1>2, InductiveInvariant, PTL DEF Spec

(* No task begins above the limit in force, whatever was running before.   *)
THEOREM LimitRespected == Spec => StartsWithinLimit
<1>1. IInv /\ WorkConserving /\ [Next]_vars => [Within]_vars
  BY StepBusy
<1>2. Spec => [][Within]_vars
  BY <1>1, InductiveInvariant, NoLostWakeup, PTL DEF Spec
<1> QED
  BY <1>2 DEF StartsWithinLimit, Within
-----------------------------------------------------------------------------
(***************************************************************************)
(* CommandLanes implements RunSerializer: every step of the lanes maps to  *)
(* a step of the serializer or to a stutter, for any finite set of runs    *)
(* and any lanes.  It needs two of the invariants above: IInv, of which    *)
(* the exclusion of a session's holders makes the admitted run unique, and *)
(* WorkConserving, without which a submitted run could overtake or start   *)
(* others.                                                                 *)
(***************************************************************************)

(* The runs of a session that wait in a global lane: at most one.          *)
AdmittedIn(st, s) == { r \in Runs : SessionOf[r] = s /\ st.stage[r] = "globalWait" }

FirstOf(A) == IF A = {} THEN <<>> ELSE << CHOOSE r \in A : TRUE >>

LineIn(st, s) == FirstOf(AdmittedIn(st, s)) \o st.queue[s]

LinesIn(st) == [s \in Sessions |-> LineIn(st, s)]

ExecutingIn(st) == { r \in Runs : st.stage[r] = "running" }

(* The refinement mapping is this mapping of the record of the variables.  *)
LEMMA MappedNow ==
  /\ [s \in Sessions |-> Admitted(s) \o queue[s]] = LinesIn(State)
  /\ { r \in Runs : stage[r] = "running" } = ExecutingIn(State)
BY DEF LinesIn, LineIn, FirstOf, AdmittedIn, ExecutingIn, Admitted, State

LEMMA MappedNext ==
  ASSUME NEW st, Become(st)
  PROVE  /\ [s \in Sessions |-> Admitted(s) \o queue[s]]' = LinesIn(st)
         /\ { r \in Runs : stage[r] = "running" }' = ExecutingIn(st)
<1>1. queue' = st.queue /\ stage' = st.stage
  BY DEF Become
<1> QED
  BY <1>1 DEF LinesIn, LineIn, FirstOf, AdmittedIn, ExecutingIn, Admitted

-----------------------------------------------------------------------------
(* A session has at most one holder.                                       *)
LEMMA OneHolder ==
  ASSUME NEW st, Good(st), NEW s \in Sessions,
         NEW r \in HoldSession(st, s), NEW t \in HoldSession(st, s)
  PROVE  r = t
<1>1. IsFiniteSet(HoldSession(st, s)) /\ Cardinality(HoldSession(st, s)) <= 1
  BY HoldersFinite DEF Good, Counted
<1>2. Cardinality(HoldSession(st, s)) = 0 \/ Cardinality(HoldSession(st, s)) = 1
  BY <1>1, FS_CardinalityType
<1>3. CASE Cardinality(HoldSession(st, s)) = 0
  BY <1>1, <1>3, FS_EmptySet
<1>4. CASE Cardinality(HoldSession(st, s)) = 1
  <2>1. PICK x : HoldSession(st, s) = {x}
    BY <1>1, <1>4, FS_Singleton
  <2> QED
    BY <2>1
<1> QED
  BY <1>2, <1>3, <1>4

(* A session without holders has a free slot and the other way round.      *)
LEMMA NoHolder ==
  ASSUME NEW st, Good(st), NEW s \in Sessions, st.active[s] < 1
  PROVE  HoldSession(st, s) = {}
<1>1. IsFiniteSet(HoldSession(st, s)) /\ Cardinality(HoldSession(st, s)) < 1
  BY HoldersFinite DEF Good, Counted
<1>2. Cardinality(HoldSession(st, s)) = 0
  BY <1>1, FS_CardinalityType
<1> QED
  BY <1>1, <1>2, FS_EmptySet

(* A line with an admitted run begins with that run.                       *)
LEMMA LineAdmitted ==
  ASSUME NEW st, Good(st), NEW s \in Sessions, NEW r \in AdmittedIn(st, s)
  PROVE  /\ LineIn(st, s) = <<r>> \o st.queue[s]
         /\ LineIn(st, s) # <<>>
         /\ Head(LineIn(st, s)) = r
         /\ Tail(LineIn(st, s)) = st.queue[s]
<1>1. st.queue[s] \in Seq(Runs) /\ r \in Runs
  BY DEF Good, Shape, Lanes, AdmittedIn
<1>2. AdmittedIn(st, s) \subseteq HoldSession(st, s)
  BY DEF AdmittedIn, HoldSession
<1>3. AdmittedIn(st, s) = {r}
  BY <1>2, OneHolder
<1>4. FirstOf(AdmittedIn(st, s)) = <<r>>
  BY <1>3 DEF FirstOf
<1>5. LineIn(st, s) = <<r>> \o st.queue[s]
  BY <1>4 DEF LineIn
<1> QED
  BY <1>1, <1>5

(* Without one it is the queue of the session lane.                        *)
LEMMA LineQueued ==
  ASSUME NEW st, Good(st), NEW s \in Sessions, AdmittedIn(st, s) = {}
  PROVE  LineIn(st, s) = st.queue[s]
<1>1. st.queue[s] \in Seq(Runs)
  BY DEF Good, Shape, Lanes
<1> QED
  BY <1>1 DEF LineIn, FirstOf

LEMMA LineType ==
  ASSUME NEW st, Good(st), NEW s \in Sessions
  PROVE  /\ FirstOf(AdmittedIn(st, s)) \in Seq(Runs)
         /\ Len(FirstOf(AdmittedIn(st, s))) \in 0..1
         /\ st.queue[s] \in Seq(Runs)
         /\ LineIn(st, s) \in Seq(Runs)
<1>1. st.queue[s] \in Seq(Runs)
  BY DEF Good, Shape, Lanes
<1>2. FirstOf(AdmittedIn(st, s)) \in Seq(Runs) /\ Len(FirstOf(AdmittedIn(st, s))) \in 0..1
  <2>1. CASE AdmittedIn(st, s) = {}
    BY <2>1 DEF FirstOf
  <2>2. CASE AdmittedIn(st, s) # {}
    <3>1. (CHOOSE r \in AdmittedIn(st, s) : TRUE) \in Runs
      BY <2>2 DEF AdmittedIn
    <3> QED
      BY <2>2, <3>1 DEF FirstOf
  <2> QED
    BY <2>1, <2>2
<1> QED
  BY <1>1, <1>2 DEF LineIn

-----------------------------------------------------------------------------
(* What a pump of a global lane does to the sessions.                      *)
Begun(st, g, slots) ==
  { st.queue[g][i] : i \in 1..Taken(Len(st.queue[g]), st.active[g], slots) }

LEMMA PumpGlobalBegins ==
  ASSUME NEW st, Good(st), NEW g \in Globals, NEW slots \in Nat
  PROVE  LET post == PumpGlobal(st, g, slots)
             begun == Begun(st, g, slots)
         IN /\ begun \subseteq { r \in Runs : st.stage[r] = "globalWait" }
            /\ post.stage = [r \in Runs |-> IF r \in begun THEN "running" ELSE st.stage[r]]
            /\ \A s \in Sessions : post.queue[s] = st.queue[s]
<1> DEFINE q == st.queue[g]
           n == Taken(Len(q), st.active[g], slots)
           post == PumpGlobal(st, g, slots)
<1>1. /\ st.queue \in [Lanes -> Seq(Runs)]
      /\ q \in Seq(Runs) /\ Len(q) \in Nat /\ st.active[g] \in Nat
      /\ g \in Lanes /\ g \notin Sessions
  BY LanesAssumption DEF Good, Shape, Lanes
<1>2. n \in 0..Len(q)
  BY <1>1, TakenFacts
<1>3. \A i \in 1..Len(q) : q[i] \in WaitIn(st, g)
  BY <1>1 DEF Good, LinedUp, Lists
<1>4. \A r \in WaitIn(st, g) : r \in Runs /\ st.stage[r] = "globalWait"
  BY <1>1, RoutesAssumption DEF WaitIn
<1>5. /\ post.queue = [st.queue EXCEPT ![g] = SubSeq(q, n + 1, Len(q))]
      /\ post.stage = [r \in Runs |-> IF r \in Begun(st, g, slots) THEN "running" ELSE st.stage[r]]
  BY DEF PumpGlobal, Begun
<1> HIDE DEF n, post, q
<1>6. \A i \in 1..n : i \in 1..Len(q)
  BY <1>1, <1>2
<1>7. Begun(st, g, slots) = { q[i] : i \in 1..n }
  BY DEF Begun, q, n
<1>8. Begun(st, g, slots) \subseteq { r \in Runs : st.stage[r] = "globalWait" }
  BY <1>3, <1>4, <1>6, <1>7
<1>9. \A s \in Sessions : post.queue[s] = st.queue[s]
  BY <1>1, <1>5 DEF Lanes
<1> QED
  BY <1>5, <1>8, <1>9 DEF post

(* The sessions of the runs that begin are idle; each loses the first of   *)
(* its line, and no other line changes.                                    *)
Advances(st, post, lucky) ==
  /\ lucky \subseteq Sessions
  /\ \A s \in lucky : /\ LineIn(st, s) # <<>>
                      /\ \A t \in Runs : st.stage[t] \in {"running", "released"} => SessionOf[t] # s
  /\ ExecutingIn(post) = ExecutingIn(st) \cup { Head(LineIn(st, s)) : s \in lucky }
  /\ LinesIn(post) = [s \in Sessions |-> IF s \in lucky THEN Tail(LineIn(st, s)) ELSE LineIn(st, s)]

LEMMA PumpGlobalAdvances ==
  ASSUME NEW st, Good(st), NEW g \in Globals, NEW slots \in Nat
  PROVE  \E lucky : Advances(st, PumpGlobal(st, g, slots), lucky)
<1> DEFINE post == PumpGlobal(st, g, slots)
           begun == Begun(st, g, slots)
           lucky == { SessionOf[r] : r \in begun }
<1>1. /\ begun \subseteq { r \in Runs : st.stage[r] = "globalWait" }
      /\ post.stage = [r \in Runs |-> IF r \in begun THEN "running" ELSE st.stage[r]]
      /\ \A s \in Sessions : post.queue[s] = st.queue[s]
  BY PumpGlobalBegins
<1>2. Good(post)
  BY PumpGlobalGood
<1> HIDE DEF post, begun
<1>3. lucky \subseteq Sessions
  BY <1>1, RoutesAssumption
<1>4. ASSUME NEW r \in begun
      PROVE  /\ r \in AdmittedIn(st, SessionOf[r]) /\ SessionOf[r] \in Sessions
             /\ LineIn(st, SessionOf[r]) # <<>>
             /\ Head(LineIn(st, SessionOf[r])) = r
             /\ Tail(LineIn(st, SessionOf[r])) = st.queue[SessionOf[r]]
  <2>1. r \in AdmittedIn(st, SessionOf[r]) /\ SessionOf[r] \in Sessions
    BY <1>1, RoutesAssumption DEF AdmittedIn
  <2> QED
    BY <2>1, LineAdmitted
<1>5. ASSUME NEW r \in begun, NEW t \in Runs, SessionOf[t] = SessionOf[r],
             st.stage[t] \in {"globalWait", "running", "released"}
      PROVE  t = r
  <2>1. r \in HoldSession(st, SessionOf[r]) /\ t \in HoldSession(st, SessionOf[r])
    BY <1>1, <1>5 DEF HoldSession
  <2> QED
    BY <2>1, <1>4, OneHolder
<1>6. ASSUME NEW s \in lucky
      PROVE  /\ LineIn(st, s) # <<>>
             /\ \A t \in Runs : st.stage[t] \in {"running", "released"} => SessionOf[t] # s
  <2>1. PICK r \in begun : s = SessionOf[r]
    OBVIOUS
  <2>2. st.stage[r] = "globalWait"
    BY <1>1
  <2> QED
    BY <2>1, <2>2, <1>4, <1>5
<1>7. ExecutingIn(post) = ExecutingIn(st) \cup begun
  BY <1>1 DEF ExecutingIn
<1>8. begun = { Head(LineIn(st, s)) : s \in lucky }
  BY <1>4
<1>9. ASSUME NEW s \in Sessions
      PROVE  LineIn(post, s) = IF s \in lucky THEN Tail(LineIn(st, s)) ELSE LineIn(st, s)
  <2>1. CASE s \in lucky
    <3>1. PICK r \in begun : s = SessionOf[r]
      BY <2>1
    <3>2. AdmittedIn(post, s) = {}
      <4>1. \A t \in Runs : SessionOf[t] = s /\ post.stage[t] = "globalWait" => t = r /\ t \notin begun
        BY <1>1, <1>5, <3>1
      <4> QED
        BY <4>1 DEF AdmittedIn
    <3>3. LineIn(post, s) = st.queue[s]
      BY <3>2, <1>1, <1>2, LineQueued
    <3> QED
      BY <2>1, <3>1, <3>3, <1>4
  <2>2. CASE s \notin lucky
    <3>1. AdmittedIn(post, s) = AdmittedIn(st, s)
      BY <1>1, <2>2 DEF AdmittedIn
    <3> QED
      BY <2>2, <3>1, <1>1 DEF LineIn
  <2> QED
    BY <2>1, <2>2
<1>10. LinesIn(post) = [s \in Sessions |-> IF s \in lucky THEN Tail(LineIn(st, s)) ELSE LineIn(st, s)]
  BY <1>9 DEF LinesIn
<1> HIDE DEF lucky
<1>11. Advances(st, post, lucky)
  BY <1>3, <1>6, <1>7, <1>8, <1>10 DEF Advances
<1> QED
  BY <1>11 DEF post

-----------------------------------------------------------------------------
(* The changes before the pumps.                                           *)

(* Taking a free session slot leaves every line as it is: the first of the *)
(* session's queue becomes the admitted run.                               *)
LEMMA PromotedKeepsLines ==
  ASSUME NEW st, Good(st), NEW s \in Sessions, st.active[s] < 1, st.queue[s] # <<>>
  PROVE  /\ LinesIn(Promoted(st, s)) = LinesIn(st)
         /\ ExecutingIn(Promoted(st, s)) = ExecutingIn(st)
<1> DEFINE post == Promoted(st, s)
           q == st.queue[s]
           r == Head(q)
           g == GlobalOf[r]
<1>1. /\ st.queue \in [Lanes -> Seq(Runs)]
      /\ st.stage \in [Runs -> Stage]
      /\ s \in Lanes /\ s \notin Globals /\ q \in Seq(Runs) /\ Lists(q, WaitIn(st, s))
  BY LanesAssumption DEF Good, Shape, LinedUp, Lanes
<1>2. r \in Runs /\ r \in WaitIn(st, s) /\ Good(post)
  BY <1>1, TailListed, PromotedGood
<1>3. SessionOf[r] = s /\ st.stage[r] = "sessionWait" /\ g \in Globals
  BY <1>1, <1>2, RoutesAssumption DEF WaitIn
<1>4. /\ post.queue = [[st.queue EXCEPT ![s] = Tail(q)] EXCEPT ![g] = Append(@, r)]
      /\ post.stage = [st.stage EXCEPT ![r] = "globalWait"]
  BY DEF Promoted
<1> HIDE DEF post, q, r, g
<1>5. ExecutingIn(post) = ExecutingIn(st)
  BY <1>1, <1>2, <1>3, <1>4 DEF ExecutingIn
<1>6. ASSUME NEW k \in Sessions
      PROVE  LineIn(post, k) = LineIn(st, k)
  <2>1. CASE k # s
    <3>1. post.queue[k] = st.queue[k]
      BY <2>1, <1>1, <1>3, <1>4, LanesAssumption DEF Lanes
    <3>2. AdmittedIn(post, k) = AdmittedIn(st, k)
      BY <2>1, <1>1, <1>2, <1>3, <1>4 DEF AdmittedIn
    <3> QED
      BY <3>1, <3>2 DEF LineIn
  <2>2. CASE k = s
    <3>1. AdmittedIn(st, s) = {}
      BY NoHolder DEF AdmittedIn, HoldSession
    <3>2. r \in AdmittedIn(post, s)
      BY <1>1, <1>2, <1>3, <1>4 DEF AdmittedIn
    <3>3. post.queue[s] = Tail(q)
      BY <1>1, <1>3, <1>4 DEF Lanes
    <3>4. LineIn(post, s) = <<r>> \o Tail(q)
      BY <3>2, <3>3, <1>2, LineAdmitted
    <3>5. <<r>> \o Tail(q) = q
      BY <1>1 DEF r, q
    <3> QED
      BY <2>2, <3>1, <3>4, <3>5, LineQueued DEF q
  <2> QED
    BY <2>1, <2>2
<1> QED
  BY <1>5, <1>6 DEF LinesIn, post

(* Giving back a global slot ends one run and leaves the lines.            *)
LEMMA GlobalReleasedMaps ==
  ASSUME NEW st, Good(st), NEW r \in Runs, st.stage[r] = "running"
  PROVE  /\ LinesIn(GlobalReleased(st, r)) = LinesIn(st)
         /\ ExecutingIn(GlobalReleased(st, r)) = ExecutingIn(st) \ {r}
<1> DEFINE post == GlobalReleased(st, r)
<1>1. st.stage \in [Runs -> Stage]
  BY DEF Good, Shape
<1>2. post.queue = st.queue /\ post.stage = [st.stage EXCEPT ![r] = "released"]
  BY DEF GlobalReleased
<1> HIDE DEF post
<1>3. \A s : AdmittedIn(post, s) = AdmittedIn(st, s)
  BY <1>1, <1>2 DEF AdmittedIn
<1>4. LinesIn(post) = LinesIn(st)
  BY <1>2, <1>3 DEF LinesIn, LineIn
<1>5. ExecutingIn(post) = ExecutingIn(st) \ {r}
  BY <1>1, <1>2 DEF ExecutingIn
<1> QED
  BY <1>4, <1>5 DEF post

(* Giving back a session slot is invisible.                                *)
LEMMA SessionReleasedMaps ==
  ASSUME NEW st, Good(st), NEW r \in Runs, st.stage[r] = "released"
  PROVE  /\ LinesIn(SessionReleased(st, r)) = LinesIn(st)
         /\ ExecutingIn(SessionReleased(st, r)) = ExecutingIn(st)
<1> DEFINE post == SessionReleased(st, r)
<1>1. st.stage \in [Runs -> Stage]
  BY DEF Good, Shape
<1>2. post.queue = st.queue /\ post.stage = [st.stage EXCEPT ![r] = "settled"]
  BY DEF SessionReleased
<1> HIDE DEF post
<1>3. \A s : AdmittedIn(post, s) = AdmittedIn(st, s)
  BY <1>1, <1>2 DEF AdmittedIn
<1>4. LinesIn(post) = LinesIn(st)
  BY <1>2, <1>3 DEF LinesIn, LineIn
<1>5. ExecutingIn(post) = ExecutingIn(st)
  BY <1>1, <1>2 DEF ExecutingIn
<1> QED
  BY <1>4, <1>5 DEF post

(* Joining a session lane's queue is joining the end of the line.          *)
LEMMA JoinedMaps ==
  ASSUME NEW st, Good(st), NEW r \in Runs, st.stage[r] = "new"
  PROVE  /\ LinesIn(Joined(st, r)) = [LinesIn(st) EXCEPT ![SessionOf[r]] = Append(@, r)]
         /\ ExecutingIn(Joined(st, r)) = ExecutingIn(st)
<1> DEFINE post == Joined(st, r)
           s == SessionOf[r]
<1>1. /\ st.stage \in [Runs -> Stage] /\ st.queue \in [Lanes -> Seq(Runs)]
      /\ s \in Sessions /\ s \in Lanes
  BY RoutesAssumption DEF Good, Shape, Lanes
<1>2. /\ post.queue = [st.queue EXCEPT ![s] = Append(st.queue[s], r)]
      /\ post.stage = [st.stage EXCEPT ![r] = "sessionWait"]
  BY DEF Joined
<1> HIDE DEF post, s
<1>3. \A k : AdmittedIn(post, k) = AdmittedIn(st, k)
  BY <1>1, <1>2 DEF AdmittedIn
<1>4. ExecutingIn(post) = ExecutingIn(st)
  BY <1>1, <1>2 DEF ExecutingIn
<1>5. LineIn(post, s) = Append(LineIn(st, s), r)
  <2> DEFINE a == FirstOf(AdmittedIn(st, s))
             q == st.queue[s]
  <2>1. a \in Seq(Runs) /\ q \in Seq(Runs)
    BY <1>1, LineType
  <2>2. LineIn(post, s) = a \o Append(q, r) /\ LineIn(st, s) = a \o q
    BY <1>1, <1>2, <1>3 DEF LineIn
  <2> HIDE DEF a, q
  <2>3. a \o Append(q, r) = Append(a \o q, r)
    BY <2>1
  <2> QED
    BY <2>2, <2>3
<1>6. \A k \in Sessions : k # s => LineIn(post, k) = LineIn(st, k)
  BY <1>1, <1>2, <1>3 DEF LineIn, Lanes
<1>7. LinesIn(post) = [LinesIn(st) EXCEPT ![s] = Append(@, r)]
  BY <1>1, <1>5, <1>6 DEF LinesIn
<1> QED
  BY <1>4, <1>7 DEF post, s

-----------------------------------------------------------------------------
(* The actions.                                                            *)

(* Lanes that only begin runs, after at most one run ended, advance.       *)
LEMMA AdvanceMaps ==
  ASSUME NEW ended \in { {} } \cup { {r} : r \in ExecutingIn(State) },
         NEW mid, NEW post, NEW lucky, Become(post), Advances(mid, post, lucky),
         LinesIn(mid) = LinesIn(State),
         ExecutingIn(mid) = ExecutingIn(State) \ ended,
         \A r \in ended : mid.stage[r] = "released"
  PROVE  Serializer!Next
<1> DEFINE L == LinesIn(State)
           X == ExecutingIn(State)
<1>1. \A s \in Sessions : LineIn(mid, s) = L[s]
  BY DEF LinesIn
<1>2. \A r \in X : r \in Runs /\ mid.stage[r] \in {"running", "released"}
  BY DEF ExecutingIn
<1>3. \A s \in lucky : L[s] # <<>> /\ \A r \in X : SessionOf[r] # s
  BY <1>1, <1>2 DEF Advances
<1>4. ExecutingIn(post) = (X \ ended) \cup { Head(L[s]) : s \in lucky }
  BY <1>1 DEF Advances
<1>5. LinesIn(post) = [s \in Sessions |-> IF s \in lucky THEN Tail(L[s]) ELSE L[s]]
  BY <1>1 DEF Advances
<1>6. lucky \in SUBSET Sessions
  BY DEF Advances
<1> HIDE DEF L, X
<1>7. Serializer!Advance(ended, lucky)
  <2> DEFINE line == [s \in Sessions |-> Admitted(s) \o queue[s]]
             executing == { r \in Runs : stage[r] = "running" }
  <2>1. /\ line = L /\ executing = X
        /\ line' = LinesIn(post) /\ executing' = ExecutingIn(post)
    BY MappedNow, MappedNext DEF L, X
  <2> HIDE DEF line, executing
  <2>2. /\ \A s \in lucky : line[s] # <<>> /\ \A r \in executing : SessionOf[r] # s
        /\ executing' = (executing \ ended) \cup { Head(line[s]) : s \in lucky }
        /\ line' = [s \in Sessions |-> IF s \in lucky THEN Tail(line[s]) ELSE line[s]]
    BY <1>3, <1>4, <1>5, <2>1
  <2> USE DEF line, executing
  <2> QED
    BY <2>2 DEF Serializer!Advance, Serializer!Idle
<1>8. ended \in { {} } \cup { {r} : r \in { r \in Runs : stage[r] = "running" } }
  BY MappedNow
<1> QED
  BY <1>6, <1>7, <1>8 DEF Serializer!Next

LEMMA FinishMaps ==
  ASSUME IInv, NEW r \in Runs, Finish(r)
  PROVE  Serializer!Next
<1> DEFINE g == GlobalOf[r]
           mid == GlobalReleased(State, r)
           post == PumpGlobal(mid, g, maxConcurrent[g])
<1>1. State.stage[r] = "running" /\ g \in Globals /\ maxConcurrent[g] \in Nat
  BY RoutesAssumption DEF Finish, State, IInv, SlotsOK, Lanes
<1>2. /\ Good(mid) /\ LinesIn(mid) = LinesIn(State)
      /\ ExecutingIn(mid) = ExecutingIn(State) \ {r}
  BY <1>1, GlobalReleasedGood, GlobalReleasedMaps DEF IInv
<1>3. Become(post)
  BY DEF Finish, GlobalReleased, State
<1>4. mid.stage[r] = "released"
  BY DEF GlobalReleased, IInv, Good, Shape
<1> HIDE DEF mid, g
<1>5. PICK lucky : Advances(mid, post, lucky)
  BY <1>1, <1>2, PumpGlobalAdvances
<1>6. {r} \in { {} } \cup { {t} : t \in ExecutingIn(State) }
  BY <1>1 DEF ExecutingIn
<1> HIDE DEF post
<1>7. \A t \in {r} : mid.stage[t] = "released"
  BY <1>4
<1> QED
  BY <1>2, <1>3, <1>5, <1>6, <1>7, AdvanceMaps

LEMMA SetConcurrencyMaps ==
  ASSUME IInv, NEW g \in Globals, NEW n \in Limits, SetConcurrency(g, n)
  PROVE  Serializer!Next
<1> DEFINE post == PumpGlobal(State, g, AtLeastOne(n))
<1>1. AtLeastOne(n) \in Nat
  BY LimitsAssumption DEF AtLeastOne
<1>2. PICK lucky : Advances(State, post, lucky)
  BY <1>1, PumpGlobalAdvances DEF IInv
<1>3. Become(post)
  BY DEF SetConcurrency
<1> HIDE DEF post
<1>4. {} \in { {} } \cup { {t} : t \in ExecutingIn(State) }
  OBVIOUS
<1>5. ExecutingIn(State) = ExecutingIn(State) \ {}
  OBVIOUS
<1>6. \A t \in {} : State.stage[t] = "released"
  OBVIOUS
<1> QED
  BY <1>2, <1>3, <1>4, <1>5, <1>6, AdvanceMaps

LEMMA SettleMaps ==
  ASSUME IInv, NEW r \in Runs, Settle(r)
  PROVE  [Serializer!Next]_Serializer!vars
<1> DEFINE s == SessionOf[r]
           pre == SessionReleased(State, r)
           post == PumpSession(pre, s)
<1>1. State.stage[r] = "released" /\ s \in Sessions /\ SlotsOK
  BY RoutesAssumption DEF Settle, State, IInv
<1>2. /\ Good(pre) /\ LinesIn(pre) = LinesIn(State)
      /\ ExecutingIn(pre) = ExecutingIn(State)
  BY <1>1, SessionReleasedGood, SessionReleasedMaps DEF IInv
<1>3. Become(post)
  BY DEF Settle, SessionReleased, State
<1> HIDE DEF pre, s
<1>4. CASE pre.active[s] < maxConcurrent[s] /\ pre.queue[s] # <<>>
  <2> DEFINE t == Head(pre.queue[s])
             g == GlobalOf[t]
             mid == Promoted(pre, s)
  <2>1. pre.active[s] < 1
    BY <1>1, <1>4 DEF SlotsOK
  <2>2. Good(mid) /\ t \in Runs /\ LinesIn(mid) = LinesIn(pre) /\ ExecutingIn(mid) = ExecutingIn(pre)
    BY <1>1, <1>2, <1>4, <2>1, PromotedGood, PromotedKeepsLines
  <2>3. g \in Globals /\ maxConcurrent[g] \in Nat
    BY <1>1, <2>2, RoutesAssumption DEF SlotsOK, Lanes
  <2>4. post = PumpGlobal(mid, g, maxConcurrent[g])
    BY <1>4 DEF PumpSession, EnqueueGlobal, Promoted
  <2> HIDE DEF mid, g, t, post
  <2>5. PICK lucky : Advances(mid, post, lucky)
    BY <2>2, <2>3, <2>4, PumpGlobalAdvances
  <2>6. /\ {} \in { {} } \cup { {x} : x \in ExecutingIn(State) }
        /\ ExecutingIn(mid) = ExecutingIn(State) \ {}
        /\ \A x \in {} : mid.stage[x] = "released"
    BY <1>2, <2>2
  <2> QED
    BY <1>2, <1>3, <2>2, <2>5, <2>6, AdvanceMaps
<1>5. CASE ~ (pre.active[s] < maxConcurrent[s] /\ pre.queue[s] # <<>>)
  <2>1. post = pre
    BY <1>5 DEF PumpSession
  <2> QED
    BY <1>2, <1>3, <2>1, MappedNow, MappedNext DEF Serializer!vars
<1> QED
  BY <1>4, <1>5

LEMMA ClearLaneMaps ==
  ASSUME IInv, NEW s \in Sessions, ClearLane(s)
  PROVE  Serializer!Next
<1> DEFINE gone == { queue[s][i] : i \in DOMAIN queue[s] }
           post == [ queue  |-> [queue EXCEPT ![s] = <<>>],
                     active |-> active,
                     stage  |-> [r \in Runs |-> IF r \in gone THEN "dropped" ELSE stage[r]] ]
           a == FirstOf(AdmittedIn(State, s))
           q == State.queue[s]
<1>1. /\ queue \in [Lanes -> Seq(Runs)] /\ Good(State)
      /\ s \in Lanes /\ s \notin Globals
      /\ DOMAIN queue[s] = 1..Len(queue[s])
      /\ q = queue[s]
  BY LanesAssumption DEF IInv, Good, Shape, State, Lanes
<1>2. \A r \in gone : r \in Runs /\ stage[r] = "sessionWait"
  <2>1. \A i \in 1..Len(queue[s]) : queue[s][i] \in WaitIn(State, s)
    BY <1>1 DEF Good, LinedUp, Lists, State
  <2>2. \A r \in WaitIn(State, s) : r \in Runs /\ stage[r] = "sessionWait"
    BY <1>1, RoutesAssumption DEF WaitIn, State
  <2> QED
    BY <1>1, <2>1, <2>2
<1>3. Become(post)
  BY DEF Become, ClearLane
<1>4. \A k : AdmittedIn(post, k) = AdmittedIn(State, k)
  BY <1>2 DEF AdmittedIn, State
<1>5. ExecutingIn(post) = ExecutingIn(State)
  BY <1>2 DEF ExecutingIn, State
<1>6. /\ post.queue[s] = <<>>
      /\ \A k \in Sessions : k # s => post.queue[k] = State.queue[k]
  BY <1>1 DEF State, Lanes
<1> HIDE DEF post, gone
<1>7. /\ a \in Seq(Runs) /\ Len(a) \in 0..1 /\ q \in Seq(Runs)
      /\ LineIn(State, s) = a \o q
  BY <1>1, LineType DEF LineIn
<1>8. LineIn(post, s) = a \o <<>>
  BY <1>4, <1>6 DEF LineIn
<1>9. \A k \in Sessions : k # s => LineIn(post, k) = LineIn(State, k)
  BY <1>4, <1>6 DEF LineIn
<1> HIDE DEF a, q
<1>10. a \o <<>> = SubSeq(a \o q, 1, Len(a)) /\ Len(a) <= Len(a \o q)
  BY <1>7
<1>11. LinesIn(post) = [LinesIn(State) EXCEPT ![s] = SubSeq(@, 1, Len(a))]
  BY <1>7, <1>8, <1>9, <1>10 DEF LinesIn
<1>12. Len(a) <= Len(LinesIn(State)[s])
  BY <1>7, <1>10 DEF LinesIn
<1>13. Serializer!Cut(s)
  BY <1>3, <1>5, <1>7, <1>11, <1>12, MappedNow, MappedNext DEF Serializer!Cut
<1> QED
  BY <1>13 DEF Serializer!Next

(* A submitted run joins the line, admitted or not, or begins at once: the *)
(* pump of the global lane starts no other run, because before the step no *)
(* lane slept on a free slot.                                              *)
LEMMA SubmitMaps ==
  ASSUME IInv, WorkConserving, NEW r \in Runs, Submit(r)
  PROVE  Serializer!Next
<1> DEFINE s == SessionOf[r]
           g == GlobalOf[r]
           slots == maxConcurrent[g]
           pre == Joined(State, r)
           mid == Promoted(pre, s)
           post == PumpSession(pre, s)
           L == LinesIn(State)
           X == ExecutingIn(State)
<1>1. /\ State.stage[r] = "new" /\ s \in Sessions /\ g \in Globals /\ g # s
      /\ s \in Lanes /\ g \in Lanes
      /\ slots \in Nat \ {0} /\ maxConcurrent[s] = 1
      /\ Good(State) /\ SlotsOK
  BY RoutesAssumption, LanesAssumption DEF Submit, State, IInv, SlotsOK, Lanes
<1>2. /\ Good(pre)
      /\ LinesIn(pre) = [L EXCEPT ![s] = Append(@, r)]
      /\ ExecutingIn(pre) = X
  BY <1>1, JoinedGood, JoinedMaps
<1>3. Become(post)
  BY DEF Submit, Joined, State
<1>4. /\ State.queue \in [Lanes -> Seq(Runs)] /\ State.active \in [Lanes -> Nat]
      /\ State.stage \in [Runs -> Stage]
  BY <1>1 DEF Good, Shape
<1>5. /\ pre.queue = [State.queue EXCEPT ![s] = Append(State.queue[s], r)]
      /\ pre.active = State.active
      /\ pre.stage = [State.stage EXCEPT ![r] = "sessionWait"]
  BY DEF Joined
<1> HIDE DEF pre, post, s, g, slots
(* Either the run joins the end of the line ...                            *)
<1>6. ASSUME LinesIn(post) = [L EXCEPT ![s] = Append(@, r)], ExecutingIn(post) = X
      PROVE  Serializer!Next
  <2>1. Serializer!Submit(r)
    BY <1>3, <1>6, MappedNow, MappedNext DEF Serializer!Submit, s
  <2> QED
    BY <2>1 DEF Serializer!Next
(* ... or it begins, its session idle and nobody in line.                  *)
<1>7. ASSUME L[s] = <<>>, \A t \in X : SessionOf[t] # s,
             LinesIn(post) = L, ExecutingIn(post) = X \cup {r}
      PROVE  Serializer!Next
  <2>1. Serializer!Submit(r)
    BY <1>3, <1>7, MappedNow, MappedNext DEF Serializer!Submit, Serializer!Idle, s
  <2> QED
    BY <2>1 DEF Serializer!Next
<1>8. CASE ~ (pre.active[s] < maxConcurrent[s] /\ pre.queue[s] # <<>>)
  <2>1. post = pre
    BY <1>8 DEF PumpSession, post
  <2> QED
    BY <2>1, <1>2, <1>6
<1>9. CASE pre.active[s] < maxConcurrent[s] /\ pre.queue[s] # <<>>
  <2>1. State.active[s] < 1 /\ pre.active[s] < 1
    BY <1>1, <1>5, <1>9
  <2>2. State.queue[s] = <<>>
    BY <2>1, <1>1, <1>4 DEF WorkConserving, State
  <2>3. pre.queue[s] = <<r>> /\ Head(pre.queue[s]) = r /\ Tail(pre.queue[s]) = <<>>
        /\ pre.queue[g] = State.queue[g]
    BY <2>2, <1>1, <1>4, <1>5
  <2>4. /\ Good(mid) /\ LinesIn(mid) = LinesIn(pre) /\ ExecutingIn(mid) = X
    BY <1>1, <1>2, <1>9, <2>1, PromotedGood, PromotedKeepsLines
  <2>5. /\ mid.queue = [[pre.queue EXCEPT ![s] = <<>>] EXCEPT ![g] = Append(@, r)]
        /\ mid.active = [pre.active EXCEPT ![s] = @ + 1]
        /\ mid.stage = [pre.stage EXCEPT ![r] = "globalWait"]
    BY <2>3 DEF Promoted, g
  <2>6. post = PumpGlobal(mid, g, slots)
    BY <1>9, <2>3 DEF PumpSession, EnqueueGlobal, Promoted, post, g, slots
  <2> HIDE DEF mid
  <2>7. /\ mid.queue[s] = <<>> /\ mid.queue[g] = Append(State.queue[g], r)
        /\ mid.active[g] = State.active[g]
        /\ mid.stage[r] = "globalWait"
    BY <1>1, <1>4, <1>5, <2>3, <2>5
  <2>8. Begun(mid, g, slots) \subseteq {r}
    <3>1. CASE State.queue[g] # <<>>
      <4>1. mid.active[g] >= slots
        BY <3>1, <2>7, <1>1 DEF WorkConserving, State, slots
      <4>2. Taken(Len(mid.queue[g]), mid.active[g], slots) = 0
        BY <4>1 DEF Taken
      <4> QED
        BY <4>2 DEF Begun
    <3>2. CASE State.queue[g] = <<>>
      <4>1. mid.queue[g] = <<r>> /\ Len(mid.queue[g]) = 1
        BY <3>2, <2>7
      <4>2. Taken(1, mid.active[g], slots) \in 0..1
        BY <1>1, <1>4, <2>7, TakenFacts
      <4>3. \A i \in 1..Taken(1, mid.active[g], slots) : i = 1
        BY <4>2
      <4> QED
        BY <4>1, <4>3 DEF Begun
    <3> QED
      BY <3>1, <3>2
  <2>9. /\ Good(post)
        /\ post.stage = [t \in Runs |-> IF t \in Begun(mid, g, slots) THEN "running" ELSE mid.stage[t]]
        /\ \A k \in Sessions : post.queue[k] = mid.queue[k]
    BY <1>1, <2>4, <2>6, PumpGlobalBegins, PumpGlobalGood
  <2>10. HoldSession(State, s) = {}
    BY <1>1, <2>1, NoHolder
  <2>11. LineIn(State, s) = <<>> /\ \A t \in X : SessionOf[t] # s
    <3>1. AdmittedIn(State, s) = {}
      BY <2>10 DEF AdmittedIn, HoldSession
    <3>2. LineIn(State, s) = <<>>
      BY <1>1, <2>2, <3>1, LineQueued
    <3>3. \A t \in X : SessionOf[t] # s
      BY <2>10 DEF ExecutingIn, HoldSession
    <3> QED
      BY <3>2, <3>3
  <2> HIDE DEF L, X
  <2>12. CASE Begun(mid, g, slots) = {}
    <3>1. post.stage = [t \in Runs |-> mid.stage[t]]
      BY <2>9, <2>12
    <3>2. \A k : AdmittedIn(post, k) = AdmittedIn(mid, k)
      BY <3>1 DEF AdmittedIn
    <3>3. LinesIn(post) = LinesIn(mid)
      BY <3>2, <2>9 DEF LinesIn, LineIn
    <3>4. ExecutingIn(post) = ExecutingIn(mid)
      BY <3>1 DEF ExecutingIn
    <3> QED
      BY <3>3, <3>4, <2>4, <1>2, <1>6
  <2>13. CASE Begun(mid, g, slots) = {r}
    <3>1. post.stage = [t \in Runs |-> IF t = r THEN "running" ELSE mid.stage[t]]
      BY <2>9, <2>13
    <3>2. ExecutingIn(post) = X \cup {r}
      BY <3>1, <2>4 DEF ExecutingIn
    <3>3. LineIn(post, s) = <<>>
      <4>1. r \in HoldSession(mid, s)
        BY <2>7 DEF HoldSession, s
      <4>2. \A t \in AdmittedIn(mid, s) : t = r
        BY <4>1, <1>1, <2>4, OneHolder DEF AdmittedIn, HoldSession
      <4>3. AdmittedIn(post, s) = {}
        BY <3>1, <4>2 DEF AdmittedIn
      <4> QED
        BY <4>3, <1>1, <2>7, <2>9, LineQueued
    <3>4. ASSUME NEW k \in Sessions, k # s
          PROVE  LineIn(post, k) = LineIn(State, k)
      <4>1. AdmittedIn(post, k) = AdmittedIn(mid, k)
        BY <3>1, <3>4 DEF AdmittedIn, s
      <4>2. LineIn(post, k) = LineIn(mid, k)
        BY <4>1, <2>9 DEF LineIn
      <4>3. LineIn(mid, k) = LinesIn(mid)[k] /\ LineIn(State, k) = L[k] /\ DOMAIN L = Sessions
        BY DEF LinesIn, L
      <4> QED
        BY <3>4, <4>2, <4>3, <2>4, <1>2
    <3>5. LinesIn(post) = L
      BY <3>3, <3>4, <2>11 DEF LinesIn, L
    <3>6. L[s] = <<>>
      BY <2>11, <1>1 DEF LinesIn, L
    <3> QED
      BY <3>2, <3>5, <3>6, <2>11, <1>7
  <2> QED
    BY <2>8, <2>12, <2>13
<1> QED
  BY <1>8, <1>9

-----------------------------------------------------------------------------
LEMMA InitMaps == Init => Serializer!Init
<1> SUFFICES ASSUME Init PROVE Serializer!Init
  OBVIOUS
<1>1. \A s \in Sessions : queue[s] = <<>> /\ Admitted(s) = <<>>
  BY DEF Init, Admitted, Lanes
<1>2. \A s \in Sessions : Admitted(s) \o queue[s] = <<>>
  BY <1>1
<1>3. { r \in Runs : stage[r] = "running" } = {}
  BY DEF Init
<1> QED
  BY <1>2, <1>3 DEF Serializer!Init

LEMMA StepMaps == IInv /\ WorkConserving /\ [Next]_vars => [Serializer!Next]_Serializer!vars
<1> SUFFICES ASSUME IInv, WorkConserving, [Next]_vars
             PROVE  [Serializer!Next]_Serializer!vars
  OBVIOUS
<1>1. ASSUME NEW r \in Runs, Submit(r) PROVE Serializer!Next
  BY <1>1, SubmitMaps
<1>2. ASSUME NEW r \in Runs, Finish(r) PROVE Serializer!Next
  BY <1>2, FinishMaps
<1>3. ASSUME NEW r \in Runs, Settle(r) PROVE [Serializer!Next]_Serializer!vars
  BY <1>3, SettleMaps
<1>4. ASSUME NEW g \in Globals, NEW n \in Limits, SetConcurrency(g, n) PROVE Serializer!Next
  BY <1>4, SetConcurrencyMaps
<1>5. ASSUME NEW s \in Sessions, ClearLane(s) PROVE Serializer!Next
  BY <1>5, ClearLaneMaps
<1>6. CASE UNCHANGED vars
  BY <1>6 DEF vars, Serializer!vars, Admitted
<1> QED
  BY <1>1, <1>2, <1>3, <1>4, <1>5, <1>6 DEF Next

(* The two-level lanes implement the serializer, whatever the lanes, their *)
(* limits and the number of runs: per session, runs execute one at a time  *)
(* in the order in which runEmbeddedPiAgent was called for them.           *)
THEOREM LanesSerialize == Spec => ImplementsSerializer
<1>1. Spec => []IInv /\ []WorkConserving
  BY InductiveInvariant, NoLostWakeup
<1> QED
  BY <1>1, InitMaps, StepMaps, PTL DEF Spec, ImplementsSerializer, Serializer!Spec

-----------------------------------------------------------------------------
(* Announcements.                                                          *)

(* A step of the composition is a step of the lanes or leaves them alone.  *)
LEMMA StepOfLanes == [AnnounceNext]_allVars => [Next]_vars
<1> SUFFICES ASSUME [AnnounceNext]_allVars PROVE [Next]_vars
  OBVIOUS
<1>1. CASE \E s \in Sessions : Throws(s) \/ Returns(s) \/ Wake(s)
  BY <1>1 DEF Throws, Returns, Wake
<1>2. CASE \E a \in Announcements : Accept(a)
  BY <1>2, AnnouncementsAssumption DEF Accept, Next
<1>3. CASE \E r \in Runs : LaneServes(r)
  BY <1>3 DEF LaneServes, Next
<1>4. CASE \E a \in Announcements : Steer(a) \/ Direct(a) \/ Enqueue(a)
  BY <1>4 DEF Steer, Direct, Enqueue
<1>5. CASE Others
  BY <1>5 DEF Others, Next
<1>6. CASE UNCHANGED allVars
  BY <1>6 DEF allVars
<1> QED
  BY <1>1, <1>2, <1>3, <1>4, <1>5, <1>6 DEF AnnounceNext, Progress, Outside

(* The queue of announcements only submits runs: what is proved of the     *)
(* lanes for arbitrary callers holds with it.                              *)
THEOREM AnnouncementsUseLanes == AnnounceSpec => Spec
<1>1. AnnounceInit => Init
  BY DEF AnnounceInit
<1> QED
  BY <1>1, StepOfLanes, PTL DEF AnnounceSpec, Spec

-----------------------------------------------------------------------------
(* Taking the first announcements off a list.                              *)
LEMMA RestAnnounced ==
  ASSUME NEW q \in Seq(Announcements), NEW n \in 0..Len(q), NEW W, Lists(q, W)
  PROVE  LET first == { q[i] : i \in 1..n }
             rest == SubSeq(q, n + 1, Len(q))
         IN /\ rest \in Seq(Announcements)
            /\ Len(rest) = Len(q) - n
            /\ Lists(rest, W \ first)
            /\ first \subseteq W
            /\ IsFiniteSet(first) /\ Cardinality(first) = n
BY RestListed, ZenonT(60)

-----------------------------------------------------------------------------
(* The inductive invariant.                                                *)

QueueType ==
  [items : Seq(Announcements), cap : Nat \ {0}, mode : Modes, drop : Drops,
   dropped : Nat, summary : Seq(Announcements)]

DrainType == [pc : {"off", "debounce", "send", "spin"}, force : BOOLEAN, item : SUBSET Announcements]

Queued(s) == { a \in Announcements : SessionOf[a] = s /\ fate[a] = "queued" }

(* The queue lists W, and has dropped and not told U.                      *)
Tidy(q, W, U) ==
  /\ q \in QueueType
  /\ Lists(q.items, W)
  /\ q.dropped = Cardinality(U)
  /\ \A i \in 1..Len(q.summary) : q.summary[i] \in U

Typed ==
  /\ announces \in [Sessions -> QueueType]
  /\ drain \in [Sessions -> DrainType]
  /\ call \in [Announcements -> Call]
  /\ fate \in [Announcements -> Fate]

QueuesTidy == \A s \in Sessions : Tidy(announces[s], Queued(s), Untold(s))

Drained == \A s \in Sessions : HasWork(announces[s]) => drain[s].pc # "off"

(* What a call carries has left the queue, so no other call takes it.      *)
CallsTold ==
  \A c \in Announcements :
    /\ \A x \in call[c].own : fate[x] \in {"direct", "told"}
    /\ \A x \in call[c].counted : fate[x] = "summarized"

Told(c) == call[c].own \cup call[c].counted

CallsApart == \A c, d \in Announcements : c # d => Told(c) \cap Told(d) = {}

SameRoute(own) ==
  \A x, y \in own : RouteOf[x] = RouteOf[y] /\ (x # y => RouteOf[x] # Unroutable)

OneRoute == \A c \in Announcements : c \in call[c].own => SameRoute(call[c].own)

AInv == Typed /\ QueuesTidy /\ Drained /\ CallsTold /\ CallsApart /\ OneRoute

-----------------------------------------------------------------------------
(* Queues.                                                                 *)

LEMMA AnnouncementsFinite ==
  ASSUME NEW U \in SUBSET Announcements
  PROVE  IsFiniteSet(U)
BY FS_Subset, RunsAssumption, AnnouncementsAssumption

(* A queue without its first item.                                         *)
LEMMA HeadTidy ==
  ASSUME NEW q, NEW W, NEW U, Tidy(q, W, U), q.items # <<>>
  PROVE  /\ Head(q.items) \in W
         /\ Tidy([q EXCEPT !.items = Tail(@)], W \ {Head(q.items)}, U)
<1>1. q \in QueueType /\ q.items \in Seq(Announcements) /\ q.items \in Seq(Runs)
  BY AnnouncementsAssumption DEF Tidy, QueueType
<1>2. /\ Head(q.items) \in W
      /\ Lists(Tail(q.items), W \ {Head(q.items)})
  BY <1>1, TailListed DEF Tidy
<1>3. Tail(q.items) \in Seq(Announcements)
  BY <1>1
<1> QED
  BY <1>1, <1>2, <1>3 DEF Tidy, QueueType

(* An emptied queue.                                                       *)
LEMMA EmptiedTidy ==
  ASSUME NEW q, NEW W, NEW U, Tidy(q, W, U)
  PROVE  Tidy([q EXCEPT !.items = <<>>], {}, U)
<1>1. q \in QueueType
  BY DEF Tidy
<1>2. <<>> \in Seq(Announcements) /\ Lists(<<>>, {})
  BY DEF Lists
<1> QED
  BY <1>1, <1>2 DEF Tidy, QueueType

(* A summary is built.                                                     *)
LEMMA SummarizedTidy ==
  ASSUME NEW q, NEW W, NEW U, Tidy(q, W, U)
  PROVE  Tidy(Summarized(q), W, IF CanSummarize(q) THEN {} ELSE U)
<1>1. CASE ~ CanSummarize(q)
  BY <1>1 DEF Summarized
<1>2. CASE CanSummarize(q)
  <2>1. q \in QueueType /\ Summarized(q) = [q EXCEPT !.dropped = 0, !.summary = <<>>]
    BY <1>2 DEF Tidy, Summarized
  <2>2. 0 = Cardinality({})
    BY FS_EmptySet
  <2>3. <<>> \in Seq(Announcements)
    OBVIOUS
  <2>4. /\ Summarized(q) \in QueueType
        /\ Summarized(q).items = q.items
        /\ Summarized(q).dropped = 0 /\ Summarized(q).summary = <<>>
    <3> DEFINE e == <<>>
    <3>1. e \in Seq(Announcements)
      BY <2>3
    <3> HIDE DEF e
    <3>2. Summarized(q) = [q EXCEPT !.dropped = 0, !.summary = e]
      BY <2>1 DEF e
    <3>3. q \in QueueType
      BY <2>1
    <3>4. [q EXCEPT !.dropped = 0, !.summary = e] \in QueueType
      BY <3>1, <3>3 DEF QueueType
    <3>5. /\ Summarized(q).items = q.items
          /\ Summarized(q).dropped = 0 /\ Summarized(q).summary = e
      BY <3>2, <3>3 DEF QueueType
    <3> QED
      BY <3>2, <3>4, <3>5 DEF e
  <2>5. Lists(Summarized(q).items, W)
    BY <2>4 DEF Tidy
  <2> QED
    BY <1>2, <2>2, <2>4, <2>5 DEF Tidy
<1> QED
  BY <1>1, <1>2

(* The items of a queue.                                                   *)
LEMMA ItemsListed ==
  ASSUME NEW q, NEW W, q.items \in Seq(Announcements), Lists(q.items, W)
  PROVE  ItemsOf(q) = W
BY DEF ItemsOf, Lists

(* The drop policy takes items off, and counts them when it summarizes.    *)
LEMMA DropTidy ==
  ASSUME NEW q, NEW W \in SUBSET Announcements, NEW U \in SUBSET Announcements,
         W \cap U = {}, Tidy(q, W, U)
  PROVE  LET kept == DropOldest(q)
             gone == ItemsOf(q) \ ItemsOf(kept)
         IN /\ gone \subseteq W
            /\ Tidy(kept, W \ gone, IF q.drop = "summarize" THEN U \cup gone ELSE U)
<1> DEFINE kept == DropOldest(q)
           gone == ItemsOf(q) \ ItemsOf(kept)
           n == IF Overflow(q) THEN Len(q.items) - q.cap + 1 ELSE 0
           first == { q.items[i] : i \in 1..n }
           rest == SubSeq(q.items, n + 1, Len(q.items))
           lines == q.summary \o SubSeq(q.items, 1, n)
           excess == IF Len(lines) > q.cap THEN Len(lines) - q.cap ELSE 0
           told == SubSeq(lines, excess + 1, Len(lines))
<1>0. /\ q \in QueueType
      /\ q.items \in Seq(Announcements) /\ q.cap \in Nat /\ q.cap >= 1
      /\ q.dropped \in Nat /\ q.summary \in Seq(Announcements)
      /\ Len(q.items) \in Nat
  BY DEF Tidy, QueueType
<1>1. n \in 0..Len(q.items)
  BY <1>0 DEF Overflow
<1> HIDE DEF n
<1>2. /\ rest \in Seq(Announcements)
      /\ Lists(rest, W \ first)
      /\ first \subseteq W
      /\ IsFiniteSet(first) /\ Cardinality(first) = n
  BY <1>0, <1>1, RestAnnounced DEF Tidy
<1>3. /\ kept.items = rest
      /\ kept.cap = q.cap /\ kept.mode = q.mode /\ kept.drop = q.drop
      /\ q.drop = "summarize" => kept.dropped = q.dropped + n /\ kept.summary = told
      /\ q.drop # "summarize" => kept.dropped = q.dropped /\ kept.summary = q.summary
  BY <1>0 DEF DropOldest, QueueType, n
<1>4. gone = first
  <2> HIDE DEF kept, rest
  <2>1. ItemsOf(q) = W
    BY <1>0, ItemsListed DEF Tidy
  <2>2. ItemsOf(kept) = W \ first
    BY <1>2, <1>3, ItemsListed
  <2> QED
    BY <2>1, <2>2, <1>2
<1>5. ASSUME q.drop # "summarize"
      PROVE  Tidy(kept, W \ gone, U)
  <2>1. kept = [q EXCEPT !.items = rest]
    BY <1>5, <1>0 DEF DropOldest, QueueType, n
  <2>2. kept \in QueueType
    BY <2>1, <1>0, <1>2 DEF QueueType
  <2> HIDE DEF kept, gone, rest, first
  <2> QED
    BY <1>2, <1>3, <1>4, <1>5, <2>2 DEF Tidy
<1>6. ASSUME q.drop = "summarize"
      PROVE  Tidy(kept, W \ gone, U \cup gone)
  <2>1. kept = [q EXCEPT !.items = rest, !.dropped = q.dropped + n, !.summary = told]
    BY <1>6, <1>0 DEF DropOldest, QueueType, n
  <2>2. /\ lines \in Seq(Announcements)
        /\ \A i \in 1..Len(lines) : lines[i] \in U \cup first
    <3> DEFINE p == SubSeq(q.items, 1, n)
    <3>1. /\ p \in Seq(Announcements)
          /\ Len(p) = n
          /\ \A i \in 1..n : p[i] = q.items[i]
      BY <1>0, <1>1
    <3>2. \A i \in 1..Len(q.summary) : q.summary[i] \in U \cup first
      BY DEF Tidy
    <3>3. \A i \in 1..n : q.items[i] \in U \cup first
      OBVIOUS
    <3> HIDE DEF p, first
    <3>4. \A i \in 1..Len(p) : p[i] \in U \cup first
      BY <3>1, <3>3
    <3>5. /\ q.summary \o p \in Seq(Announcements)
          /\ \A i \in 1..Len(q.summary \o p) : (q.summary \o p)[i] \in U \cup first
      BY <1>0, <3>1, <3>2, <3>4, JoinedEntries
    <3> QED
      BY <3>5 DEF p
  <2>3. /\ told \in Seq(Announcements)
        /\ \A i \in 1..Len(told) : told[i] \in U \cup first
    <3> HIDE DEF lines
    <3>1. Len(lines) \in Nat /\ excess \in Nat /\ excess <= Len(lines)
      BY <2>2, <1>0
    <3> HIDE DEF excess
    <3>2. excess + 1 \in 1..(Len(lines) + 1)
      BY <3>1
    <3>3. /\ told = [i \in 1..(Len(lines) - excess) |-> lines[excess + i]]
          /\ Len(told) = Len(lines) - excess
          /\ told \in Seq(Announcements)
      BY <2>2, <3>1, <3>2
    <3>4. \A i \in 1..(Len(lines) - excess) : excess + i \in 1..Len(lines)
      BY <3>1
    <3> QED
      BY <2>2, <3>3, <3>4
  <2>4. Cardinality(U \cup first) = q.dropped + n
    <3>1. IsFiniteSet(U) /\ U \cap first = {}
      BY <1>2, AnnouncementsFinite
    <3>2. Cardinality(U \cup first)
            = Cardinality(U) + Cardinality(first) - Cardinality(U \cap first)
      BY <3>1, <1>2, FS_Union
    <3>3. Cardinality(U \cap first) = 0
      BY <3>1, FS_EmptySet
    <3>4. Cardinality(U) = q.dropped
      BY DEF Tidy
    <3>5. n \in Nat
      BY <1>0, <1>1
    <3> QED
      BY <3>2, <3>3, <3>4, <3>5, <1>0, <1>2
  <2>5. q.dropped + n \in Nat
    BY <1>0, <1>1
  <2> HIDE DEF first, rest, told, gone
  <2>6. kept \in QueueType
    BY <2>1, <2>3, <2>5, <1>0, <1>2 DEF QueueType
  <2> HIDE DEF kept
  <2> QED
    BY <1>2, <1>3, <1>4, <1>6, <2>3, <2>4, <2>6 DEF Tidy
<1> QED
  BY <1>2, <1>4, <1>5, <1>6
-----------------------------------------------------------------------------
(* Steps.                                                                  *)

(* Nothing has happened yet.                                               *)
LEMMA InitAInv == AnnounceInit => AInv
<1> SUFFICES ASSUME AnnounceInit PROVE AInv
  OBVIOUS
<1>1. <<>> \in Seq(Announcements)
  OBVIOUS
<1>2. EmptyQueue \in QueueType
  <2> DEFINE e == <<>>
  <2>1. e \in Seq(Announcements)
    BY <1>1
  <2> HIDE DEF e
  <2>2. EmptyQueue = [items |-> e, cap |-> 1, mode |-> "collect", drop |-> "summarize",
                      dropped |-> 0, summary |-> e]
    BY DEF EmptyQueue, e
  <2> QED
    BY <2>1, <2>2 DEF QueueType, Modes, Drops
<1>3. Typed
  BY <1>2 DEF AnnounceInit, Typed, Off, DrainType, NoCall, Call, Fate
<1>4. ASSUME NEW s \in Sessions
      PROVE  Tidy(announces[s], Queued(s), Untold(s)) /\ ~ HasWork(announces[s])
  <2>1. announces[s] = EmptyQueue
    BY DEF AnnounceInit
  <2>2. Queued(s) = {} /\ Untold(s) = {}
    BY DEF AnnounceInit, Queued, Untold
  <2>3. EmptyQueue.items = <<>> /\ EmptyQueue.summary = <<>> /\ EmptyQueue.dropped = 0
    BY DEF EmptyQueue
  <2>4. Lists(<<>>, {}) /\ Cardinality({}) = 0
    BY FS_EmptySet DEF Lists
  <2>5. \A i \in 1..Len(EmptyQueue.summary) : EmptyQueue.summary[i] \in {}
    BY <2>3
  <2>6. Tidy(EmptyQueue, {}, {})
    BY <1>2, <2>3, <2>4, <2>5 DEF Tidy
  <2>7. ~ HasWork(EmptyQueue)
    BY <2>3 DEF HasWork
  <2> QED
    BY <2>1, <2>2, <2>6, <2>7
<1>5. CallsTold /\ CallsApart /\ OneRoute
  BY DEF AnnounceInit, NoCall, CallsTold, CallsApart, OneRoute, Told
<1> QED
  BY <1>3, <1>4, <1>5 DEF AInv, QueuesTidy, Drained

(* What calls carry stays told when fates change that no call has a part   *)
(* in.                                                                     *)
LEMMA CallsKept ==
  ASSUME AInv, UNCHANGED call,
         \A x \in Announcements :
           fate[x] \in {"direct", "told", "summarized"} => fate'[x] = fate[x]
  PROVE  CallsTold' /\ CallsApart' /\ OneRoute'
<1>1. \A c \in Announcements : Told(c) \subseteq Announcements
  BY DEF AInv, Typed, Call, Told
<1>2. CallsTold'
  BY <1>1 DEF AInv, CallsTold, Told
<1>3. CallsApart' /\ OneRoute'
  BY DEF AInv, CallsApart, OneRoute, Told
<1> QED
  BY <1>2, <1>3

(* A call is made with the origin of an item, with texts of the queue and  *)
(* what it dropped.                                                        *)
LEMMA SendKeeps ==
  ASSUME AInv, NEW s \in Sessions, NEW a \in Queued(s), NEW rest,
         NEW own \in SUBSET Queued(s), NEW counted \in SUBSET Untold(s),
         NEW force \in BOOLEAN,
         Tidy(rest, Queued(s) \ (own \cup {a}), Untold(s) \ counted),
         a \in own => SameRoute(own),
         Send(s, a, rest, own, counted, force)
  PROVE  AInv'
<1>0. /\ announces \in [Sessions -> QueueType] /\ drain \in [Sessions -> DrainType]
      /\ call \in [Announcements -> Call] /\ fate \in [Announcements -> Fate]
      /\ a \in Announcements /\ own \subseteq Announcements /\ counted \subseteq Announcements
  BY DEF AInv, Typed, Queued, Untold
<1>1. /\ announces' = [announces EXCEPT ![s] = rest]
      /\ drain' = [drain EXCEPT ![s] = [pc |-> "send", force |-> force, item |-> {a}]]
      /\ call' = [call EXCEPT ![a] = [state |-> "made", own |-> own, counted |-> counted]]
      /\ fate' = [x \in Announcements |->
                    IF x \in own THEN "told"
                    ELSE IF x \in counted THEN "summarized"
                    ELSE IF x = a THEN "replaced" ELSE fate[x]]
  BY DEF Send
<1>2. /\ \A x \in own \cup {a} : fate[x] = "queued" /\ SessionOf[x] = s
      /\ \A x \in counted : fate[x] = "counted" /\ SessionOf[x] = s
  BY DEF Queued, Untold
<1>3. Typed'
  <2>1. announces' \in [Sessions -> QueueType]
    BY <1>0, <1>1 DEF Tidy
  <2>2. [pc |-> "send", force |-> force, item |-> {a}] \in DrainType
    BY <1>0 DEF DrainType
  <2>3. [state |-> "made", own |-> own, counted |-> counted] \in Call
    BY <1>0 DEF Call
  <2>4. fate' \in [Announcements -> Fate]
    BY <1>0, <1>1 DEF Fate
  <2>5. drain' \in [Sessions -> DrainType] /\ call' \in [Announcements -> Call]
    BY <1>0, <1>1, <2>2, <2>3
  <2> QED
    BY <2>1, <2>4, <2>5 DEF Typed
<1>4. ASSUME NEW t \in Sessions
      PROVE  Tidy(announces'[t], Queued(t)', Untold(t)')
  <2>1. CASE t = s
    <3>1. Queued(t)' = Queued(s) \ (own \cup {a})
      BY <2>1, <1>1, <1>2 DEF Queued
    <3>2. Untold(t)' = Untold(s) \ counted
      BY <2>1, <1>1, <1>2 DEF Untold
    <3>3. announces'[t] = rest
      BY <2>1, <1>0, <1>1
    <3> QED
      BY <3>1, <3>2, <3>3
  <2>2. CASE t # s
    <3>1. Queued(t)' = Queued(t) /\ Untold(t)' = Untold(t)
      BY <2>2, <1>1, <1>2 DEF Queued, Untold
    <3>2. announces'[t] = announces[t]
      BY <2>2, <1>0, <1>1
    <3> QED
      BY <3>1, <3>2 DEF AInv, QueuesTidy
  <2> QED
    BY <2>1, <2>2
<1>5. Drained'
  <2> SUFFICES ASSUME NEW t \in Sessions, HasWork(announces'[t])
               PROVE  drain'[t].pc # "off"
    BY DEF Drained
  <2>1. CASE t = s
    BY <2>1, <1>0, <1>1
  <2>2. CASE t # s
    BY <2>2, <1>0, <1>1 DEF AInv, Drained
  <2> QED
    BY <2>1, <2>2
<1>6. /\ call'[a].own = own /\ call'[a].counted = counted
      /\ \A c \in Announcements : c # a => call'[c] = call[c]
  BY <1>0, <1>1
<1>7. \A c \in Announcements : \A x \in Told(c) :
        x \notin own /\ x \notin counted /\ x # a
  BY <1>2 DEF AInv, CallsTold, Told
<1>8. CallsTold'
  <2> SUFFICES ASSUME NEW c \in Announcements
               PROVE  /\ \A x \in call'[c].own : fate'[x] \in {"direct", "told"}
                      /\ \A x \in call'[c].counted : fate'[x] = "summarized"
    BY DEF CallsTold
  <2>1. CASE c = a
    BY <2>1, <1>0, <1>1, <1>2, <1>6
  <2>2. CASE c # a
    <3>1. call'[c] = call[c] /\ call[c] \in Call
      BY <2>2, <1>0, <1>6
    <3>2. \A x \in Told(c) : x \in Announcements => fate'[x] = fate[x]
      BY <1>1, <1>7
    <3>3. call[c].own \subseteq Announcements /\ call[c].counted \subseteq Announcements
      BY <3>1 DEF Call
    <3> QED
      BY <3>1, <3>2, <3>3 DEF AInv, CallsTold, Told
  <2> QED
    BY <2>1, <2>2
<1>9. CallsApart'
  <2>1. Told(a)' = own \cup counted
    BY <1>6 DEF Told
  <2>2. \A c \in Announcements : c # a => Told(c)' = Told(c)
    BY <1>6 DEF Told
  <2> QED
    BY <2>1, <2>2, <1>7 DEF AInv, CallsApart
<1>10. OneRoute'
  BY <1>6 DEF AInv, OneRoute, SameRoute
<1> QED
  BY <1>3, <1>4, <1>5, <1>8, <1>9, <1>10 DEF AInv, QueuesTidy

(* Items that may be collected have one route.                             *)
LEMMA CollectedRoutes ==
  ASSUME NEW q, ItemsOf(q) \in SUBSET Announcements, ~ CrossChannel(RoutesOf(q))
  PROVE  SameRoute(ItemsOf(q))
<1> DEFINE routes == RoutesOf(q)
           keys == routes \ {Unkeyed, Unroutable}
<1>1. \A x \in ItemsOf(q) : RouteOf[x] \in routes
  BY DEF RoutesOf
<1>2. IsFiniteSet(keys)
  <2>1. IsFiniteSet(ItemsOf(q))
    BY AnnouncementsFinite
  <2>2. IsFiniteSet(routes)
    <3> DEFINE f == [x \in ItemsOf(q) |-> RouteOf[x]]
    <3>1. f \in Surjection(ItemsOf(q), routes)
      BY DEF RoutesOf, Surjection
    <3> QED
      BY <2>1, <3>1, FS_Surjection
  <2> QED
    BY <2>2, FS_Subset
<1>3. /\ Unroutable \notin routes
      /\ keys # {} => Unkeyed \notin routes
      /\ ~ Cardinality(keys) > 1
  BY DEF CrossChannel
<1>4. CASE keys = {}
  BY <1>1, <1>3, <1>4 DEF SameRoute
<1>5. CASE keys # {}
  <2>1. Cardinality(keys) = 1
    <3>1. Cardinality(keys) \in Nat /\ Cardinality(keys) # 0
      BY <1>2, <1>5, FS_CardinalityType, FS_EmptySet
    <3> HIDE DEF keys
    <3> QED
      BY <3>1, <1>3
  <2>2. \E k : keys = {k}
    BY <2>1, <1>2, FS_Singleton
  <2> QED
    BY <2>2, <1>1, <1>3, <1>5 DEF SameRoute
<1> QED
  BY <1>4, <1>5

(* One pass of a drain loop.                                               *)
LEMMA WakeKeeps ==
  ASSUME AInv, NEW s \in Sessions, Wake(s)
  PROVE  AInv'
<1> DEFINE q == announces[s]
           force == drain[s].force
<1>0. /\ Tidy(q, Queued(s), Untold(s))
      /\ q \in QueueType /\ q.items \in Seq(Announcements)
      /\ force \in BOOLEAN /\ TRUE \in BOOLEAN
      /\ drain \in [Sessions -> DrainType] /\ fate \in [Announcements -> Fate]
      /\ announces \in [Sessions -> QueueType]
  BY DEF AInv, Typed, QueuesTidy, Tidy, QueueType, DrainType
<1>1. ASSUME NEW f \in BOOLEAN, SendFirst(s, f)
      PROVE  AInv'
  <2> DEFINE a == Head(q.items)
             rest == [q EXCEPT !.items = Tail(@)]
  <2>1. q.items # <<>> /\ Send(s, a, rest, {a}, {}, f)
    BY <1>1 DEF SendFirst
  <2>2. a \in Queued(s) /\ Tidy(rest, Queued(s) \ {a}, Untold(s))
    BY <1>0, <2>1, HeadTidy
  <2> HIDE DEF a, rest, q
  <2>3. Tidy(rest, Queued(s) \ ({a} \cup {a}), Untold(s) \ {})
    <3>1. {a} \cup {a} = {a} /\ Untold(s) \ {} = Untold(s)
      OBVIOUS
    <3> QED
      BY <2>2, <3>1
  <2>4. SameRoute({a})
    BY DEF SameRoute
  <2>5. {a} \in SUBSET Queued(s) /\ {} \in SUBSET Untold(s)
    BY <2>2
  <2> QED
    BY <2>1, <2>2, <2>3, <2>4, <2>5, SendKeeps
<1>2. ASSUME SendAll(s), ~ CrossChannel(RoutesOf(q))
      PROVE  AInv'
  <2> DEFINE a == q.items[Len(q.items)]
             rest == [Summarized(q) EXCEPT !.items = <<>>]
             own == ItemsOf(q)
             counted == IF CanSummarize(q) THEN Untold(s) ELSE {}
  <2>1. q.items # <<>> /\ Send(s, a, rest, own, counted, FALSE)
    BY <1>2 DEF SendAll
  <2>2. own = Queued(s)
    BY <1>0, ItemsListed DEF Tidy
  <2>3. a \in own
    BY <1>0, <2>1 DEF ItemsOf
  <2>4. Tidy(rest, {}, IF CanSummarize(q) THEN {} ELSE Untold(s))
    BY <1>0, SummarizedTidy, EmptiedTidy
  <2>5. SameRoute(own)
    BY <1>2, <2>2, CollectedRoutes DEF Queued
  <2>6. own \cup {a} = Queued(s)
    BY <2>2, <2>3
  <2>7. /\ counted \in SUBSET Untold(s)
        /\ Untold(s) \ counted = IF CanSummarize(q) THEN {} ELSE Untold(s)
    OBVIOUS
  <2>8. Queued(s) \ (own \cup {a}) = {} /\ own \in SUBSET Queued(s) /\ a \in Queued(s)
    BY <2>2, <2>3, <2>6
  <2> HIDE DEF a, rest, own, counted, q
  <2> QED
    BY <2>1, <2>4, <2>5, <2>7, <2>8, SendKeeps
<1>3. ASSUME SendSummary(s, force), CanSummarize(q)
      PROVE  AInv'
  <2> DEFINE a == Head(q.items)
             rest == [Summarized(q) EXCEPT !.items = Tail(@)]
  <2>1. q.items # <<>> /\ Send(s, a, rest, {}, Untold(s), force)
    BY <1>3 DEF SendSummary
  <2>2. Tidy(Summarized(q), Queued(s), {})
    BY <1>0, <1>3, SummarizedTidy
  <2>3. Summarized(q).items = q.items
    BY <1>0 DEF Summarized, QueueType
  <2>4. a \in Queued(s) /\ Tidy(rest, Queued(s) \ {a}, {})
    BY <2>1, <2>2, <2>3, HeadTidy
  <2> HIDE DEF a, rest, q, force
  <2>5. Tidy(rest, Queued(s) \ ({} \cup {a}), Untold(s) \ Untold(s))
    <3>1. {} \cup {a} = {a} /\ Untold(s) \ Untold(s) = {}
      OBVIOUS
    <3> QED
      BY <2>4, <3>1
  <2>6. {} \in SUBSET Queued(s) /\ Untold(s) \in SUBSET Untold(s) /\ a \notin {}
    OBVIOUS
  <2> QED
    BY <1>0, <2>1, <2>4, <2>5, <2>6, SendKeeps
<1>4. ASSUME BreakForced(s)
      PROVE  AInv'
  <2>1. /\ drain' = [drain EXCEPT ![s] = Ended(q)]
        /\ UNCHANGED <<announces, call, fate>>
    BY <1>4 DEF BreakForced
  <2>2. Ended(q) \in DrainType /\ (HasWork(q) => Ended(q).pc # "off")
    BY DEF Ended, Scheduled, Off, DrainType
  <2>3. Typed' /\ Drained'
    BY <1>0, <2>1, <2>2 DEF AInv, Typed, Drained
  <2>4. CallsTold' /\ CallsApart' /\ OneRoute'
    BY <2>1, CallsKept DEF AInv
  <2>5. QueuesTidy'
    BY <2>1 DEF AInv, QueuesTidy, Queued, Untold
  <2> QED
    BY <2>3, <2>4, <2>5 DEF AInv
<1>5. ASSUME BreakUnsaid(s)
      PROVE  AInv'
  <2>1. /\ q.items = <<>> /\ CanSummarize(q)
        /\ announces' = [announces EXCEPT ![s] = Summarized(q)]
        /\ drain' = [drain EXCEPT ![s] = Ended(Summarized(q))]
        /\ fate' = [a \in Announcements |-> IF a \in Untold(s) THEN "unsaid" ELSE fate[a]]
        /\ UNCHANGED call
    BY <1>5 DEF BreakUnsaid
  <2>2. Tidy(Summarized(q), Queued(s), {})
    BY <1>0, <2>1, SummarizedTidy
  <2>3. /\ Ended(Summarized(q)) \in DrainType
        /\ HasWork(Summarized(q)) => Ended(Summarized(q)).pc # "off"
    BY DEF Ended, Scheduled, Off, DrainType
  <2>4. \A a \in Untold(s) : fate[a] = "counted" /\ SessionOf[a] = s
    BY DEF Untold
  <2> HIDE DEF q
  <2>5. Typed'
    <3>1. fate' \in [Announcements -> Fate]
      BY <1>0, <2>1 DEF Fate
    <3>2. announces' \in [Sessions -> QueueType]
      BY <1>0, <2>1, <2>2 DEF Tidy
    <3>3. drain' \in [Sessions -> DrainType]
      BY <1>0, <2>1, <2>3
    <3> QED
      BY <2>1, <3>1, <3>2, <3>3 DEF AInv, Typed
  <2>6. ASSUME NEW t \in Sessions
        PROVE  Tidy(announces'[t], Queued(t)', Untold(t)')
    <3>1. CASE t = s
      <4>1. Queued(t)' = Queued(s) /\ Untold(t)' = {}
        BY <3>1, <2>1, <2>4 DEF Queued, Untold
      <4> QED
        BY <3>1, <4>1, <1>0, <2>1, <2>2
    <3>2. CASE t # s
      <4>1. Queued(t)' = Queued(t) /\ Untold(t)' = Untold(t)
        BY <3>2, <2>1, <2>4 DEF Queued, Untold
      <4> QED
        BY <3>2, <4>1, <1>0, <2>1 DEF AInv, QueuesTidy
    <3> QED
      BY <3>1, <3>2
  <2>7. Drained'
    <3> SUFFICES ASSUME NEW t \in Sessions, HasWork(announces'[t])
                 PROVE  drain'[t].pc # "off"
      BY DEF Drained
    <3>1. CASE t = s
      BY <3>1, <1>0, <2>1, <2>3
    <3>2. CASE t # s
      BY <3>2, <1>0, <2>1 DEF AInv, Drained
    <3> QED
      BY <3>1, <3>2
  <2>8. CallsTold' /\ CallsApart' /\ OneRoute'
    <3>1. \A x \in Announcements :
            fate[x] \in {"direct", "told", "summarized"} => fate'[x] = fate[x]
      BY <2>1, <2>4
    <3> QED
      BY <2>1, <3>1, CallsKept
  <2> QED
    BY <2>5, <2>6, <2>7, <2>8 DEF AInv, QueuesTidy
<1>6. ASSUME Spin(s)
      PROVE  AInv'
  <2>1. /\ drain' = [drain EXCEPT ![s].pc = "spin"]
        /\ UNCHANGED <<announces, call, fate>>
    BY <1>6 DEF Spin
  <2>2. Typed' /\ Drained'
    BY <1>0, <2>1 DEF AInv, Typed, Drained, DrainType
  <2>3. CallsTold' /\ CallsApart' /\ OneRoute'
    BY <2>1, CallsKept DEF AInv
  <2>4. QueuesTidy'
    BY <2>1 DEF AInv, QueuesTidy, Queued, Untold
  <2> QED
    BY <2>2, <2>3, <2>4 DEF AInv
<1> HIDE DEF q, force
<1> QED
  BY <1>0, <1>1, <1>2, <1>3, <1>4, <1>5, <1>6 DEF Wake, q, force
(* An announcement is put in the queue.                                    *)
LEMMA EnqueueKeeps ==
  ASSUME AInv, NEW a \in Announcements, Enqueue(a)
  PROVE  AInv'
<1> DEFINE s == SessionOf[a]
<1>0. /\ s \in Sessions
      /\ Tidy(announces[s], Queued(s), Untold(s))
      /\ announces \in [Sessions -> QueueType] /\ drain \in [Sessions -> DrainType]
      /\ fate \in [Announcements -> Fate] /\ announces[s] \in QueueType
      /\ Queued(s) \in SUBSET Announcements /\ Untold(s) \in SUBSET Announcements
      /\ Queued(s) \cap Untold(s) = {}
  BY RoutesAssumption, AnnouncementsAssumption
     DEF AInv, Typed, QueuesTidy, Tidy, Queued, Untold
<1>1. PICK set \in SettingsOf[a] :
        LET q == [announces[s] EXCEPT !.mode = set.mode, !.drop = set.drop, !.cap = set.cap]
            kept == DropOldest(q)
            gone == ItemsOf(q) \ ItemsOf(kept)
        IN \/ /\ announces' = [announces EXCEPT ![s] = q]
              /\ fate' = [fate EXCEPT ![a] = "discarded"]
           \/ /\ announces' = [announces EXCEPT ![s] = [kept EXCEPT !.items = Append(@, a)]]
              /\ fate' = [x \in Announcements |->
                            IF x = a THEN "queued"
                            ELSE IF x \notin gone THEN fate[x]
                            ELSE IF q.drop = "summarize" THEN "counted" ELSE "discarded"]
  BY DEF Enqueue
<1> DEFINE q == [announces[s] EXCEPT !.mode = set.mode, !.drop = set.drop, !.cap = set.cap]
           kept == DropOldest(q)
           gone == ItemsOf(q) \ ItemsOf(kept)
<1>2. /\ fate[a] = "new"
      /\ drain' = [drain EXCEPT ![s] = Scheduled(@)]
      /\ UNCHANGED call
  BY DEF Enqueue
<1>3. Tidy(q, Queued(s), Untold(s))
  <2>1. set \in [mode : Modes, drop : Drops, cap : Nat \ {0}]
    BY SettingsAssumption
  <2>2. set.mode \in Modes /\ set.drop \in Drops /\ set.cap \in Nat \ {0}
    BY <2>1
  <2>3. /\ q \in QueueType
        /\ q.items = announces[s].items /\ q.dropped = announces[s].dropped
        /\ q.summary = announces[s].summary
    BY <1>0, <2>2 DEF QueueType
  <2> HIDE DEF q
  <2> QED
    BY <1>0, <2>3 DEF Tidy
<1> HIDE DEF q
<1>4. /\ gone \subseteq Queued(s)
      /\ Tidy(kept, Queued(s) \ gone,
              IF q.drop = "summarize" THEN Untold(s) \cup gone ELSE Untold(s))
  BY <1>0, <1>3, DropTidy
<1> HIDE DEF kept, gone
<1>5. /\ a \notin Queued(s) /\ a \notin Untold(s)
      /\ \A x \in gone : x \in Announcements /\ fate[x] = "queued" /\ SessionOf[x] = s
  BY <1>2, <1>4 DEF Queued, Untold
<1>6. /\ Scheduled(drain[s]) \in DrainType
      /\ Scheduled(drain[s]).pc # "off"
  BY <1>0 DEF Scheduled, DrainType
<1>7. drain' \in [Sessions -> DrainType] /\ Drained'
  <2>1. drain' \in [Sessions -> DrainType]
    BY <1>0, <1>2, <1>6
  <2> SUFFICES ASSUME NEW t \in Sessions, HasWork(announces'[t])
               PROVE  drain'[t].pc # "off"
    BY <2>1 DEF Drained
  <2>2. CASE t = s
    BY <2>2, <1>0, <1>2, <1>6
  <2>3. CASE t # s
    <3>1. announces'[t] = announces[t]
      BY <2>3, <1>0, <1>1
    <3> QED
      BY <2>3, <3>1, <1>0, <1>2 DEF AInv, Drained
  <2> QED
    BY <2>2, <2>3
<1>8. CASE /\ announces' = [announces EXCEPT ![s] = q]
           /\ fate' = [fate EXCEPT ![a] = "discarded"]
  <2>1. Typed'
    BY <1>0, <1>2, <1>3, <1>7, <1>8 DEF AInv, Typed, Tidy, Fate
  <2>2. ASSUME NEW t \in Sessions
        PROVE  Tidy(announces'[t], Queued(t)', Untold(t)')
    <3>1. Queued(t)' = Queued(t) /\ Untold(t)' = Untold(t)
      BY <1>0, <1>2, <1>8 DEF Queued, Untold
    <3>2. announces'[t] = IF t = s THEN q ELSE announces[t]
      BY <1>0, <1>8
    <3> QED
      BY <3>1, <3>2, <1>3 DEF AInv, QueuesTidy
  <2>3. CallsTold' /\ CallsApart' /\ OneRoute'
    BY <1>0, <1>2, <1>8, CallsKept
  <2> QED
    BY <2>1, <2>2, <2>3, <1>7 DEF AInv, QueuesTidy
<1>9. CASE /\ announces' = [announces EXCEPT ![s] = [kept EXCEPT !.items = Append(@, a)]]
           /\ fate' = [x \in Announcements |->
                         IF x = a THEN "queued"
                         ELSE IF x \notin gone THEN fate[x]
                         ELSE IF q.drop = "summarize" THEN "counted" ELSE "discarded"]
  <2> DEFINE post == [kept EXCEPT !.items = Append(@, a)]
             W == Queued(s) \ gone
             U == IF q.drop = "summarize" THEN Untold(s) \cup gone ELSE Untold(s)
  <2>1. Tidy(post, W \cup {a}, U)
    <3>1. kept \in QueueType /\ kept.items \in Seq(Announcements) /\ Lists(kept.items, W)
      BY <1>4 DEF Tidy, QueueType
    <3>2. kept.items \in Seq(Runs) /\ a \in Runs /\ a \notin W
      BY <3>1, <1>5, AnnouncementsAssumption
    <3>3. Lists(Append(kept.items, a), W \cup {a})
      BY <3>1, <3>2, AppendListed
    <3>4. Append(kept.items, a) \in Seq(Announcements)
      BY <3>1
    <3>5. /\ post \in QueueType /\ post.items = Append(kept.items, a)
          /\ post.dropped = kept.dropped /\ post.summary = kept.summary
      BY <3>1, <3>4 DEF QueueType
    <3> HIDE DEF post, W, U
    <3> QED
      BY <3>3, <3>5, <1>4 DEF Tidy, W, U
  <2>2. Typed'
    <3>1. fate' \in [Announcements -> Fate]
      BY <1>0, <1>9 DEF Fate
    <3>2. announces' \in [Sessions -> QueueType]
      BY <1>0, <1>9, <2>1 DEF Tidy
    <3> QED
      BY <3>1, <3>2, <1>2, <1>7 DEF AInv, Typed
  <2>3. ASSUME NEW t \in Sessions
        PROVE  Tidy(announces'[t], Queued(t)', Untold(t)')
    <3>1. CASE t = s
      <4>1. Queued(t)' = W \cup {a}
        BY <3>1, <1>5, <1>9 DEF Queued
      <4>2. Untold(t)' = U
        <5>1. CASE q.drop = "summarize"
          <6>1. U = Untold(s) \cup gone
            BY <5>1
          <6>2. \A x \in Announcements :
                  fate'[x] = "counted" /\ SessionOf[x] = s <=> x \in Untold(s) \cup gone
            <7> SUFFICES ASSUME NEW x \in Announcements
                         PROVE  fate'[x] = "counted" /\ SessionOf[x] = s
                                  <=> x \in Untold(s) \cup gone
              OBVIOUS
            <7>1. CASE x = a
              <8>1. fate'[x] = "queued" /\ x \notin gone /\ x \notin Untold(s)
                BY <7>1, <1>2, <1>5, <1>9
              <8> QED
                BY <8>1
            <7>2. CASE x # a /\ x \in gone
              <8>1. fate'[x] = "counted" /\ SessionOf[x] = s
                BY <7>2, <5>1, <1>5, <1>9
              <8> QED
                BY <8>1, <7>2
            <7>3. CASE x # a /\ x \notin gone
              <8>1. fate'[x] = fate[x]
                BY <7>3, <1>9
              <8> QED
                BY <8>1, <7>3 DEF Untold
            <7> QED
              BY <7>1, <7>2, <7>3
          <6>3. Untold(t)' = { x \in Announcements : x \in Untold(s) \cup gone }
            BY <6>2, <3>1 DEF Untold
          <6>4. Untold(s) \cup gone \subseteq Announcements
            BY <1>0, <1>5
          <6> HIDE DEF U
          <6> QED
            BY <6>1, <6>3, <6>4
        <5>2. CASE q.drop # "summarize"
          <6>1. U = Untold(s)
            BY <5>2
          <6>2. \A x \in Announcements :
                  fate'[x] = "counted" /\ SessionOf[x] = s <=> x \in Untold(s)
            BY <5>2, <1>5, <1>9 DEF Untold
          <6>3. Untold(t)' = { x \in Announcements : x \in Untold(s) }
            BY <6>2, <3>1 DEF Untold
          <6> HIDE DEF U
          <6> QED
            BY <6>1, <6>3, <1>0
        <5> QED
          BY <5>1, <5>2
      <4>3. announces'[t] = post
        BY <3>1, <1>0, <1>9
      <4> QED
        BY <4>1, <4>2, <4>3, <2>1
    <3>2. CASE t # s
      <4>1. Queued(t)' = Queued(t)
        BY <3>2, <1>2, <1>5, <1>9 DEF Queued
      <4>2. Untold(t)' = Untold(t)
        BY <3>2, <1>2, <1>5, <1>9 DEF Untold
      <4>3. announces'[t] = announces[t]
        BY <3>2, <1>0, <1>9
      <4> QED
        BY <4>1, <4>2, <4>3 DEF AInv, QueuesTidy
    <3> QED
      BY <3>1, <3>2
  <2>4. CallsTold' /\ CallsApart' /\ OneRoute'
    <3>1. \A x \in Announcements :
            fate[x] \in {"direct", "told", "summarized"} => fate'[x] = fate[x]
      BY <1>2, <1>5, <1>9
    <3> QED
      BY <1>2, <3>1, CallsKept
  <2> QED
    BY <2>2, <2>3, <2>4, <1>7 DEF AInv, QueuesTidy
<1> QED
  BY <1>1, <1>8, <1>9 DEF q, kept, gone
(* Every step keeps the invariant; those of the lanes do not touch it.     *)
LEMMA StepAInv == AInv /\ [AnnounceNext]_allVars => AInv'
<1> SUFFICES ASSUME AInv, [AnnounceNext]_allVars PROVE AInv'
  OBVIOUS
<1>0. /\ announces \in [Sessions -> QueueType] /\ drain \in [Sessions -> DrainType]
      /\ call \in [Announcements -> Call] /\ fate \in [Announcements -> Fate]
  BY DEF AInv, Typed
<1>1. ASSUME NEW s \in Sessions, Throws(s)
      PROVE  AInv'
  <2>1. /\ drain' = [drain EXCEPT ![s] = Ended(announces[s])]
        /\ UNCHANGED <<announces, fate>>
        /\ \/ UNCHANGED call
           \/ \E a \in drain[s].item : call' = [call EXCEPT ![a].state = "lost"]
    BY <1>1 DEF Throws
  <2>2. /\ Ended(announces[s]) \in DrainType
        /\ HasWork(announces[s]) => Ended(announces[s]).pc # "off"
    BY DEF Ended, Scheduled, Off, DrainType
  <2>3. /\ call' \in [Announcements -> Call]
        /\ \A c \in Announcements : call'[c].own = call[c].own /\ call'[c].counted = call[c].counted
    <3>1. CASE UNCHANGED call
      BY <3>1, <1>0
    <3>2. ASSUME NEW a \in drain[s].item, call' = [call EXCEPT ![a].state = "lost"]
          PROVE  /\ call' \in [Announcements -> Call]
                 /\ \A c \in Announcements :
                      call'[c].own = call[c].own /\ call'[c].counted = call[c].counted
      <4>1. a \in Announcements
        BY <1>0 DEF DrainType
      <4>2. call[a] \in Call
        BY <1>0, <4>1
      <4>3. /\ [call[a] EXCEPT !.state = "lost"] \in Call
            /\ [call[a] EXCEPT !.state = "lost"].own = call[a].own
            /\ [call[a] EXCEPT !.state = "lost"].counted = call[a].counted
        BY <4>2 DEF Call
      <4>4. call' = [call EXCEPT ![a] = [call[a] EXCEPT !.state = "lost"]]
        BY <3>2
      <4> QED
        BY <1>0, <4>1, <4>3, <4>4
    <3> QED
      BY <2>1, <3>1, <3>2
  <2>4. Typed' /\ Drained'
    BY <1>0, <2>1, <2>2, <2>3 DEF AInv, Typed, Drained
  <2>5. QueuesTidy'
    BY <2>1 DEF AInv, QueuesTidy, Queued, Untold
  <2>6. CallsTold' /\ CallsApart' /\ OneRoute'
    BY <2>1, <2>3 DEF AInv, CallsTold, CallsApart, OneRoute, Told
  <2> QED
    BY <2>4, <2>5, <2>6 DEF AInv
<1>2. ASSUME NEW s \in Sessions, Returns(s)
      PROVE  AInv'
  <2>1. /\ drain' = [drain EXCEPT ![s] = IF HasWork(announces[s])
                                         THEN [@ EXCEPT !.pc = "debounce", !.item = {}] ELSE Off]
        /\ UNCHANGED <<announces, call, fate>>
    BY <1>2 DEF Returns
  <2>2. Typed' /\ Drained'
    BY <1>0, <2>1 DEF AInv, Typed, Drained, Off, DrainType
  <2>3. QueuesTidy'
    BY <2>1 DEF AInv, QueuesTidy, Queued, Untold
  <2>4. CallsTold' /\ CallsApart' /\ OneRoute'
    BY <2>1, CallsKept
  <2> QED
    BY <2>2, <2>3, <2>4 DEF AInv
<1>3. ASSUME NEW a \in Announcements, Steer(a)
      PROVE  AInv'
  <2>1. /\ fate[a] = "new" /\ fate' = [fate EXCEPT ![a] = "steered"]
        /\ UNCHANGED <<announces, drain, call>>
    BY <1>3 DEF Steer
  <2>2. Typed' /\ Drained'
    BY <1>0, <2>1 DEF AInv, Typed, Drained, Fate
  <2>3. QueuesTidy'
    BY <1>0, <2>1 DEF AInv, QueuesTidy, Queued, Untold
  <2>4. CallsTold' /\ CallsApart' /\ OneRoute'
    BY <1>0, <2>1, CallsKept
  <2> QED
    BY <2>2, <2>3, <2>4 DEF AInv
<1>4. ASSUME NEW a \in Announcements, Direct(a)
      PROVE  AInv'
  <2>1. /\ fate[a] = "new" /\ fate' = [fate EXCEPT ![a] = "direct"]
        /\ call' = [call EXCEPT ![a] = [state |-> "made", own |-> {a}, counted |-> {}]]
        /\ UNCHANGED <<announces, drain>>
    BY <1>4 DEF Direct
  <2>2. Typed' /\ Drained'
    BY <1>0, <2>1 DEF AInv, Typed, Drained, Fate, Call
  <2>3. QueuesTidy'
    BY <1>0, <2>1 DEF AInv, QueuesTidy, Queued, Untold
  <2>4. /\ call'[a].own = {a} /\ call'[a].counted = {}
        /\ \A c \in Announcements : c # a => call'[c] = call[c]
    BY <1>0, <2>1
  <2>5. \A c \in Announcements : a \notin Told(c)
    BY <2>1 DEF AInv, CallsTold, Told
  <2>6. \A c \in Announcements : Told(c) \subseteq Announcements
    BY <1>0 DEF Call, Told
  <2>7. CallsTold'
    <3> SUFFICES ASSUME NEW c \in Announcements
                 PROVE  /\ \A x \in call'[c].own : fate'[x] \in {"direct", "told"}
                        /\ \A x \in call'[c].counted : fate'[x] = "summarized"
      BY DEF CallsTold
    <3>1. CASE c = a
      BY <3>1, <1>0, <2>1, <2>4
    <3>2. CASE c # a
      BY <3>2, <1>0, <2>1, <2>4, <2>5, <2>6 DEF AInv, CallsTold, Told
    <3> QED
      BY <3>1, <3>2
  <2>8. CallsApart'
    <3>1. Told(a)' = {a} /\ \A c \in Announcements : c # a => Told(c)' = Told(c)
      BY <2>4 DEF Told
    <3> QED
      BY <3>1, <2>5 DEF AInv, CallsApart
  <2>9. OneRoute'
    BY <2>4 DEF AInv, OneRoute, SameRoute
  <2> QED
    BY <2>2, <2>3, <2>7, <2>8, <2>9 DEF AInv
<1>5. CASE UNCHANGED announceVars
  BY <1>5 DEF announceVars, AInv, Typed, QueuesTidy, Queued, Untold, Drained, CallsTold, CallsApart,
              Told, OneRoute
<1>6. CASE UNCHANGED allVars
  BY <1>5, <1>6 DEF allVars
<1>7. CASE Progress
  BY <1>1, <1>2, <1>5, <1>7, WakeKeeps DEF Progress, Accept, LaneServes
<1>8. CASE Outside
  BY <1>3, <1>4, <1>5, <1>8, EnqueueKeeps DEF Outside
<1> QED
  BY <1>6, <1>7, <1>8 DEF AnnounceNext

(* For any announcements, settings, routes and calls that fail: none is    *)
(* lost from its queue, counted wrongly or told by two calls, a queue with *)
(* work has a loop, and a collected prompt has one route.                  *)
THEOREM AnnouncementsAccounted == AnnounceSpec => []AnnounceAccounting
<1>1. AInv => AnnounceAccounting
  <2> SUFFICES ASSUME AInv PROVE AnnounceAccounting
    OBVIOUS
  <2>1. ASSUME NEW s \in Sessions
        PROVE  LET q == announces[s]
               IN /\ ItemsOf(q) = { a \in Announcements : SessionOf[a] = s /\ fate[a] = "queued" }
                  /\ Len(q.items) = Cardinality(ItemsOf(q))
                  /\ q.dropped = Cardinality(Untold(s))
                  /\ { q.summary[i] : i \in DOMAIN q.summary } \subseteq Untold(s)
                  /\ HasWork(q) => drain[s].pc # "off"
    <3> DEFINE q == announces[s]
    <3>1. /\ Tidy(q, Queued(s), Untold(s))
          /\ q.items \in Seq(Announcements) /\ q.summary \in Seq(Announcements)
          /\ HasWork(q) => drain[s].pc # "off"
      BY DEF AInv, QueuesTidy, Drained, Tidy, QueueType
    <3> HIDE DEF q
    <3>2. ItemsOf(q) = Queued(s)
      BY <3>1, ItemsListed DEF Tidy
    <3>3. Len(q.items) = Cardinality(ItemsOf(q))
      <4>1. q.items \in Seq(Runs) /\ Len(q.items) \in 0..Len(q.items)
        BY <3>1, AnnouncementsAssumption
      <4>2. \A i, j \in 1..Len(q.items) : q.items[i] = q.items[j] => i = j
        BY <3>1 DEF Tidy, Lists
      <4>3. Cardinality({ q.items[i] : i \in 1..Len(q.items) }) = Len(q.items)
        BY <4>1, <4>2, FirstRunsCount
      <4>4. ItemsOf(q) = { q.items[i] : i \in 1..Len(q.items) }
        BY <3>1 DEF ItemsOf
      <4> QED
        BY <4>3, <4>4
    <3>4. { q.summary[i] : i \in DOMAIN q.summary } \subseteq Untold(s)
      BY <3>1 DEF Tidy
    <3> QED
      BY <3>1, <3>2, <3>3, <3>4 DEF Tidy, Queued, q
  <2>2. ASSUME NEW a \in Announcements, NEW b \in Announcements
        PROVE  /\ a # b => (call[a].own \cup call[a].counted)
                            \cap (call[b].own \cup call[b].counted) = {}
               /\ {a, b} \subseteq call[b].own =>
                    RouteOf[a] = RouteOf[b] /\ (a # b => RouteOf[a] # Unroutable)
    BY DEF AInv, CallsApart, Told, OneRoute, SameRoute
  <2>3. \A a \in Announcements : call[a] \in Call /\ fate[a] \in Fate
    BY DEF AInv, Typed
  <2> QED
    BY <2>1, <2>2, <2>3 DEF AnnounceAccounting
<1> QED
  BY <1>1, InitAInv, StepAInv, PTL DEF AnnounceSpec
=============================================================================
