---------------------------- MODULE SidecarProofs ----------------------------
(***************************************************************************)
(* Proofs about Sidecar, for any runs, sessions and clients, and for any   *)
(* number of events and of losses of the connection.                       *)
(***************************************************************************)
EXTENDS Sidecar, SequenceTheorems, TLAPS

-----------------------------------------------------------------------------
(* Frames on a connection, in order.                                       *)

(* The events of run r in wire w are those of its history h after the      *)
(* first n, in order: pos says where each of them is.                      *)
Places(w, h, n, r, pos) ==
  /\ pos \in [(n + 1)..Len(h) -> 1..Len(w)]
  /\ \A k \in (n + 1)..Len(h) : IsOf(w[pos[k]], r) /\ w[pos[k]].phase = h[k]
  /\ \A k, l \in (n + 1)..Len(h) : k < l => pos[k] < pos[l]
  /\ \A i \in 1..Len(w) : IsOf(w[i], r) => \E k \in (n + 1)..Len(h) : pos[k] = i

Pending(w, h, n, r) == n <= Len(h) /\ \E pos : Places(w, h, n, r, pos)

Silent(w, r) == \A i \in 1..Len(w) : ~ IsOf(w[i], r)

LEMMA TailAt ==
  ASSUME NEW S, NEW w \in Seq(S), w # <<>>
  PROVE  /\ Tail(w) \in Seq(S) /\ Head(w) = w[1] /\ Head(w) \in S
         /\ Len(w) \in Nat \ {0} /\ Len(Tail(w)) = Len(w) - 1
         /\ \A i \in 1..Len(Tail(w)) : Tail(w)[i] = w[i + 1] /\ i + 1 \in 1..Len(w)
BY HeadTailProperties, EmptySeq

LEMMA AppendAt ==
  ASSUME NEW S, NEW w \in Seq(S), NEW f \in S
  PROVE  /\ Append(w, f) \in Seq(S) /\ Len(w) \in Nat
         /\ Len(Append(w, f)) = Len(w) + 1 /\ Append(w, f)[Len(w) + 1] = f
         /\ \A i \in 1..Len(w) : Append(w, f)[i] = w[i]
OBVIOUS

(* Nothing is on the way of a run all of whose history has come.           *)
LEMMA PendingNone ==
  ASSUME NEW S, NEW w \in Seq(S), NEW T, NEW h \in Seq(T), NEW r, Silent(w, r)
  PROVE  Pending(w, h, Len(h), r)
<1> DEFINE pos == [k \in (Len(h) + 1)..Len(h) |-> 1]
<1>1. Len(h) \in Nat /\ (Len(h) + 1)..Len(h) = {}
  OBVIOUS
<1>2. Places(w, h, Len(h), r, pos)
  BY <1>1 DEF Places, Silent
<1> QED
  BY <1>1, <1>2 DEF Pending

LEMMA NonePending ==
  ASSUME NEW S, NEW w \in Seq(S), NEW T, NEW h \in Seq(T), NEW n \in Nat, NEW r,
         Pending(w, h, n, r)
  PROVE  Silent(w, r) <=> n = Len(h)
<1>1. PICK pos : Places(w, h, n, r, pos)
  BY DEF Pending
<1>2. n <= Len(h) /\ Len(h) \in Nat /\ Len(w) \in Nat
  BY DEF Pending
<1>3. ASSUME n # Len(h) PROVE ~ Silent(w, r)
  <2>1. n + 1 \in (n + 1)..Len(h)
    BY <1>2, <1>3
  <2> QED
    BY <1>1, <2>1 DEF Places, Silent
<1>4. ASSUME n = Len(h) PROVE Silent(w, r)
  BY <1>1, <1>2, <1>4 DEF Places, Silent
<1> QED
  BY <1>3, <1>4

(* A frame that is not an event of r comes, or goes.                       *)
LEMMA PendingAfterOther ==
  ASSUME NEW S, NEW w \in Seq(S), NEW T, NEW h \in Seq(T), NEW n \in Nat, NEW r,
         NEW f \in S, ~ IsOf(f, r), Pending(w, h, n, r)
  PROVE  Pending(Append(w, f), h, n, r)
<1> DEFINE v == Append(w, f)
<1>1. PICK pos : Places(w, h, n, r, pos)
  BY DEF Pending
<1>2. /\ Len(w) \in Nat /\ Len(v) = Len(w) + 1 /\ v[Len(w) + 1] = f
      /\ \A i \in 1..Len(w) : v[i] = w[i] /\ i \in 1..Len(v)
  BY AppendAt
<1>3. Len(h) \in Nat
  OBVIOUS
<1> HIDE DEF v
<1>4. pos \in [(n + 1)..Len(h) -> 1..Len(v)]
  BY <1>1, <1>2 DEF Places
<1>5. \A k \in (n + 1)..Len(h) : IsOf(v[pos[k]], r) /\ v[pos[k]].phase = h[k]
  BY <1>1, <1>2 DEF Places
<1>6. ASSUME NEW i \in 1..Len(v), IsOf(v[i], r) PROVE \E k \in (n + 1)..Len(h) : pos[k] = i
  <2>1. i \in 1..Len(w) /\ v[i] = w[i]
    BY <1>2, <1>6
  <2> QED
    BY <1>1, <1>6, <2>1 DEF Places
<1>7. Places(v, h, n, r, pos)
  BY <1>1, <1>4, <1>5, <1>6 DEF Places
<1> QED
  BY <1>7 DEF Pending, v

LEMMA PendingBeforeOther ==
  ASSUME NEW S, NEW w \in Seq(S), NEW T, NEW h \in Seq(T), NEW n \in Nat, NEW r,
         w # <<>>, ~ IsOf(Head(w), r), Pending(w, h, n, r)
  PROVE  Pending(Tail(w), h, n, r)
<1> DEFINE v == Tail(w)
           p(pos) == [k \in (n + 1)..Len(h) |-> pos[k] - 1]
<1>1. PICK pos : Places(w, h, n, r, pos)
  BY DEF Pending
<1>2. /\ Head(w) = w[1] /\ Len(w) \in Nat \ {0} /\ Len(v) = Len(w) - 1
      /\ \A i \in 1..Len(v) : v[i] = w[i + 1] /\ i + 1 \in 1..Len(w)
  BY TailAt
<1>3. Len(h) \in Nat
  OBVIOUS
<1> HIDE DEF v
<1>4. ASSUME NEW k \in (n + 1)..Len(h)
      PROVE  p(pos)[k] = pos[k] - 1 /\ pos[k] \in 2..Len(w) /\ pos[k] - 1 \in 1..Len(v)
  <2>1. pos[k] \in 1..Len(w) /\ IsOf(w[pos[k]], r)
    BY <1>1 DEF Places
  <2>2. pos[k] # 1
    BY <1>2, <2>1
  <2> QED
    BY <1>2, <2>1, <2>2
<1>5. p(pos) \in [(n + 1)..Len(h) -> 1..Len(v)]
  BY <1>4
<1>6. ASSUME NEW k \in (n + 1)..Len(h)
      PROVE  v[p(pos)[k]] = w[pos[k]]
  <2>1. pos[k] \in Nat
    BY <1>4, <1>2
  <2>2. v[pos[k] - 1] = w[(pos[k] - 1) + 1]
    BY <1>4, <1>2
  <2> QED
    BY <1>4, <2>1, <2>2
<1>7. \A k \in (n + 1)..Len(h) : IsOf(v[p(pos)[k]], r) /\ v[p(pos)[k]].phase = h[k]
  BY <1>1, <1>6 DEF Places
<1>8. \A k, l \in (n + 1)..Len(h) : k < l => p(pos)[k] < p(pos)[l]
  <2> SUFFICES ASSUME NEW k \in (n + 1)..Len(h), NEW l \in (n + 1)..Len(h), k < l
               PROVE  p(pos)[k] < p(pos)[l]
    OBVIOUS
  <2>1. pos[k] < pos[l]
    BY <1>1 DEF Places
  <2>2. /\ p(pos)[k] = pos[k] - 1 /\ p(pos)[l] = pos[l] - 1
        /\ pos[k] \in 2..Len(w) /\ pos[l] \in 2..Len(w)
    BY <1>4
  <2> HIDE DEF p
  <2> QED
    BY <1>2, <2>1, <2>2
<1>9. ASSUME NEW i \in 1..Len(v), IsOf(v[i], r) PROVE \E k \in (n + 1)..Len(h) : p(pos)[k] = i
  <2>1. i + 1 \in 1..Len(w) /\ v[i] = w[i + 1] /\ i \in Nat
    BY <1>2, <1>9
  <2>2. PICK k \in (n + 1)..Len(h) : pos[k] = i + 1
    BY <1>1, <1>9, <2>1 DEF Places
  <2> QED
    BY <1>4, <2>1, <2>2
<1> HIDE DEF p
<1>10. Places(v, h, n, r, p(pos))
  BY <1>5, <1>7, <1>8, <1>9 DEF Places
<1> QED
  BY <1>10 DEF Pending, v

(* The gateway sends an event of r, and the sidecar gets its first one.    *)
LEMMA PendingAfterOwn ==
  ASSUME NEW S, NEW w \in Seq(S), NEW T, NEW h \in Seq(T), NEW n \in Nat, NEW r,
         NEW f \in S, NEW phase \in T, IsOf(f, r), f.phase = phase, Pending(w, h, n, r)
  PROVE  Pending(Append(w, f), Append(h, phase), n, r)
<1> DEFINE v == Append(w, f)
           g == Append(h, phase)
           p(pos) == [k \in (n + 1)..Len(g) |-> IF k = Len(g) THEN Len(v) ELSE pos[k]]
<1>1. PICK pos : Places(w, h, n, r, pos)
  BY DEF Pending
<1>2. /\ Len(w) \in Nat /\ Len(v) = Len(w) + 1 /\ v[Len(v)] = f
      /\ \A i \in 1..Len(w) : v[i] = w[i] /\ i \in 1..Len(v)
  BY AppendAt
<1>3. /\ Len(h) \in Nat /\ Len(g) = Len(h) + 1 /\ g[Len(g)] = phase
      /\ \A i \in 1..Len(h) : g[i] = h[i]
  BY AppendAt
<1>4. n <= Len(h)
  BY DEF Pending
<1> HIDE DEF v, g
<1>5. ASSUME NEW k \in (n + 1)..Len(g), k # Len(g)
      PROVE  /\ k \in (n + 1)..Len(h) /\ p(pos)[k] = pos[k] /\ pos[k] \in 1..Len(w)
             /\ g[k] = h[k] /\ v[pos[k]] = w[pos[k]]
  <2>1. k \in (n + 1)..Len(h)
    BY <1>3, <1>5
  <2>2. pos[k] \in 1..Len(w) /\ k \in 1..Len(h)
    BY <1>1, <1>3, <2>1 DEF Places
  <2> QED
    BY <1>2, <1>3, <1>5, <2>1, <2>2
<1>6. Len(g) \in (n + 1)..Len(g) /\ p(pos)[Len(g)] = Len(v) /\ Len(v) \in 1..Len(v)
  BY <1>2, <1>3, <1>4
<1>7. p(pos) \in [(n + 1)..Len(g) -> 1..Len(v)]
  BY <1>2, <1>5, <1>6
<1>8. ASSUME NEW k \in (n + 1)..Len(g)
      PROVE  IsOf(v[p(pos)[k]], r) /\ v[p(pos)[k]].phase = g[k]
  <2>1. CASE k = Len(g)
    BY <1>2, <1>3, <1>6, <2>1
  <2>2. CASE k # Len(g)
    <3>1. IsOf(w[pos[k]], r) /\ w[pos[k]].phase = h[k]
      BY <1>1, <1>5, <2>2 DEF Places
    <3> QED
      BY <1>5, <2>2, <3>1
  <2> QED
    BY <2>1, <2>2
<1>9. \A k, l \in (n + 1)..Len(g) : k < l => p(pos)[k] < p(pos)[l]
  <2> SUFFICES ASSUME NEW k \in (n + 1)..Len(g), NEW l \in (n + 1)..Len(g), k < l
               PROVE  p(pos)[k] < p(pos)[l]
    OBVIOUS
  <2>1. k # Len(g)
    BY <1>3
  <2>2. p(pos)[k] = pos[k] /\ pos[k] \in 1..Len(w) /\ k \in (n + 1)..Len(h)
    BY <1>5, <2>1
  <2>3. CASE l = Len(g)
    BY <1>2, <1>6, <2>2, <2>3
  <2>4. CASE l # Len(g)
    BY <1>1, <1>5, <2>2, <2>4 DEF Places
  <2> QED
    BY <2>3, <2>4
<1>10. ASSUME NEW i \in 1..Len(v), IsOf(v[i], r) PROVE \E k \in (n + 1)..Len(g) : p(pos)[k] = i
  <2>1. CASE i = Len(v)
    BY <1>6, <2>1
  <2>2. CASE i # Len(v)
    <3>1. i \in 1..Len(w) /\ v[i] = w[i]
      BY <1>2, <2>2
    <3>2. PICK k \in (n + 1)..Len(h) : pos[k] = i
      BY <1>1, <1>10, <3>1 DEF Places
    <3>3. k \in (n + 1)..Len(g) /\ k # Len(g)
      BY <1>3
    <3> QED
      BY <1>5, <3>2, <3>3
  <2> QED
    BY <2>1, <2>2
<1> HIDE DEF p
<1>11. Places(v, g, n, r, p(pos))
  BY <1>7, <1>8, <1>9, <1>10 DEF Places
<1>12. n <= Len(g)
  BY <1>3, <1>4
<1> QED
  BY <1>11, <1>12 DEF Pending, v, g

LEMMA PendingBeforeOwn ==
  ASSUME NEW S, NEW w \in Seq(S), NEW T, NEW h \in Seq(T), NEW n \in Nat, NEW r,
         w # <<>>, IsOf(Head(w), r), Pending(w, h, n, r)
  PROVE  /\ n + 1 \in 1..Len(h) /\ Head(w).phase = h[n + 1]
         /\ Pending(Tail(w), h, n + 1, r)
<1> DEFINE v == Tail(w)
           m == n + 1
           p(pos) == [k \in (m + 1)..Len(h) |-> pos[k] - 1]
<1>1. PICK pos : Places(w, h, n, r, pos)
  BY DEF Pending
<1>2. /\ Head(w) = w[1] /\ Len(w) \in Nat \ {0} /\ Len(v) = Len(w) - 1
      /\ \A i \in 1..Len(v) : v[i] = w[i + 1] /\ i + 1 \in 1..Len(w)
  BY TailAt
<1>3. Len(h) \in Nat
  OBVIOUS
<1>4. m \in m..Len(h) /\ pos[m] = 1
  <2>1. PICK k \in m..Len(h) : pos[k] = 1
    <3>1. 1 \in 1..Len(w)
      BY <1>2
    <3> QED
      BY <1>1, <1>2, <3>1 DEF Places
  <2>2. m \in m..Len(h)
    BY <1>3
  <2>3. k = m
    <3>1. m < k => pos[m] < pos[k]
      BY <1>1, <2>2 DEF Places
    <3>2. pos[m] \in 1..Len(w)
      BY <1>1, <2>2 DEF Places
    <3> QED
      BY <1>2, <1>3, <2>1, <3>1, <3>2
  <2> QED
    BY <2>1, <2>2, <2>3
<1>5. m \in 1..Len(h) /\ Head(w).phase = h[m]
  BY <1>1, <1>2, <1>3, <1>4 DEF Places
<1> HIDE DEF v
<1>6. ASSUME NEW k \in (m + 1)..Len(h)
      PROVE  /\ p(pos)[k] = pos[k] - 1 /\ pos[k] \in 2..Len(w) /\ pos[k] - 1 \in 1..Len(v)
             /\ k \in m..Len(h) /\ v[pos[k] - 1] = w[pos[k]]
  <2>1. k \in m..Len(h) /\ m < k
    BY <1>3
  <2>2. pos[k] \in 1..Len(w) /\ pos[m] < pos[k]
    BY <1>1, <1>4, <2>1 DEF Places
  <2>3. pos[k] \in 2..Len(w) /\ pos[k] - 1 \in 1..Len(v) /\ (pos[k] - 1) + 1 = pos[k]
    BY <1>2, <1>4, <2>2
  <2>4. v[pos[k] - 1] = w[(pos[k] - 1) + 1]
    BY <1>2, <2>3
  <2> QED
    BY <2>1, <2>3, <2>4
<1>7. p(pos) \in [(m + 1)..Len(h) -> 1..Len(v)]
  BY <1>6
<1>8. ASSUME NEW k \in (m + 1)..Len(h)
      PROVE  IsOf(v[p(pos)[k]], r) /\ v[p(pos)[k]].phase = h[k]
  <2>1. IsOf(w[pos[k]], r) /\ w[pos[k]].phase = h[k]
    BY <1>1, <1>6 DEF Places
  <2> QED
    BY <1>6, <2>1
<1>9. \A k, l \in (m + 1)..Len(h) : k < l => p(pos)[k] < p(pos)[l]
  <2> SUFFICES ASSUME NEW k \in (m + 1)..Len(h), NEW l \in (m + 1)..Len(h), k < l
               PROVE  p(pos)[k] < p(pos)[l]
    OBVIOUS
  <2>1. k \in m..Len(h) /\ l \in m..Len(h)
    BY <1>6
  <2>2. pos[k] < pos[l] /\ pos[k] \in 2..Len(w) /\ pos[l] \in 2..Len(w)
    BY <1>1, <1>6, <2>1 DEF Places
  <2>3. p(pos)[k] = pos[k] - 1 /\ p(pos)[l] = pos[l] - 1
    BY <1>6
  <2> HIDE DEF p
  <2> QED
    BY <1>2, <2>2, <2>3
<1>10. ASSUME NEW i \in 1..Len(v), IsOf(v[i], r) PROVE \E k \in (m + 1)..Len(h) : p(pos)[k] = i
  <2>1. i + 1 \in 1..Len(w) /\ v[i] = w[i + 1] /\ i \in Nat
    BY <1>2, <1>10
  <2>2. PICK k \in m..Len(h) : pos[k] = i + 1
    BY <1>1, <1>10, <2>1 DEF Places
  <2>3. k # m
    BY <1>2, <1>4, <1>10, <2>1, <2>2
  <2>4. k \in (m + 1)..Len(h)
    BY <1>3, <2>3
  <2> QED
    BY <1>6, <2>1, <2>2, <2>4
<1> HIDE DEF p
<1>11. Places(v, h, m, r, p(pos))
  BY <1>7, <1>8, <1>9, <1>10 DEF Places
<1>12. m <= Len(h)
  BY <1>3, <1>5
<1> QED
  BY <1>5, <1>11, <1>12 DEF Pending, v

-----------------------------------------------------------------------------
(* Requests on their way to the gateway, and answers on their way back.    *)

FrameOut == [type : {"connect", "patch", "agent"}, id : Runs \cup {None}]
Answer == [type : {"patch", "agent", "result"}, id : Runs, ok : BOOLEAN]
FrameIn == Answer \cup [type : {"event"}, id : Runs, phase : Phases]

IsRequest(frame) == frame.type \in {"patch", "agent"}
Holds(q, r) == \E i \in 1..Len(q) : IsRequest(q[i]) /\ q[i].id = r

(* What is asked, or answered, of a run is what its handler waits for.     *)
Told(q, p) == \A i \in 1..Len(q) : IsRequest(q[i]) => q[i].id \in Runs /\ p[q[i].id] = q[i].type

Distinct(q) ==
  \A i, j \in 1..Len(q) : IsRequest(q[i]) /\ IsRequest(q[j]) /\ q[i].id = q[j].id => i = j

(* A handler waits for exactly one thing: its request, or the answer.      *)
Asked(o, w, p) ==
  /\ Told(o, p) /\ Told(w, p) /\ Distinct(o) /\ Distinct(w)
  /\ \A r \in Runs : ~ (Holds(o, r) /\ Holds(w, r))
  /\ \A r \in Runs : p[r] \in {"patch", "agent"} => Holds(o, r) \/ Holds(w, r)

LEMMA AppendHolds ==
  ASSUME NEW S, NEW q \in Seq(S), NEW f \in S
  PROVE  \A r : Holds(Append(q, f), r) <=> Holds(q, r) \/ (IsRequest(f) /\ f.id = r)
<1> DEFINE v == Append(q, f)
<1>1. /\ Len(q) \in Nat /\ Len(v) = Len(q) + 1 /\ v[Len(q) + 1] = f
      /\ \A i \in 1..Len(q) : v[i] = q[i] /\ i \in 1..Len(v)
  BY AppendAt
<1>2. Len(q) + 1 \in 1..Len(v)
  BY <1>1
<1>3. \A i \in 1..Len(v) : i \in 1..Len(q) \/ i = Len(q) + 1
  BY <1>1
<1> HIDE DEF v
<1>4. \A r : Holds(v, r) <=> Holds(q, r) \/ (IsRequest(f) /\ f.id = r)
  <2> TAKE r
  <2>1. Holds(v, r) => Holds(q, r) \/ (IsRequest(f) /\ f.id = r)
    BY <1>1, <1>3, Zenon DEF Holds
  <2>2. Holds(q, r) => Holds(v, r)
    BY <1>1, Zenon DEF Holds
  <2>3. IsRequest(f) /\ f.id = r => Holds(v, r)
    BY <1>1, <1>2, Zenon DEF Holds
  <2> QED
    BY <2>1, <2>2, <2>3
<1> QED
  BY <1>4 DEF v

LEMMA AppendTold ==
  ASSUME NEW S, NEW q \in Seq(S), NEW f \in S, NEW p, Told(q, p),
         IsRequest(f) => f.id \in Runs /\ p[f.id] = f.type
  PROVE  Told(Append(q, f), p)
<1> DEFINE v == Append(q, f)
<1>1. /\ Len(q) \in Nat /\ Len(v) = Len(q) + 1 /\ v[Len(q) + 1] = f
      /\ \A i \in 1..Len(q) : v[i] = q[i]
  BY AppendAt
<1>2. \A i \in 1..Len(v) : i \in 1..Len(q) \/ i = Len(q) + 1
  BY <1>1
<1> HIDE DEF v
<1>3. Told(v, p)
  BY <1>1, <1>2 DEF Told
<1> QED
  BY <1>3 DEF v

LEMMA AppendDistinct ==
  ASSUME NEW S, NEW q \in Seq(S), NEW f \in S, Distinct(q), IsRequest(f) => ~ Holds(q, f.id)
  PROVE  Distinct(Append(q, f))
<1> DEFINE v == Append(q, f)
<1>1. /\ Len(q) \in Nat /\ Len(v) = Len(q) + 1 /\ v[Len(q) + 1] = f
      /\ \A i \in 1..Len(q) : v[i] = q[i]
  BY AppendAt
<1>2. \A i \in 1..Len(v) : i \in 1..Len(q) \/ i = Len(q) + 1
  BY <1>1
<1> HIDE DEF v
<1>3. \A i \in 1..Len(q) : IsRequest(q[i]) /\ IsRequest(f) => q[i].id # f.id
  BY DEF Holds
<1>4. Distinct(v)
  BY <1>1, <1>2, <1>3 DEF Distinct
<1> QED
  BY <1>4 DEF v

LEMMA TailRequests ==
  ASSUME NEW S, NEW q \in Seq(S), q # <<>>, NEW p, Told(q, p), Distinct(q)
  PROVE  /\ Told(Tail(q), p) /\ Distinct(Tail(q))
         /\ IsRequest(Head(q)) => Head(q).id \in Runs /\ p[Head(q).id] = Head(q).type
         /\ \A r : Holds(Tail(q), r) <=> Holds(q, r) /\ ~ (IsRequest(Head(q)) /\ Head(q).id = r)
<1> DEFINE v == Tail(q)
           f == Head(q)
<1>1. /\ f = q[1] /\ Len(q) \in Nat \ {0} /\ Len(v) = Len(q) - 1
      /\ \A i \in 1..Len(v) : v[i] = q[i + 1] /\ i + 1 \in 1..Len(q)
  BY TailAt
<1>2. 1 \in 1..Len(q)
  BY <1>1
<1>3. \A i \in 1..Len(q) : i = 1 \/ (i - 1 \in 1..Len(v) /\ q[i] = v[i - 1])
  <2> TAKE i \in 1..Len(q)
  <2>1. CASE i # 1
    <3>1. i - 1 \in 1..Len(v) /\ (i - 1) + 1 = i
      BY <1>1, <2>1
    <3>2. v[i - 1] = q[(i - 1) + 1]
      BY <1>1, <3>1
    <3> QED
      BY <3>1, <3>2
  <2> QED
    BY <2>1
<1> HIDE DEF v, f
<1>4. Told(v, p) /\ (IsRequest(f) => f.id \in Runs /\ p[f.id] = f.type)
  BY <1>1, <1>2 DEF Told
<1>5. Distinct(v)
  <2> SUFFICES ASSUME NEW i \in 1..Len(v), NEW j \in 1..Len(v),
                      IsRequest(v[i]), IsRequest(v[j]), v[i].id = v[j].id
               PROVE  i = j
    BY DEF Distinct
  <2>1. i + 1 = j + 1
    BY <1>1 DEF Distinct
  <2> QED
    BY <2>1
<1>6. ASSUME NEW r
      PROVE  Holds(v, r) <=> Holds(q, r) /\ ~ (IsRequest(f) /\ f.id = r)
  <2>1. ASSUME Holds(v, r) PROVE Holds(q, r) /\ ~ (IsRequest(f) /\ f.id = r)
    <3>1. PICK i \in 1..Len(v) : IsRequest(v[i]) /\ v[i].id = r
      BY <2>1 DEF Holds
    <3>2. i + 1 \in 1..Len(q) /\ IsRequest(q[i + 1]) /\ q[i + 1].id = r /\ i + 1 # 1
      BY <1>1, <3>1
    <3>3. ~ (IsRequest(q[1]) /\ q[1].id = r)
      BY <1>2, <3>2 DEF Distinct
    <3> QED
      BY <1>1, <3>2, <3>3 DEF Holds
  <2>2. ASSUME Holds(q, r), ~ (IsRequest(f) /\ f.id = r) PROVE Holds(v, r)
    <3>1. PICK i \in 1..Len(q) : IsRequest(q[i]) /\ q[i].id = r
      BY <2>2 DEF Holds
    <3>2. i # 1
      BY <1>1, <2>2, <3>1
    <3> QED
      BY <1>3, <3>1, <3>2 DEF Holds
  <2> QED
    BY <2>1, <2>2
<1> QED
  BY <1>4, <1>5, <1>6 DEF v, f

LEMMA NoRequests ==
  ASSUME NEW p
  PROVE  /\ Told(<<>>, p) /\ Distinct(<<>>) /\ \A r : ~ Holds(<<>>, r)
         /\ \A r : Silent(<<>>, r)
BY DEF Told, Distinct, Holds, Silent

(* A request is held only for a handler that waits.                        *)
LEMMA HeldWaits ==
  ASSUME NEW q, NEW p, Told(q, p), NEW r, Holds(q, r)
  PROVE  r \in Runs /\ p[r] \in {"patch", "agent"}
BY DEF Told, Holds, IsRequest

(* A handler that does not wait goes on.                                   *)
LEMMA AskedElsewhere ==
  ASSUME NEW o, NEW w, NEW p \in [Runs -> PostPc], NEW r \in Runs, Asked(o, w, p),
         ~ Holds(o, r), ~ Holds(w, r), NEW v, v \notin {"patch", "agent"}
  PROVE  Asked(o, w, [p EXCEPT ![r] = v])
<1> DEFINE x == [p EXCEPT ![r] = v]
<1>1. x[r] = v /\ \A t \in Runs \ {r} : x[t] = p[t]
  OBVIOUS
<1> HIDE DEF x
<1>2. Told(o, x) /\ Told(w, x)
  BY <1>1 DEF Asked, Told, Holds
<1>3. \A t \in Runs : x[t] \in {"patch", "agent"} => Holds(o, t) \/ Holds(w, t)
  BY <1>1 DEF Asked
<1> QED
  BY <1>2, <1>3 DEF Asked, x

(* A handler sends a request, and waits for it.                            *)
LEMMA AskedSent ==
  ASSUME NEW o \in Seq(FrameOut), NEW w, NEW p \in [Runs -> PostPc], NEW r \in Runs,
         Asked(o, w, p), p[r] \notin {"patch", "agent"}, NEW t \in {"patch", "agent"}
  PROVE  Asked(Append(o, Frame(t, r)), w, [p EXCEPT ![r] = t])
<1> DEFINE f == Frame(t, r)
           x == [p EXCEPT ![r] = t]
<1>1. f \in FrameOut /\ f.type = t /\ f.id = r /\ IsRequest(f)
  BY DEF FrameOut, Frame, IsRequest
<1>2. x[r] = t /\ \A s \in Runs \ {r} : x[s] = p[s]
  OBVIOUS
<1>3. ~ Holds(o, r) /\ ~ Holds(w, r)
  BY HeldWaits DEF Asked
<1> HIDE DEF x, f
<1>4. Told(o, x) /\ Told(w, x)
  BY <1>2, <1>3 DEF Asked, Told, Holds
<1>5. Told(Append(o, f), x) /\ Distinct(Append(o, f))
  BY <1>1, <1>2, <1>3, <1>4, AppendTold, AppendDistinct DEF Asked
<1>6. \A s : Holds(Append(o, f), s) <=> Holds(o, s) \/ s = r
  <2>1. \A s : Holds(Append(o, f), s) <=> Holds(o, s) \/ (IsRequest(f) /\ f.id = s)
    BY <1>1, AppendHolds
  <2> QED
    BY <1>1, <2>1
<1> QED
  BY <1>2, <1>3, <1>4, <1>5, <1>6 DEF Asked, x, f

(* The gateway takes a request, and answers it.                            *)
LEMMA AskedAnswered ==
  ASSUME NEW o \in Seq(FrameOut), o # <<>>, NEW w \in Seq(FrameIn), NEW p, Asked(o, w, p),
         IsRequest(Head(o)),
         NEW f \in FrameIn, f.type = Head(o).type, f.id = Head(o).id
  PROVE  Asked(Tail(o), Append(w, f), p)
<1> DEFINE r == Head(o).id
<1>1. /\ Told(Tail(o), p) /\ Distinct(Tail(o)) /\ r \in Runs /\ p[r] = Head(o).type
      /\ \A s : Holds(Tail(o), s) <=> Holds(o, s) /\ ~ (IsRequest(Head(o)) /\ Head(o).id = s)
  BY TailRequests DEF Asked
<1>2. IsRequest(f) /\ f.id = r
  BY DEF IsRequest
<1>3. Holds(o, r)
  <2>1. Head(o) = o[1] /\ Len(o) \in Nat \ {0}
    BY TailAt
  <2> QED
    BY <2>1 DEF Holds
<1>4. ~ Holds(w, r)
  BY <1>1, <1>3 DEF Asked
<1>5. Told(Append(w, f), p) /\ Distinct(Append(w, f))
  BY <1>1, <1>2, <1>4, AppendTold, AppendDistinct DEF Asked
<1>6. \A s : Holds(Append(w, f), s) <=> Holds(w, s) \/ (IsRequest(f) /\ f.id = s)
  BY AppendHolds
<1> QED
  BY <1>1, <1>2, <1>5, <1>6 DEF Asked

(* Other frames.                                                           *)
LEMMA AskedOther ==
  ASSUME NEW o \in Seq(FrameOut), NEW w \in Seq(FrameIn), NEW p, Asked(o, w, p)
  PROVE  /\ \A f \in FrameOut : ~ IsRequest(f) => Asked(Append(o, f), w, p)
         /\ \A f \in FrameIn : ~ IsRequest(f) => Asked(o, Append(w, f), p)
         /\ o # <<>> /\ ~ IsRequest(Head(o)) => Asked(Tail(o), w, p)
         /\ w # <<>> /\ ~ IsRequest(Head(w)) => Asked(o, Tail(w), p)
<1>1. ASSUME NEW f \in FrameOut, ~ IsRequest(f) PROVE Asked(Append(o, f), w, p)
  <2>1. Told(Append(o, f), p) /\ Distinct(Append(o, f))
    BY <1>1, AppendTold, AppendDistinct DEF Asked
  <2>2. \A s : Holds(Append(o, f), s) <=> Holds(o, s)
    BY <1>1, AppendHolds
  <2> QED
    BY <2>1, <2>2 DEF Asked
<1>2. ASSUME NEW f \in FrameIn, ~ IsRequest(f) PROVE Asked(o, Append(w, f), p)
  <2>1. Told(Append(w, f), p) /\ Distinct(Append(w, f))
    BY <1>2, AppendTold, AppendDistinct DEF Asked
  <2>2. \A s : Holds(Append(w, f), s) <=> Holds(w, s)
    BY <1>2, AppendHolds
  <2> QED
    BY <2>1, <2>2 DEF Asked
<1>3. ASSUME o # <<>>, ~ IsRequest(Head(o)) PROVE Asked(Tail(o), w, p)
  <2>1. Told(Tail(o), p) /\ Distinct(Tail(o)) /\ \A s : Holds(Tail(o), s) <=> Holds(o, s)
    BY <1>3, TailRequests DEF Asked
  <2> QED
    BY <2>1 DEF Asked
<1>4. ASSUME w # <<>>, ~ IsRequest(Head(w)) PROVE Asked(o, Tail(w), p)
  <2>1. Told(Tail(w), p) /\ Distinct(Tail(w)) /\ \A s : Holds(Tail(w), s) <=> Holds(w, s)
    BY <1>4, TailRequests DEF Asked
  <2> QED
    BY <2>1 DEF Asked
<1> QED
  BY <1>1, <1>2, <1>3, <1>4

(* An answer is received, and its handler goes on.                         *)
LEMMA AskedSettled ==
  ASSUME NEW o, NEW w \in Seq(FrameIn), w # <<>>, NEW p \in [Runs -> PostPc], Asked(o, w, p),
         IsRequest(Head(w)), NEW v, v \notin {"patch", "agent"}
  PROVE  /\ Head(w).id \in Runs /\ p[Head(w).id] = Head(w).type
         /\ Asked(o, Tail(w), [p EXCEPT ![Head(w).id] = v])
<1> DEFINE r == Head(w).id
           x == [p EXCEPT ![r] = v]
<1>1. /\ Told(Tail(w), p) /\ Distinct(Tail(w)) /\ r \in Runs /\ p[r] = Head(w).type
      /\ \A s : Holds(Tail(w), s) <=> Holds(w, s) /\ ~ (IsRequest(Head(w)) /\ Head(w).id = s)
  BY TailRequests DEF Asked
<1>2. ~ Holds(Tail(w), r) /\ \A s : s # r => (Holds(Tail(w), s) <=> Holds(w, s))
  BY <1>1
<1>3. Holds(w, r)
  <2>1. Head(w) = w[1] /\ Len(w) \in Nat \ {0}
    BY TailAt
  <2> QED
    BY <2>1 DEF Holds
<1>4. ~ Holds(o, r)
  BY <1>1, <1>3 DEF Asked
<1>5. x[r] = v /\ \A s \in Runs \ {r} : x[s] = p[s]
  BY <1>1
<1> HIDE DEF x, r
<1>6. Told(o, x) /\ Told(Tail(w), x)
  BY <1>1, <1>2, <1>4, <1>5 DEF Asked, Told, Holds
<1>7. Asked(o, Tail(w), x)
  BY <1>1, <1>2, <1>4, <1>5, <1>6 DEF Asked
<1> QED
  BY <1>1, <1>7 DEF x, r

-----------------------------------------------------------------------------
(* Runs and the clients that follow them.                                  *)

RunType ==
  [present : BOOLEAN, status : Statuses, events : Seq(Event), sse : SUBSET Clients]
ClientType ==
  [pc : {"none", "live", "ended"}, run : Runs \cup {None}, got : Seq(Event)]

Answering == {"agent", "agreed", "accepted", "denied"}

(* The active run of a session is one of it, was created, and has not      *)
(* ended; a run has the clients that follow it, and is followed only once  *)
(* its id was given away.                                                  *)
Streams(p, a, rs, cl) ==
  /\ \A s \in Sessions : a[s] # None =>
       SessionOf[a[s]] = s /\ rs[a[s]].status \notin Terminal /\ p[a[s]] \in Answering
  /\ \A r \in Runs : \A c \in rs[r].sse : cl[c].pc = "live" /\ cl[c].run = r
  /\ \A c \in Clients : cl[c].pc # "none" => cl[c].run \in Runs /\ p[cl[c].run] = "accepted"

(* StreamsAgree, of these runs and clients.                                *)
Agree(rs, cl) ==
  \A c \in Clients :
    /\ cl[c].pc = "live" =>
         /\ c \in rs[cl[c].run].sse /\ rs[cl[c].run].status \notin Terminal
         /\ cl[c].got = rs[cl[c].run].events
    /\ cl[c].pc = "ended" =>
         /\ rs[cl[c].run].status \in Terminal
         /\ cl[c].got = Append(rs[cl[c].run].events, StreamEnd)

Flow(p, a, rs, cl) ==
  /\ rs \in [Runs -> RunType] /\ cl \in [Clients -> ClientType]
  /\ a \in [Sessions -> Runs \cup {None}]
  /\ Streams(p, a, rs, cl) /\ Agree(rs, cl)

LEMMA Events ==
  /\ StreamEnd \in Event
  /\ \A r \in Runs, phase \in Phases :
       /\ [run |-> r, type |-> ProductType(phase)] \in Event
       /\ ProductType(phase) \in {"run.completed", "run.failed"} <=> phase \in Ending
       /\ ProductType(phase) \in {"run.started", "assistant.delta", "run.completed", "run.failed"}
BY DEF StreamEnd, Event, Phases, Ending, ProductType

LEMMA AbsentTypes ==
  /\ Absent \in RunType /\ Absent.events = <<>> /\ Absent.sse = {} /\ Absent.status = "accepted"
  /\ NewRun \in RunType /\ NewRun.events = <<>> /\ NewRun.sse = {} /\ NewRun.status = "accepted"
  /\ NewRun.present
<1> DEFINE no == FALSE
           yes == TRUE
           absent == [present |-> no, status |-> "accepted", events |-> <<>>, sse |-> {}]
           new == [absent EXCEPT !.present = yes]
<1>1. no \in BOOLEAN /\ yes \in BOOLEAN /\ yes
  OBVIOUS
<1>2. Absent = absent /\ NewRun = new
  BY DEF Absent, NewRun
<1>3. <<>> \in Seq(Event)
  OBVIOUS
<1> HIDE DEF no, yes
<1>4. /\ absent \in RunType /\ absent.events = <<>> /\ absent.sse = {} /\ absent.status = "accepted"
      /\ new \in RunType /\ new.events = <<>> /\ new.sse = {} /\ new.status = "accepted"
      /\ new.present = yes
  BY <1>1, <1>3 DEF RunType, Statuses
<1> QED
  BY <1>1, <1>2, <1>4

(* A handler goes on, and keeps what it has promised.                      *)
LEMMA FlowPosts ==
  ASSUME NEW p, NEW x, NEW a, NEW rs, NEW cl, Flow(p, a, rs, cl),
         \A r \in Runs : /\ p[r] \in Answering => x[r] \in Answering
                         /\ p[r] = "accepted" => x[r] = "accepted"
  PROVE  Flow(x, a, rs, cl)
BY DEF Flow, Streams

(* A run without clients is replaced: it becomes the active run of its     *)
(* session, or the session has none.                                       *)
LEMMA FlowReplaced ==
  ASSUME NEW p \in [Runs -> PostPc], NEW a, NEW rs, NEW cl, Flow(p, a, rs, cl),
         NEW r \in Runs, p[r] # "accepted",
         NEW pc, NEW run \in RunType, run.sse = {}, run.status = "accepted",
         NEW n \in {r, None}, n # None => pc \in Answering
  PROVE  /\ Flow([p EXCEPT ![r] = pc], [a EXCEPT ![SessionOf[r]] = n], [rs EXCEPT ![r] = run], cl)
         /\ rs[r].sse = {}
<1> DEFINE s == SessionOf[r]
           x == [p EXCEPT ![r] = pc]
           b == [a EXCEPT ![s] = n]
           ts == [rs EXCEPT ![r] = run]
<1>1. s \in Sessions /\ None \notin Runs
  BY SidecarAssumption
<1>2. x[r] = pc /\ \A t \in Runs \ {r} : x[t] = p[t]
  OBVIOUS
<1>3. a \in [Sessions -> Runs \cup {None}] /\ rs \in [Runs -> RunType] /\ cl \in [Clients -> ClientType]
  BY DEF Flow
<1>4. b \in [Sessions -> Runs \cup {None}] /\ b[s] = n /\ \A t \in Sessions \ {s} : b[t] = a[t]
  BY <1>1, <1>3
<1>5. ts \in [Runs -> RunType] /\ ts[r] = run /\ \A t \in Runs \ {r} : ts[t] = rs[t]
  BY <1>3
<1> HIDE DEF x, b, ts
<1>6. \A c \in Clients : cl[c].pc # "none" => cl[c].run \in Runs \ {r}
  BY DEF Flow, Streams
<1>7. rs[r].sse = {}
  <2>1. \A c \in rs[r].sse : c \in Clients
    BY <1>3 DEF RunType
  <2> QED
    BY <2>1, <1>6 DEF Flow, Streams
<1>8. ASSUME NEW t \in Sessions, b[t] # None
      PROVE  SessionOf[b[t]] = t /\ ts[b[t]].status \notin Terminal /\ x[b[t]] \in Answering
  <2>1. CASE t = s
    <3>1. b[t] = r /\ ts[r] = run /\ x[r] \in Answering
      BY <1>2, <1>4, <1>5, <1>8, <2>1
    <3> QED
      BY <3>1, <2>1 DEF Terminal
  <2>2. CASE t # s
    <3>1. a[t] # None /\ b[t] = a[t] /\ a[t] \in Runs
      BY <1>3, <1>4, <1>8, <2>2
    <3>2. SessionOf[a[t]] = t /\ rs[a[t]].status \notin Terminal /\ p[a[t]] \in Answering
      BY <3>1 DEF Flow, Streams
    <3>3. a[t] # r
      BY <3>2, <2>2
    <3> QED
      BY <3>1, <3>2, <3>3, <1>2, <1>5
  <2> QED
    BY <2>1, <2>2
<1>9. Streams(x, b, ts, cl)
  <2>1. \A t \in Runs : \A c \in ts[t].sse : cl[c].pc = "live" /\ cl[c].run = t
    BY <1>5 DEF Flow, Streams
  <2>2. \A c \in Clients : cl[c].pc # "none" => cl[c].run \in Runs /\ x[cl[c].run] = "accepted"
    BY <1>2, <1>6 DEF Flow, Streams
  <2> QED
    BY <1>8, <2>1, <2>2 DEF Streams
<1>10. Agree(ts, cl)
  <2> SUFFICES ASSUME NEW c \in Clients
               PROVE  /\ cl[c].pc = "live" =>
                           /\ c \in ts[cl[c].run].sse /\ ts[cl[c].run].status \notin Terminal
                           /\ cl[c].got = ts[cl[c].run].events
                      /\ cl[c].pc = "ended" =>
                           /\ ts[cl[c].run].status \in Terminal
                           /\ cl[c].got = Append(ts[cl[c].run].events, StreamEnd)
    BY DEF Agree
  <2>1. cl[c].pc # "none" => ts[cl[c].run] = rs[cl[c].run]
    BY <1>5, <1>6
  <2> QED
    BY <2>1 DEF Flow, Agree
<1> QED
  BY <1>3, <1>4, <1>5, <1>7, <1>9, <1>10 DEF Flow, x, b, ts

(* A client begins to follow a run, or leaves.                             *)
LEMMA FlowWatched ==
  ASSUME NEW p, NEW a, NEW rs, NEW cl, Flow(p, a, rs, cl),
         NEW c \in Clients, NEW r \in Runs, cl[c].pc = "none", p[r] = "accepted"
  PROVE  /\ rs[r].status \in Terminal =>
              Flow(p, a, rs, [cl EXCEPT ![c] = [pc |-> "ended", run |-> r,
                                                got |-> Append(rs[r].events, StreamEnd)]])
         /\ rs[r].status \notin Terminal =>
              Flow(p, a, [rs EXCEPT ![r].sse = @ \cup {c}],
                   [cl EXCEPT ![c] = [pc |-> "live", run |-> r, got |-> rs[r].events]])
<1>1. /\ a \in [Sessions -> Runs \cup {None}] /\ rs \in [Runs -> RunType]
      /\ cl \in [Clients -> ClientType] /\ rs[r].events \in Seq(Event) /\ rs[r].sse \subseteq Clients
  BY DEF Flow, RunType
<1>2. \A t \in Runs : c \notin rs[t].sse
  BY DEF Flow, Streams
<1>3. ASSUME rs[r].status \in Terminal
      PROVE  Flow(p, a, rs, [cl EXCEPT ![c] = [pc |-> "ended", run |-> r,
                                               got |-> Append(rs[r].events, StreamEnd)]])
  <2> DEFINE k == [pc |-> "ended", run |-> r, got |-> Append(rs[r].events, StreamEnd)]
             dl == [cl EXCEPT ![c] = k]
  <2>1. Append(rs[r].events, StreamEnd) \in Seq(Event)
    BY <1>1, Events
  <2>2. k \in ClientType /\ k.pc = "ended" /\ k.run = r /\ k.got = Append(rs[r].events, StreamEnd)
    BY <2>1 DEF ClientType
  <2> HIDE DEF k
  <2>3. dl \in [Clients -> ClientType] /\ dl[c] = k /\ \A d \in Clients \ {c} : dl[d] = cl[d]
    BY <1>1, <2>2
  <2> HIDE DEF dl
  <2>4. Streams(p, a, rs, dl)
    <3>1. \A t \in Runs : \A d \in rs[t].sse : d \in Clients \ {c}
      BY <1>1, <1>2 DEF RunType
    <3> QED
      BY <2>2, <2>3, <3>1 DEF Flow, Streams
  <2>5. Agree(rs, dl)
    <3>1. /\ dl[c].pc = "ended" /\ dl[c].got = Append(rs[dl[c].run].events, StreamEnd)
          /\ rs[dl[c].run].status \in Terminal
      BY <1>3, <2>2, <2>3
    <3>2. Agree(rs, cl)
      BY DEF Flow
    <3>3. ASSUME NEW d \in Clients \ {c}
          PROVE  /\ dl[d].pc = "live" =>
                      /\ d \in rs[dl[d].run].sse /\ rs[dl[d].run].status \notin Terminal
                      /\ dl[d].got = rs[dl[d].run].events
                 /\ dl[d].pc = "ended" =>
                      /\ rs[dl[d].run].status \in Terminal
                      /\ dl[d].got = Append(rs[dl[d].run].events, StreamEnd)
      <4>1. dl[d] = cl[d]
        BY <2>3
      <4> QED
        BY <3>2, <4>1 DEF Agree
    <3> QED
      BY <3>1, <3>3 DEF Agree
  <2>6. Flow(p, a, rs, dl)
    BY <1>1, <2>3, <2>4, <2>5 DEF Flow
  <2> QED
    BY <2>6 DEF dl, k
<1>4. ASSUME rs[r].status \notin Terminal
      PROVE  Flow(p, a, [rs EXCEPT ![r].sse = @ \cup {c}],
                  [cl EXCEPT ![c] = [pc |-> "live", run |-> r, got |-> rs[r].events]])
  <2> DEFINE k == [pc |-> "live", run |-> r, got |-> rs[r].events]
             dl == [cl EXCEPT ![c] = k]
             ts == [rs EXCEPT ![r].sse = @ \cup {c}]
  <2>1. k \in ClientType /\ k.pc = "live" /\ k.run = r /\ k.got = rs[r].events
    BY <1>1 DEF ClientType
  <2> HIDE DEF k
  <2>2. dl \in [Clients -> ClientType] /\ dl[c] = k /\ \A d \in Clients \ {c} : dl[d] = cl[d]
    BY <1>1, <2>1
  <2>3. /\ ts \in [Runs -> RunType] /\ \A t \in Runs \ {r} : ts[t] = rs[t]
        /\ ts[r].sse = rs[r].sse \cup {c} /\ ts[r].status = rs[r].status
        /\ ts[r].events = rs[r].events
    BY <1>1 DEF RunType
  <2> HIDE DEF dl, ts
  <2>4. \A t \in Runs : ts[t].status = rs[t].status /\ ts[t].events = rs[t].events
    BY <2>3
  <2>5. Streams(p, a, ts, dl)
    <3>1. ASSUME NEW t \in Runs, NEW d \in ts[t].sse PROVE dl[d].pc = "live" /\ dl[d].run = t
      <4>1. CASE d = c
        <5>1. t = r
          BY <1>2, <2>3, <3>1, <4>1
        <5> QED
          BY <2>1, <2>2, <4>1, <5>1
      <4>2. CASE d # c
        <5>1. d \in rs[t].sse /\ d \in Clients
          BY <1>1, <2>3, <3>1, <4>2 DEF RunType
        <5> QED
          BY <2>2, <4>2, <5>1 DEF Flow, Streams
      <4> QED
        BY <4>1, <4>2
    <3>2. \A s \in Sessions : a[s] # None =>
            SessionOf[a[s]] = s /\ ts[a[s]].status \notin Terminal /\ p[a[s]] \in Answering
      BY <1>1, <2>4 DEF Flow, Streams
    <3>3. \A d \in Clients : dl[d].pc # "none" => dl[d].run \in Runs /\ p[dl[d].run] = "accepted"
      BY <2>1, <2>2 DEF Flow, Streams
    <3> QED
      BY <3>1, <3>2, <3>3 DEF Streams
  <2>6. Agree(ts, dl)
    <3> SUFFICES ASSUME NEW d \in Clients
                 PROVE  /\ dl[d].pc = "live" =>
                             /\ d \in ts[dl[d].run].sse /\ ts[dl[d].run].status \notin Terminal
                             /\ dl[d].got = ts[dl[d].run].events
                        /\ dl[d].pc = "ended" =>
                             /\ ts[dl[d].run].status \in Terminal
                             /\ dl[d].got = Append(ts[dl[d].run].events, StreamEnd)
      BY DEF Agree
    <3>1. CASE d = c
      BY <1>4, <2>1, <2>2, <2>3, <3>1
    <3>2. CASE d # c
      <4>1. dl[d] = cl[d] /\ (cl[d].pc # "none" => cl[d].run \in Runs)
        BY <2>2, <3>2 DEF Flow, Streams
      <4>2. \A t \in Runs : d \in rs[t].sse => d \in ts[t].sse
        BY <2>3
      <4>3. /\ cl[d].pc = "live" =>
                 /\ d \in rs[cl[d].run].sse /\ rs[cl[d].run].status \notin Terminal
                 /\ cl[d].got = rs[cl[d].run].events
            /\ cl[d].pc = "ended" =>
                 /\ rs[cl[d].run].status \in Terminal
                 /\ cl[d].got = Append(rs[cl[d].run].events, StreamEnd)
        BY DEF Flow, Agree
      <4>4. PICK x : x = cl[d].run
        OBVIOUS
      <4>5. cl[d].pc # "none" =>
              /\ ts[x].status = rs[x].status /\ ts[x].events = rs[x].events
              /\ d \in rs[x].sse => d \in ts[x].sse
        BY <2>4, <4>1, <4>2, <4>4
      <4> QED
        BY <4>1, <4>3, <4>4, <4>5
    <3> QED
      BY <3>1, <3>2
  <2>7. Flow(p, a, ts, dl)
    BY <1>1, <2>2, <2>3, <2>5, <2>6 DEF Flow
  <2> QED
    BY <2>7 DEF dl, ts, k
<1> QED
  BY <1>3, <1>4

LEMMA FlowLeft ==
  ASSUME NEW p, NEW a, NEW rs, NEW cl, Flow(p, a, rs, cl), NEW c \in Clients, cl[c].pc = "live"
  PROVE  /\ cl[c].run \in Runs
         /\ Flow(p, a, [rs EXCEPT ![cl[c].run].sse = @ \ {c}], [cl EXCEPT ![c] = NoStream])
<1> DEFINE r == cl[c].run
           ts == [rs EXCEPT ![r].sse = @ \ {c}]
           dl == [cl EXCEPT ![c] = NoStream]
<1>1. /\ a \in [Sessions -> Runs \cup {None}] /\ rs \in [Runs -> RunType]
      /\ cl \in [Clients -> ClientType]
  BY DEF Flow
<1>2. r \in Runs
  BY DEF Flow, Streams
<1>3. NoStream \in ClientType /\ NoStream.pc = "none"
  BY DEF ClientType, NoStream
<1>4. dl \in [Clients -> ClientType] /\ dl[c].pc = "none" /\ \A d \in Clients \ {c} : dl[d] = cl[d]
  BY <1>1, <1>3
<1>5. /\ ts \in [Runs -> RunType] /\ \A t \in Runs \ {r} : ts[t] = rs[t]
      /\ ts[r].sse = rs[r].sse \ {c} /\ ts[r].status = rs[r].status
      /\ ts[r].events = rs[r].events
  BY <1>1, <1>2 DEF RunType
<1> HIDE DEF r, ts, dl
<1>6. \A t \in Runs : ts[t].status = rs[t].status /\ ts[t].events = rs[t].events
  BY <1>5
<1>7. \A t \in Runs : ts[t].sse = rs[t].sse \ {c}
  <2>1. \A t \in Runs \ {r} : c \notin rs[t].sse
    BY DEF Flow, Streams, r
  <2> QED
    BY <1>5, <2>1
<1>8. Streams(p, a, ts, dl)
  <2>1. ASSUME NEW t \in Runs, NEW d \in ts[t].sse PROVE dl[d].pc = "live" /\ dl[d].run = t
    <3>1. d \in rs[t].sse /\ d \in Clients \ {c}
      BY <1>1, <1>7, <2>1 DEF RunType
    <3> QED
      BY <1>4, <3>1 DEF Flow, Streams
  <2>2. \A s \in Sessions : a[s] # None =>
          SessionOf[a[s]] = s /\ ts[a[s]].status \notin Terminal /\ p[a[s]] \in Answering
    BY <1>1, <1>6 DEF Flow, Streams
  <2>3. \A d \in Clients : dl[d].pc # "none" => dl[d].run \in Runs /\ p[dl[d].run] = "accepted"
    BY <1>4 DEF Flow, Streams
  <2> QED
    BY <2>1, <2>2, <2>3 DEF Streams
<1>9. Agree(ts, dl)
  <2> SUFFICES ASSUME NEW d \in Clients, dl[d].pc # "none"
               PROVE  /\ dl[d].pc = "live" =>
                           /\ d \in ts[dl[d].run].sse /\ ts[dl[d].run].status \notin Terminal
                           /\ dl[d].got = ts[dl[d].run].events
                      /\ dl[d].pc = "ended" =>
                           /\ ts[dl[d].run].status \in Terminal
                           /\ dl[d].got = Append(ts[dl[d].run].events, StreamEnd)
    BY DEF Agree
  <2>1. d # c /\ dl[d] = cl[d]
    BY <1>4
  <2>2. cl[d].run \in Runs
    BY <2>1 DEF Flow, Streams
  <2>3. /\ cl[d].pc = "live" =>
             /\ d \in rs[cl[d].run].sse /\ rs[cl[d].run].status \notin Terminal
             /\ cl[d].got = rs[cl[d].run].events
        /\ cl[d].pc = "ended" =>
             /\ rs[cl[d].run].status \in Terminal
             /\ cl[d].got = Append(rs[cl[d].run].events, StreamEnd)
    BY DEF Flow, Agree
  <2>4. PICK x : x = cl[d].run
    OBVIOUS
  <2>5. ts[x].status = rs[x].status /\ ts[x].events = rs[x].events /\ ts[x].sse = rs[x].sse \ {c}
    BY <1>6, <1>7, <2>2, <2>4
  <2> QED
    BY <2>1, <2>3, <2>4, <2>5
<1>10. Flow(p, a, ts, dl)
  BY <1>1, <1>4, <1>5, <1>8, <1>9 DEF Flow
<1> QED
  BY <1>2, <1>10 DEF r, ts, dl

(* What this does, but for the clients.                                    *)
Gets(r, s, event) ==
  /\ r \in Runs /\ SessionOf[r] = s
  /\ \A t \in Runs \ {r} : runs'[t] = runs[t]
  /\ runs'[r].present = runs[r].present
  /\ runs'[r].events = Append(runs[r].events, event)
  /\ event.type \in {"run.completed", "run.failed"} => active' = [active EXCEPT ![s] = None]
  /\ event.type \notin {"run.completed", "run.failed"} => active' = active

(* The status of a run that has not ended, after an event.                 *)
LEMMA StatusIs ==
  ASSUME NEW type, NEW status \in Statuses, status \notin Terminal
  PROVE  /\ StatusOf(type, status) \in Statuses
         /\ StatusOf(type, status) \in Terminal <=> type \in {"run.completed", "run.failed"}
BY DEF StatusOf, Terminal, Statuses

(* A client that is written to.                                            *)
Written(old, ev, d) == [old EXCEPT !.got = ev, !.pc = d]

LEMMA ClientWritten ==
  ASSUME NEW old \in ClientType, NEW ev \in Seq(Event), NEW d \in {"live", "ended"}
  PROVE  /\ Written(old, ev, d).run = old.run /\ Written(old, ev, d).pc = d
         /\ Written(old, ev, d).got = ev /\ Written(old, ev, d) \in ClientType
<1>1. PICK new : new = [old EXCEPT !.got = ev, !.pc = d]
  OBVIOUS
<1>2. new = [pc |-> d, run |-> old.run, got |-> ev]
  BY <1>1, Zenon DEF ClientType
<1>3. new = Written(old, ev, d)
  BY <1>1, Zenon DEF Written
<1>4. Written(old, ev, d) = [pc |-> d, run |-> old.run, got |-> ev]
  BY <1>2, <1>3, Zenon
<1>5. old.run \in Runs \cup {None}
  BY DEF ClientType
<1> QED
  BY <1>4, <1>5 DEF ClientType

(* An event is given to the active run of a session, and to its clients.   *)
LEMMA PushedFlow ==
  ASSUME Flow(post, active, runs, client), NEW s \in Sessions, NEW r, r = active[s], r # None,
         NEW event \in Event, event.type # "stream.end", PushEvent(r, event)
  PROVE  Flow(post, active', runs', client') /\ Gets(r, s, event)
<1> DEFINE state == runs[r]
           status == StatusOf(event.type, state.status)
           done == status \in Terminal
           ends == event.type \in {"run.completed", "run.failed"}
           sent == IF done THEN <<event, StreamEnd>> ELSE <<event>>
<1>1. /\ active \in [Sessions -> Runs \cup {None}] /\ runs \in [Runs -> RunType]
      /\ client \in [Clients -> ClientType]
  BY DEF Flow
<1>2. r \in Runs /\ SessionOf[r] = s /\ state.status \notin Terminal /\ post[r] \in Answering
  BY <1>1 DEF Flow, Streams
<1>3. /\ state.status \in Statuses /\ state.events \in Seq(Event) /\ state.sse \subseteq Clients
  BY <1>1, <1>2 DEF RunType
<1>4. status \in Statuses /\ (done <=> ends)
  BY <1>2, <1>3, StatusIs, Zenon
<1>5. /\ runs' = [runs EXCEPT ![r].events = Append(@, event), ![r].status = status,
                              ![r].sse = IF done THEN {} ELSE @]
      /\ active' = IF ends THEN [active EXCEPT ![SessionOf[r]] = None] ELSE active
      /\ client' = [c \in Clients |->
                      IF c \notin state.sse THEN client[c]
                      ELSE Written(client[c], client[c].got \o sent,
                                   IF done THEN "ended" ELSE client[c].pc)]
  BY DEF PushEvent, Written
<1>6. Append(state.events, event) \in Seq(Event)
  BY <1>3
<1>7. /\ runs' \in [Runs -> RunType] /\ \A t \in Runs \ {r} : runs'[t] = runs[t]
      /\ runs'[r].events = Append(state.events, event)
      /\ runs'[r].status = status /\ runs'[r].present = state.present
      /\ runs'[r].sse = IF done THEN {} ELSE state.sse
  <2> DEFINE left == IF done THEN {} ELSE state.sse
             new == [state EXCEPT !.events = Append(@, event), !.status = status, !.sse = left]
  <2>1. runs' = [runs EXCEPT ![r] = new]
    BY <1>5
  <2>2. left \subseteq Clients /\ state \in RunType
    BY <1>1, <1>2, <1>3
  <2> HIDE DEF left, state, status
  <2>3. /\ new \in RunType /\ new.events = Append(state.events, event) /\ new.status = status
        /\ new.present = state.present /\ new.sse = left
    BY <1>4, <1>6, <2>2 DEF RunType
  <2> HIDE DEF new
  <2>4. runs' \in [Runs -> RunType] /\ runs'[r] = new /\ \A t \in Runs \ {r} : runs'[t] = runs[t]
    BY <1>1, <1>2, <2>1, <2>3
  <2> QED
    BY <2>3, <2>4 DEF left
<1>8. /\ sent \in Seq(Event)
      /\ done => state.events \o sent = Append(Append(state.events, event), StreamEnd)
      /\ ~ done => state.events \o sent = Append(state.events, event)
  <2>1. StreamEnd \in Event
    BY Events
  <2> DEFINE old == state.events
             both == Append(Append(old, event), StreamEnd)
  <2>2. old \in Seq(Event)
    BY <1>3
  <2> HIDE DEF old
  <2>3. old \o <<event>> = Append(old, event)
    BY <2>2
  <2>4. old \o <<event, StreamEnd>> = both
    BY <2>1, <2>2
  <2>5. <<event>> \in Seq(Event) /\ <<event, StreamEnd>> \in Seq(Event)
    BY <2>1
  <2> QED
    BY <2>3, <2>4, <2>5 DEF old
<1> HIDE DEF status, done, sent, ends, state
<1>9. ASSUME NEW c \in Clients, c \notin state.sse
      PROVE  client'[c] = client[c] /\ (client[c].pc = "live" => client[c].run # r)
  <2>1. client'[c] = client[c]
    BY <1>5, <1>9
  <2> QED
    BY <2>1, <1>9 DEF Flow, Agree, state
<1>10. ASSUME NEW c \in Clients, c \in state.sse
       PROVE  /\ client'[c] \in ClientType /\ client'[c].run = r
              /\ done => client'[c].pc = "ended"
              /\ ~ done => client'[c].pc = "live"
              /\ client'[c].got = state.events \o sent
  <2>1. client[c].pc = "live" /\ client[c].run = r
    BY <1>2, <1>10 DEF Flow, Streams, state
  <2>2. client[c].got = state.events /\ client[c] \in ClientType
    BY <1>1, <2>1 DEF Flow, Agree, state
  <2>3. PICK d, ev : /\ d = IF done THEN "ended" ELSE client[c].pc
                     /\ ev = client[c].got \o sent
    OBVIOUS
  <2>4. client'[c] = Written(client[c], ev, d)
    BY <1>5, <1>10, <2>3
  <2>5. d \in {"live", "ended"} /\ (done => d = "ended") /\ (~ done => d = "live")
    BY <2>1, <2>3
  <2>6. ev = state.events \o sent /\ ev \in Seq(Event)
    BY <1>3, <1>8, <2>2, <2>3
  <2>7. /\ client'[c].run = client[c].run /\ client'[c].pc = d
        /\ client'[c].got = ev /\ client'[c] \in ClientType
    <3>1. client[c] \in ClientType /\ ev \in Seq(Event) /\ d \in {"live", "ended"}
      BY <2>2, <2>5, <2>6
    <3> QED
      BY <2>4, <3>1, ClientWritten
  <2> QED
    BY <2>1, <2>5, <2>6, <2>7
<1>11. client' \in [Clients -> ClientType]
  <2>1. \A c \in Clients : client'[c] \in ClientType
    BY <1>1, <1>9, <1>10
  <2>2. client' = [c \in Clients |-> client'[c]]
    BY <1>5
  <2> QED
    BY <2>1, <2>2
<1>12. active' \in [Sessions -> Runs \cup {None}] /\ active' = IF ends THEN [active EXCEPT ![s] = None] ELSE active
  BY <1>1, <1>2, <1>5
<1>13. ASSUME NEW t \in Sessions, active'[t] # None
       PROVE  /\ SessionOf[active'[t]] = t /\ runs'[active'[t]].status \notin Terminal
              /\ post[active'[t]] \in Answering
  <2>1. active'[t] = active[t] /\ active[t] \in Runs
    BY <1>1, <1>12, <1>13
  <2>2. SessionOf[active[t]] = t /\ runs[active[t]].status \notin Terminal /\ post[active[t]] \in Answering
    BY <1>13, <2>1 DEF Flow, Streams
  <2>3. CASE active[t] = r
    <3>1. t = s
      BY <1>2, <2>2, <2>3
    <3>2. ~ ends
      BY <1>1, <1>12, <1>13, <3>1
    <3> QED
      BY <1>4, <1>7, <2>1, <2>2, <2>3, <3>2 DEF done
  <2>4. CASE active[t] # r
    BY <1>7, <2>1, <2>2, <2>4
  <2> QED
    BY <2>3, <2>4
<1>14. Streams(post, active', runs', client')
  <2>1. ASSUME NEW t \in Runs, NEW c \in runs'[t].sse PROVE client'[c].pc = "live" /\ client'[c].run = t
    <3>1. CASE t = r
      <4>1. ~ done /\ c \in state.sse /\ c \in Clients
        BY <1>3, <1>7, <2>1, <3>1
      <4> QED
        BY <1>10, <3>1, <4>1
    <3>2. CASE t # r
      <4>1. c \in runs[t].sse /\ c \in Clients
        BY <1>1, <1>7, <2>1, <3>2 DEF RunType
      <4>2. client[c].pc = "live" /\ client[c].run = t
        BY <4>1 DEF Flow, Streams
      <4>3. c \notin state.sse
        BY <1>2, <3>2, <4>2 DEF Flow, Streams, state
      <4> QED
        BY <1>9, <4>1, <4>2, <4>3
    <3> QED
      BY <3>1, <3>2
  <2>2. ASSUME NEW c \in Clients, client'[c].pc # "none"
        PROVE  client'[c].run \in Runs /\ post[client'[c].run] = "accepted"
    <3>1. client'[c].run = client[c].run /\ client[c].pc # "none"
      <4>1. CASE c \in state.sse
        BY <1>2, <1>10, <4>1 DEF Flow, Streams, state
      <4>2. CASE c \notin state.sse
        BY <1>9, <2>2, <4>2
      <4> QED
        BY <4>1, <4>2
    <3> QED
      BY <3>1 DEF Flow, Streams
  <2> QED
    BY <1>13, <2>1, <2>2 DEF Streams
<1>15. Agree(runs', client')
  <2> SUFFICES ASSUME NEW c \in Clients
               PROVE  /\ client'[c].pc = "live" =>
                           /\ c \in runs'[client'[c].run].sse
                           /\ runs'[client'[c].run].status \notin Terminal
                           /\ client'[c].got = runs'[client'[c].run].events
                      /\ client'[c].pc = "ended" =>
                           /\ runs'[client'[c].run].status \in Terminal
                           /\ client'[c].got = Append(runs'[client'[c].run].events, StreamEnd)
    BY DEF Agree
  <2>1. CASE c \in state.sse
    <3>1. CASE done
      BY <1>7, <1>8, <1>10, <2>1, <3>1 DEF done
    <3>2. CASE ~ done
      BY <1>7, <1>8, <1>10, <2>1, <3>2 DEF done
    <3> QED
      BY <3>1, <3>2
  <2>2. CASE c \notin state.sse
    <3>1. client'[c] = client[c] /\ (client[c].pc = "live" => client[c].run # r)
      BY <1>9, <2>2
    <3>2. client[c].pc = "ended" => client[c].run # r
      BY <1>2 DEF Flow, Agree, state
    <3>3. client[c].pc # "none" => client[c].run \in Runs
      BY DEF Flow, Streams
    <3>4. client[c].pc \in {"none", "live", "ended"}
      BY <1>1 DEF ClientType
    <3> QED
      BY <1>7, <3>1, <3>2, <3>3, <3>4 DEF Flow, Agree
  <2> QED
    BY <2>1, <2>2
<1> QED
  BY <1>2, <1>7, <1>11, <1>12, <1>14, <1>15 DEF Flow, ends, state, Gets

-----------------------------------------------------------------------------
(* The gateway: what it has taken, and what it says of it.                 *)

Early == {"new", "patch", "patched", "unpatched", "agent", "denied", "refused"}

(* The handler of a run the gateway has is not told otherwise, unless the  *)
(* connection was lost.                                                    *)
Honest ==
  \A r \in taken :
    \/ post[r] \in {"agent", "agreed", "accepted"}
    \/ r \in disturbed /\ post[r] \in {"denied", "refused"}

Untaken(o, tk) == \A i \in 1..Len(o) : o[i].type = "agent" => o[i].id \notin tk

Answered(w, tk) == \A i \in 1..Len(w) : w[i].type = "agent" => (w[i].ok <=> w[i].id \in tk)

(* A run is accepted before its events, and before its second response.    *)
IsLater(frame) == frame.type \in {"event", "result"}

Ordered(w, p, tk) ==
  \A i \in 1..Len(w) : IsLater(w[i]) =>
    /\ w[i].id \in tk
    /\ p[w[i].id] = "agent" =>
         \E j \in 1..Len(w) : j < i /\ w[j].type = "agent" /\ w[j].id = w[i].id

(* Only the last event of a run is terminal; a failed run has none.        *)
History ==
  \A r \in Runs :
    /\ said[r] # <<>> => r \in taken /\ r \notin failed
    /\ \A i \in 1..Len(said[r]) : said[r][i] \in Ending => i = Len(said[r])

(* The gateway has greeted whoever follows a run it has not finished.      *)
Reached == ~ greeted => \A r \in taken : Over(r) \/ r \in disturbed

(* An unfinished run that is undisturbed is the active one of its session, *)
(* and as long as it is, also when it has failed, no other run of the      *)
(* session is unfinished.                                                  *)
SoloAt(r) ==
  /\ Unfinished(r) => active[SessionOf[r]] = r
  /\ active[SessionOf[r]] = r =>
       /\ Unfinished(r) \/ r \in failed
       /\ runs[r].present
       /\ \A x \in Runs \ {r} : SessionOf[x] = SessionOf[r] => ~ Unfinished(x)
  /\ post[r] \in Early => runs[r].events = <<>>

(* It has the first events of its history, and the others are on the way.  *)
Matches(ev, h, r) ==
  Len(ev) <= Len(h) /\ \A i \in 1..Len(ev) : ev[i] = [run |-> r, type |-> ProductType(h[i])]

TraceAt(r) ==
  Matches(runs[r].events, said[r], r) /\ Pending(wire, said[r], Len(runs[r].events), r)

Typed ==
  /\ conn \in {"closed", "open", "up"} /\ closes \in 0..MaxCloses
  /\ out \in Seq(FrameOut) /\ wire \in Seq(FrameIn)
  /\ post \in [Runs -> PostPc] /\ configured \subseteq Sessions
  /\ greeted \in BOOLEAN /\ taken \subseteq Runs /\ said \in [Runs -> Seq(Phases)]
  /\ owed \subseteq taken /\ failed \subseteq taken
  /\ disturbed \subseteq Runs

Sound ==
  /\ Honest /\ Untaken(out, taken) /\ Answered(wire, taken) /\ Ordered(wire, post, taken)
  /\ History /\ Reached

IInv ==
  /\ Typed /\ Asked(out, wire, post) /\ Flow(post, active, runs, client)
  /\ Sound
  /\ \A r \in Runs \ disturbed : SoloAt(r) /\ TraceAt(r)

-----------------------------------------------------------------------------
(* Sequences of frames and what the gateway has.                           *)

LEMMA AnsweredTail ==
  ASSUME NEW w \in Seq(FrameIn), w # <<>>, NEW tk, Answered(w, tk)
  PROVE  Answered(Tail(w), tk)
<1>1. \A i \in 1..Len(Tail(w)) : Tail(w)[i] = w[i + 1] /\ i + 1 \in 1..Len(w)
  BY TailAt
<1> QED
  BY <1>1 DEF Answered

LEMMA UntakenTail ==
  ASSUME NEW o \in Seq(FrameOut), o # <<>>, NEW tk, Untaken(o, tk)
  PROVE  Untaken(Tail(o), tk)
<1>1. \A i \in 1..Len(Tail(o)) : Tail(o)[i] = o[i + 1] /\ i + 1 \in 1..Len(o)
  BY TailAt
<1> QED
  BY <1>1 DEF Untaken

LEMMA UntakenAppend ==
  ASSUME NEW o \in Seq(FrameOut), NEW f \in FrameOut, NEW tk, Untaken(o, tk),
         f.type = "agent" => f.id \notin tk
  PROVE  Untaken(Append(o, f), tk)
<1> DEFINE v == Append(o, f)
<1>1. /\ Len(o) \in Nat /\ Len(v) = Len(o) + 1 /\ v[Len(o) + 1] = f
      /\ \A i \in 1..Len(o) : v[i] = o[i]
  BY AppendAt
<1>2. \A i \in 1..Len(v) : i \in 1..Len(o) \/ i = Len(o) + 1
  BY <1>1
<1> HIDE DEF v
<1>3. Untaken(v, tk)
  BY <1>1, <1>2 DEF Untaken
<1> QED
  BY <1>3 DEF v

LEMMA AnsweredAppend ==
  ASSUME NEW w \in Seq(FrameIn), NEW f \in FrameIn, NEW tk, Answered(w, tk),
         f.type = "agent" => (f.ok <=> f.id \in tk)
  PROVE  Answered(Append(w, f), tk)
<1> DEFINE v == Append(w, f)
<1>1. /\ Len(w) \in Nat /\ Len(v) = Len(w) + 1 /\ v[Len(w) + 1] = f
      /\ \A i \in 1..Len(w) : v[i] = w[i]
  BY AppendAt
<1>2. \A i \in 1..Len(v) : i \in 1..Len(w) \/ i = Len(w) + 1
  BY <1>1
<1> HIDE DEF v
<1>3. Answered(v, tk)
  BY <1>1, <1>2 DEF Answered
<1> QED
  BY <1>3 DEF v

LEMMA OrderedTail ==
  ASSUME NEW w \in Seq(FrameIn), w # <<>>, NEW p, NEW x, NEW tk, Ordered(w, p, tk),
         \A r \in tk : x[r] = "agent" => p[r] = "agent" /\ ~ (Head(w).type = "agent" /\ Head(w).id = r)
  PROVE  Ordered(Tail(w), x, tk)
<1> DEFINE v == Tail(w)
<1>1. /\ Head(w) = w[1] /\ Len(w) \in Nat \ {0} /\ Len(v) = Len(w) - 1
      /\ \A i \in 1..Len(v) : v[i] = w[i + 1] /\ i + 1 \in 1..Len(w)
  BY TailAt
<1> HIDE DEF v
<1>2. ASSUME NEW i \in 1..Len(v), IsLater(v[i])
      PROVE  /\ v[i].id \in tk
             /\ x[v[i].id] = "agent" =>
                  \E j \in 1..Len(v) : j < i /\ v[j].type = "agent" /\ v[j].id = v[i].id
  <2> DEFINE r == v[i].id
  <2>1. i + 1 \in 1..Len(w) /\ w[i + 1] = v[i] /\ i \in Nat
    BY <1>1
  <2>2. r \in tk
    BY <1>2, <2>1 DEF Ordered
  <2>3. ASSUME x[r] = "agent"
        PROVE  \E j \in 1..Len(v) : j < i /\ v[j].type = "agent" /\ v[j].id = r
    <3>1. PICK k \in 1..Len(w) : k < i + 1 /\ w[k].type = "agent" /\ w[k].id = r
      BY <1>2, <2>1, <2>2, <2>3 DEF Ordered
    <3>2. k # 1
      BY <1>1, <2>2, <2>3, <3>1
    <3>3. k - 1 \in 1..Len(v) /\ k - 1 < i /\ (k - 1) + 1 = k
      BY <1>1, <2>1, <3>1, <3>2
    <3>4. v[k - 1] = w[(k - 1) + 1]
      BY <1>1, <3>3
    <3>5. v[k - 1].type = "agent" /\ v[k - 1].id = r
      BY <3>1, <3>3, <3>4
    <3> QED
      BY <3>3, <3>5
  <2> QED
    BY <2>2, <2>3
<1>3. Ordered(v, x, tk)
  BY <1>2 DEF Ordered
<1> QED
  BY <1>3 DEF v

LEMMA OrderedAppend ==
  ASSUME NEW w \in Seq(FrameIn), NEW f \in FrameIn, NEW p, NEW tk, Ordered(w, p, tk),
         IsLater(f) => /\ f.id \in tk
                       /\ p[f.id] = "agent" =>
                            \E j \in 1..Len(w) : w[j].type = "agent" /\ w[j].id = f.id
  PROVE  Ordered(Append(w, f), p, tk)
<1> DEFINE v == Append(w, f)
<1>1. /\ Len(w) \in Nat /\ Len(v) = Len(w) + 1 /\ v[Len(w) + 1] = f
      /\ \A i \in 1..Len(w) : v[i] = w[i] /\ i \in 1..Len(v) /\ i < Len(w) + 1
  BY AppendAt
<1>2. \A i \in 1..Len(v) : i \in 1..Len(w) \/ i = Len(w) + 1
  BY <1>1
<1> HIDE DEF v
<1>3. ASSUME NEW i \in 1..Len(v), IsLater(v[i])
      PROVE  /\ v[i].id \in tk
             /\ p[v[i].id] = "agent" =>
                  \E j \in 1..Len(v) : j < i /\ v[j].type = "agent" /\ v[j].id = v[i].id
  <2>1. CASE i \in 1..Len(w)
    BY <1>1, <1>3, <2>1 DEF Ordered
  <2>2. CASE i = Len(w) + 1
    BY <1>1, <1>3, <2>2
  <2> QED
    BY <1>2, <2>1, <2>2
<1>4. Ordered(v, p, tk)
  BY <1>3 DEF Ordered
<1> QED
  BY <1>4 DEF v

(* More is taken, or another handler waits: neither is of what was said.   *)
LEMMA OrderedMore ==
  ASSUME NEW w, NEW p, NEW x, NEW tk, NEW tk2, Ordered(w, p, tk), tk \subseteq tk2,
         \A r \in tk : x[r] = "agent" => p[r] = "agent"
  PROVE  Ordered(w, x, tk2)
BY DEF Ordered

LEMMA NothingSaid ==
  ASSUME NEW p, NEW tk
  PROVE  Untaken(<<>>, tk) /\ Answered(<<>>, tk) /\ Ordered(<<>>, p, tk)
BY DEF Untaken, Answered, Ordered

(* The events on the way are of runs the gateway has.                      *)
LEMMA HeardOf ==
  ASSUME NEW w, NEW p, NEW tk, Ordered(w, p, tk), NEW r, r \notin tk
  PROVE  Silent(w, r)
BY DEF Ordered, IsLater, Silent, IsOf

LEMMA AppendSilent ==
  ASSUME NEW S, NEW w \in Seq(S), NEW f \in S
  PROVE  \A r : Silent(Append(w, f), r) <=> Silent(w, r) /\ ~ IsOf(f, r)
<1> DEFINE v == Append(w, f)
<1>1. /\ Len(w) \in Nat /\ Len(v) = Len(w) + 1 /\ v[Len(w) + 1] = f
      /\ \A i \in 1..Len(w) : v[i] = w[i] /\ i \in 1..Len(v)
  BY AppendAt
<1>2. /\ \A i \in 1..Len(v) : i \in 1..Len(w) \/ i = Len(w) + 1
      /\ Len(w) + 1 \in 1..Len(v)
  BY <1>1
<1> HIDE DEF v
<1>3. ASSUME NEW r PROVE Silent(v, r) <=> Silent(w, r) /\ ~ IsOf(f, r)
  <2>1. Silent(v, r) => Silent(w, r) /\ ~ IsOf(f, r)
    BY <1>1, <1>2, Zenon DEF Silent
  <2>2. Silent(w, r) /\ ~ IsOf(f, r) => Silent(v, r)
    BY <1>1, <1>2, Zenon DEF Silent
  <2> QED
    BY <2>1, <2>2
<1> QED
  BY <1>3 DEF v

LEMMA TailSilent ==
  ASSUME NEW S, NEW w \in Seq(S), w # <<>>, NEW r
  PROVE  /\ Silent(w, r) => Silent(Tail(w), r)
         /\ ~ IsOf(Head(w), r) => (Silent(Tail(w), r) <=> Silent(w, r))
         /\ IsOf(Head(w), r) => ~ Silent(w, r)
<1> DEFINE v == Tail(w)
           f == Head(w)
<1>1. /\ f = w[1] /\ Len(w) \in Nat \ {0} /\ Len(v) = Len(w) - 1
      /\ \A i \in 1..Len(v) : v[i] = w[i + 1] /\ i + 1 \in 1..Len(w)
  BY TailAt
<1>2. 1 \in 1..Len(w)
  BY <1>1
<1>3. \A i \in 1..Len(w) : i = 1 \/ (i - 1 \in 1..Len(v) /\ w[i] = v[i - 1])
  <2> TAKE i \in 1..Len(w)
  <2>1. CASE i # 1
    <3>1. i - 1 \in 1..Len(v) /\ (i - 1) + 1 = i
      BY <1>1, <2>1
    <3>2. v[i - 1] = w[(i - 1) + 1]
      BY <1>1, <3>1
    <3> QED
      BY <3>1, <3>2
  <2> QED
    BY <2>1
<1> HIDE DEF v, f
<1>4. Silent(w, r) => Silent(v, r)
  BY <1>1 DEF Silent
<1>5. ~ IsOf(f, r) /\ Silent(v, r) => Silent(w, r)
  BY <1>1, <1>3 DEF Silent
<1>6. IsOf(f, r) => ~ Silent(w, r)
  BY <1>1, <1>2 DEF Silent
<1> QED
  BY <1>4, <1>5, <1>6 DEF v, f

-----------------------------------------------------------------------------
(* Steps that end nothing and begin nothing.                               *)

Open(r, p, tk, over, w) == p[r] \in {"agent", "denied"} \/ (r \in tk /\ ~ over) \/ ~ Silent(w, r)

LEMMA UnfinishedIs ==
  ASSUME wire \in Seq(FrameIn), wire' \in Seq(FrameIn), NEW r
  PROVE  /\ Unfinished(r) <=> Open(r, post, taken, Over(r), wire)
         /\ Unfinished(r)' <=> Open(r, post', taken', Over(r)', wire')
<1>1. DOMAIN wire = 1..Len(wire) /\ DOMAIN wire' = 1..Len(wire')
  OBVIOUS
<1> QED
  BY <1>1 DEF Unfinished, Open, Silent

LEMMA SoloKept ==
  ASSUME NEW r \in Runs, SoloAt(r), Unfinished(r)' => Unfinished(r),
         Unfinished(r) => Unfinished(r)' \/ r \in failed', r \in failed => r \in failed',
         \A x \in Runs : SessionOf[x] = SessionOf[r] /\ Unfinished(x)' => Unfinished(x),
         active'[SessionOf[r]] = active[SessionOf[r]],
         runs'[r].present = runs[r].present, runs'[r].events = runs[r].events,
         post'[r] \in Early => post[r] \in Early
  PROVE  SoloAt(r)'
<1> DEFINE U == Unfinished(r)
           V == Unfinished(r)'
           W(x) == Unfinished(x)
           X(x) == Unfinished(x)'
<1>1. SoloAt(r) <=>
        /\ U => active[SessionOf[r]] = r
        /\ active[SessionOf[r]] = r =>
             /\ U \/ r \in failed
             /\ runs[r].present
             /\ \A x \in Runs \ {r} : SessionOf[x] = SessionOf[r] => ~ W(x)
        /\ post[r] \in Early => runs[r].events = <<>>
  BY DEF SoloAt
<1>2. SoloAt(r)' <=>
        /\ V => active'[SessionOf[r]] = r
        /\ active'[SessionOf[r]] = r =>
             /\ V \/ r \in failed'
             /\ runs'[r].present
             /\ \A x \in Runs \ {r} : SessionOf[x] = SessionOf[r] => ~ X(x)
        /\ post'[r] \in Early => runs'[r].events = <<>>
  BY DEF SoloAt
<1>3. (V => U) /\ (U => V \/ r \in failed') /\ \A x \in Runs : SessionOf[x] = SessionOf[r] /\ X(x) => W(x)
  OBVIOUS
<1> HIDE DEF U, V, W, X
<1> QED
  BY <1>1, <1>2, <1>3

(* A run of the session has gone, and is not active.                       *)
LEMMA SoloGone ==
  ASSUME NEW r \in Runs, ~ Unfinished(r)', active'[SessionOf[r]] # r,
         post'[r] \in Early => runs'[r].events = <<>>
  PROVE  SoloAt(r)'
BY DEF SoloAt

LEMMA TraceKept ==
  ASSUME NEW r \in Runs, TraceAt(r), runs'[r].events = runs[r].events, said'[r] = said[r],
         Pending(wire', said[r], Len(runs[r].events), r)
  PROVE  TraceAt(r)'
BY DEF TraceAt

LEMMA OverKept ==
  ASSUME NEW r, said'[r] = said[r], failed' = failed
  PROVE  Over(r)' <=> Over(r)
BY DEF Over

QuietPost ==
  \A r \in Runs :
    \/ post'[r] = post[r]
    \/ post[r] = "new" /\ post'[r] \in {"patch", "unpatched"}
    \/ post[r] = "agreed" /\ post'[r] = "accepted"

LEMMA QuietIInv ==
  ASSUME IInv, Typed', Asked(out', wire', post'), Flow(post', active', runs', client'),
         UNCHANGED <<wire, active, taken, failed, said, disturbed>>,
         greeted => greeted', Untaken(out', taken), QuietPost,
         \A r \in Runs : runs'[r].events = runs[r].events /\ runs'[r].present = runs[r].present
  PROVE  IInv'
<1>1. Typed /\ Sound /\ \A r \in Runs \ disturbed : SoloAt(r) /\ TraceAt(r)
  BY DEF IInv
<1>2. wire \in Seq(FrameIn) /\ wire' \in Seq(FrameIn) /\ taken \subseteq Runs
  BY <1>1 DEF Typed
<1>3. \A r \in Runs : Over(r)' <=> Over(r)
  BY OverKept
<1>4. \A r \in Runs : Unfinished(r)' <=> Unfinished(r)
  <2> TAKE r \in Runs
  <2>1. post'[r] \in {"agent", "denied"} <=> post[r] \in {"agent", "denied"}
    BY DEF QuietPost
  <2> QED
    BY <1>2, <1>3, <2>1, UnfinishedIs DEF Open
<1>5. Honest'
  BY <1>1, <1>2 DEF Honest, Sound, QuietPost
<1>6. Ordered(wire', post', taken')
  <2>1. \A r \in taken : post'[r] = "agent" => post[r] = "agent"
    BY <1>2 DEF QuietPost
  <2>2. Ordered(wire, post, taken)
    BY <1>1 DEF Sound
  <2>3. Ordered(wire, post', taken)
    BY <2>1, <2>2, OrderedMore
  <2> QED
    BY <2>3
<1>7. History' /\ Reached'
  <2>1. History'
    BY <1>1 DEF History, Sound
  <2>2. Reached'
    BY <1>1, <1>2, <1>3 DEF Reached, Sound
  <2> QED
    BY <2>1, <2>2
<1>8. Sound'
  <2>1. Answered(wire', taken') /\ Untaken(out', taken')
    BY <1>1 DEF Sound
  <2> QED
    BY <1>5, <1>6, <1>7, <2>1 DEF Sound
<1>9. ASSUME NEW r \in Runs \ disturbed' PROVE SoloAt(r)' /\ TraceAt(r)'
  <2>1. SoloAt(r) /\ TraceAt(r) /\ (post'[r] \in Early => post[r] \in Early)
    BY <1>1 DEF QuietPost, Early
  <2>2. SoloAt(r)'
    BY <1>4, <2>1, SoloKept
  <2>3. TraceAt(r)'
    <3>1. Pending(wire', said[r], Len(runs[r].events), r)
      BY <2>1 DEF TraceAt
    <3> QED
      BY <2>1, <3>1, TraceKept
  <2> QED
    BY <2>2, <2>3
<1> QED
  BY <1>8, <1>9 DEF IInv

LEMMA ConnectIInv ==
  ASSUME IInv, Reconnect \/ SendConnect
  PROVE  IInv'
<1>1. Typed /\ Asked(out, wire, post) /\ Flow(post, active, runs, client) /\ Untaken(out, taken)
  BY DEF IInv, Sound
<1>2. /\ out' \in Seq(FrameOut) /\ Untaken(out', taken) /\ Asked(out', wire, post)
      /\ conn' \in {"open", "up"}
  <2>1. CASE Reconnect
    BY <1>1, <2>1 DEF Reconnect, Typed
  <2>2. CASE SendConnect
    <3> DEFINE f == Frame("connect", None)
    <3>1. f \in FrameOut /\ f.type = "connect" /\ ~ IsRequest(f)
      BY DEF Frame, FrameOut, IsRequest
    <3>2. out \in Seq(FrameOut) /\ wire \in Seq(FrameIn) /\ out' = Append(out, f) /\ conn' = "up"
      BY <1>1, <2>2 DEF Typed, SendConnect
    <3> HIDE DEF f
    <3>3. Untaken(out', taken)
      BY <1>1, <3>1, <3>2, UntakenAppend
    <3>4. Asked(out', wire, post)
      BY <1>1, <3>1, <3>2, AskedOther
    <3> QED
      BY <3>1, <3>2, <3>3, <3>4
  <2> QED
    BY <2>1, <2>2
<1>3. UNCHANGED <<closes, wire, post, runs, active, client, configured, greeted, taken, owed, failed,
                said, disturbed>>
  BY DEF Reconnect, SendConnect, http, gateway
<1>4. Typed'
  BY <1>1, <1>2, <1>3 DEF Typed
<1>5. Asked(out', wire', post') /\ Flow(post', active', runs', client') /\ QuietPost
  BY <1>1, <1>2, <1>3 DEF QuietPost
<1> QED
  BY <1>2, <1>3, <1>4, <1>5, QuietIInv

LEMMA PostIInv ==
  ASSUME IInv, NEW r \in Runs, Post(r)
  PROVE  IInv'
<1>1. /\ Typed /\ Asked(out, wire, post) /\ Flow(post, active, runs, client) /\ Untaken(out, taken)
      /\ out \in Seq(FrameOut) /\ post \in [Runs -> PostPc]
  BY DEF IInv, Sound, Typed
<1>2. UNCHANGED <<conn, closes, wire, runs, active, client, configured, greeted, taken, owed, failed,
                said, disturbed>>
  BY DEF Post, http, gateway
<1>3. post[r] = "new"
  BY DEF Post
<1>4. /\ out' \in Seq(FrameOut) /\ Untaken(out', taken) /\ Asked(out', wire, post')
      /\ post' \in [Runs -> PostPc] /\ post'[r] \in {"patch", "unpatched"}
      /\ \A t \in Runs \ {r} : post'[t] = post[t]
  <2>1. CASE out' = Append(out, Frame("patch", r)) /\ post' = [post EXCEPT ![r] = "patch"]
    <3> DEFINE f == Frame("patch", r)
    <3>1. f \in FrameOut /\ f.type = "patch"
      BY DEF Frame, FrameOut
    <3>2. Asked(out', wire, post')
      BY <1>1, <1>3, <2>1, AskedSent
    <3>3. Untaken(out', taken)
      <4> HIDE DEF f
      <4>1. out' = Append(out, f)
        BY <2>1 DEF f
      <4> QED
        BY <1>1, <3>1, <4>1, UntakenAppend
    <3> QED
      BY <1>1, <2>1, <3>1, <3>2, <3>3 DEF PostPc
  <2>2. CASE out' = out /\ post' = [post EXCEPT ![r] = "unpatched"]
    <3>1. ~ Holds(out, r) /\ ~ Holds(wire, r)
      BY <1>1, <1>3, HeldWaits DEF Asked
    <3>2. Asked(out, wire, post')
      BY <1>1, <2>2, <3>1, AskedElsewhere
    <3> QED
      BY <1>1, <2>2, <3>2 DEF PostPc
  <2> QED
    BY <2>1, <2>2 DEF Post
<1>5. Typed'
  BY <1>1, <1>2, <1>4 DEF Typed
<1>6. QuietPost
  BY <1>3, <1>4 DEF QuietPost
<1>7. Flow(post', active', runs', client')
  <2>1. \A t \in Runs : /\ post[t] \in Answering => post'[t] \in Answering
                        /\ post[t] = "accepted" => post'[t] = "accepted"
    BY <1>3, <1>4 DEF Answering
  <2>2. Flow(post', active, runs, client)
    BY <1>1, <2>1, FlowPosts
  <2> QED
    BY <1>2, <2>2
<1> QED
  BY <1>2, <1>4, <1>5, <1>6, <1>7, QuietIInv

LEMMA AcceptedIInv ==
  ASSUME IInv, NEW r \in Runs, Accepted(r)
  PROVE  IInv'
<1>1. /\ Typed /\ Asked(out, wire, post) /\ Flow(post, active, runs, client) /\ Untaken(out, taken)
      /\ post \in [Runs -> PostPc]
  BY DEF IInv, Sound, Typed
<1>2. /\ UNCHANGED <<conn, closes, out, wire, runs, active, client, configured, greeted, taken,
                     owed, failed, said,
                     disturbed>>
      /\ post[r] = "agreed" /\ post' = [post EXCEPT ![r] = "accepted"]
  BY DEF Accepted, http, gateway
<1>3. /\ post' \in [Runs -> PostPc] /\ post'[r] = "accepted"
      /\ \A t \in Runs \ {r} : post'[t] = post[t]
  BY <1>1, <1>2 DEF PostPc
<1>4. Asked(out, wire, post')
  <2>1. ~ Holds(out, r) /\ ~ Holds(wire, r)
    BY <1>1, <1>2, HeldWaits DEF Asked
  <2> QED
    BY <1>1, <1>2, <2>1, AskedElsewhere
<1>5. Flow(post', active, runs, client)
  <2>1. \A t \in Runs : /\ post[t] \in Answering => post'[t] \in Answering
                        /\ post[t] = "accepted" => post'[t] = "accepted"
    BY <1>2, <1>3 DEF Answering
  <2> QED
    BY <1>1, <2>1, FlowPosts
<1>6. Typed' /\ QuietPost
  BY <1>1, <1>2, <1>3 DEF Typed, QuietPost
<1>7. Asked(out', wire', post') /\ Flow(post', active', runs', client') /\ Untaken(out', taken)
  BY <1>1, <1>2, <1>4, <1>5
<1> QED
  BY <1>2, <1>6, <1>7, QuietIInv

LEMMA WatchIInv ==
  ASSUME IInv, NEW c \in Clients, NEW r \in Runs, Watch(c, r)
  PROVE  IInv'
<1>1. /\ Typed /\ Asked(out, wire, post) /\ Flow(post, active, runs, client) /\ Untaken(out, taken)
      /\ runs \in [Runs -> RunType]
  BY DEF IInv, Sound, Flow
<1>2. /\ UNCHANGED <<conn, closes, out, wire, post, configured, active, disturbed, greeted, taken,
                  owed, failed, said>>
      /\ client[c].pc = "none" /\ post[r] = "accepted"
  BY DEF Watch, gateway
<1>3. /\ Flow(post, active, runs', client')
      /\ \A t \in Runs : runs'[t].events = runs[t].events /\ runs'[t].present = runs[t].present
  <2>1. CASE /\ runs[r].status \in Terminal /\ runs' = runs
             /\ client' = [client EXCEPT ![c] = [pc |-> "ended", run |-> r,
                                                 got |-> Append(runs[r].events, StreamEnd)]]
    BY <1>1, <1>2, <2>1, FlowWatched
  <2>2. CASE /\ runs[r].status \notin Terminal /\ runs' = [runs EXCEPT ![r].sse = @ \cup {c}]
             /\ client' = [client EXCEPT ![c] = [pc |-> "live", run |-> r, got |-> runs[r].events]]
    <3>1. Flow(post, active, runs', client')
      BY <1>1, <1>2, <2>2, FlowWatched
    <3>2. \A t \in Runs : runs'[t].events = runs[t].events /\ runs'[t].present = runs[t].present
      BY <1>1, <2>2 DEF RunType
    <3> QED
      BY <3>1, <3>2
  <2> QED
    BY <2>1, <2>2 DEF Watch
<1>4. Typed' /\ QuietPost
  BY <1>1, <1>2 DEF Typed, QuietPost
<1>5. Asked(out', wire', post') /\ Flow(post', active', runs', client') /\ Untaken(out', taken)
  BY <1>1, <1>2, <1>3
<1> QED
  BY <1>2, <1>3, <1>4, <1>5, QuietIInv

LEMMA LeaveIInv ==
  ASSUME IInv, NEW c \in Clients, Leave(c)
  PROVE  IInv'
<1>1. /\ Typed /\ Asked(out, wire, post) /\ Flow(post, active, runs, client) /\ Untaken(out, taken)
      /\ runs \in [Runs -> RunType]
  BY DEF IInv, Sound, Flow
<1>2. /\ UNCHANGED <<conn, closes, out, wire, post, configured, active, disturbed, greeted, taken,
                  owed, failed, said>>
      /\ client[c].pc = "live" /\ client' = [client EXCEPT ![c] = NoStream]
      /\ runs' = [runs EXCEPT ![client[c].run].sse = @ \ {c}]
  BY DEF Leave, gateway
<1>3. Flow(post, active, runs', client') /\ client[c].run \in Runs
  BY <1>1, <1>2, FlowLeft
<1>4. \A t \in Runs : runs'[t].events = runs[t].events /\ runs'[t].present = runs[t].present
  BY <1>1, <1>2, <1>3 DEF RunType
<1>5. Typed' /\ QuietPost
  BY <1>1, <1>2 DEF Typed, QuietPost
<1>6. Asked(out', wire', post') /\ Flow(post', active', runs', client') /\ Untaken(out', taken)
  BY <1>1, <1>2, <1>3
<1> QED
  BY <1>2, <1>4, <1>5, <1>6, QuietIInv

-----------------------------------------------------------------------------
(* The connection is lost: nothing is on its way any more, no handler      *)
(* waits, and what was unfinished is disturbed.                            *)

LEMMA LoseIInv ==
  ASSUME IInv, Lose, closes' \in 0..MaxCloses
  PROVE  IInv'
<1>1. /\ Typed /\ Asked(out, wire, post) /\ Flow(post, active, runs, client)
      /\ Sound /\ \A r \in Runs \ disturbed : SoloAt(r) /\ TraceAt(r)
  BY DEF IInv
<1>2. /\ conn' = "closed" /\ out' = <<>> /\ wire' = <<>> /\ post' = FlushedPost /\ greeted' = FALSE
      /\ disturbed' = disturbed \cup { r \in Runs : Unfinished(r) }
      /\ owed' = {}
      /\ UNCHANGED <<configured, runs, active, client, taken, failed, said>>
  BY DEF Lose
<1>3. /\ wire \in Seq(FrameIn) /\ wire' \in Seq(FrameIn) /\ out' \in Seq(FrameOut)
      /\ post \in [Runs -> PostPc] /\ taken \subseteq Runs /\ disturbed \subseteq Runs
      /\ said \in [Runs -> Seq(Phases)] /\ \A r : Silent(wire', r)
  BY <1>1, <1>2, NoRequests DEF Typed
<1>4. ASSUME NEW r \in Runs
      PROVE  /\ post'[r] \in PostPc \ {"patch", "agent"}
             /\ post'[r] = "denied" <=> post[r] \in {"agent", "denied"}
             /\ post[r] \in Answering => post'[r] \in Answering
             /\ post'[r] \in Early => post[r] \in Early
             /\ post[r] \notin {"patch", "agent"} => post'[r] = post[r]
             /\ post'[r] = "unpatched" => post[r] \in {"patch", "unpatched"}
  <2>1. post'[r] = CASE post[r] = "patch" -> "unpatched"
                     [] post[r] = "agent" -> "denied"
                     [] OTHER -> post[r]
    BY <1>2 DEF FlushedPost
  <2>2. post[r] \in PostPc
    BY <1>3
  <2>3. CASE post[r] = "patch"
    BY <2>1, <2>3 DEF PostPc, Answering, Early
  <2>4. CASE post[r] = "agent"
    BY <2>1, <2>4 DEF PostPc, Answering, Early
  <2>5. CASE post[r] \notin {"patch", "agent"}
    BY <2>1, <2>2, <2>5
  <2> QED
    BY <2>3, <2>4, <2>5
<1>5. \A r \in Runs : Over(r)' <=> Over(r)
  BY <1>2, OverKept
<1>6. \A r \in Runs : Unfinished(r)' => Unfinished(r)
  <2> TAKE r \in Runs
  <2>1. post'[r] \in {"agent", "denied"} => post[r] \in {"agent", "denied"}
    BY <1>4
  <2> QED
    BY <1>2, <1>3, <1>5, <2>1, UnfinishedIs DEF Open
<1>7. \A r \in Runs \ disturbed' : r \notin disturbed /\ ~ Unfinished(r)
  BY <1>2
<1>8. Typed'
  <2>1. post' \in [Runs -> PostPc]
    <3>1. post' = [r \in Runs |-> post'[r]]
      BY <1>2 DEF FlushedPost
    <3> QED
      BY <1>4, <3>1
  <2> QED
    BY <1>1, <1>2, <1>3, <2>1 DEF Typed
<1>9. Asked(out', wire', post')
  BY <1>2, <1>4, NoRequests DEF Asked
<1>10. Flow(post', active', runs', client')
  <2>1. \A r \in Runs : /\ post[r] \in Answering => post'[r] \in Answering
                        /\ post[r] = "accepted" => post'[r] = "accepted"
    BY <1>4
  <2>2. Flow(post', active, runs, client)
    BY <1>1, <2>1, FlowPosts
  <2> QED
    BY <1>2, <2>2
<1>11. Honest'
  <2> SUFFICES ASSUME NEW r \in taken
               PROVE  \/ post'[r] \in {"agent", "agreed", "accepted"}
                      \/ r \in disturbed' /\ post'[r] \in {"denied", "refused"}
    BY <1>2 DEF Honest
  <2>1. r \in Runs
    BY <1>3
  <2>2. CASE post[r] = "agent"
    <3>1. Unfinished(r)
      BY <2>2 DEF Unfinished
    <3>2. post'[r] = "denied"
      BY <1>4, <2>1, <2>2
    <3> QED
      BY <1>2, <2>1, <3>1, <3>2
  <2>3. CASE post[r] # "agent"
    BY <1>1, <1>2, <1>4, <2>1, <2>3 DEF Sound, Honest
  <2> QED
    BY <2>2, <2>3
<1>12. Untaken(out', taken') /\ Answered(wire', taken') /\ Ordered(wire', post', taken')
  BY <1>2, NothingSaid
<1>13. History'
  BY <1>1, <1>2 DEF Sound, History
<1>14. Reached'
  <2>1. ASSUME NEW r \in taken PROVE Over(r)' \/ r \in disturbed'
    <3>1. r \in Runs
      BY <1>3
    <3>2. Over(r) \/ Unfinished(r)
      BY <2>1 DEF Unfinished
    <3> QED
      BY <1>2, <1>5, <3>1, <3>2
  <2> QED
    BY <1>2, <2>1 DEF Reached
<1>15. ASSUME NEW r \in Runs \ disturbed' PROVE SoloAt(r)' /\ TraceAt(r)'
  <2>1. r \notin disturbed /\ ~ Unfinished(r) /\ SoloAt(r) /\ TraceAt(r)
    BY <1>1, <1>7
  <2>2. SoloAt(r)'
    <3>1. Unfinished(r)' <=> Unfinished(r)
      BY <1>6, <2>1
    <3>2. post'[r] \in Early => post[r] \in Early
      BY <1>4
    <3> QED
      BY <1>2, <1>6, <2>1, <3>1, <3>2, SoloKept
  <2>3. TraceAt(r)'
    <3> DEFINE h == said[r]
               n == Len(runs[r].events)
    <3>1. h \in Seq(Phases) /\ n \in Nat
      <4>1. runs[r] \in RunType
        BY <1>1 DEF Flow
      <4> QED
        BY <1>3, <4>1 DEF RunType
    <3>2. Silent(wire, r)
      BY <1>3, <2>1, UnfinishedIs DEF Open
    <3>3. Pending(wire, h, n, r)
      BY <2>1 DEF TraceAt
    <3> HIDE DEF h, n
    <3>4. n = Len(h)
      BY <1>3, <3>1, <3>2, <3>3, NonePending
    <3>5. Pending(wire', h, Len(h), r)
      BY <1>3, <3>1, PendingNone
    <3>6. Pending(wire', h, n, r)
      BY <3>4, <3>5
    <3> QED
      BY <1>2, <2>1, <3>6, TraceKept DEF h, n
  <2> QED
    BY <2>2, <2>3
<1> QED
  BY <1>1, <1>8, <1>9, <1>10, <1>11, <1>12, <1>13, <1>14, <1>15 DEF IInv, Sound

-----------------------------------------------------------------------------
(* A run is created, or deleted.                                           *)

(* What all of these steps have in common: run r is replaced, another      *)
(* becomes the active one of its session or none, and its rivals are       *)
(* disturbed.                                                              *)
LEMMA ReplacedOthers ==
  ASSUME IInv, NEW r \in Runs,
         NEW pc, post' = [post EXCEPT ![r] = pc],
         NEW n \in {r, None}, active' = [active EXCEPT ![SessionOf[r]] = n],
         \A x \in Runs \ {r} : runs'[x] = runs[x],
         UNCHANGED <<wire, taken, failed, said>>,
         disturbed \cup Rivals(r) \subseteq disturbed'
  PROVE  /\ \A x \in Runs \ {r} : Unfinished(x)' <=> Unfinished(x)
         /\ \A x \in Runs \ disturbed' : x # r => SoloAt(x)' /\ TraceAt(x)'
         /\ r \notin taken =>
              Silent(wire', r) /\ (Unfinished(r)' <=> pc \in {"agent", "denied"})
<1>1. /\ Typed /\ Sound /\ Flow(post, active, runs, client)
      /\ \A x \in Runs \ disturbed : SoloAt(x) /\ TraceAt(x)
  BY DEF IInv
<1>2. /\ wire \in Seq(FrameIn) /\ wire' \in Seq(FrameIn) /\ post \in [Runs -> PostPc]
      /\ active \in [Sessions -> Runs \cup {None}] /\ SessionOf \in [Runs -> Sessions]
      /\ None \notin Runs
  BY <1>1, SidecarAssumption DEF Typed, Flow
<1>3. \A x \in Runs \ {r} : post'[x] = post[x]
  BY <1>2
<1>4. post'[r] = pc
  BY <1>2
<1>5. \A x \in Runs : Over(x)' <=> Over(x)
  BY OverKept
<1>6. ASSUME NEW x \in Runs \ {r} PROVE Unfinished(x)' <=> Unfinished(x)
  <2>1. post'[x] = post[x] /\ (Over(x)' <=> Over(x)) /\ wire' = wire /\ taken' = taken
    BY <1>3, <1>5
  <2> QED
    BY <1>2, <2>1, UnfinishedIs DEF Open
<1>7. ASSUME r \notin taken
      PROVE  Silent(wire', r) /\ (Unfinished(r)' <=> pc \in {"agent", "denied"})
  <2>1. Silent(wire, r)
    BY <1>1, <1>7, HeardOf DEF Sound
  <2> QED
    BY <1>2, <1>4, <1>7, <2>1, UnfinishedIs DEF Open
<1>8. ASSUME NEW x \in Runs \ disturbed', x # r PROVE SoloAt(x)' /\ TraceAt(x)'
  <2>1. SoloAt(x) /\ TraceAt(x) /\ x \notin Rivals(r) /\ post'[x] = post[x] /\ runs'[x] = runs[x]
    BY <1>1, <1>3, <1>8
  <2>2. SoloAt(x)'
    <3>1. CASE SessionOf[x] = SessionOf[r]
      <4>1. ~ Unfinished(x)'
        BY <1>6, <1>8, <2>1, <3>1 DEF Rivals
      <4>2. active'[SessionOf[x]] # x
        BY <1>2, <1>8, <3>1
      <4>3. post'[x] \in Early => runs'[x].events = <<>>
        BY <2>1 DEF SoloAt
      <4> QED
        BY <4>1, <4>2, <4>3, SoloGone
    <3>2. CASE SessionOf[x] # SessionOf[r]
      <4>1. \A y \in Runs : SessionOf[y] = SessionOf[x] /\ Unfinished(y)' => Unfinished(y)
        BY <1>6, <3>2
      <4>2. active'[SessionOf[x]] = active[SessionOf[x]]
        BY <1>2, <3>2
      <4>3. Unfinished(x)' <=> Unfinished(x)
        BY <1>6, <1>8
      <4> QED
        BY <2>1, <4>1, <4>2, <4>3, SoloKept
    <3> QED
      BY <3>1, <3>2
  <2>3. TraceAt(x)'
    <3>1. Pending(wire', said[x], Len(runs[x].events), x)
      BY <2>1 DEF TraceAt
    <3> QED
      BY <2>1, <3>1, TraceKept
  <2> QED
    BY <2>2, <2>3
<1> QED
  BY <1>6, <1>7, <1>8

(* A run of which nothing was said has nothing.                            *)
LEMMA TraceEmpty ==
  ASSUME NEW r \in Runs, wire' \in Seq(FrameIn), said' \in [Runs -> Seq(Phases)],
         said'[r] = <<>>, runs'[r].events = <<>>, Silent(wire', r)
  PROVE  TraceAt(r)'
<1> DEFINE h == said'[r]
<1>1. h \in Seq(Phases) /\ Len(h) = 0 /\ Len(runs'[r].events) = 0
  OBVIOUS
<1>2. Pending(wire', h, Len(h), r)
  BY <1>1, PendingNone
<1>3. Matches(runs'[r].events, h, r)
  BY <1>1 DEF Matches
<1> QED
  BY <1>1, <1>2, <1>3 DEF TraceAt

LEMMA NotTaken ==
  ASSUME IInv, NEW r \in Runs, post[r] \in {"new", "patch", "patched", "unpatched"}
  PROVE  r \notin taken /\ said[r] = <<>>
BY DEF IInv, Sound, Honest, History

LEMMA CreateSentIInv ==
  ASSUME IInv, NEW r \in Runs, Create(r), Connected
  PROVE  IInv'
<1>1. /\ Typed /\ Asked(out, wire, post) /\ Flow(post, active, runs, client) /\ Sound
      /\ out \in Seq(FrameOut) /\ post \in [Runs -> PostPc] /\ wire \in Seq(FrameIn)
      /\ said \in [Runs -> Seq(Phases)] /\ taken \subseteq Runs /\ disturbed \subseteq Runs
      /\ runs \in [Runs -> RunType] /\ active \in [Sessions -> Runs \cup {None}]
      /\ SessionOf[r] \in Sessions
  BY SidecarAssumption DEF IInv, Typed, Flow
<1>2. /\ post[r] \in {"patched", "unpatched"}
      /\ configured' = IF post[r] = "patched" THEN configured \cup {SessionOf[r]} ELSE configured
      /\ post' = [post EXCEPT ![r] = "agent"]
      /\ out' = Append(out, Frame("agent", r))
      /\ runs' = [runs EXCEPT ![r] = NewRun]
      /\ active' = [active EXCEPT ![SessionOf[r]] = r]
      /\ disturbed' = disturbed \cup Rivals(r) \cup (IF Rivals(r) = {} THEN {} ELSE {r})
      /\ UNCHANGED <<conn, closes, wire, client, greeted, taken, owed, failed, said>>
  BY DEF Create, gateway
<1>3. r \notin taken /\ said[r] = <<>>
  BY <1>2, NotTaken
<1>4. /\ post'[r] = "agent" /\ \A x \in Runs \ {r} : post'[x] = post[x]
      /\ post' \in [Runs -> PostPc]
  BY <1>1, <1>2 DEF PostPc
<1>5. /\ \A x \in Runs \ {r} : Unfinished(x)' <=> Unfinished(x)
      /\ \A x \in Runs \ disturbed' : x # r => SoloAt(x)' /\ TraceAt(x)'
      /\ Silent(wire', r) /\ Unfinished(r)'
  <2>1. \A x \in Runs \ {r} : runs'[x] = runs[x]
    BY <1>1, <1>2
  <2>2. disturbed \cup Rivals(r) \subseteq disturbed'
    BY <1>2
  <2>3. /\ \A x \in Runs \ {r} : Unfinished(x)' <=> Unfinished(x)
        /\ \A x \in Runs \ disturbed' : x # r => SoloAt(x)' /\ TraceAt(x)'
        /\ Silent(wire', r) /\ (Unfinished(r)' <=> "agent" \in {"agent", "denied"})
    BY <1>2, <1>3, <2>1, <2>2, ReplacedOthers
  <2> QED
    BY <2>3
<1>6. Frame("agent", r) \in FrameOut /\ Frame("agent", r).type = "agent" /\ Frame("agent", r).id = r
  BY DEF Frame, FrameOut
<1>7. Asked(out', wire', post')
  BY <1>1, <1>2, AskedSent
<1>8. Flow(post', active', runs', client')
  <2>1. Flow([post EXCEPT ![r] = "agent"], [active EXCEPT ![SessionOf[r]] = r],
             [runs EXCEPT ![r] = NewRun], client)
    BY <1>1, <1>2, AbsentTypes, FlowReplaced DEF Answering
  <2> QED
    BY <1>2, <2>1
<1>9. Typed'
  <2>1. disturbed' \subseteq Runs /\ configured' \subseteq Sessions /\ out' \in Seq(FrameOut)
    BY <1>1, <1>2, <1>6 DEF Rivals, Typed
  <2> QED
    BY <1>1, <1>2, <1>4, <2>1 DEF Typed
<1>10. Sound'
  <2>1. Honest'
    BY <1>1, <1>2, <1>3, <1>4 DEF Sound, Honest
  <2>2. Untaken(out', taken') /\ Answered(wire', taken')
    BY <1>1, <1>2, <1>3, <1>6, UntakenAppend DEF Sound
  <2>3. Ordered(wire', post', taken')
    <3>1. \A x \in taken : post'[x] = "agent" => post[x] = "agent"
      BY <1>1, <1>3, <1>4
    <3> QED
      BY <1>1, <1>2, <3>1, OrderedMore DEF Sound
  <2>4. History'
    BY <1>1, <1>2 DEF Sound, History
  <2>5. Reached'
    <3>1. \A x \in Runs : Over(x)' <=> Over(x)
      BY <1>2, OverKept
    <3> QED
      BY <1>1, <1>2, <3>1 DEF Sound, Reached
  <2> QED
    BY <2>1, <2>2, <2>3, <2>4, <2>5 DEF Sound
<1>11. ASSUME r \notin disturbed' PROVE SoloAt(r)' /\ TraceAt(r)'
  <2>1. Rivals(r) = {}
    BY <1>2, <1>11
  <2>2. runs'[r].present /\ runs'[r].events = <<>> /\ active'[SessionOf[r]] = r
    BY <1>1, <1>2, AbsentTypes
  <2>3. \A x \in Runs \ {r} : SessionOf[x] = SessionOf[r] => ~ Unfinished(x)'
    BY <1>5, <2>1 DEF Rivals
  <2>4. SoloAt(r)'
    BY <1>5, <2>2, <2>3 DEF SoloAt
  <2>5. TraceAt(r)'
    BY <1>1, <1>2, <1>3, <1>5, <2>2, TraceEmpty
  <2> QED
    BY <2>4, <2>5
<1> QED
  BY <1>5, <1>7, <1>8, <1>9, <1>10, <1>11 DEF IInv

LEMMA CreateRefusedIInv ==
  ASSUME IInv, NEW r \in Runs, Create(r), ~ Connected
  PROVE  IInv'
<1>1. /\ Typed /\ Asked(out, wire, post) /\ Flow(post, active, runs, client) /\ Sound
      /\ post \in [Runs -> PostPc] /\ wire \in Seq(FrameIn)
      /\ said \in [Runs -> Seq(Phases)] /\ taken \subseteq Runs /\ disturbed \subseteq Runs
      /\ runs \in [Runs -> RunType] /\ active \in [Sessions -> Runs \cup {None}]
      /\ SessionOf[r] \in Sessions /\ None \notin Runs
      /\ \A x \in Runs \ disturbed : SoloAt(x) /\ TraceAt(x)
  BY SidecarAssumption DEF IInv, Typed, Flow
<1>2. /\ post[r] \in {"patched", "unpatched"}
      /\ configured' = IF post[r] = "patched" THEN configured \cup {SessionOf[r]} ELSE configured
      /\ post' = [post EXCEPT ![r] = "refused"]
      /\ active' = [active EXCEPT ![SessionOf[r]] = None]
      /\ disturbed' = disturbed \cup Rivals(r)
      /\ UNCHANGED <<conn, closes, out, wire, runs, client, greeted, taken, owed, failed, said>>
  BY DEF Create, gateway
<1>3. r \notin taken /\ said[r] = <<>>
  BY <1>2, NotTaken
<1>4. /\ post'[r] = "refused" /\ \A x \in Runs \ {r} : post'[x] = post[x]
      /\ post' \in [Runs -> PostPc]
  BY <1>1, <1>2 DEF PostPc
<1>5. /\ \A x \in Runs \ disturbed' : x # r => SoloAt(x)' /\ TraceAt(x)'
      /\ Silent(wire', r) /\ ~ Unfinished(r)'
  <2>1. \A x \in Runs \ {r} : runs'[x] = runs[x]
    BY <1>2
  <2>2. /\ \A x \in Runs \ disturbed' : x # r => SoloAt(x)' /\ TraceAt(x)'
        /\ Silent(wire', r) /\ (Unfinished(r)' <=> "refused" \in {"agent", "denied"})
    BY <1>2, <1>3, <2>1, ReplacedOthers
  <2> QED
    BY <2>2
<1>6. Asked(out', wire', post')
  <2>1. ~ Holds(out, r) /\ ~ Holds(wire, r)
    BY <1>1, <1>2, HeldWaits DEF Asked
  <2> QED
    BY <1>1, <1>2, <2>1, AskedElsewhere
<1>7. Flow(post', active', runs', client')
  <2>1. Streams(post', active', runs, client)
    <3>1. \A t \in Sessions : active'[t] # None => active'[t] = active[t] /\ t # SessionOf[r] /\ active[t] \in Runs
      BY <1>1, <1>2
    <3>2. ASSUME NEW t \in Sessions, active'[t] # None
          PROVE  /\ SessionOf[active'[t]] = t /\ runs[active'[t]].status \notin Terminal
                 /\ post'[active'[t]] \in Answering
      <4>1. /\ SessionOf[active[t]] = t /\ runs[active[t]].status \notin Terminal
            /\ post[active[t]] \in Answering
        BY <1>1, <3>1, <3>2 DEF Flow, Streams
      <4>2. active[t] # r /\ active'[t] = active[t] /\ active[t] \in Runs
        BY <3>1, <3>2, <4>1
      <4> QED
        BY <1>4, <4>1, <4>2
    <3>3. \A c \in Clients : client[c].pc # "none" =>
            client[c].run \in Runs /\ post'[client[c].run] = "accepted"
      <4>1. \A c \in Clients : client[c].pc # "none" =>
              client[c].run \in Runs /\ post[client[c].run] = "accepted"
        BY <1>1 DEF Flow, Streams
      <4> QED
        BY <1>2, <1>4, <4>1
    <3> QED
      BY <1>1, <3>2, <3>3 DEF Flow, Streams
  <2>2. active' \in [Sessions -> Runs \cup {None}]
    BY <1>1, <1>2
  <2>3. Flow(post', active', runs, client)
    BY <1>1, <2>1, <2>2 DEF Flow
  <2> QED
    BY <1>2, <2>3
<1>8. Typed'
  <2>1. disturbed' \subseteq Runs /\ configured' \subseteq Sessions
    BY <1>1, <1>2 DEF Rivals, Typed
  <2> QED
    BY <1>1, <1>2, <1>4, <2>1 DEF Typed
<1>9. Sound'
  <2>1. Honest'
    BY <1>1, <1>2, <1>3, <1>4 DEF Sound, Honest
  <2>2. Untaken(out', taken') /\ Answered(wire', taken')
    BY <1>1, <1>2 DEF Sound
  <2>3. Ordered(wire', post', taken')
    <3>1. \A x \in taken : post'[x] = "agent" => post[x] = "agent"
      BY <1>1, <1>4
    <3> QED
      BY <1>1, <1>2, <3>1, OrderedMore DEF Sound
  <2>4. History'
    BY <1>1, <1>2 DEF Sound, History
  <2>5. Reached'
    <3>1. \A x \in Runs : Over(x)' <=> Over(x)
      BY <1>2, OverKept
    <3> QED
      BY <1>1, <1>2, <3>1 DEF Sound, Reached
  <2> QED
    BY <2>1, <2>2, <2>3, <2>4, <2>5 DEF Sound
<1>10. ASSUME r \notin disturbed' PROVE SoloAt(r)' /\ TraceAt(r)'
  <2>1. SoloAt(r) /\ TraceAt(r)
    BY <1>1, <1>2, <1>10
  <2>2. runs'[r].events = <<>>
    BY <1>2, <2>1 DEF SoloAt, Early
  <2>3. active'[SessionOf[r]] # r
    BY <1>1, <1>2
  <2>4. SoloAt(r)'
    BY <1>5, <2>2, <2>3, SoloGone
  <2>5. TraceAt(r)'
    BY <1>1, <1>2, <1>3, <1>5, <2>2, TraceEmpty
  <2> QED
    BY <2>4, <2>5
<1> QED
  BY <1>5, <1>6, <1>7, <1>8, <1>9, <1>10 DEF IInv

LEMMA RefusedIInv ==
  ASSUME IInv, NEW r \in Runs, Refused(r)
  PROVE  IInv'
<1>1. /\ Typed /\ Asked(out, wire, post) /\ Flow(post, active, runs, client) /\ Sound
      /\ post \in [Runs -> PostPc] /\ wire \in Seq(FrameIn)
      /\ said \in [Runs -> Seq(Phases)] /\ taken \subseteq Runs /\ disturbed \subseteq Runs
      /\ runs \in [Runs -> RunType] /\ active \in [Sessions -> Runs \cup {None}]
      /\ SessionOf[r] \in Sessions /\ None \notin Runs
  BY SidecarAssumption DEF IInv, Typed, Flow
<1>2. /\ post[r] = "denied"
      /\ post' = [post EXCEPT ![r] = "refused"]
      /\ runs' = [runs EXCEPT ![r] = Absent]
      /\ active' = [active EXCEPT ![SessionOf[r]] = None]
      /\ disturbed' = disturbed \cup Rivals(r)
      /\ UNCHANGED <<conn, closes, out, wire, configured, client, greeted, taken, owed, failed, said>>
  BY DEF Refused, http, gateway
<1>3. /\ post'[r] = "refused" /\ \A x \in Runs \ {r} : post'[x] = post[x]
      /\ post' \in [Runs -> PostPc]
  BY <1>1, <1>2 DEF PostPc
<1>4. /\ \A x \in Runs \ disturbed' : x # r => SoloAt(x)' /\ TraceAt(x)'
      /\ r \notin taken => Silent(wire', r) /\ ~ Unfinished(r)'
  <2>1. \A x \in Runs \ {r} : runs'[x] = runs[x]
    BY <1>1, <1>2
  <2>2. /\ \A x \in Runs \ disturbed' : x # r => SoloAt(x)' /\ TraceAt(x)'
        /\ r \notin taken =>
             Silent(wire', r) /\ (Unfinished(r)' <=> "refused" \in {"agent", "denied"})
    BY <1>2, <2>1, ReplacedOthers
  <2> QED
    BY <2>2
<1>5. Asked(out', wire', post')
  <2>1. ~ Holds(out, r) /\ ~ Holds(wire, r)
    BY <1>1, <1>2, HeldWaits DEF Asked
  <2> QED
    BY <1>1, <1>2, <2>1, AskedElsewhere
<1>6. Flow(post', active', runs', client')
  <2>1. Flow([post EXCEPT ![r] = "refused"], [active EXCEPT ![SessionOf[r]] = None],
             [runs EXCEPT ![r] = Absent], client)
    BY <1>1, <1>2, AbsentTypes, FlowReplaced
  <2> QED
    BY <1>2, <2>1
<1>7. Typed'
  <2>1. disturbed' \subseteq Runs
    BY <1>1, <1>2 DEF Rivals
  <2> QED
    BY <1>1, <1>2, <1>3, <2>1 DEF Typed
<1>8. Sound'
  <2>1. Honest'
    <3>1. r \in taken => r \in disturbed
      BY <1>1, <1>2 DEF Sound, Honest
    <3> QED
      BY <1>1, <1>2, <1>3, <3>1 DEF Sound, Honest
  <2>2. Untaken(out', taken') /\ Answered(wire', taken')
    BY <1>1, <1>2 DEF Sound
  <2>3. Ordered(wire', post', taken')
    <3>1. \A x \in taken : post'[x] = "agent" => post[x] = "agent"
      BY <1>1, <1>3
    <3> QED
      BY <1>1, <1>2, <3>1, OrderedMore DEF Sound
  <2>4. History'
    BY <1>1, <1>2 DEF Sound, History
  <2>5. Reached'
    <3>1. \A x \in Runs : Over(x)' <=> Over(x)
      BY <1>2, OverKept
    <3> QED
      BY <1>1, <1>2, <3>1 DEF Sound, Reached
  <2> QED
    BY <2>1, <2>2, <2>3, <2>4, <2>5 DEF Sound
<1>9. ASSUME r \notin disturbed' PROVE SoloAt(r)' /\ TraceAt(r)'
  <2>1. r \notin taken /\ said[r] = <<>>
    BY <1>1, <1>2, <1>9 DEF Sound, Honest, History
  <2>2. runs'[r].events = <<>> /\ active'[SessionOf[r]] # r
    BY <1>1, <1>2, AbsentTypes
  <2>3. SoloAt(r)'
    BY <1>4, <2>1, <2>2, SoloGone
  <2>4. TraceAt(r)'
    BY <1>1, <1>2, <1>4, <2>1, <2>2, TraceEmpty
  <2> QED
    BY <2>3, <2>4
<1> QED
  BY <1>4, <1>5, <1>6, <1>7, <1>8, <1>9 DEF IInv

-----------------------------------------------------------------------------
(* The gateway takes a request.                                            *)

LEMMA OtherAppended ==
  ASSUME IInv, NEW f \in FrameIn, f.type # "event", NEW w, w = Append(wire, f)
  PROVE  /\ w \in Seq(FrameIn)
         /\ \A x : Silent(w, x) <=> Silent(wire, x)
         /\ \A x \in Runs \ disturbed : Pending(w, said[x], Len(runs[x].events), x)
<1>1. wire \in Seq(FrameIn) /\ said \in [Runs -> Seq(Phases)] /\ runs \in [Runs -> RunType]
  BY DEF IInv, Typed, Flow
<1>2. \A x : ~ IsOf(f, x)
  BY DEF IsOf
<1>3. \A x : Silent(w, x) <=> Silent(wire, x)
  BY <1>1, <1>2, AppendSilent
<1>4. ASSUME NEW x \in Runs \ disturbed PROVE Pending(w, said[x], Len(runs[x].events), x)
  <2> DEFINE h == said[x]
             n == Len(runs[x].events)
  <2>1. h \in Seq(Phases) /\ n \in Nat
    BY <1>1 DEF RunType
  <2>2. Pending(wire, h, n, x)
    BY DEF IInv, TraceAt
  <2> HIDE DEF h, n
  <2>3. Pending(w, h, n, x)
    BY <1>1, <1>2, <2>1, <2>2, PendingAfterOther
  <2> QED
    BY <2>3 DEF h, n
<1> QED
  BY <1>1, <1>3, <1>4

(* A response is sent: the run it is about is open before and after.       *)
LEMMA RespondedIInv ==
  ASSUME IInv, out # <<>>, IsRequest(Head(out)), greeted,
         NEW f \in FrameIn, f.type = Head(out).type, f.id = Head(out).id,
         taken' = taken \/ (f.type = "agent" /\ taken' = taken \cup {f.id}),
         f.type = "agent" => (f.ok <=> f.id \in taken'),
         out' = Tail(out), wire' = Append(wire, f),
         owed' \subseteq owed \cup (taken' \ taken),
         UNCHANGED <<conn, closes, post, configured, runs, active, client, greeted, failed, said, disturbed>>
  PROVE  IInv'
<1>1. /\ Typed /\ Asked(out, wire, post) /\ Flow(post, active, runs, client) /\ Sound
      /\ out \in Seq(FrameOut) /\ wire \in Seq(FrameIn) /\ taken \subseteq Runs
      /\ \A x \in Runs \ disturbed : SoloAt(x) /\ TraceAt(x)
  BY DEF IInv, Typed
<1> DEFINE r == f.id
<1>2. /\ r \in Runs /\ post[r] = f.type
      /\ Told(Tail(out), post) /\ Distinct(Tail(out))
      /\ \A s : Holds(Tail(out), s) <=> Holds(out, s) /\ ~ (IsRequest(Head(out)) /\ Head(out).id = s)
  BY <1>1, TailRequests DEF Asked
<1>3. f.type # "event" /\ f.type \in {"patch", "agent"}
  BY DEF IsRequest
<1>4. Asked(out', wire', post')
  BY <1>1, AskedAnswered
<1>5. /\ wire' \in Seq(FrameIn) /\ \A x : Silent(wire', x) <=> Silent(wire, x)
      /\ \A x \in Runs \ disturbed : Pending(wire', said[x], Len(runs[x].events), x)
  BY <1>3, OtherAppended
<1>6. Untaken(Tail(out), taken) /\ Tail(out) \in Seq(FrameOut)
  BY <1>1, UntakenTail, TailAt DEF Sound
<1>7. f.type = "agent" => r \notin taken
  <2>1. Head(out) = out[1] /\ 1 \in 1..Len(out)
    BY <1>1, TailAt
  <2> QED
    BY <1>1, <2>1 DEF Sound, Untaken
<1>8. Typed'
  <2>1. taken' \subseteq Runs /\ owed' \subseteq taken' /\ failed' \subseteq taken'
    BY <1>1, <1>2 DEF Typed
  <2> QED
    BY <1>1, <1>5, <1>6, <2>1 DEF Typed
<1>9. \A x \in Runs : Over(x)' <=> Over(x)
  BY OverKept
<1>10. ASSUME NEW x \in Runs PROVE Unfinished(x)' <=> Unfinished(x)
  <2>1. Silent(wire', x) <=> Silent(wire, x)
    BY <1>5
  <2>2. CASE x = r /\ taken' # taken
    <3>1. post[x] = "agent" /\ post'[x] = "agent"
      BY <1>2, <2>2
    <3> QED
      BY <3>1 DEF Unfinished
  <2>3. CASE x # r \/ taken' = taken
    <3>1. x \in taken' <=> x \in taken
      BY <2>3
    <3> QED
      BY <1>1, <1>5, <1>9, <2>1, <3>1, UnfinishedIs DEF Open
  <2> QED
    BY <2>2, <2>3
<1>11. Sound'
  <2>1. Honest'
    BY <1>1, <1>2 DEF Sound, Honest
  <2>2. Untaken(out', taken')
    <3>1. CASE taken' = taken
      BY <1>6, <3>1
    <3>2. CASE f.type = "agent" /\ taken' = taken \cup {r}
      <4>1. ASSUME NEW i \in 1..Len(Tail(out)), Tail(out)[i].type = "agent" PROVE Tail(out)[i].id # r
        <5>1. ~ Holds(Tail(out), r)
          BY <1>2
        <5> QED
          BY <4>1, <5>1 DEF Holds, IsRequest
      <4> QED
        BY <1>6, <3>2, <4>1 DEF Untaken
    <3> QED
      BY <3>1, <3>2
  <2>3. Answered(wire', taken')
    <3>1. Answered(wire, taken')
      <4>1. CASE taken' = taken
        BY <1>1, <4>1 DEF Sound
      <4>2. CASE f.type = "agent" /\ taken' = taken \cup {r}
        <5>1. Holds(out, r)
          <6>1. Head(out) = out[1] /\ 1 \in 1..Len(out)
            BY <1>1, TailAt
          <6> QED
            BY <6>1 DEF Holds
        <5>2. ~ Holds(wire, r)
          BY <1>1, <1>2, <5>1 DEF Asked
        <5>3. \A i \in 1..Len(wire) : wire[i].type = "agent" => wire[i].id # r
          BY <5>2 DEF Holds, IsRequest
        <5>4. \A i \in 1..Len(wire) : wire[i].type = "agent" => (wire[i].id \in taken' <=> wire[i].id \in taken)
          BY <4>2, <5>3
        <5> QED
          BY <1>1, <5>4 DEF Sound, Answered
      <4> QED
        BY <4>1, <4>2
    <3> QED
      BY <1>1, <3>1, AnsweredAppend
  <2>4. Ordered(wire', post', taken')
    <3>1. Ordered(wire, post, taken')
      BY <1>1, OrderedMore DEF Sound
    <3>2. Ordered(wire', post, taken')
      BY <1>1, <1>3, <3>1, OrderedAppend DEF IsLater
    <3> QED
      BY <3>2
  <2>5. History'
    BY <1>1 DEF Sound, History
  <2>6. Reached'
    BY DEF Reached
  <2> QED
    BY <2>1, <2>2, <2>3, <2>4, <2>5, <2>6 DEF Sound
<1>12. ASSUME NEW x \in Runs \ disturbed' PROVE SoloAt(x)' /\ TraceAt(x)'
  <2>1. SoloAt(x) /\ TraceAt(x)
    BY <1>1
  <2>2. SoloAt(x)'
    BY <1>10, <2>1, SoloKept
  <2>3. TraceAt(x)'
    BY <1>5, <2>1, TraceKept
  <2> QED
    BY <2>2, <2>3
<1> QED
  BY <1>1, <1>4, <1>8, <1>11, <1>12 DEF IInv

LEMMA GreetedIInv ==
  ASSUME IInv, out # <<>>, Head(out).type = "connect", greeted' = TRUE, out' = Tail(out),
         UNCHANGED <<conn, closes, wire, post, configured, runs, active, client, taken, owed, failed, said,
                   disturbed>>
  PROVE  IInv'
<1>1. /\ Typed /\ Asked(out, wire, post) /\ Flow(post, active, runs, client) /\ Untaken(out, taken)
      /\ out \in Seq(FrameOut) /\ wire \in Seq(FrameIn)
  BY DEF IInv, Sound, Typed
<1>2. ~ IsRequest(Head(out))
  BY DEF IsRequest
<1>3. Tail(out) \in Seq(FrameOut) /\ Untaken(Tail(out), taken) /\ Asked(Tail(out), wire, post)
  BY <1>1, <1>2, TailAt, UntakenTail, AskedOther
<1>4. Typed' /\ QuietPost
  BY <1>1, <1>3 DEF Typed, QuietPost
<1>5. Asked(out', wire', post') /\ Flow(post', active', runs', client') /\ Untaken(out', taken)
  BY <1>1, <1>3
<1> QED
  BY <1>4, <1>5, QuietIInv

LEMMA GatewayReceivesIInv ==
  ASSUME IInv, GatewayReceives
  PROVE  IInv'
<1>1. out \in Seq(FrameOut) /\ wire \in Seq(FrameIn) /\ Asked(out, wire, post) /\ Untaken(out, taken)
  BY DEF IInv, Typed, Sound
<1>2. /\ out # <<>> /\ out' = Tail(out)
      /\ UNCHANGED <<conn, closes, post, configured, runs, active, client, failed, said, disturbed>>
  BY DEF GatewayReceives
<1>3. CASE Head(out).type = "connect" /\ greeted' = TRUE /\ UNCHANGED <<wire, taken, owed>>
  BY <1>2, <1>3, GreetedIInv
<1>4. ASSUME greeted, Head(out).type = "patch", UNCHANGED <<greeted, taken, owed>>,
             NEW ok \in BOOLEAN, wire' = Append(wire, Response("patch", Head(out).id, ok))
      PROVE  IInv'
  <2> DEFINE f == Response("patch", Head(out).id, ok)
  <2>1. IsRequest(Head(out))
    BY <1>4 DEF IsRequest
  <2>2. Head(out).id \in Runs
    BY <1>1, <1>2, <2>1, TailRequests DEF Asked
  <2>3. f \in FrameIn /\ f.type = "patch" /\ f.id = Head(out).id
    BY <2>2 DEF FrameIn, Answer, Response
  <2> HIDE DEF f
  <2>4. wire' = Append(wire, f)
    BY <1>4 DEF f
  <2> QED
    BY <1>2, <1>4, <2>1, <2>3, <2>4, RespondedIInv
<1>5. ASSUME greeted, Head(out).type = "agent", UNCHANGED greeted,
             NEW ok \in BOOLEAN, wire' = Append(wire, Response("agent", Head(out).id, ok)),
             taken' = IF ok THEN taken \cup {Head(out).id} ELSE taken,
             owed' = IF ok THEN owed \cup {Head(out).id} ELSE owed
      PROVE  IInv'
  <2> DEFINE f == Response("agent", Head(out).id, ok)
  <2>1. IsRequest(Head(out))
    BY <1>5 DEF IsRequest
  <2>2. Head(out).id \in Runs
    BY <1>1, <1>2, <2>1, TailRequests DEF Asked
  <2>3. f \in FrameIn /\ f.type = "agent" /\ f.id = Head(out).id /\ f.ok = ok
    BY <2>2 DEF FrameIn, Answer, Response
  <2>4. Head(out).id \notin taken
    <3>1. Head(out) = out[1] /\ 1 \in 1..Len(out)
      BY <1>1, <1>2, TailAt
    <3> QED
      BY <1>1, <1>5, <3>1 DEF Untaken
  <2> HIDE DEF f
  <2>5. wire' = Append(wire, f)
    BY <1>5 DEF f
  <2>6. taken' = taken \/ (f.type = "agent" /\ taken' = taken \cup {f.id})
    BY <1>5, <2>3
  <2>7. f.ok <=> f.id \in taken'
    BY <1>5, <2>3, <2>4
  <2>8. owed' \subseteq owed \cup (taken' \ taken)
    BY <1>5, <2>4
  <2> QED
    BY <1>2, <1>5, <2>1, <2>3, <2>5, <2>6, <2>7, <2>8, RespondedIInv
<1> QED
  BY <1>2, <1>3, <1>4, <1>5 DEF GatewayReceives, Send

-----------------------------------------------------------------------------
(* The gateway says something of a run.                                    *)

(* The answer of a run that was accepted is on the way as long as its      *)
(* handler waits for it.                                                   *)
LEMMA AcceptedFirst ==
  ASSUME IInv, NEW r \in taken, post[r] = "agent"
  PROVE  \E j \in 1..Len(wire) : wire[j].type = "agent" /\ wire[j].id = r
<1>1. Asked(out, wire, post) /\ Untaken(out, taken) /\ r \in Runs
  BY DEF IInv, Typed, Sound
<1>2. Holds(out, r) \/ Holds(wire, r)
  BY <1>1 DEF Asked
<1>3. ~ Holds(out, r)
  <2> SUFFICES ASSUME NEW i \in 1..Len(out), IsRequest(out[i]), out[i].id = r PROVE FALSE
    BY DEF Holds
  <2>1. out[i].type = "agent"
    BY <1>1 DEF Asked, Told
  <2> QED
    BY <1>1, <2>1 DEF Untaken
<1>4. PICK j \in 1..Len(wire) : IsRequest(wire[j]) /\ wire[j].id = r
  BY <1>2, <1>3 DEF Holds
<1>5. wire[j].type = "agent"
  BY <1>1, <1>4 DEF Asked, Told
<1> QED
  BY <1>4, <1>5

LEMMA EmitIInv ==
  ASSUME IInv, NEW r \in Runs, NEW phase \in Phases, Emit(r, phase)
  PROVE  IInv'
<1> DEFINE f == [type |-> "event", id |-> r, phase |-> phase]
           h == said[r]
<1>1. /\ Typed /\ Asked(out, wire, post) /\ Flow(post, active, runs, client) /\ Sound
      /\ wire \in Seq(FrameIn) /\ out \in Seq(FrameOut) /\ taken \subseteq Runs /\ h \in Seq(Phases)
      /\ said \in [Runs -> Seq(Phases)] /\ runs \in [Runs -> RunType]
      /\ \A x \in Runs \ disturbed : SoloAt(x) /\ TraceAt(x)
  BY DEF IInv, Typed, Flow
<1>2. /\ r \in taken /\ ~ Over(r) /\ r \notin failed
      /\ said' = [said EXCEPT ![r] = Append(h, phase)]
      /\ wire' = IF greeted THEN Append(wire, f) ELSE wire
      /\ UNCHANGED <<conn, closes, out, post, runs, active, disturbed, configured, client, greeted, taken,
                     owed, failed>>
  BY DEF Emit, Over, Send, http
<1>3. /\ f \in FrameIn /\ f.type = "event" /\ f.id = r /\ f.phase = phase /\ ~ IsRequest(f)
      /\ IsOf(f, r) /\ \A x : x # r => ~ IsOf(f, x)
  BY DEF FrameIn, IsRequest, IsOf
<1>4. /\ Append(h, phase) \in Seq(Phases) /\ Len(h) \in Nat /\ Len(Append(h, phase)) = Len(h) + 1
      /\ Append(h, phase)[Len(h) + 1] = phase
      /\ \A i \in 1..Len(h) : Append(h, phase)[i] = h[i]
  BY <1>1, AppendAt
<1>5. said' \in [Runs -> Seq(Phases)] /\ said'[r] = Append(h, phase) /\ \A x \in Runs \ {r} : said'[x] = said[x]
  BY <1>1, <1>2, <1>4
<1> HIDE DEF f, h
<1>6. wire' \in Seq(FrameIn)
  BY <1>1, <1>2, <1>3, AppendAt
<1>7. \A x \in Runs \ {r} : Over(x)' <=> Over(x)
  BY <1>2, <1>5, OverKept
<1>8. /\ \A x : x # r => (Silent(wire', x) <=> Silent(wire, x))
      /\ greeted => ~ Silent(wire', r)
  <2>1. CASE greeted
    <3>1. \A x : Silent(Append(wire, f), x) <=> Silent(wire, x) /\ ~ IsOf(f, x)
      BY <1>1, <1>3, AppendSilent
    <3> QED
      BY <1>2, <1>3, <2>1, <3>1
  <2>2. CASE ~ greeted
    BY <1>2, <2>2
  <2> QED
    BY <2>1, <2>2
<1>9. Unfinished(r)
  BY <1>2 DEF Unfinished
<1>10. \A x \in Runs \ {r} : Unfinished(x)' <=> Unfinished(x)
  BY <1>1, <1>2, <1>6, <1>7, <1>8, UnfinishedIs DEF Open
<1>11. Typed'
  BY <1>1, <1>2, <1>5, <1>6 DEF Typed
<1>12. Asked(out', wire', post')
  <2>1. Asked(out, Append(wire, f), post)
    BY <1>1, <1>3, AskedOther
  <2> QED
    BY <1>1, <1>2, <2>1
<1>13. Sound'
  <2>1. Honest' /\ Untaken(out', taken')
    BY <1>1, <1>2 DEF Sound, Honest
  <2>2. Answered(wire', taken')
    <3>1. Answered(Append(wire, f), taken)
      BY <1>1, <1>3, AnsweredAppend DEF Sound
    <3> QED
      BY <1>1, <1>2, <3>1 DEF Sound
  <2>3. Ordered(wire', post', taken')
    <3>1. post[r] = "agent" => \E j \in 1..Len(wire) : wire[j].type = "agent" /\ wire[j].id = r
      BY <1>2, AcceptedFirst
    <3>2. Ordered(wire, post, taken)
      BY <1>1 DEF Sound
    <3>3. Ordered(Append(wire, f), post, taken)
      BY <1>1, <1>2, <1>3, <3>1, <3>2, OrderedAppend
    <3> QED
      BY <1>2, <3>2, <3>3
  <2>4. History'
    <3>1. \A i \in 1..Len(h) : h[i] \notin Ending
      <4> SUFFICES ASSUME NEW i \in 1..Len(h), h[i] \in Ending PROVE FALSE
        OBVIOUS
      <4>1. i = Len(h)
        BY <1>1 DEF Sound, History, h
      <4>2. h # <<>>
        BY <1>4
      <4> QED
        BY <1>2, <4>1, <4>2 DEF Over, Last, h
    <3>2. ASSUME NEW i \in 1..Len(said'[r]), said'[r][i] \in Ending PROVE i = Len(said'[r])
      <4>1. i \in 1..Len(h) \/ i = Len(h) + 1
        BY <1>4, <1>5
      <4> QED
        BY <1>4, <1>5, <3>1, <3>2, <4>1
    <3>3. ASSUME NEW x \in Runs
          PROVE  /\ said'[x] # <<>> => x \in taken' /\ x \notin failed'
                 /\ \A i \in 1..Len(said'[x]) : said'[x][i] \in Ending => i = Len(said'[x])
      <4>1. CASE x = r
        BY <1>2, <3>2, <4>1
      <4>2. CASE x # r
        BY <1>1, <1>2, <1>5, <4>2 DEF Sound, History
      <4> QED
        BY <4>1, <4>2
    <3> QED
      BY <3>3 DEF History
  <2>5. Reached'
    <3>1. ASSUME ~ greeted, NEW x \in taken PROVE Over(x)' \/ x \in disturbed
      <4>1. Over(x) \/ x \in disturbed
        BY <1>1, <3>1 DEF Sound, Reached
      <4>2. CASE x = r
        BY <1>2, <4>1, <4>2
      <4>3. CASE x # r
        BY <1>1, <1>7, <4>1, <4>3
      <4> QED
        BY <4>2, <4>3
    <3> QED
      BY <1>2, <3>1 DEF Reached
  <2> QED
    BY <2>1, <2>2, <2>3, <2>4, <2>5 DEF Sound
<1>14. ASSUME NEW x \in Runs \ disturbed', x # r PROVE SoloAt(x)' /\ TraceAt(x)'
  <2>1. SoloAt(x) /\ TraceAt(x) /\ x \in Runs \ disturbed
    BY <1>1, <1>2
  <2>2. SoloAt(x)'
    <3>1. \A y \in Runs : Unfinished(y)' => Unfinished(y)
      BY <1>9, <1>10
    <3>2. Unfinished(x)' <=> Unfinished(x)
      BY <1>10, <1>14
    <3> QED
      BY <1>2, <2>1, <3>1, <3>2, SoloKept
  <2>3. TraceAt(x)'
    <3> DEFINE g == said[x]
               n == Len(runs[x].events)
    <3>1. g \in Seq(Phases) /\ n \in Nat /\ Pending(wire, g, n, x)
      BY <1>1, <2>1 DEF RunType, TraceAt
    <3> HIDE DEF g, n
    <3>2. Pending(Append(wire, f), g, n, x)
      BY <1>1, <1>3, <1>14, <3>1, PendingAfterOther
    <3>3. Pending(wire', g, n, x)
      BY <1>2, <3>1, <3>2
    <3> QED
      BY <1>2, <1>5, <1>14, <2>1, <3>3, TraceKept DEF g, n
  <2> QED
    BY <2>2, <2>3
<1>15. ASSUME r \notin disturbed' PROVE SoloAt(r)' /\ TraceAt(r)'
  <2>1. SoloAt(r) /\ TraceAt(r) /\ r \notin disturbed
    BY <1>1, <1>2, <1>15
  <2>2. greeted
    BY <1>1, <1>2, <2>1 DEF Sound, Reached
  <2>3. SoloAt(r)'
    <3>1. Unfinished(r)'
      BY <1>1, <1>6, <1>8, <2>2, UnfinishedIs DEF Open
    <3>2. \A y \in Runs : Unfinished(y)' => Unfinished(y)
      BY <1>9, <1>10
    <3> QED
      BY <1>2, <1>9, <2>1, <3>1, <3>2, SoloKept
  <2>4. TraceAt(r)'
    <3> DEFINE ev == runs[r].events
               n == Len(ev)
    <3>1. n \in Nat /\ Matches(ev, h, r) /\ Pending(wire, h, n, r)
      BY <1>1, <2>1 DEF RunType, TraceAt, h
    <3> HIDE DEF n
    <3>2. Pending(Append(wire, f), Append(h, phase), n, r)
      BY <1>1, <1>3, <3>1, PendingAfterOwn
    <3>3. Pending(wire', said'[r], n, r)
      BY <1>2, <1>5, <2>2, <3>2
    <3>4. Matches(ev, said'[r], r)
      <4>1. Len(ev) <= Len(h) /\ \A i \in 1..Len(ev) : ev[i] = [run |-> r, type |-> ProductType(h[i])]
        BY <3>1 DEF Matches
      <4>2. \A i \in 1..Len(ev) : i \in 1..Len(h) /\ said'[r][i] = h[i]
        BY <1>4, <1>5, <3>1, <4>1 DEF n
      <4>3. Len(ev) <= Len(said'[r])
        BY <1>4, <1>5, <3>1, <4>1 DEF n
      <4> QED
        BY <4>1, <4>2, <4>3 DEF Matches
    <3> QED
      BY <1>2, <3>3, <3>4 DEF TraceAt, n
  <2> QED
    BY <2>3, <2>4
<1>16. Flow(post', active', runs', client')
  BY <1>1, <1>2
<1> QED
  BY <1>11, <1>12, <1>13, <1>14, <1>15, <1>16 DEF IInv

(* The command of a run throws before its first event: the run is          *)
(* finished, and stays active.                                             *)
LEMMA CommandThrowsIInv ==
  ASSUME IInv, NEW r \in Runs, CommandThrows(r)
  PROVE  IInv'
<1>1. /\ Typed /\ Asked(out, wire, post) /\ Flow(post, active, runs, client) /\ Sound
      /\ wire \in Seq(FrameIn)
      /\ \A x \in Runs \ disturbed : SoloAt(x) /\ TraceAt(x)
  BY DEF IInv, Typed
<1>2. /\ r \in taken /\ r \notin failed /\ said[r] = <<>> /\ failed' = failed \cup {r}
      /\ UNCHANGED <<conn, closes, out, wire, post, runs, active, disturbed, configured, client,
                     greeted, taken, owed, said>>
  BY DEF CommandThrows, http
<1>3. Typed'
  BY <1>1, <1>2 DEF Typed
<1>4. /\ \A x \in Runs \ {r} : Over(x)' <=> Over(x)
      /\ Over(r)'
  BY <1>2 DEF Over
<1>5. /\ \A x \in Runs \ {r} : Unfinished(x)' <=> Unfinished(x)
      /\ Unfinished(r)' => Unfinished(r)
  <2>1. \A x \in Runs : Open(x, post', taken', Over(x)', wire') => Open(x, post, taken, Over(x), wire)
    BY <1>2, <1>4 DEF Open
  <2>2. \A x \in Runs \ {r} : Open(x, post', taken', Over(x)', wire') <=> Open(x, post, taken, Over(x), wire)
    BY <1>2, <1>4 DEF Open
  <2> QED
    BY <1>1, <1>2, <2>1, <2>2, UnfinishedIs
<1>6. Sound'
  <2>1. /\ Honest' /\ Untaken(out', taken') /\ Answered(wire', taken')
        /\ Ordered(wire', post', taken')
    BY <1>1, <1>2 DEF Sound, Honest
  <2>2. History'
    BY <1>1, <1>2 DEF Sound, History
  <2>3. Reached'
    BY <1>1, <1>2, <1>4 DEF Sound, Reached, Typed
  <2> QED
    BY <2>1, <2>2, <2>3 DEF Sound
<1>7. ASSUME NEW x \in Runs \ disturbed' PROVE SoloAt(x)' /\ TraceAt(x)'
  <2>1. SoloAt(x) /\ TraceAt(x) /\ x \in Runs
    BY <1>1, <1>2, <1>7
  <2>2. /\ Unfinished(x)' => Unfinished(x)
        /\ Unfinished(x) => Unfinished(x)' \/ x \in failed'
        /\ x \in failed => x \in failed'
        /\ \A y \in Runs : Unfinished(y)' => Unfinished(y)
    BY <1>2, <1>5, <2>1
  <2>3. SoloAt(x)'
    BY <1>2, <2>1, <2>2, SoloKept
  <2>4. TraceAt(x)'
    BY <1>2, <2>1 DEF TraceAt
  <2> QED
    BY <2>3, <2>4
<1>8. Asked(out', wire', post') /\ Flow(post', active', runs', client')
  BY <1>1, <1>2
<1> QED
  BY <1>3, <1>6, <1>7, <1>8 DEF IInv

(* The second response comes on the connection, or is taken from it.       *)
LEMMA LaterIInv ==
  ASSUME IInv, wire' \in Seq(FrameIn), Asked(out, wire', post), owed' \subseteq owed,
         Answered(wire', taken), Ordered(wire', post, taken),
         \A x : Silent(wire', x) <=> Silent(wire, x),
         \A x \in Runs \ disturbed : Pending(wire', said[x], Len(runs[x].events), x),
         UNCHANGED <<conn, closes, out, post, configured, runs, active, client, greeted, taken,
                     failed, said, disturbed>>
  PROVE  IInv'
<1>1. /\ Typed /\ Flow(post, active, runs, client) /\ Sound /\ wire \in Seq(FrameIn)
      /\ \A x \in Runs \ disturbed : SoloAt(x) /\ TraceAt(x)
  BY DEF IInv, Typed
<1>2. Typed'
  BY <1>1 DEF Typed
<1>3. \A x \in Runs : Over(x)' <=> Over(x)
  BY OverKept
<1>4. \A x \in Runs : Unfinished(x)' <=> Unfinished(x)
  <2> TAKE x \in Runs
  <2>1. (Silent(wire', x) <=> Silent(wire, x)) /\ (Over(x)' <=> Over(x))
    BY <1>3
  <2> QED
    BY <1>1, <2>1, UnfinishedIs DEF Open
<1>5. Sound'
  <2>1. /\ Honest' /\ Untaken(out', taken') /\ Answered(wire', taken')
        /\ Ordered(wire', post', taken') /\ History'
    BY <1>1 DEF Sound, Honest, History
  <2>2. Reached'
    BY <1>1, <1>3 DEF Sound, Reached, Typed
  <2> QED
    BY <2>1, <2>2 DEF Sound
<1>6. ASSUME NEW x \in Runs \ disturbed' PROVE SoloAt(x)' /\ TraceAt(x)'
  <2>1. SoloAt(x) /\ TraceAt(x) /\ (Unfinished(x)' <=> Unfinished(x))
    BY <1>1, <1>4
  <2>2. SoloAt(x)'
    BY <1>4, <2>1, SoloKept
  <2>3. TraceAt(x)'
    BY <2>1, TraceKept
  <2> QED
    BY <2>2, <2>3
<1> QED
  BY <1>1, <1>2, <1>5, <1>6 DEF IInv

LEMMA RespondAgainIInv ==
  ASSUME IInv, NEW r \in Runs, RespondAgain(r)
  PROVE  IInv'
<1>1. PICK f : f = Response("result", r, r \notin failed /\ Last(said[r]) = "end")
  OBVIOUS
<1>2. /\ r \in owed /\ wire' = Append(wire, f) /\ owed' \subseteq owed
      /\ UNCHANGED <<conn, closes, out, post, configured, runs, active, client, greeted, taken,
                     failed, said, disturbed>>
  BY <1>1 DEF RespondAgain, Send, http
<1>3. f \in FrameIn /\ f.type = "result" /\ f.id = r /\ ~ IsRequest(f)
  <2>1. (r \notin failed /\ Last(said[r]) = "end") \in BOOLEAN
    OBVIOUS
  <2> QED
    BY <1>1, <2>1 DEF FrameIn, Answer, Response, IsRequest
<1>4. /\ Asked(out, wire, post) /\ Answered(wire, taken) /\ Ordered(wire, post, taken)
      /\ wire \in Seq(FrameIn) /\ out \in Seq(FrameOut) /\ r \in taken
  BY <1>2 DEF IInv, Typed, Sound
<1>5. /\ wire' \in Seq(FrameIn) /\ \A x : Silent(wire', x) <=> Silent(wire, x)
      /\ \A x \in Runs \ disturbed : Pending(wire', said[x], Len(runs[x].events), x)
  BY <1>2, <1>3, OtherAppended
<1>6. Asked(out, wire', post)
  BY <1>2, <1>3, <1>4, AskedOther
<1>7. Answered(wire', taken)
  BY <1>2, <1>3, <1>4, AnsweredAppend
<1>8. Ordered(wire', post, taken)
  <2>1. post[r] = "agent" => \E j \in 1..Len(wire) : wire[j].type = "agent" /\ wire[j].id = r
    BY <1>4, AcceptedFirst
  <2> QED
    BY <1>2, <1>3, <1>4, <2>1, OrderedAppend
<1> QED
  BY <1>2, <1>5, <1>6, <1>7, <1>8, LaterIInv

-----------------------------------------------------------------------------
(* The sidecar gets a frame.                                               *)

LEMMA HandleResponseIInv ==
  ASSUME IInv, wire # <<>>, Head(wire).type \notin {"event", "result"}, wire' = Tail(wire),
         HandleResponse(Head(wire)),
         UNCHANGED <<conn, closes, out, configured, disturbed, gateway>>
  PROVE  IInv'
<1>1. /\ Typed /\ Asked(out, wire, post) /\ Flow(post, active, runs, client) /\ Sound
      /\ wire \in Seq(FrameIn) /\ post \in [Runs -> PostPc] /\ taken \subseteq Runs
      /\ said \in [Runs -> Seq(Phases)] /\ runs \in [Runs -> RunType]
      /\ \A x \in Runs \ disturbed : SoloAt(x) /\ TraceAt(x)
  BY DEF IInv, Typed, Flow
<1>0. PICK f, r : f = Head(wire) /\ r = f.id
  OBVIOUS
<1>2. /\ f = wire[1] /\ 1 \in 1..Len(wire) /\ f \in FrameIn /\ wire' \in Seq(FrameIn)
      /\ IsRequest(f) /\ \A x : ~ IsOf(f, x)
  <2>1. f = wire[1] /\ 1 \in 1..Len(wire) /\ f \in FrameIn /\ wire' \in Seq(FrameIn)
    BY <1>1, <1>0, TailAt
  <2>2. f.type \in {"patch", "agent", "event", "result"}
    BY <2>1 DEF FrameIn, Answer
  <2> QED
    BY <1>0, <2>1, <2>2 DEF IsRequest, IsOf
<1>3. r \in Runs /\ post[r] = f.type /\ f.type \in {"patch", "agent"}
  BY <1>1, <1>2, <1>0 DEF Asked, Told, IsRequest
<1>4. PICK v : /\ post' = [post EXCEPT ![r] = v]
               /\ f.type = "patch" => v \in {"patched", "unpatched"}
               /\ f.type = "agent" => v = IF f.ok THEN "agreed" ELSE "denied"
  <2>1. CASE f.type = "patch"
    BY <1>3, <1>0, <2>1 DEF HandleResponse
  <2>2. CASE f.type = "agent"
    BY <1>3, <1>0, <2>2 DEF HandleResponse
  <2> QED
    BY <1>3, <2>1, <2>2
<1>5. v \in {"patched", "unpatched", "agreed", "denied"}
  BY <1>3, <1>4
<1>6. /\ post' \in [Runs -> PostPc] /\ post'[r] = v /\ \A x \in Runs \ {r} : post'[x] = post[x]
  BY <1>1, <1>3, <1>4, <1>5 DEF PostPc
<1>7. UNCHANGED <<runs, active, client, greeted, taken, owed, failed, said>>
  BY DEF HandleResponse, gateway
<1>8. \A x : Silent(wire', x) <=> Silent(wire, x)
  BY <1>1, <1>2, <1>0, TailSilent
<1>9. f.type = "agent" => (f.ok <=> r \in taken)
  BY <1>1, <1>2, <1>0 DEF Sound, Answered
<1>10. \A x \in Runs : Over(x)' <=> Over(x)
  BY <1>7, OverKept
<1>11. Typed'
  BY <1>1, <1>2, <1>6, <1>7 DEF Typed
<1>12. Asked(out', wire', post')
  <2>1. Asked(out, Tail(wire), [post EXCEPT ![r] = v])
    BY <1>1, <1>2, <1>5, <1>0, AskedSettled
  <2> QED
    BY <1>4, <2>1
<1>13. Flow(post', active', runs', client')
  <2>1. \A x \in Runs : /\ post[x] \in Answering => post'[x] \in Answering
                        /\ post[x] = "accepted" => post'[x] = "accepted"
    <3>1. post[r] \in Answering => v \in Answering
      BY <1>3, <1>4 DEF Answering
    <3> QED
      BY <1>3, <1>6, <3>1
  <2>2. Flow(post', active, runs, client)
    BY <1>1, <2>1, FlowPosts
  <2> QED
    BY <1>7, <2>2
<1>14. r \in taken => v = "agreed"
  BY <1>1, <1>3, <1>4, <1>9 DEF Sound, Honest
<1>15. Sound'
  <2>1. Honest'
    <3>1. ASSUME NEW x \in taken
          PROVE  \/ post'[x] \in {"agent", "agreed", "accepted"}
                 \/ x \in disturbed' /\ post'[x] \in {"denied", "refused"}
      <4>1. CASE x = r
        BY <1>6, <1>14, <4>1
      <4>2. CASE x # r
        BY <1>1, <1>6, <4>2 DEF Sound, Honest
      <4> QED
        BY <4>1, <4>2
    <3> QED
      BY <1>7, <3>1 DEF Honest
  <2>2. Untaken(out', taken') /\ Answered(wire', taken')
    BY <1>1, <1>7, AnsweredTail DEF Sound
  <2>3. Ordered(wire', post', taken')
    <3>1. \A x \in taken : post'[x] = "agent" => post[x] = "agent" /\ x # r
      BY <1>1, <1>5, <1>6
    <3>2. Ordered(wire, post, taken)
      BY <1>1 DEF Sound
    <3>3. Ordered(Tail(wire), post', taken)
      BY <1>1, <3>1, <3>2, <1>0, OrderedTail
    <3> QED
      BY <1>7, <3>3
  <2>4. History'
    BY <1>1, <1>7 DEF Sound, History
  <2>5. Reached'
    BY <1>1, <1>7, <1>10 DEF Sound, Reached
  <2> QED
    BY <2>1, <2>2, <2>3, <2>4, <2>5 DEF Sound
<1>16. \A x \in Runs \ {r} : Unfinished(x)' <=> Unfinished(x)
  BY <1>1, <1>2, <1>6, <1>7, <1>8, <1>10, UnfinishedIs DEF Open
<1>17. Unfinished(r)' => Unfinished(r)
  <2>1. CASE f.type = "agent"
    BY <1>3, <2>1 DEF Unfinished
  <2>2. CASE f.type = "patch"
    <3>1. v \notin {"agent", "denied"}
      BY <1>4, <2>2
    <3> QED
      BY <1>1, <1>2, <1>3, <1>6, <1>7, <1>8, <1>10, <3>1, UnfinishedIs DEF Open
  <2> QED
    BY <1>3, <2>1, <2>2
<1>18. ASSUME r \notin disturbed, Unfinished(r) PROVE Unfinished(r)' \/ r \in failed'
  <2>1. SoloAt(r) /\ TraceAt(r)
    BY <1>1, <1>3, <1>18
  <2>2. CASE f.type = "patch"
    <3>1. post[r] \notin {"agent", "denied"}
      BY <1>3, <2>2
    <3> QED
      BY <1>1, <1>2, <1>3, <1>7, <1>8, <1>10, <1>18, <3>1, UnfinishedIs DEF Open
  <2>3. CASE f.type = "agent" /\ ~ f.ok
    BY <1>4, <1>6, <2>3 DEF Unfinished
  <2>4. CASE f.type = "agent" /\ f.ok
    <3>1. r \in taken'
      BY <1>7, <1>9, <2>4
    <3>2. CASE ~ Over(r)
      BY <1>3, <1>10, <3>1, <3>2 DEF Unfinished
    <3>3. CASE Over(r) /\ r \notin failed
      <4> DEFINE h == said[r]
                 n == Len(runs[r].events)
      <4>1. h \in Seq(Phases) /\ h # <<>> /\ Pending(wire, h, n, r)
        BY <1>1, <1>3, <2>1, <3>3 DEF Over, TraceAt
      <4>2. n = 0
        BY <1>3, <2>1, <2>4 DEF SoloAt, Early
      <4> HIDE DEF h, n
      <4>3. n \in Nat /\ n # Len(h)
        BY <4>1, <4>2
      <4>4. ~ Silent(wire, r)
        BY <1>1, <4>1, <4>3, NonePending
      <4> QED
        BY <1>1, <1>2, <1>8, <4>4, UnfinishedIs DEF Open
    <3> QED
      BY <1>7, <3>2, <3>3
  <2> QED
    BY <1>3, <2>2, <2>3, <2>4
<1>19. ASSUME NEW x \in Runs \ disturbed' PROVE SoloAt(x)' /\ TraceAt(x)'
  <2>1. SoloAt(x) /\ TraceAt(x)
    BY <1>1
  <2>2. SoloAt(x)'
    <3>1. Unfinished(x)' => Unfinished(x)
      BY <1>16, <1>17
    <3>4. Unfinished(x) => Unfinished(x)' \/ x \in failed'
      BY <1>16, <1>18, <1>19
    <3>2. \A y \in Runs : Unfinished(y)' => Unfinished(y)
      BY <1>16, <1>17
    <3>3. post'[x] \in Early => post[x] \in Early
      <4>1. CASE x = r
        BY <1>3, <4>1 DEF Early
      <4>2. CASE x # r
        BY <1>6, <4>2
      <4> QED
        BY <4>1, <4>2
    <3> QED
      BY <1>7, <2>1, <3>1, <3>2, <3>3, <3>4, SoloKept
  <2>3. TraceAt(x)'
    <3> DEFINE h == said[x]
               n == Len(runs[x].events)
    <3>1. h \in Seq(Phases) /\ n \in Nat /\ Pending(wire, h, n, x)
      BY <1>1, <2>1 DEF RunType, TraceAt
    <3> HIDE DEF h, n
    <3>2. Pending(wire', h, n, x)
      BY <1>1, <1>2, <3>1, <1>0, PendingBeforeOther
    <3> QED
      BY <1>7, <2>1, <3>2, TraceKept DEF h, n
  <2> QED
    BY <2>2, <2>3
<1> QED
  BY <1>1, <1>11, <1>12, <1>13, <1>15, <1>19 DEF IInv

(* The second response finds no request pending.                           *)
LEMMA ResponseIgnoredIInv ==
  ASSUME IInv, wire # <<>>, Head(wire).type = "result", wire' = Tail(wire),
         HandleResponse(Head(wire)),
         UNCHANGED <<conn, closes, out, configured, disturbed, gateway>>
  PROVE  IInv'
<1>0. PICK f, r : f = Head(wire) /\ r = f.id
  OBVIOUS
<1>1. /\ Asked(out, wire, post) /\ Answered(wire, taken) /\ Ordered(wire, post, taken)
      /\ wire \in Seq(FrameIn) /\ out \in Seq(FrameOut) /\ post \in [Runs -> PostPc]
      /\ said \in [Runs -> Seq(Phases)] /\ runs \in [Runs -> RunType]
      /\ \A x \in Runs \ disturbed : TraceAt(x)
  BY DEF IInv, Typed, Sound, Flow
<1>2. /\ f = wire[1] /\ 1 \in 1..Len(wire) /\ f \in FrameIn /\ wire' \in Seq(FrameIn)
      /\ f.type = "result" /\ ~ IsRequest(f) /\ \A x : ~ IsOf(f, x)
  BY <1>0, <1>1, TailAt DEF IsRequest, IsOf
<1>3. post[r] # "agent"
  <2>1. post[r] = "agent" =>
          \E j \in 1..Len(wire) : j < 1 /\ wire[j].type = "agent" /\ wire[j].id = r
    BY <1>0, <1>1, <1>2 DEF Ordered, IsLater
  <2> QED
    BY <2>1
<1>4. post' = post
  <2>1. post' = [post EXCEPT ![r] = @]
    BY <1>0, <1>2, <1>3 DEF HandleResponse
  <2> QED
    BY <1>1, <2>1
<1>5. UNCHANGED <<runs, active, client, greeted, taken, owed, failed, said>>
  BY DEF HandleResponse, gateway
<1>6. \A x : Silent(wire', x) <=> Silent(wire, x)
  BY <1>0, <1>1, <1>2, TailSilent
<1>7. ASSUME NEW x \in Runs \ disturbed PROVE Pending(wire', said[x], Len(runs[x].events), x)
  <2> DEFINE h == said[x]
             n == Len(runs[x].events)
  <2>1. h \in Seq(Phases) /\ n \in Nat /\ Pending(wire, h, n, x)
    BY <1>1 DEF RunType, TraceAt
  <2> HIDE DEF h, n
  <2>2. Pending(wire', h, n, x)
    BY <1>0, <1>1, <1>2, <2>1, PendingBeforeOther
  <2> QED
    BY <2>2 DEF h, n
<1>8. Asked(out, wire', post)
  BY <1>0, <1>1, <1>2, AskedOther
<1>9. Answered(wire', taken)
  BY <1>1, AnsweredTail
<1>10. Ordered(wire', post, taken)
  <2>1. f.type # "agent"
    BY <1>2
  <2> QED
    BY <1>0, <1>1, <2>1, OrderedTail
<1> QED
  BY <1>2, <1>4, <1>5, <1>6, <1>7, <1>8, <1>9, <1>10, LaterIInv

(* What the tracker makes of an event.                                     *)
EventOf(frame) == [run |-> frame.id, type |-> ProductType(frame.phase)]

(* An event is taken from the connection.                                  *)
Delivery(f) ==
  /\ wire # <<>> /\ f = Head(wire) /\ f.type = "event" /\ wire' = Tail(wire)
  /\ UNCHANGED <<conn, closes, out, post, configured, disturbed, greeted, taken, owed, failed, said>>

(* An event: the run it is of is unfinished before.                        *)
LEMMA EventComes ==
  ASSUME IInv, NEW f, Delivery(f)
  PROVE  /\ f.id \in taken /\ f.id \in Runs /\ f.phase \in Phases /\ IsOf(f, f.id)
         /\ \A x : x # f.id => ~ IsOf(f, x)
         /\ Unfinished(f.id) /\ post[f.id] # "agent"
         /\ Typed' /\ Asked(out', wire', post') /\ Sound'
         /\ \A x \in Runs : Unfinished(x)' => Unfinished(x)
         /\ \A x \in Runs : x # f.id => (Unfinished(x)' <=> Unfinished(x))
         /\ \A x \in Runs : Over(x)' <=> Over(x)
<1>0. /\ wire # <<>> /\ f = Head(wire) /\ f.type = "event" /\ wire' = Tail(wire)
      /\ UNCHANGED <<conn, closes, out, post, configured, disturbed, greeted, taken, owed, failed, said>>
  BY Zenon DEF Delivery
<1> USE <1>0
<1>1. /\ Typed /\ Asked(out, wire, post) /\ Sound /\ wire \in Seq(FrameIn) /\ out \in Seq(FrameOut)
      /\ taken \subseteq Runs
  BY DEF IInv, Typed
<1>2. /\ f = wire[1] /\ 1 \in 1..Len(wire) /\ f \in FrameIn /\ wire' \in Seq(FrameIn)
  BY <1>1, TailAt
<1>3. f.id \in Runs /\ f.phase \in Phases /\ ~ IsRequest(f) /\ f.type # "agent"
  BY <1>2 DEF FrameIn, Answer, IsRequest
<1>4. IsOf(f, f.id) /\ \A x : x # f.id => ~ IsOf(f, x)
  BY DEF IsOf
<1>5. /\ f.id \in taken
      /\ post[f.id] = "agent" =>
           \E j \in 1..Len(wire) : j < 1 /\ wire[j].type = "agent" /\ wire[j].id = f.id
  BY <1>1, <1>2 DEF Sound, Ordered, IsLater
<1>6. post[f.id] # "agent"
  BY <1>5
<1>7. Unfinished(f.id)
  <2>1. ~ Silent(wire, f.id)
    BY <1>1, <1>4, TailSilent
  <2> QED
    BY <1>1, <1>2, <2>1, UnfinishedIs DEF Open
<1>8. \A x \in Runs : Over(x)' <=> Over(x)
  BY OverKept
<1>9. ASSUME NEW x \in Runs
      PROVE  /\ Unfinished(x)' => Unfinished(x)
             /\ x # f.id => (Unfinished(x)' <=> Unfinished(x))
  <2>1. /\ Silent(wire, x) => Silent(wire', x)
        /\ x # f.id => (Silent(wire', x) <=> Silent(wire, x))
    BY <1>1, <1>4, TailSilent
  <2>2. Over(x)' <=> Over(x)
    BY <1>8
  <2> QED
    BY <1>1, <1>2, <2>1, <2>2, UnfinishedIs DEF Open
<1>10. Asked(out', wire', post')
  <2>1. Asked(out, Tail(wire), post)
    BY <1>1, <1>3, AskedOther
  <2> QED
    BY <2>1
<1>11. Typed'
  BY <1>1, <1>2 DEF Typed
<1>12. Sound'
  <2>1. Honest' /\ Untaken(out', taken')
    BY <1>1 DEF Sound, Honest
  <2>2. Answered(wire', taken')
    <3>1. Answered(Tail(wire), taken)
      BY <1>1, AnsweredTail DEF Sound
    <3> QED
      BY <3>1
  <2>3. Ordered(wire', post', taken')
    <3>1. Ordered(Tail(wire), post, taken)
      BY <1>1, <1>3, OrderedTail DEF Sound
    <3> QED
      BY <3>1
  <2>4. History'
    BY <1>1 DEF Sound, History
  <2>5. Reached'
    BY <1>1, <1>8 DEF Sound, Reached
  <2> QED
    BY <2>1, <2>2, <2>3, <2>4, <2>5 DEF Sound
<1> QED
  BY <1>3, <1>4, <1>5, <1>6, <1>7, <1>8, <1>9, <1>10, <1>11, <1>12

(* An undisturbed run that something else comes of.                        *)
LEMMA TraceOfOther ==
  ASSUME IInv, NEW f, Delivery(f),
         NEW x \in Runs \ disturbed, ~ IsOf(f, x), runs'[x] = runs[x]
  PROVE  TraceAt(x)'
<1> DEFINE h == said[x]
           n == Len(runs[x].events)
<1>0. wire # <<>> /\ f = Head(wire) /\ wire' = Tail(wire) /\ said' = said
  BY Zenon DEF Delivery
<1>1. wire \in Seq(FrameIn) /\ said \in [Runs -> Seq(Phases)] /\ runs \in [Runs -> RunType] /\ TraceAt(x)
  BY DEF IInv, Typed, Flow
<1>2. h \in Seq(Phases) /\ n \in Nat /\ Pending(wire, h, n, x)
  BY <1>1 DEF RunType, TraceAt
<1> HIDE DEF h, n
<1>3. Pending(wire', h, n, x)
  BY <1>0, <1>1, <1>2, PendingBeforeOther
<1> QED
  BY <1>0, <1>1, <1>3, TraceKept DEF h, n

(* The session has no run for the event.                                   *)
LEMMA DroppedIInv ==
  ASSUME IInv, NEW f, Delivery(f),
         NEW a, a = active[SessionOf[f.id]], ~ (a # None /\ runs[a].present),
         UNCHANGED <<runs, active, client>>
  PROVE  IInv'
<1>0. disturbed' = disturbed /\ post' = post
  BY Zenon DEF Delivery
<1>1. /\ Flow(post, active, runs, client) /\ None \notin Runs
      /\ \A x \in Runs \ disturbed : SoloAt(x) /\ TraceAt(x)
  BY SidecarAssumption DEF IInv
<1>2. /\ f.id \in Runs /\ Unfinished(f.id) /\ \A x : x # f.id => ~ IsOf(f, x)
      /\ Typed' /\ Asked(out', wire', post') /\ Sound'
      /\ \A x \in Runs : Unfinished(x)' => Unfinished(x)
      /\ \A x \in Runs : x # f.id => (Unfinished(x)' <=> Unfinished(x))
  BY EventComes
<1>3. f.id \in disturbed
  <2> SUFFICES ASSUME f.id \notin disturbed PROVE FALSE
    OBVIOUS
  <2>1. active[SessionOf[f.id]] = f.id /\ runs[f.id].present
    BY <1>1, <1>2 DEF SoloAt
  <2> QED
    BY <1>1, <1>2, <2>1
<1>4. ASSUME NEW x \in Runs \ disturbed' PROVE SoloAt(x)' /\ TraceAt(x)'
  <2>1. x # f.id /\ SoloAt(x) /\ x \in Runs \ disturbed
    BY <1>0, <1>1, <1>3
  <2>2. Unfinished(x)' <=> Unfinished(x)
    BY <1>2, <2>1
  <2>3. SoloAt(x)'
    <3>1. failed' = failed
      BY Zenon DEF Delivery
    <3> QED
      BY <1>0, <1>2, <2>1, <2>2, <3>1, SoloKept
  <2>4. ~ IsOf(f, x)
    BY <1>2, <2>1
  <2>5. TraceAt(x)'
    BY <2>1, <2>4, TraceOfOther
  <2> QED
    BY <2>3, <2>5
<1>5. Flow(post', active', runs', client')
  BY <1>0, <1>1
<1> QED
  BY <1>2, <1>4, <1>5 DEF IInv

(* The next event of a history is added.                                   *)
LEMMA MatchesNext ==
  ASSUME NEW ev \in Seq(Event), NEW h \in Seq(Phases), NEW r, Matches(ev, h, r),
         Len(ev) + 1 \in 1..Len(h),
         NEW event \in Event, event = [run |-> r, type |-> ProductType(h[Len(ev) + 1])]
  PROVE  Matches(Append(ev, event), h, r) /\ Len(Append(ev, event)) = Len(ev) + 1
<1> DEFINE n == Len(ev)
           v == Append(ev, event)
<1>1. /\ n \in Nat /\ Len(v) = n + 1 /\ v[n + 1] = event
      /\ \A i \in 1..n : v[i] = ev[i]
  BY AppendAt
<1>2. \A i \in 1..Len(v) : i \in 1..n \/ i = n + 1
  BY <1>1
<1> HIDE DEF v
<1>3. \A i \in 1..Len(v) : v[i] = [run |-> r, type |-> ProductType(h[i])]
  BY <1>1, <1>2 DEF Matches
<1>4. Len(v) <= Len(h)
  BY <1>1
<1>5. Matches(v, h, r)
  BY <1>3, <1>4 DEF Matches
<1> QED
  BY <1>1, <1>5 DEF v

(* The session of the event, and its active run.                           *)
ActiveFor(a, s, f) == s = SessionOf[f.id] /\ a = active[s]

(* An undisturbed run gets an event: it is its own next one, and the run   *)
(* stays active unless this was the last.                                  *)
LEMMA OwnEventComes ==
  ASSUME IInv, NEW f, Delivery(f),
         NEW s, NEW a, ActiveFor(a, s, f), a \notin disturbed,
         NEW event, event = EventOf(f), Gets(a, s, event)
  PROVE  SoloAt(a)' /\ TraceAt(a)' /\ f.id = a
<1>0. /\ wire # <<>> /\ f = Head(wire) /\ wire' = Tail(wire)
      /\ said' = said /\ post' = post /\ taken' = taken
  BY Zenon DEF Delivery
<1>1. /\ a \in Runs /\ SessionOf[a] = s /\ SessionOf[f.id] = s /\ active[s] = a
      /\ runs'[a].present = runs[a].present
      /\ runs'[a].events = Append(runs[a].events, event)
      /\ event.type \in {"run.completed", "run.failed"} => active' = [active EXCEPT ![s] = None]
      /\ event.type \notin {"run.completed", "run.failed"} => active' = active
  BY DEF Gets, ActiveFor
<1>2. /\ Flow(post, active, runs, client) /\ Typed /\ Sound /\ None \notin Runs
      /\ SoloAt(a) /\ TraceAt(a) /\ SessionOf[a] \in Sessions
      /\ wire \in Seq(FrameIn) /\ said \in [Runs -> Seq(Phases)] /\ runs \in [Runs -> RunType]
      /\ active \in [Sessions -> Runs \cup {None}]
  BY <1>1, SidecarAssumption DEF IInv, Typed, Flow
<1>3. /\ f.id \in taken /\ f.id \in Runs /\ f.phase \in Phases /\ IsOf(f, f.id)
      /\ Unfinished(f.id) /\ post[f.id] # "agent" /\ Typed'
      /\ \A x \in Runs : Unfinished(x)' => Unfinished(x)
      /\ \A x \in Runs : Over(x)' <=> Over(x)
  BY EventComes
<1>4. \A x \in Runs \ {a} : SessionOf[x] = SessionOf[a] => ~ Unfinished(x)
  BY <1>1, <1>2 DEF SoloAt
<1>5. f.id = a /\ Unfinished(a)
  BY <1>1, <1>3, <1>4
<1>6. wire' \in Seq(FrameIn)
  BY <1>3 DEF Typed
<1>7. PICK h, ev, n : h = said[a] /\ ev = runs[a].events /\ n = Len(ev)
  OBVIOUS
<1>8. /\ h \in Seq(Phases) /\ Len(h) \in Nat /\ ev \in Seq(Event) /\ n \in Nat
      /\ Matches(ev, h, a) /\ Pending(wire, h, n, a)
  <2>1. h \in Seq(Phases) /\ ev \in Seq(Event)
    BY <1>1, <1>7, <1>2 DEF RunType
  <2>2. Len(h) \in Nat /\ n \in Nat
    BY <1>7, <2>1
  <2> QED
    BY <1>7, <1>2, <2>1, <2>2 DEF TraceAt
<1>9. /\ \A i \in 1..Len(h) : h[i] \in Ending => i = Len(h)
      /\ Over(a) <=> h # <<>> /\ h[Len(h)] \in Ending
  <2>1. \A i \in 1..Len(h) : h[i] \in Ending => i = Len(h)
    BY <1>1, <1>7, <1>2 DEF Sound, History
  <2>2. h # <<>> /\ a \notin failed
    <3>1. n + 1 \in 1..Len(h)
      BY <1>0, <1>2, <1>3, <1>5, <1>8, PendingBeforeOwn
    <3>2. h # <<>>
      BY <3>1
    <3> QED
      BY <1>1, <1>7, <1>2, <3>2 DEF Sound, History
  <2>3. Over(a) <=> h # <<>> /\ h[Len(h)] \in Ending
    BY <1>7, <2>2 DEF Over, Last
  <2> QED
    BY <2>1, <2>3
<1>10. n + 1 \in 1..Len(h) /\ f.phase = h[n + 1] /\ Pending(wire', h, n + 1, a)
  BY <1>0, <1>2, <1>3, <1>5, <1>8, PendingBeforeOwn
<1>11. event \in Event /\ (event.type \in {"run.completed", "run.failed"} <=> f.phase \in Ending)
  BY <1>3, Events DEF EventOf
<1>12. runs'[a].events = Append(ev, event)
  BY <1>1, <1>7
<1>13. TraceAt(a)'
  <2>1. event = [run |-> a, type |-> ProductType(h[n + 1])]
    BY <1>5, <1>10 DEF EventOf
  <2>2. Matches(Append(ev, event), h, a) /\ Len(Append(ev, event)) = n + 1
    <3>1. /\ event = [run |-> a, type |-> ProductType(h[Len(ev) + 1])]
          /\ Len(ev) + 1 \in 1..Len(h) /\ n + 1 = Len(ev) + 1
      BY <1>7, <1>10, <2>1
    <3>2. h \in Seq(Phases) /\ ev \in Seq(Event) /\ event \in Event /\ Matches(ev, h, a)
      BY <1>8, <1>11
    <3>3. Matches(Append(ev, event), h, a) /\ Len(Append(ev, event)) = Len(ev) + 1
      BY <3>1, <3>2, MatchesNext
    <3> QED
      BY <3>1, <3>3
  <2>3. said'[a] = h
    BY <1>0, <1>7
  <2> QED
    BY <1>10, <1>12, <2>2, <2>3 DEF TraceAt
<1>14. post[a] \in {"agreed", "accepted"}
  BY <1>2, <1>3, <1>5 DEF Sound, Honest
<1>15. CASE f.phase \in Ending
  <2>1. n + 1 = Len(h)
    BY <1>9, <1>10, <1>15
  <2>2. Silent(wire', a)
    <3>1. n + 1 \in Nat
      BY <1>8
    <3> QED
      BY <1>6, <1>8, <1>10, <2>1, <3>1, NonePending
  <2>3. Over(a)'
    <3>1. h # <<>> /\ h[Len(h)] \in Ending
      BY <1>8, <1>10, <1>15, <2>1
    <3> QED
      BY <1>1, <1>3, <1>9, <3>1
  <2>4. ~ Unfinished(a)'
    BY <1>0, <1>2, <1>6, <1>14, <2>2, <2>3, UnfinishedIs DEF Open
  <2>5. active'[SessionOf[a]] # a
    BY <1>1, <1>2, <1>11, <1>15
  <2>6. post'[a] \in Early => runs'[a].events = <<>>
    BY <1>0, <1>14 DEF Early
  <2> QED
    BY <1>1, <1>5, <1>13, <2>4, <2>5, <2>6, SoloGone
<1>16. CASE f.phase \notin Ending
  <2>1. active' = active
    BY <1>1, <1>11, <1>16
  <2>2. Unfinished(a)'
    <3>1. CASE ~ Over(a)
      <4>1. ~ Over(a)' /\ a \in taken'
        BY <1>0, <1>1, <1>3, <1>5, <3>1
      <4> QED
        BY <4>1 DEF Unfinished
    <3>2. CASE Over(a)
      <4>1. n + 1 # Len(h)
        BY <1>9, <1>10, <1>16, <3>2
      <4>2. ~ Silent(wire', a)
        <5>1. n + 1 \in Nat
          BY <1>8
        <5> QED
          BY <1>6, <1>8, <1>10, <4>1, <5>1, NonePending
      <4> QED
        BY <1>2, <1>6, <4>2, UnfinishedIs DEF Open
    <3> QED
      BY <3>1, <3>2
  <2>3. active'[SessionOf[a]] = a /\ runs'[a].present
    BY <1>1, <1>2, <1>4, <2>1 DEF SoloAt
  <2>4. \A x \in Runs \ {a} : SessionOf[x] = SessionOf[a] => ~ Unfinished(x)'
    BY <1>3, <1>4
  <2>5. post'[a] \notin Early
    BY <1>0, <1>14 DEF Early
  <2>6. SoloAt(a)'
    BY <2>2, <2>3, <2>4, <2>5 DEF SoloAt
  <2> QED
    BY <1>5, <1>13, <2>6
<1> QED
  BY <1>15, <1>16

LEMMA PushedIInv ==
  ASSUME IInv, NEW f, Delivery(f),
         NEW s, NEW a, ActiveFor(a, s, f), a # None, runs[a].present,
         PushEvent(a, EventOf(f))
  PROVE  IInv'
<1>0. /\ s = SessionOf[f.id] /\ a = active[s]
      /\ disturbed' = disturbed /\ post' = post /\ failed' = failed
  BY Zenon DEF Delivery, ActiveFor
<1>1. PICK event : event = EventOf(f)
  OBVIOUS
<1>2. /\ Flow(post, active, runs, client) /\ None \notin Runs
      /\ active \in [Sessions -> Runs \cup {None}] /\ SessionOf \in [Runs -> Sessions]
      /\ \A x \in Runs \ disturbed : SoloAt(x) /\ TraceAt(x)
  BY SidecarAssumption DEF IInv, Flow
<1>3. /\ f.id \in Runs /\ f.phase \in Phases /\ Unfinished(f.id)
      /\ \A x : x # f.id => ~ IsOf(f, x)
      /\ Typed' /\ Asked(out', wire', post') /\ Sound'
      /\ \A x \in Runs : Unfinished(x)' => Unfinished(x)
      /\ \A x \in Runs : x # f.id => (Unfinished(x)' <=> Unfinished(x))
  BY EventComes
<1>4. event \in Event /\ event.type # "stream.end"
  BY <1>1, <1>3, Events DEF EventOf
<1>5. s \in Sessions
  BY <1>0, <1>2, <1>3
<1>6. Flow(post, active', runs', client') /\ Gets(a, s, event)
  <2>1. PushEvent(a, event)
    BY <1>1
  <2> QED
    BY <1>0, <1>2, <1>4, <1>5, <2>1, PushedFlow
<1>7. /\ a \in Runs /\ SessionOf[a] = s /\ \A t \in Runs \ {a} : runs'[t] = runs[t]
      /\ event.type \in {"run.completed", "run.failed"} => active' = [active EXCEPT ![s] = None]
      /\ event.type \notin {"run.completed", "run.failed"} => active' = active
  BY <1>6 DEF Gets
<1>8. ASSUME a \notin disturbed PROVE SoloAt(a)' /\ TraceAt(a)' /\ f.id = a
  BY <1>1, <1>8, <1>6, OwnEventComes
<1>9. ASSUME NEW x \in Runs \ disturbed', x # a PROVE SoloAt(x)' /\ TraceAt(x)'
  <2>1. SoloAt(x) /\ x \in Runs \ disturbed /\ runs'[x] = runs[x]
    BY <1>0, <1>2, <1>7, <1>9
  <2>2. x # f.id
    BY <1>0, <1>3, <1>9, <2>1 DEF SoloAt
  <2>3. TraceAt(x)'
    <3>1. ~ IsOf(f, x)
      BY <1>3, <2>2
    <3> QED
      BY <2>1, <3>1, TraceOfOther
  <2>4. SoloAt(x)'
    <3>1. CASE SessionOf[x] = s
      <4>1. ~ Unfinished(x)
        <5>1. active[SessionOf[x]] # x
          BY <1>0, <1>9, <3>1
        <5> QED
          BY <2>1, <5>1 DEF SoloAt
      <4>2. ~ Unfinished(x)'
        BY <1>3, <4>1
      <4>3. active'[SessionOf[x]] # x
        BY <1>0, <1>2, <1>5, <1>7, <1>9, <3>1
      <4>4. post'[x] \in Early => runs'[x].events = <<>>
        BY <1>0, <2>1 DEF SoloAt
      <4> QED
        BY <4>2, <4>3, <4>4, SoloGone
    <3>2. CASE SessionOf[x] # s
      <4>1. active'[SessionOf[x]] = active[SessionOf[x]]
        BY <1>0, <1>2, <1>5, <1>7, <3>2
      <4>2. Unfinished(x)' <=> Unfinished(x)
        BY <1>3, <2>2
      <4> QED
        BY <1>0, <1>3, <2>1, <4>1, <4>2, SoloKept
    <3> QED
      BY <3>1, <3>2
  <2> QED
    BY <2>3, <2>4
<1> QED
  BY <1>0, <1>3, <1>8, <1>9, <1>6 DEF IInv

LEMMA HandleMessageIInv ==
  ASSUME IInv, HandleMessage
  PROVE  IInv'
<1>1. /\ wire # <<>> /\ wire' = Tail(wire)
      /\ UNCHANGED <<conn, closes, out, configured, disturbed, gateway>>
  BY DEF HandleMessage
<1>2. CASE Head(wire).type # "event"
  <2>1. HandleResponse(Head(wire))
    BY <1>2 DEF HandleMessage
  <2> QED
    BY <1>1, <1>2, <2>1, HandleResponseIInv, ResponseIgnoredIInv
<1>3. CASE Head(wire).type = "event"
  <2>1. PICK f, s, a : f = Head(wire) /\ s = SessionOf[f.id] /\ a = active[s]
    OBVIOUS
  <2>2. f.type = "event" /\ HandleEvent(f) /\ post' = post
    BY <1>3, <2>1 DEF HandleMessage, HandleEvent
  <2>3. Delivery(f)
    BY <1>1, <2>1, <2>2 DEF gateway, Delivery
  <2>4. CASE a # None /\ runs[a].present
    <3>1. PushEvent(a, EventOf(f))
      BY <2>1, <2>2, <2>4 DEF HandleEvent, EventOf
    <3> QED
      BY <2>1, <2>3, <2>4, <3>1, PushedIInv DEF ActiveFor
  <2>5. CASE ~ (a # None /\ runs[a].present)
    <3>1. UNCHANGED <<runs, active, client>>
      BY <2>1, <2>2, <2>5 DEF HandleEvent
    <3> QED
      BY <2>1, <2>3, <2>5, <3>1, DroppedIInv
  <2> QED
    BY <2>4, <2>5
<1> QED
  BY <1>2, <1>3

-----------------------------------------------------------------------------
(* The invariant.                                                          *)

LEMMA InitIInv ==
  ASSUME Init
  PROVE  IInv
<1>1. /\ conn = "closed" /\ closes = 0 /\ out = <<>> /\ wire = <<>> /\ configured = {}
      /\ post = [r \in Runs |-> "new"] /\ runs = [r \in Runs |-> Absent]
      /\ active = [s \in Sessions |-> None] /\ client = [c \in Clients |-> NoStream]
      /\ taken = {} /\ owed = {} /\ failed = {}
      /\ said = [r \in Runs |-> <<>>] /\ disturbed = {}
  BY DEF Init
<1>2. greeted \in BOOLEAN /\ ~ greeted
  BY DEF Init
<1>3. None \notin Runs /\ 0 \in 0..MaxCloses /\ SessionOf \in [Runs -> Sessions]
  BY SidecarAssumption
<1>4. Typed
  BY <1>1, <1>2, <1>3 DEF Typed, PostPc
<1>5. Asked(out, wire, post)
  BY <1>1, NoRequests DEF Asked
<1>6. Flow(post, active, runs, client)
  <2>1. NoStream \in ClientType /\ NoStream.pc = "none"
    BY DEF NoStream, ClientType
  <2>2. runs \in [Runs -> RunType] /\ client \in [Clients -> ClientType]
    BY <1>1, <2>1, AbsentTypes
  <2>3. \A r \in Runs : runs[r].sse = {}
    BY <1>1, AbsentTypes
  <2>4. \A c \in Clients : client[c].pc = "none"
    BY <1>1, <2>1
  <2>5. Streams(post, active, runs, client) /\ Agree(runs, client)
    BY <1>1, <2>3, <2>4 DEF Streams, Agree
  <2> QED
    BY <1>1, <2>2, <2>5 DEF Flow
<1>7. Sound
  BY <1>1 DEF Sound, Honest, Untaken, Answered, Ordered, History, Reached
<1>8. ASSUME NEW r \in Runs PROVE SoloAt(r) /\ TraceAt(r)
  <2>1. post[r] = "new" /\ runs[r].events = <<>> /\ said[r] = <<>> /\ r \notin taken
    BY <1>1, AbsentTypes
  <2>2. active[SessionOf[r]] # r
    BY <1>1, <1>3
  <2>3. ~ Unfinished(r)
    BY <1>1, <2>1 DEF Unfinished
  <2>4. SoloAt(r)
    BY <2>1, <2>2, <2>3 DEF SoloAt
  <2>5. Pending(wire, said[r], 0, r)
    <3>1. wire \in Seq(FrameIn) /\ said[r] \in Seq(Phases) /\ Silent(wire, r)
      BY <1>1, <1>4, NoRequests DEF Typed
    <3>2. Pending(wire, said[r], Len(said[r]), r)
      BY <3>1, PendingNone
    <3> QED
      BY <2>1, <3>2
  <2>6. TraceAt(r)
    BY <2>1, <2>5 DEF TraceAt, Matches
  <2> QED
    BY <2>4, <2>6
<1> QED
  BY <1>4, <1>5, <1>6, <1>7, <1>8 DEF IInv

LEMMA StutterIInv ==
  ASSUME IInv, UNCHANGED vars
  PROVE  IInv'
<1>1. UNCHANGED <<conn, closes, out, wire, post, configured, runs, active, client, greeted, taken,
                  owed, failed, said, disturbed>>
  BY DEF vars
<1>2. /\ Typed /\ Asked(out, wire, post) /\ Flow(post, active, runs, client) /\ Untaken(out, taken)
  BY DEF IInv, Sound
<1>3. Typed' /\ Asked(out', wire', post') /\ Flow(post', active', runs', client')
      /\ Untaken(out', taken)
  BY <1>1, <1>2 DEF Typed
<1>4. QuietPost /\ (greeted => greeted')
  BY <1>1 DEF QuietPost
<1> QED
  BY <1>1, <1>3, <1>4, QuietIInv

LEMMA NextIInv ==
  ASSUME IInv, [Next]_vars
  PROVE  IInv'
<1>1. CASE Reconnect \/ SendConnect
  BY <1>1, ConnectIInv
<1>2. CASE Close
  <2>1. Lose /\ closes' = closes + 1 /\ closes < MaxCloses /\ closes \in 0..MaxCloses
    BY <1>2 DEF Close, IInv, Typed
  <2>2. closes' \in 0..MaxCloses
    BY <2>1, SidecarAssumption
  <2> QED
    BY <2>1, <2>2, LoseIInv
<1>3. ASSUME NEW r \in Runs, Post(r) \/ Create(r) \/ Accepted(r) \/ Refused(r)
      PROVE  IInv'
  BY <1>3, PostIInv, CreateSentIInv, CreateRefusedIInv, AcceptedIInv, RefusedIInv
<1>4. CASE HandleMessage
  BY <1>4, HandleMessageIInv
<1>5. ASSUME NEW c \in Clients, Leave(c) \/ \E r \in Runs : Watch(c, r)
      PROVE  IInv'
  BY <1>5, LeaveIInv, WatchIInv
<1>6. CASE GatewayRejects
  <2>1. Lose /\ closes' \in 0..MaxCloses
    BY <1>6 DEF GatewayRejects, IInv, Typed
  <2> QED
    BY <2>1, LoseIInv
<1>7. CASE GatewayReceives
  BY <1>7, GatewayReceivesIInv
<1>8. ASSUME NEW r \in Runs, NEW phase \in Phases, Emit(r, phase)
      PROVE  IInv'
  BY <1>8, EmitIInv
<1>9. ASSUME NEW r \in Runs, CommandThrows(r) \/ RespondAgain(r)
      PROVE  IInv'
  BY <1>9, CommandThrowsIInv, RespondAgainIInv
<1>10. CASE UNCHANGED vars
  BY <1>10, StutterIInv
<1> QED
  BY <1>1, <1>2, <1>3, <1>4, <1>5, <1>6, <1>7, <1>8, <1>9, <1>10 DEF Next

LEMMA Invariant == Spec => []IInv
<1>1. Init => IInv
  BY InitIInv
<1>2. IInv /\ [Next]_vars => IInv'
  BY NextIInv
<1> QED
  BY <1>1, <1>2, PTL DEF Spec

-----------------------------------------------------------------------------
(* The variables have their types, and the handler of a POST that awaits   *)
(* the answer of the agent request has the request or the answer on its    *)
(* way: the answer it waits for is never lost without the connection.      *)
THEOREM SidecarTypes == Spec => []TypeOK
<1>1. ASSUME IInv PROVE TypeOK
  <2>1. Typed /\ Asked(out, wire, post) /\ Flow(post, active, runs, client)
    BY <1>1 DEF IInv
  <2>2. ASSUME NEW r \in Runs, post[r] = "agent"
        PROVE  r \in { out[i].id : i \in DOMAIN out } \cup { wire[i].id : i \in DOMAIN wire }
    <3>1. DOMAIN out = 1..Len(out) /\ DOMAIN wire = 1..Len(wire)
      BY <2>1 DEF Typed
    <3>2. Holds(out, r) \/ Holds(wire, r)
      BY <2>1, <2>2 DEF Asked
    <3> QED
      BY <3>1, <3>2 DEF Holds
  <2>3. /\ out \in Seq([type : {"connect", "patch", "agent"}, id : Runs \cup {None}])
        /\ wire \in Seq([type : {"patch", "agent", "result"}, id : Runs, ok : BOOLEAN]
                        \cup [type : {"event"}, id : Runs, phase : Phases])
    BY <2>1 DEF Typed, FrameOut, FrameIn, Answer
  <2>4. /\ runs \in [Runs -> [present : BOOLEAN, status : Statuses, events : Seq(Event),
                              sse : SUBSET Clients]]
        /\ active \in [Sessions -> Runs \cup {None}]
        /\ client \in [Clients -> [pc : {"none", "live", "ended"},
                                   run : Runs \cup {None}, got : Seq(Event)]]
    BY <2>1 DEF Flow, RunType, ClientType
  <2>5. /\ conn \in {"closed", "open", "up"} /\ closes \in 0..MaxCloses
        /\ post \in [Runs -> PostPc] /\ configured \subseteq Sessions
        /\ greeted \in BOOLEAN /\ taken \subseteq Runs /\ said \in [Runs -> Seq(Phases)]
        /\ owed \subseteq taken /\ failed \subseteq taken
        /\ disturbed \subseteq Runs
    BY <2>1 DEF Typed
  <2> QED
    BY <2>2, <2>3, <2>4, <2>5, Zenon DEF TypeOK
<1> QED
  BY <1>1, Invariant, PTL

(* All clients that follow a run have been sent the same, whenever they    *)
(* came: the whole history of the run, and the end of the stream exactly   *)
(* when the run is over.                                                   *)
THEOREM StreamsConsistent == Spec => []StreamsAgree
<1>1. ASSUME IInv PROVE StreamsAgree
  BY <1>1 DEF IInv, Flow, Agree, StreamsAgree
<1> QED
  BY <1>1, Invariant, PTL

(* A run that neither another run of its session nor a loss of the         *)
(* connection disturbed has exactly its own events, in the order in which  *)
(* the gateway emitted them and from the first on; when none is on the way *)
(* any more, it has all of them.  The tracker finds the run of an event by *)
(* session alone.                                                          *)
THEOREM OwnEventsInOrder == Spec => []OwnEvents
<1>1. ASSUME IInv PROVE OwnEvents
  <2> SUFFICES ASSUME NEW r \in Runs \ disturbed
               PROVE  /\ IsPrefix(runs[r].events, Said(r))
                      /\ (\A i \in DOMAIN wire : ~ IsOf(wire[i], r)) => runs[r].events = Said(r)
    BY DEF OwnEvents
  <2>1. /\ wire \in Seq(FrameIn) /\ said \in [Runs -> Seq(Phases)] /\ runs \in [Runs -> RunType]
        /\ TraceAt(r)
    BY <1>1 DEF IInv, Typed, Flow
  <2>2. PICK h, ev, all : h = said[r] /\ ev = runs[r].events /\ all = Said(r)
    OBVIOUS
  <2>3. /\ h \in Seq(Phases) /\ ev \in Seq(Event) /\ Matches(ev, h, r)
        /\ Pending(wire, h, Len(ev), r)
    BY <2>1, <2>2 DEF RunType, TraceAt
  <2>4. /\ all \in Seq(Event) /\ Len(all) = Len(h)
        /\ \A i \in 1..Len(h) : all[i] = [run |-> r, type |-> ProductType(h[i])]
    <3>1. DOMAIN h = 1..Len(h) /\ Len(h) \in Nat
      BY <2>3
    <3>2. all = [i \in 1..Len(h) |-> [run |-> r, type |-> ProductType(h[i])]]
      BY <2>2, <3>1 DEF Said
    <3>3. \A i \in 1..Len(h) : [run |-> r, type |-> ProductType(h[i])] \in Event
      BY <2>3, Events
    <3> QED
      BY <3>1, <3>2, <3>3
  <2>5. Len(ev) \in Nat /\ Len(all) \in Nat /\ Len(ev) <= Len(all)
        /\ \A i \in 1..Len(ev) : ev[i] = all[i]
    <3>1. Len(ev) \in Nat /\ Len(h) \in Nat
      BY <2>3
    <3>2. /\ Len(ev) <= Len(h)
          /\ \A i \in 1..Len(ev) : ev[i] = [run |-> r, type |-> ProductType(h[i])]
      BY <2>3 DEF Matches
    <3>3. \A i \in 1..Len(ev) : i \in 1..Len(h)
      BY <3>1, <3>2
    <3>4. \A i \in 1..Len(ev) : ev[i] = all[i]
      BY <2>4, <3>2, <3>3
    <3> QED
      BY <2>4, <3>1, <3>2, <3>4
  <2>6. IsPrefix(ev, all)
    <3>1. SubSeq(all, 1, Len(ev)) \in Seq(Event) /\ Len(SubSeq(all, 1, Len(ev))) = Len(ev)
          /\ \A i \in 1..Len(ev) : SubSeq(all, 1, Len(ev))[i] = all[i]
      BY <2>4, <2>5
    <3>2. SubSeq(all, 1, Len(ev)) = ev
      BY <2>3, <2>5, <3>1, SeqEqual
    <3> QED
      BY <2>5, <3>2 DEF IsPrefix
  <2>7. ASSUME \A i \in DOMAIN wire : ~ IsOf(wire[i], r) PROVE ev = all
    <3>1. Silent(wire, r)
      BY <2>1, <2>7 DEF Silent
    <3>2. Len(ev) = Len(h)
      BY <2>1, <2>3, <2>5, <3>1, NonePending
    <3> QED
      BY <2>3, <2>4, <2>5, <3>2, SeqEqual
  <2> QED
    BY <2>2, <2>6, <2>7
<1> QED
  BY <1>1, Invariant, PTL
=============================================================================
