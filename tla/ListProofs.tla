----------------------------- MODULE ListProofs -----------------------------
(***************************************************************************)
(* Facts about sequences that list a set, each member once, as the waiting *)
(* entries of every queue of the models do.                                *)
(***************************************************************************)
EXTENDS Integers, Sequences, FiniteSets, FiniteSetTheorems, TLAPS

(* The sequence q lists exactly the members of W, once each.               *)
Lists(q, W) ==
  /\ \A i \in 1..Len(q) : q[i] \in W
  /\ \A i, j \in 1..Len(q) : q[i] = q[j] => i = j
  /\ \A r \in W : \E i \in 1..Len(q) : q[i] = r

(* The first n entries of such a sequence are n entries.                   *)
LEMMA PrefixCount ==
  ASSUME NEW S, NEW q \in Seq(S), NEW n \in 0..Len(q), NEW W, Lists(q, W)
  PROVE  /\ IsFiniteSet({ q[i] : i \in 1..n })
         /\ Cardinality({ q[i] : i \in 1..n }) = n
<1> DEFINE F == { q[i] : i \in 1..n }
           f == [i \in 1..n |-> q[i]]
<1>1. n \in Nat
  OBVIOUS
<1>2. \A i \in 1..n : i \in 1..Len(q) /\ q[i] \in F
  OBVIOUS
<1>3. f \in [1..n -> F] /\ \A i \in 1..n : f[i] = q[i]
  BY <1>2
<1>4. \A a, b \in 1..n : f[a] = f[b] => a = b
  <2>1. \A i, j \in 1..Len(q) : q[i] = q[j] => i = j
    BY DEF Lists
  <2> QED
    BY <2>1, <1>2, <1>3
<1>5. \A t \in F : \E i \in 1..n : f[i] = t
  BY <1>3
<1>6. f \in Bijection(1..n, F)
  BY <1>3, <1>4, <1>5 DEF Bijection, Injection, Surjection, IsInjective
<1>7. ExistsBijection(1..n, F)
  BY <1>6 DEF ExistsBijection
<1>8. Cardinality(F) = n
  BY <1>1, <1>7, FS_CountingElements
<1>9. IsFiniteSet(F)
  BY <1>1, <1>7, FS_NatBijection
<1> QED
  BY <1>8, <1>9

(* Appending an entry that is not in a list gives a list.                  *)
LEMMA AppendListed ==
  ASSUME NEW S, NEW q \in Seq(S), NEW r \in S, NEW W, r \notin W, Lists(q, W)
  PROVE  Lists(Append(q, r), W \cup {r})
<1> DEFINE p == Append(q, r)
<1>0. /\ \A i \in 1..Len(q) : q[i] \in W
      /\ \A i, j \in 1..Len(q) : q[i] = q[j] => i = j
      /\ \A t \in W : \E i \in 1..Len(q) : q[i] = t
  BY DEF Lists
<1>1. /\ Len(q) \in Nat
      /\ Len(p) = Len(q) + 1
      /\ \A i \in 1..Len(q) : p[i] = q[i]
      /\ p[Len(q) + 1] = r
  OBVIOUS
<1>2. \A i \in 1..Len(p) : i \in 1..Len(q) \/ i = Len(q) + 1
  BY <1>1
<1>3. 1..Len(q) \subseteq 1..Len(p) /\ Len(q) + 1 \in 1..Len(p)
  BY <1>1
<1> HIDE DEF p
<1>4. \A i \in 1..Len(p) : p[i] \in W \cup {r}
  BY <1>0, <1>1, <1>2
<1>5. \A i, j \in 1..Len(p) : p[i] = p[j] => i = j
  BY <1>0, <1>1, <1>2
<1>6. \A t \in W \cup {r} : \E i \in 1..Len(p) : p[i] = t
  BY <1>0, <1>1, <1>3
<1> QED
  BY <1>4, <1>5, <1>6 DEF p, Lists

(* Removing the first entry likewise.                                      *)
LEMMA TailListed ==
  ASSUME NEW S, NEW q \in Seq(S), q # <<>>, NEW W, Lists(q, W)
  PROVE  /\ Tail(q) \in Seq(S) /\ Head(q) \in S /\ Head(q) \in W
         /\ Lists(Tail(q), W \ {Head(q)})
<1> DEFINE p == Tail(q)
<1>0. /\ \A i \in 1..Len(q) : q[i] \in W
      /\ \A i, j \in 1..Len(q) : q[i] = q[j] => i = j
      /\ \A t \in W : \E i \in 1..Len(q) : q[i] = t
  BY DEF Lists
<1>1. /\ Len(q) \in Nat /\ Len(q) > 0
      /\ p \in Seq(S)
      /\ Len(p) = Len(q) - 1
      /\ \A i \in 1..Len(p) : p[i] = q[i + 1] /\ i + 1 \in 1..Len(q) /\ i + 1 # 1
      /\ Head(q) = q[1] /\ 1 \in 1..Len(q)
  OBVIOUS
<1> HIDE DEF p
<1>2. ASSUME NEW i \in 1..Len(p)
      PROVE  p[i] \in W \ {Head(q)}
  <2>1. p[i] = q[i + 1] /\ i + 1 \in 1..Len(q) /\ i + 1 # 1
    BY <1>1
  <2>2. q[i + 1] \in W /\ q[i + 1] # q[1]
    BY <2>1, <1>0, <1>1
  <2> QED
    BY <2>1, <2>2, <1>1
<1>3. ASSUME NEW i \in 1..Len(p), NEW j \in 1..Len(p), p[i] = p[j]
      PROVE  i = j
  <2>1. /\ p[i] = q[i + 1] /\ i + 1 \in 1..Len(q)
        /\ p[j] = q[j + 1] /\ j + 1 \in 1..Len(q)
    BY <1>1
  <2>2. i + 1 = j + 1
    BY <2>1, <1>0, <1>3
  <2>3. i \in Nat /\ j \in Nat
    BY <1>1
  <2> QED
    BY <2>2, <2>3
<1>4. ASSUME NEW t \in W \ {Head(q)}
      PROVE  \E i \in 1..Len(p) : p[i] = t
  <2>1. PICK j \in 1..Len(q) : q[j] = t
    BY <1>0
  <2>2. j # 1
    BY <2>1, <1>1
  <2>3. j - 1 \in 1..Len(p) /\ (j - 1) + 1 = j
    BY <2>2, <1>1
  <2> QED
    BY <2>1, <2>3, <1>1
<1>5. Head(q) \in S /\ Head(q) \in W
  BY <1>0, <1>1
<1>6. Lists(p, W \ {Head(q)})
  BY <1>2, <1>3, <1>4 DEF Lists
<1> QED
  BY <1>1, <1>5, <1>6 DEF p

(* What is left of a list when its first n entries are taken off.          *)
LEMMA RestListed ==
  ASSUME NEW S, NEW q \in Seq(S), NEW n \in 0..Len(q), NEW W, Lists(q, W)
  PROVE  LET first == { q[i] : i \in 1..n }
             rest == SubSeq(q, n + 1, Len(q))
         IN /\ rest \in Seq(S)
            /\ Len(rest) = Len(q) - n
            /\ Lists(rest, W \ first)
            /\ first \subseteq W
            /\ IsFiniteSet(first) /\ Cardinality(first) = n
<1> DEFINE first == { q[i] : i \in 1..n }
           rest == SubSeq(q, n + 1, Len(q))
<1>0. /\ Len(q) \in Nat /\ n \in Nat /\ n <= Len(q)
      /\ \A i \in 1..Len(q) : q[i] \in W
      /\ \A i, j \in 1..Len(q) : q[i] = q[j] => i = j
      /\ \A r \in W : \E i \in 1..Len(q) : q[i] = r
  BY DEF Lists
<1>1. /\ rest \in Seq(S)
      /\ Len(rest) = Len(q) - n
      /\ \A i \in 1..(Len(q) - n) : rest[i] = q[n + i] /\ n + i \in 1..Len(q)
  <2>1. n + 1 \in 1..(Len(q) + 1)
    BY <1>0
  <2>2. rest = [i \in 1..(Len(q) - n) |-> q[n + i]]
    BY <2>1, <1>0
  <2>3. Len(rest) = Len(q) - n /\ rest \in Seq(S)
    BY <2>1, <1>0
  <2>4. \A i \in 1..(Len(q) - n) : n + i \in 1..Len(q)
    BY <1>0
  <2> QED
    BY <2>2, <2>3, <2>4
<1>3. IsFiniteSet(first) /\ Cardinality(first) = n
  BY PrefixCount
<1>4. \A i \in 1..n : i \in 1..Len(q)
  BY <1>0
<1>5. first \subseteq W
  BY <1>0, <1>4
<1>6. \A i \in 1..Len(q) : q[i] \in first => i <= n
  <2> SUFFICES ASSUME NEW i \in 1..Len(q), NEW k \in 1..n, q[i] = q[k]
               PROVE  i <= n
    OBVIOUS
  <2>1. i = k
    BY <1>0, <1>4
  <2> QED
    BY <2>1, <1>0
<1>7. \A i \in 1..Len(q) : i <= n => q[i] \in first
  <2> SUFFICES ASSUME NEW i \in 1..Len(q), i <= n PROVE i \in 1..n
    OBVIOUS
  <2> QED
    BY <1>0
<1> HIDE DEF first, rest
<1>8. ASSUME NEW i \in 1..Len(rest)
      PROVE  rest[i] \in W \ first
  <2>1. rest[i] = q[n + i] /\ n + i \in 1..Len(q) /\ ~ n + i <= n
    BY <1>0, <1>1
  <2> QED
    BY <2>1, <1>0, <1>6
<1>9. ASSUME NEW i \in 1..Len(rest), NEW j \in 1..Len(rest), rest[i] = rest[j]
      PROVE  i = j
  <2>1. q[n + i] = q[n + j] /\ n + i \in 1..Len(q) /\ n + j \in 1..Len(q)
    BY <1>1, <1>9
  <2>2. n + i = n + j
    BY <2>1, <1>0
  <2> QED
    BY <2>2, <1>0, <1>1
<1>10. ASSUME NEW r \in W \ first
       PROVE  \E i \in 1..Len(rest) : rest[i] = r
  <2>1. PICK j \in 1..Len(q) : q[j] = r
    BY <1>0
  <2>2. j > n
    BY <2>1, <1>7, <1>0
  <2>3. j - n \in 1..(Len(q) - n) /\ n + (j - n) = j
    BY <2>2, <1>0
  <2> QED
    BY <2>1, <2>3, <1>1
<1>11. Lists(rest, W \ first)
  BY <1>8, <1>9, <1>10 DEF Lists
<1> QED
  BY <1>1, <1>3, <1>5, <1>11 DEF first, rest

(* The entries of two sequences put together.                              *)
LEMMA JoinedEntries ==
  ASSUME NEW S, NEW s \in Seq(S), NEW t \in Seq(S), NEW V,
         \A i \in 1..Len(s) : s[i] \in V,
         \A i \in 1..Len(t) : t[i] \in V
  PROVE  /\ s \o t \in Seq(S)
         /\ \A i \in 1..Len(s \o t) : (s \o t)[i] \in V
<1>1. Len(s) \in Nat /\ Len(t) \in Nat /\ Len(s \o t) = Len(s) + Len(t)
  OBVIOUS
<1>2. s \o t \in Seq(S)
  OBVIOUS
<1>3. ASSUME NEW i \in 1..Len(s \o t)
      PROVE  (s \o t)[i] \in V
  <2>1. i \in 1..(Len(s) + Len(t))
    BY <1>1
  <2>2. CASE i <= Len(s)
    <3>1. (s \o t)[i] = s[i] /\ i \in 1..Len(s)
      BY <2>1, <2>2, <1>1
    <3> QED
      BY <3>1
  <2>3. CASE i > Len(s)
    <3>1. (s \o t)[i] = t[i - Len(s)] /\ i - Len(s) \in 1..Len(t)
      BY <2>1, <2>3, <1>1
    <3> QED
      BY <3>1
  <2> QED
    BY <2>1, <2>2, <2>3, <1>1
<1> QED
  BY <1>2, <1>3
=============================================================================
