---------------------- MODULE RealtimeConversationProofs ----------------------
(***************************************************************************)
(* Proofs about the coordinator of spoken replies with its user and the    *)
(* provider, for any set of tasks, any number of responses and any number  *)
(* of events on their way.                                                 *)
(***************************************************************************)
EXTENDS RealtimeConversation, FiniteSetTheorems, SequenceTheorems, WellFoundedInduction, TLAPS

-----------------------------------------------------------------------------
(* Facts about sequences                                                   *)

LEMMA Appended ==
  ASSUME NEW S, NEW s \in Seq(S), NEW x \in S, NEW t, t = Append(s, x)
  PROVE  /\ t \in Seq(S) /\ Len(s) \in Nat /\ Len(t) = Len(s) + 1
         /\ DOMAIN s = 1..Len(s) /\ DOMAIN t = 1..Len(s) + 1
         /\ t[Len(s) + 1] = x
         /\ \A n \in DOMAIN s : n \in DOMAIN t /\ t[n] = s[n]
         /\ \A n \in DOMAIN t : n \in DOMAIN s \/ n = Len(s) + 1
         /\ ToSet(t) = ToSet(s) \union {x}
<1>1. /\ t \in Seq(S) /\ Len(s) \in Nat /\ Len(t) = Len(s) + 1
      /\ DOMAIN s = 1..Len(s) /\ DOMAIN t = 1..Len(s) + 1
      /\ t[Len(s) + 1] = x /\ \A n \in 1..Len(s) : t[n] = s[n]
  BY AppendProperties, LenProperties
<1>2. /\ \A n \in DOMAIN s : n \in DOMAIN t /\ t[n] = s[n]
      /\ \A n \in DOMAIN t : n \in DOMAIN s \/ n = Len(s) + 1
      /\ Len(s) + 1 \in DOMAIN t
  BY <1>1
<1>3. ToSet(t) = ToSet(s) \union {x}
  BY <1>1, <1>2 DEF ToSet
<1> QED BY <1>1, <1>2, <1>3

LEMMA AppendedSet ==
  ASSUME NEW S, NEW s \in Seq(S), NEW x \in S
  PROVE  ToSet(Append(s, x)) = ToSet(s) \union {x}
<1>1. PICK t : t = Append(s, x)
  OBVIOUS
<1>2. /\ \A n \in DOMAIN s : n \in DOMAIN t /\ t[n] = s[n]
      /\ \A n \in DOMAIN t : n \in DOMAIN s \/ n = Len(s) + 1
      /\ Len(s) + 1 \in DOMAIN t /\ t[Len(s) + 1] = x
  BY <1>1, Appended
<1>3. ToSet(t) = ToSet(s) \union {x}
  BY <1>2 DEF ToSet
<1> QED BY <1>1, <1>3, Zenon

LEMMA Tailed ==
  ASSUME NEW S, NEW s \in Seq(S), s # <<>>, NEW t, t = Tail(s)
  PROVE  /\ t \in Seq(S) /\ Len(s) \in Nat
         /\ DOMAIN s = 1..Len(s) /\ DOMAIN t = 1..Len(s) - 1
         /\ 1 \in DOMAIN s /\ Head(s) = s[1] /\ Head(s) \in S
         /\ \A n \in DOMAIN t : n \in Nat /\ n + 1 \in DOMAIN s /\ t[n] = s[n + 1]
         /\ \A n \in DOMAIN s : n = 1 \/ (n - 1 \in DOMAIN t /\ t[n - 1] = s[n])
         /\ ToSet(s) = ToSet(t) \union {Head(s)}
<1>1. /\ t \in Seq(S) /\ Len(s) \in Nat /\ Len(s) # 0 /\ Len(t) = Len(s) - 1
      /\ DOMAIN s = 1..Len(s) /\ DOMAIN t = 1..Len(s) - 1 /\ Head(s) \in S
      /\ \A n \in 1..Len(s) - 1 : t[n] = s[n + 1]
  BY HeadTailProperties, LenProperties, EmptySeq
<1>2. Head(s) = s[1]
  OBVIOUS
<1>3. /\ 1 \in DOMAIN s
      /\ \A n \in DOMAIN t : n \in Nat /\ n + 1 \in DOMAIN s /\ t[n] = s[n + 1]
      /\ \A n \in DOMAIN s : n = 1 \/ (n - 1 \in DOMAIN t /\ t[n - 1] = s[n])
  <2>1. 1 \in 1..Len(s)
    BY <1>1
  <2>2. \A n \in 1..Len(s) - 1 : n \in Nat /\ n + 1 \in 1..Len(s)
    BY <1>1
  <2>3. ASSUME NEW n \in 1..Len(s), n # 1 PROVE n - 1 \in 1..Len(s) - 1 /\ t[n - 1] = s[n]
    <3>1. n - 1 \in 1..Len(s) - 1 /\ (n - 1) + 1 = n
      BY <1>1, <2>3
    <3> QED BY <1>1, <3>1
  <2>4. ASSUME NEW n \in DOMAIN t PROVE n \in Nat /\ n + 1 \in DOMAIN s /\ t[n] = s[n + 1]
    BY <1>1, <2>2
  <2>5. ASSUME NEW n \in DOMAIN s PROVE n = 1 \/ (n - 1 \in DOMAIN t /\ t[n - 1] = s[n])
    BY <1>1, <2>3
  <2>6. 1 \in DOMAIN s
    BY <1>1, <2>1
  <2> QED BY <2>4, <2>5, <2>6
<1>4. ToSet(s) = ToSet(t) \union {Head(s)}
  <2>1. \A n \in DOMAIN s : s[n] \in ToSet(t) \union {Head(s)}
    BY <1>2, <1>3, Zenon DEF ToSet
  <2>2. ASSUME NEW n \in DOMAIN t PROVE t[n] \in ToSet(s)
    BY <1>3, Zenon DEF ToSet
  <2>3. Head(s) \in ToSet(s)
    BY <1>2, <1>3, Zenon DEF ToSet
  <2> QED BY <2>1, <2>2, <2>3, Zenon DEF ToSet
<1> QED BY <1>1, <1>2, <1>3, <1>4, Zenon

(* One sequence behind another                                             *)
LEMMA Behind ==
  ASSUME NEW S, NEW s \in Seq(S), NEW t \in Seq(S)
  PROVE  LET u == s \o t IN
         /\ u \in Seq(S) /\ Len(s) \in Nat /\ DOMAIN s = 1..Len(s)
         /\ Len(t) \in Nat /\ DOMAIN t = 1..Len(t) /\ DOMAIN u = 1..Len(s) + Len(t)
         /\ \A n \in DOMAIN u : \/ n \in DOMAIN s /\ u[n] = s[n]
                                \/ n - Len(s) \in DOMAIN t /\ u[n] = t[n - Len(s)]
         /\ \A n \in DOMAIN s : n \in DOMAIN u /\ u[n] = s[n]
         /\ \A n \in DOMAIN t : n + Len(s) \in DOMAIN u /\ u[n + Len(s)] = t[n]
         /\ ToSet(u) = ToSet(s) \union ToSet(t)
<1> DEFINE u == s \o t
<1>1. /\ Len(s) \in Nat /\ DOMAIN s = 1..Len(s) /\ Len(t) \in Nat /\ DOMAIN t = 1..Len(t)
      /\ u \in Seq(S) /\ DOMAIN u = 1..Len(s) + Len(t)
      /\ \A n \in 1..Len(s) + Len(t) : u[n] = IF n <= Len(s) THEN s[n] ELSE t[n - Len(s)]
  BY ConcatProperties, LenProperties
<1> HIDE DEF u
<1>2. \A n \in DOMAIN u : \/ n \in DOMAIN s /\ u[n] = s[n]
                          \/ n - Len(s) \in DOMAIN t /\ u[n] = t[n - Len(s)]
  BY <1>1
<1>3. /\ \A n \in DOMAIN s : n \in DOMAIN u /\ u[n] = s[n]
      /\ \A n \in DOMAIN t : n + Len(s) \in DOMAIN u /\ u[n + Len(s)] = t[n]
  <2>1. ASSUME NEW n \in DOMAIN t PROVE n + Len(s) \in DOMAIN u /\ u[n + Len(s)] = t[n]
    <3>1. n + Len(s) \in 1..Len(s) + Len(t) /\ ~(n + Len(s) <= Len(s)) /\ n + Len(s) - Len(s) = n
      BY <1>1
    <3> QED BY <1>1, <3>1
  <2> QED BY <1>1, <2>1
<1>4. ToSet(u) = ToSet(s) \union ToSet(t)
  BY <1>2, <1>3 DEF ToSet
<1>5. /\ u \in Seq(S) /\ Len(s) \in Nat /\ DOMAIN s = 1..Len(s)
      /\ Len(t) \in Nat /\ DOMAIN t = 1..Len(t) /\ DOMAIN u = 1..Len(s) + Len(t)
      /\ \A n \in DOMAIN u : \/ n \in DOMAIN s /\ u[n] = s[n]
                             \/ n - Len(s) \in DOMAIN t /\ u[n] = t[n - Len(s)]
      /\ \A n \in DOMAIN s : n \in DOMAIN u /\ u[n] = s[n]
      /\ \A n \in DOMAIN t : n + Len(s) \in DOMAIN u /\ u[n + Len(s)] = t[n]
      /\ ToSet(u) = ToSet(s) \union ToSet(t)
  BY <1>1, <1>2, <1>3, <1>4, Zenon
<1> QED BY <1>5, Zenon DEF u

(* What is put in front of a queue that has none of it                     *)
LEMMA Joined ==
  ASSUME NEW S, NEW s \in Seq(S), NEW t \in Seq(S), IsInjective(s), IsInjective(t),
         ToSet(s) \cap ToSet(t) = {}
  PROVE  /\ s \o t \in Seq(S) /\ IsInjective(s \o t)
         /\ ToSet(s \o t) = ToSet(s) \union ToSet(t)
<1>1. PICK u : u = s \o t
  OBVIOUS
<1>2. /\ u \in Seq(S) /\ Len(s) \in Nat
      /\ \A n \in DOMAIN u : n \in Nat
      /\ \A n \in DOMAIN u : \/ n \in DOMAIN s /\ u[n] = s[n]
                             \/ n - Len(s) \in DOMAIN t /\ u[n] = t[n - Len(s)]
  <2>1. s \in Seq(S) /\ t \in Seq(S)
    OBVIOUS
  <2>2. /\ u \in Seq(S) /\ Len(s) \in Nat /\ Len(t) \in Nat /\ DOMAIN u = 1..Len(s) + Len(t)
    BY <1>1, <2>1, Behind
  <2>3. \A n \in DOMAIN u : \/ n \in DOMAIN s /\ u[n] = s[n]
                            \/ n - Len(s) \in DOMAIN t /\ u[n] = t[n - Len(s)]
    BY <1>1, <2>1, Behind
  <2> QED BY <2>2, <2>3
<1>3. ToSet(u) = ToSet(s) \union ToSet(t)
  BY <1>1, Behind
<1>4. IsInjective(u)
  <2> SUFFICES ASSUME NEW m \in DOMAIN u, NEW n \in DOMAIN u, u[m] = u[n] PROVE m = n
    BY DEF IsInjective
  <2>1. \A j \in DOMAIN s, k \in DOMAIN t : s[j] # t[k]
    BY DEF ToSet
  <2>2. CASE m \in DOMAIN s /\ u[m] = s[m]
    <3>1. n \in DOMAIN s /\ u[n] = s[n]
      BY <1>2, <2>1, <2>2
    <3> QED BY <2>2, <3>1 DEF IsInjective
  <2>3. CASE m - Len(s) \in DOMAIN t /\ u[m] = t[m - Len(s)]
    <3>1. n - Len(s) \in DOMAIN t /\ u[n] = t[n - Len(s)]
      BY <1>2, <2>1, <2>3
    <3>2. m - Len(s) = n - Len(s)
      BY <2>3, <3>1 DEF IsInjective
    <3>3. m \in Int /\ n \in Int /\ Len(s) \in Int
      BY <1>2
    <3> QED BY <3>2, <3>3
  <2> QED BY <1>2, <2>2, <2>3
<1> QED BY <1>1, <1>2, <1>3, <1>4

(* What flush() takes from a queue, and what it leaves                     *)
LEMMA Batched ==
  ASSUME NEW S, NEW s \in Seq(S), IsInjective(s), s # <<>>
  PROVE  LET l == Len(s)
             n == IF l < Batch THEN l ELSE Batch
             front == SubSeq(s, 1, n)
             rest == SubSeq(s, n + 1, l)
         IN  /\ front \in Seq(S) /\ rest \in Seq(S)
             /\ IsInjective(front) /\ IsInjective(rest)
             /\ ToSet(front) \union ToSet(rest) = ToSet(s)
             /\ ToSet(front) \cap ToSet(rest) = {}
             /\ front # <<>>
<1>1. Len(s) \in Nat /\ Len(s) # 0 /\ Batch \in Nat \ {0}
  BY LenProperties, EmptySeq, ResponsesAssumption
<1>2. PICK n \in Nat : n = IF Len(s) < Batch THEN Len(s) ELSE Batch
  BY <1>1
<1>3. n <= Len(s) /\ n > 0
  BY <1>1, <1>2
<1>4. PICK front : front = SubSeq(s, 1, n)
  OBVIOUS
<1>5. PICK rest : rest = SubSeq(s, n + 1, Len(s))
  OBVIOUS
<1>6. Len(s) \in Nat /\ DOMAIN s = 1..Len(s) /\ \A k \in 1..Len(s) : s[k] \in S
  BY LenProperties, ElementOfSeq
<1>7. /\ front \in Seq(S) /\ Len(front) = n /\ DOMAIN front = 1..n
      /\ \A k \in 1..n : front[k] = s[k]
  <2>1. 1 \in Int /\ n \in Int /\ \A k \in 1..n : s[k] \in S
    BY <1>3, <1>6
  <2>2. /\ front \in Seq(S) /\ Len(front) = IF 1 <= n THEN n - 1 + 1 ELSE 0
        /\ \A k \in 1..n - 1 + 1 : front[k] = s[1 + k - 1]
    BY <1>4, <1>5, <2>1, SubSeqProperties
  <2>3. n - 1 + 1 = n /\ (~(1 <= n) => n = 0) /\ \A k \in 1..n : 1 + k - 1 = k
    OBVIOUS
  <2> QED BY <2>2, <2>3, LenProperties
<1>8. /\ rest \in Seq(S) /\ DOMAIN rest = 1..Len(s) - n
      /\ \A k \in 1..Len(s) - n : rest[k] = s[n + k]
  <2>1. n + 1 \in Int /\ Len(s) \in Int /\ \A k \in n + 1..Len(s) : s[k] \in S
    BY <1>6
  <2>2. /\ rest \in Seq(S)
        /\ Len(rest) = IF n + 1 <= Len(s) THEN Len(s) - (n + 1) + 1 ELSE 0
        /\ \A k \in 1..Len(s) - (n + 1) + 1 : rest[k] = s[n + 1 + k - 1]
    BY <1>4, <1>5, <2>1, SubSeqProperties
  <2>3. /\ Len(s) - (n + 1) + 1 = Len(s) - n /\ (~(n + 1 <= Len(s)) => Len(s) - n = 0)
        /\ \A k \in 1..Len(s) - n : n + 1 + k - 1 = n + k
    <3>1. \A l \in Nat : n <= l => /\ l - (n + 1) + 1 = l - n /\ (~(n + 1 <= l) => l - n = 0)
                                   /\ \A k \in 1..l - n : n + 1 + k - 1 = n + k
      OBVIOUS
    <3> QED BY <1>3, <1>6, <3>1, Zenon
  <2>4. Len(rest) = Len(s) - n /\ DOMAIN rest = 1..Len(rest)
    BY <1>6, <2>2, <2>3, LenProperties
  <2> QED BY <2>2, <2>3, <2>4
<1>9. /\ \A k \in DOMAIN front : k \in DOMAIN s /\ k <= n /\ front[k] = s[k]
      /\ \A k \in DOMAIN rest : n + k \in DOMAIN s /\ n + k > n /\ rest[k] = s[n + k]
      /\ \A k \in DOMAIN s : k \in DOMAIN front \/ (k - n \in DOMAIN rest /\ n + (k - n) = k)
  <2>1. \A k \in 1..n : k \in 1..Len(s) /\ k <= n
    BY <1>3, <1>6
  <2>2. \A k \in 1..Len(s) - n : n + k \in 1..Len(s) /\ n + k > n
    BY <1>6
  <2>3. \A k \in 1..Len(s) : k \in 1..n \/ (k - n \in 1..Len(s) - n /\ n + (k - n) = k)
    BY <1>6
  <2>4. \A k \in DOMAIN front : k \in DOMAIN s /\ k <= n /\ front[k] = s[k]
    BY <1>6, <1>7, <2>1
  <2>5. \A k \in DOMAIN rest : n + k \in DOMAIN s /\ n + k > n /\ rest[k] = s[n + k]
    BY <1>6, <1>8, <2>2
  <2>6. \A k \in DOMAIN s : k \in DOMAIN front \/ (k - n \in DOMAIN rest /\ n + (k - n) = k)
    BY <1>6, <1>7, <1>8, <2>3
  <2> QED BY <2>4, <2>5, <2>6
<1>10. ToSet(front) \union ToSet(rest) = ToSet(s)
  <2>1. ToSet(front) \subseteq ToSet(s) /\ ToSet(rest) \subseteq ToSet(s)
    BY <1>9 DEF ToSet
  <2>2. ASSUME NEW k \in DOMAIN s PROVE s[k] \in ToSet(front) \union ToSet(rest)
    BY <1>9 DEF ToSet
  <2> QED BY <2>1, <2>2 DEF ToSet
<1>11. ToSet(front) \cap ToSet(rest) = {}
  <2> SUFFICES ASSUME NEW j \in DOMAIN front, NEW k \in DOMAIN rest, front[j] = rest[k] PROVE FALSE
    BY DEF ToSet
  <2>1. j = n + k
    BY <1>9 DEF IsInjective
  <2> QED BY <1>9, <2>1
<1>12. front # <<>>
  BY <1>3, <1>7, EmptySeq
<1>13. IsInjective(front)
  BY <1>9 DEF IsInjective
<1>14. IsInjective(rest)
  <2> SUFFICES ASSUME NEW j \in DOMAIN rest, NEW k \in DOMAIN rest, rest[j] = rest[k] PROVE j = k
    BY DEF IsInjective
  <2>1. n + j = n + k
    BY <1>9 DEF IsInjective
  <2> QED BY <1>6, <1>8, <2>1
<1> QED BY <1>2, <1>4, <1>5, <1>7, <1>8, <1>10, <1>11, <1>13, <1>14, <1>12, Zenon

(* In a finite set of numbers there is one of each rank.                   *)
LEMMA RanksOf ==
  ASSUME NEW W \in SUBSET Nat, IsFiniteSet(W)
  PROVE  \A n \in 1..Cardinality(W) :
           /\ \E k \in W : Cardinality({j \in W : j < k}) = n - 1
           /\ \A k, l \in W : Cardinality({j \in W : j < k}) = n - 1
                              /\ Cardinality({j \in W : j < l}) = n - 1 => k = l
<1> DEFINE c == Cardinality(W)
           below(k) == {j \in W : j < k}
           rank == [k \in W |-> Cardinality(below(k))]
           places == 0..c - 1
<1>1. c \in Nat
  BY FS_CardinalityType
<1>2. ASSUME NEW k \in W
      PROVE  IsFiniteSet(below(k)) /\ rank[k] \in Nat /\ rank[k] + 1 <= c
  <2>1. below(k) \in SUBSET W /\ k \notin below(k)
    OBVIOUS
  <2> HIDE DEF below
  <2>2. /\ IsFiniteSet(below(k)) /\ Cardinality(below(k)) <= Cardinality(W)
        /\ Cardinality(W) = Cardinality(below(k)) => W = below(k)
    BY <2>1, FS_Subset
  <2>3. Cardinality(below(k)) \in Nat
    BY <2>2, FS_CardinalityType
  <2> QED BY <1>1, <2>1, <2>2, <2>3
<1>3. ASSUME NEW k \in W, NEW l \in W, k < l PROVE rank[k] < rank[l]
  <2>1. below(k) \in SUBSET below(l) /\ k \in below(l) /\ k \notin below(k)
    <3>1. k \in Nat /\ l \in Nat /\ \A j \in W : j \in Nat
      OBVIOUS
    <3>2. \A j \in W : j < k => j < l
      BY <1>3, <3>1
    <3>3. below(k) \in SUBSET below(l)
      BY <3>2
    <3>4. k \in below(l) /\ ~(k < k)
      BY <1>3, <3>1
    <3> QED BY <3>3, <3>4
  <2>2. IsFiniteSet(below(l)) /\ rank[k] \in Nat /\ rank[l] \in Nat
    BY <1>2
  <2> HIDE DEF below
  <2>3. /\ Cardinality(below(k)) <= Cardinality(below(l))
        /\ Cardinality(below(l)) = Cardinality(below(k)) => below(l) = below(k)
    BY <2>1, <2>2, FS_Subset
  <2> QED BY <2>1, <2>2, <2>3
<1>4. \A k, l \in W : rank[k] = rank[l] => k = l
  <2> SUFFICES ASSUME NEW k \in W, NEW l \in W, rank[k] = rank[l] PROVE k = l
    OBVIOUS
  <2>1. rank[k] \in Nat /\ rank[l] \in Nat
    BY <1>2
  <2>2. ~(k < l) /\ ~(l < k)
    <3> HIDE DEF rank
    <3> QED BY <1>3, <2>1
  <2>3. k \in Nat /\ l \in Nat
    OBVIOUS
  <2> HIDE DEF rank
  <2> QED BY <2>2, <2>3
<1>5. IsFiniteSet(places) /\ Cardinality(places) = c
  <2>1. 0 \in Int /\ c - 1 \in Int
    BY <1>1
  <2>2. IsFiniteSet(places) /\ Cardinality(places) = IF 0 > c - 1 THEN 0 ELSE (c - 1) - 0 + 1
    BY <2>1, FS_Interval
  <2> QED BY <1>1, <2>2
<1>6. ASSUME NEW p \in places PROVE \E k \in W : rank[k] = p
  <2> SUFFICES ASSUME \A k \in W : rank[k] # p PROVE FALSE
    OBVIOUS
  <2> DEFINE others == places \ {p}
  <2>1. rank \in [W -> others]
    <3>1. \A k \in W : rank[k] \in others
      BY <1>1, <1>2
    <3> QED BY <3>1
  <2>2. IsFiniteSet(others) /\ Cardinality(others) = Cardinality(places) - 1
    <3> HIDE DEF places
    <3> QED BY <1>5, FS_RemoveElement
  <2>3. Cardinality(others) < Cardinality(W)
    BY <1>1, <1>5, <2>2
  <2>4. PICK x, y \in W : x # y /\ rank[x] = rank[y]
    <3> HIDE DEF rank, others, places
    <3> QED BY <2>1, <2>2, <2>3, FS_PigeonHole
  <2> QED BY <1>4, <2>4
<1>7. SUFFICES ASSUME NEW n \in 1..c
      PROVE  /\ \E k \in W : rank[k] = n - 1
             /\ \A k, l \in W : rank[k] = n - 1 /\ rank[l] = n - 1 => k = l
  <2>1. \A k \in W : rank[k] = Cardinality({j \in W : j < k})
    OBVIOUS
  <2> HIDE DEF rank
  <2> QED BY <2>1
<1>8. n - 1 \in places
  BY <1>1
<1> HIDE DEF rank, places
<1> QED BY <1>4, <1>6, <1>8

(* filter() keeps what is not bad, and each of it once.                    *)
LEMMA CurrentOf ==
  ASSUME NEW S, NEW s \in Seq(S), NEW bad
  PROVE  /\ Current(s, bad) \in Seq(S)
         /\ ToSet(Current(s, bad)) = ToSet(s) \ bad
         /\ IsInjective(s) => IsInjective(Current(s, bad))
<1> DEFINE left == {k \in DOMAIN s : s[k] \notin bad}
           c == Cardinality(left)
           rank == [k \in left |-> Cardinality({j \in left : j < k})]
           Place(n) == CHOOSE k \in left : Cardinality({j \in left : j < k}) = n - 1
           t == Current(s, bad)
<1>1. /\ Len(s) \in Nat /\ DOMAIN s = 1..Len(s) /\ left \in SUBSET Nat
      /\ \A k \in 1..Len(s) : s[k] \in S
  BY LenProperties, ElementOfSeq
<1>2. IsFiniteSet(left) /\ c \in Nat
  <2>1. IsFiniteSet(1..Len(s)) /\ left \in SUBSET (1..Len(s))
    BY <1>1, FS_Interval
  <2> HIDE DEF left
  <2> QED BY <2>1, FS_Subset, FS_CardinalityType
<1>3. t = [n \in 1..c |-> s[Place(n)]]
  BY DEF Current
<1>4. ASSUME NEW n \in 1..c
      PROVE  /\ Place(n) \in left /\ rank[Place(n)] = n - 1
             /\ \A k \in left : rank[k] = n - 1 => k = Place(n)
  <2> HIDE DEF left
  <2>1. /\ \E k \in left : Cardinality({j \in left : j < k}) = n - 1
        /\ \A k, l \in left : Cardinality({j \in left : j < k}) = n - 1
                              /\ Cardinality({j \in left : j < l}) = n - 1 => k = l
    BY <1>1, <1>2, RanksOf
  <2>2. Place(n) \in left /\ Cardinality({j \in left : j < Place(n)}) = n - 1
    BY <2>1, Zenon
  <2> HIDE DEF Place
  <2> QED BY <2>1, <2>2
<1>5. \A k \in left : rank[k] \in Nat /\ rank[k] + 1 \in 1..c
  <2> SUFFICES ASSUME NEW k \in left PROVE rank[k] \in Nat /\ rank[k] + 1 \in 1..c
    OBVIOUS
  <2> DEFINE below == {j \in left : j < k}
  <2>1. below \in SUBSET left /\ k \notin below /\ rank[k] = Cardinality(below)
    BY <1>1
  <2> HIDE DEF left, rank, below
  <2>2. /\ IsFiniteSet(below) /\ Cardinality(below) <= Cardinality(left)
        /\ Cardinality(left) = Cardinality(below) => left = below
    BY <1>2, <2>1, FS_Subset
  <2>3. Cardinality(below) \in Nat
    BY <2>2, FS_CardinalityType
  <2> QED BY <1>2, <2>1, <2>2, <2>3
<1> HIDE DEF rank, Place, t
<1>6. t \in Seq(S) /\ DOMAIN t = 1..c /\ \A n \in 1..c : t[n] = s[Place(n)]
  <2>1. \A n \in 1..c : s[Place(n)] \in S
    BY <1>1, <1>4
  <2> HIDE DEF left, c
  <2> QED BY <1>2, <1>3, <2>1
<1>7. ToSet(t) = ToSet(s) \ bad
  <2>1. \A n \in DOMAIN t : t[n] \in ToSet(s) \ bad
    BY <1>4, <1>6 DEF ToSet
  <2>2. ASSUME NEW k \in DOMAIN s, s[k] \notin bad PROVE s[k] \in ToSet(t)
    <3>1. k \in left
      BY <2>2
    <3>2. k = Place(rank[k] + 1) /\ rank[k] + 1 \in DOMAIN t
      <4> HIDE DEF left, c
      <4> DEFINE n == rank[k] + 1
      <4>1. n \in 1..c /\ rank[k] = n - 1
        BY <1>5, <3>1
      <4> HIDE DEF n
      <4>2. k = Place(n)
        BY <1>4, <3>1, <4>1
      <4> QED BY <1>6, <4>1, <4>2 DEF n
    <3> QED BY <1>6, <3>2 DEF ToSet
  <2> QED BY <2>1, <2>2 DEF ToSet
<1>8. IsInjective(s) => IsInjective(t)
  <2> SUFFICES ASSUME IsInjective(s), NEW m \in 1..c, NEW n \in 1..c, t[m] = t[n] PROVE m = n
    BY <1>6 DEF IsInjective
  <2>1. Place(m) \in DOMAIN s /\ Place(n) \in DOMAIN s /\ s[Place(m)] = s[Place(n)]
    BY <1>4, <1>6
  <2>2. Place(m) = Place(n)
    BY <2>1, Zenon DEF IsInjective
  <2>3. m - 1 = n - 1
    <3> HIDE DEF left, c
    <3> QED BY <1>4, <2>2
  <2> QED BY <1>2, <2>3
<1> QED BY <1>6, <1>7, <1>8 DEF t

-----------------------------------------------------------------------------
(* The invariant.  What is on its way to the client is true of the         *)
(* provider, and comes in the order in which it happened: from that, and   *)
(* from where each intent is, follows what either side may rely on.        *)
Playing == {"started", "ended"}
About == {"created", "done"} \union Playing
DownEvents ==
  [type : About \union {"refused", "speech started", "speech stopped"},
   response : Responses \union {0}, event : EventIds \union {0}, flag : BOOLEAN]
UpEvents ==
  {CreateEvent(e, s) : e \in EventIds, s \in Seq(Intents)}
    \union {CancelEvent(r) : r \in Responses} \union {ClearEvent}

Valid == Responses \ invalidResponses
Seen(r) == r \in 1..created /\ ~Underway("created", r)

Types ==
  /\ pending \in Seq(Intents) /\ owned \in [Responses -> Seq(Intents)]
  /\ requested \in [event : EventIds \union {0}, intents : Seq(Intents)]
  /\ asked \union restored \union invalidTasks \subseteq Intents
  /\ created \in 0..Cardinality(Responses)
  /\ {playing, generating, played} \subseteq 0..created /\ played \in audible \union {0}
  /\ responding \union invalidResponses \union audible \union cut \subseteq 1..created
  /\ holds \subseteq Holds
  /\ {userSpeaking, awaitingUser, timer, speech} \subseteq BOOLEAN
  /\ origin \in [Responses -> EventIds \union {0}]
  /\ speaks \in [Responses -> SUBSET Intents]
  /\ down \in Seq(DownEvents) /\ up \in Seq(UpEvents)

(* An event says what has happened, and of which request.                  *)
True(ev) ==
  /\ IF ev.type \in About THEN ev.response \in 1..created ELSE ev.response = 0
  /\ ev.type \in {"created", "done"} => ev.event = origin[ev.response]
  /\ ev.type = "done" => ev.flag \/ ev.response \in cut
  /\ ev.type \in Playing => ev.response \in audible
  /\ ev.type = "ended" => ev.response # played
  /\ ev.type \notin {"created", "done", "refused"} => ev.event = 0
  /\ ev.type = "refused" => ev.event # 0 /\ (ev.flag \/ OtherErrors)

Truthful == \A n \in DOMAIN down : True(down[n])

(* A response is created before all else that happens to it; what is       *)
(* played was the last to start, and the client knows it or will.          *)
InOrder ==
  /\ \A m, n \in DOMAIN down :
       down[n].type = "created" /\ down[m].response = down[n].response => n <= m
  /\ \A m, n \in DOMAIN down :
       down[m].type = "started" /\ down[m].response = played /\ down[n].type \in Playing => n <= m
  /\ \A r \in Responses : played = r /\ ~Underway("started", r) =>
       playing = r /\ \A n \in DOMAIN down : down[n].type \notin Playing
  /\ \A r \in audible : Underway("created", r) => Underway("started", r)

(* The events that belong to a request not acknowledged yet                *)
Opens(s) ==
  {n \in DOMAIN s : s[n].type \in {"create", "created", "refused"} /\ s[n].event # 0}

OneRequest ==
  /\ requested.event = 0 <=> requested = NoRequest
  /\ requested.intents = <<>> <=> requested = NoRequest
  /\ \A m, n \in Opens(down) : m = n
  /\ \A m, n \in Opens(up) : m = n
  /\ Opens(down) = {} \/ Opens(up) = {}
  /\ \A n \in Opens(down) :
       /\ down[n].event = requested.event
       /\ down[n].type = "created" => speaks[down[n].response] = ToSet(requested.intents)
  /\ \A n \in Opens(up) :
       /\ up[n] = CreateEvent(requested.event, requested.intents)
       /\ \A r \in Responses : origin[r] # requested.event
  /\ \A r \in Responses : Seen(r) /\ origin[r] # 0 => origin[r] # requested.event
  /\ \A r \in Responses : (origin[r] = 0 => speaks[r] = {}) /\ (r > created => origin[r] = 0)

(* An intent is in one place of the coordinator, and in one valid response.*)
OnePlace ==
  /\ IsInjective(pending) /\ ToSet(pending) \subseteq asked
  /\ IsInjective(requested.intents) /\ ToSet(requested.intents) \subseteq asked
  /\ ToSet(pending) \cap ToSet(requested.intents) = {}
  /\ \A r \in Responses :
       /\ IsInjective(owned[r]) /\ speaks[r] \subseteq asked
       /\ owned[r] # <<>> => /\ Seen(r) /\ r \in Valid /\ ToSet(owned[r]) = speaks[r]
                             /\ speaks[r] \cap invalidTasks = {}
       /\ r \in invalidResponses => Seen(r)
  /\ \A r \in Valid : /\ speaks[r] \cap ToSet(pending) = {}
                      /\ Seen(r) => speaks[r] \cap ToSet(requested.intents) = {}
  /\ \A r, s \in Valid : r # s => speaks[r] \cap speaks[s] = {}

(* A valid response is owned as long as it may be played, and a cancelled  *)
(* one is being cleared.                                                   *)
Silencing ==
  /\ \A r \in Valid \ cut :
       Seen(r) /\ speaks[r] # {} /\ owned[r] = <<>> => r \in audible /\ played # r
  /\ \A r \in invalidResponses :
       played = r => ClearEvent \in ToSet(up) \/ Underway("started", r)

NoneLost == OtherErrors \/ NoResultLost

ReplyInv == Types /\ Truthful /\ InOrder /\ OneRequest /\ OnePlace /\ Silencing /\ NoneLost

-----------------------------------------------------------------------------
(* The channels                                                            *)

LEMMA ResponsesAre ==
  /\ Cardinality(Responses) \in Nat /\ Responses = 1..Cardinality(Responses)
  /\ \A e \in EventIds : e \in Nat /\ e # 0
BY ResponsesAssumption, ConversationAssumption, FS_CardinalityType

LEMMA NumbersAre ==
  ASSUME Types
  PROVE  /\ created \in Nat /\ created <= Cardinality(Responses)
         /\ Responses \subseteq Nat \ {0}
         /\ \A r \in 1..created : r \in Responses /\ r \in Nat
<1>1. created \in 0..Cardinality(Responses)
  BY DEF Types
<1>2. Cardinality(Responses) \in Nat /\ Responses = 1..Cardinality(Responses)
  BY ResponsesAre
<1> QED BY <1>1, <1>2

(* The kinds of events are told apart by their type.                       *)
LEMMA UpTypes ==
  /\ \A ev \in UpEvents : ev.type = "create" <=> ev.event # 0
  /\ \A ev \in UpEvents : ev.type = "create" =>
       \E e \in EventIds, s \in Seq(Intents) : ev = CreateEvent(e, s)
  /\ \A ev \in UpEvents : ev.type \notin {"created", "refused"}
  /\ \A ev \in UpEvents : ev.type = "clear" => ev = ClearEvent
<1>1. \A e \in EventIds, s \in Seq(Intents) :
        LET ev == CreateEvent(e, s) IN ev.type = "create" /\ ev.event = e /\ e # 0
  BY ResponsesAre DEF CreateEvent
<1>2. \A r \in Responses : LET ev == CancelEvent(r) IN ev.type = "cancel" /\ ev.event = 0
  BY DEF CancelEvent
<1>3. ClearEvent.type = "clear" /\ ClearEvent.event = 0
  BY DEF ClearEvent
<1> SUFFICES ASSUME NEW ev \in UpEvents
             PROVE  /\ ev.type = "create" <=> ev.event # 0
                    /\ ev.type = "create" =>
                         \E e \in EventIds, s \in Seq(Intents) : ev = CreateEvent(e, s)
                    /\ ev.type \notin {"created", "refused"}
                    /\ ev.type = "clear" => ev = ClearEvent
  OBVIOUS
<1>4. CASE \E e \in EventIds, s \in Seq(Intents) : ev = CreateEvent(e, s)
  <2>1. PICK e \in EventIds, s \in Seq(Intents) : ev = CreateEvent(e, s)
    BY <1>4
  <2>2. ev.type = "create" /\ ev.event # 0
    BY <1>1, <2>1
  <2> QED BY <1>4, <2>2
<1>5. CASE \E r \in Responses : ev = CancelEvent(r)
  BY <1>2, <1>5
<1>6. CASE ev = ClearEvent
  BY <1>3, <1>6
<1> QED BY <1>4, <1>5, <1>6 DEF UpEvents

(* t has no request open that s has not.                                   *)
Fewer(s, t) ==
  /\ \A n \in Opens(t) : \E m \in Opens(s) : s[m] = t[n]
  /\ (\A m, n \in Opens(s) : m = n) => \A m, n \in Opens(t) : m = n

LEMMA FewerSame == \A s : Fewer(s, s)
BY DEF Fewer

LEMMA FewerTwice ==
  ASSUME NEW s, NEW t, NEW u, Fewer(s, t), Fewer(t, u) PROVE Fewer(s, u)
BY DEF Fewer

LEMMA FewerTail ==
  ASSUME NEW S, NEW s \in Seq(S), s # <<>>
  PROVE  /\ Fewer(s, Tail(s))
         /\ 1 \in Opens(s) /\ (\A m, n \in Opens(s) : m = n) => Opens(Tail(s)) = {}
<1> DEFINE t == Tail(s)
<1>1. /\ DOMAIN s = 1..Len(s) /\ Len(s) \in Nat
      /\ \A n \in DOMAIN t : n \in Nat /\ n + 1 \in DOMAIN s /\ t[n] = s[n + 1]
  BY Tailed
<1>2. DOMAIN t \subseteq Nat \ {0}
  BY Tailed
<1> HIDE DEF t
<1>3. \A n \in Opens(t) : n + 1 \in Opens(s) /\ s[n + 1] = t[n]
  BY <1>1 DEF Opens
<1>4. ASSUME \A m, n \in Opens(s) : m = n, NEW m \in Opens(t), NEW n \in Opens(t) PROVE m = n
  <2>1. m \in Nat /\ n \in Nat /\ m + 1 = n + 1
    BY <1>1, <1>3, <1>4 DEF Opens
  <2> QED BY <2>1
<1>5. Fewer(s, t)
  BY <1>3, <1>4 DEF Fewer
<1>6. ASSUME 1 \in Opens(s), \A m, n \in Opens(s) : m = n, NEW n \in Opens(t) PROVE FALSE
  <2>1. n \in Nat \ {0} /\ n + 1 = 1
    BY <1>2, <1>3, <1>6 DEF Opens
  <2> QED BY <2>1
<1> QED BY <1>5, <1>6 DEF t

LEMMA FewerAppend ==
  ASSUME NEW S, NEW s \in Seq(S), NEW x \in S,
         x.type \notin {"create", "created", "refused"} \/ x.event = 0
  PROVE  Fewer(s, Append(s, x))
<1> DEFINE t == Append(s, x)
<1>1. /\ t[Len(s) + 1] = x
      /\ \A n \in DOMAIN s : n \in DOMAIN t /\ t[n] = s[n]
      /\ \A n \in DOMAIN t : n \in DOMAIN s \/ n = Len(s) + 1
  BY Appended
<1> HIDE DEF t
<1>2. \A n \in Opens(t) : n \in Opens(s) /\ s[n] = t[n]
  BY <1>1 DEF Opens
<1> QED BY <1>2 DEF Fewer, t

-----------------------------------------------------------------------------
(* What is under way                                                       *)

LEMMA DownIs ==
  ASSUME Types
  PROVE  /\ Len(down) \in Nat /\ DOMAIN down = 1..Len(down)
         /\ \A n \in DOMAIN down : n \in Nat /\ down[n] \in DownEvents
         /\ \A type, r : Underway(type, r) <=>
              \E n \in DOMAIN down : down[n].type = type /\ down[n].response = r
<1>1. /\ Len(down) \in Nat /\ DOMAIN down = 1..Len(down)
      /\ \A n \in 1..Len(down) : n \in Nat /\ down[n] \in DownEvents
  BY LenProperties, ElementOfSeq DEF Types
<1>2. \A type, r : Underway(type, r) <=>
        \E n \in DOMAIN down : down[n].type = type /\ down[n].response = r
  BY Zenon DEF Underway, ToSet
<1> QED BY <1>1, <1>2

LEMMA DownGrows ==
  ASSUME Types, NEW ev \in DownEvents, down' = Append(down, ev)
  PROVE  /\ down'[Len(down) + 1] = ev /\ Len(down) \in Nat /\ DOMAIN down = 1..Len(down)
         /\ \A n \in DOMAIN down : n \in DOMAIN down' /\ down'[n] = down[n]
         /\ \A n \in DOMAIN down' : n \in DOMAIN down \/ n = Len(down) + 1
         /\ ToSet(down') = ToSet(down) \union {ev} /\ down' \in Seq(DownEvents)
<1>1. down \in Seq(DownEvents)
  BY DEF Types
<1>2. /\ down' \in Seq(DownEvents) /\ Len(down) \in Nat /\ DOMAIN down = 1..Len(down)
      /\ down'[Len(down) + 1] = ev
  BY <1>1, Appended
<1>3. \A n \in DOMAIN down : n \in DOMAIN down' /\ down'[n] = down[n]
  BY <1>1, Appended
<1>4. \A n \in DOMAIN down' : n \in DOMAIN down \/ n = Len(down) + 1
  BY <1>1, Appended
<1>5. Len(down) + 1 \in DOMAIN down'
  BY <1>1, Appended
<1>6. ToSet(down') = ToSet(down) \union {ev}
  BY <1>2, <1>3, <1>4, <1>5 DEF ToSet
<1> QED BY <1>2, <1>3, <1>4, <1>6

LEMMA UnderwayGrows ==
  ASSUME Types, NEW ev \in DownEvents, down' = Append(down, ev)
  PROVE  \A type, r : Underway(type, r)' <=>
           Underway(type, r) \/ (ev.type = type /\ ev.response = r)
<1>1. ToSet(down') = ToSet(down) \union {ev}
  BY DownGrows
<1> QED BY <1>1 DEF Underway

LEMMA UnderwayShrinks ==
  ASSUME Types, down # <<>>, down' = Tail(down), NEW ev, ev = Head(down)
  PROVE  \A type, r : Underway(type, r) <=>
           Underway(type, r)' \/ (ev.type = type /\ ev.response = r)
<1>1. ToSet(down) = ToSet(down') \union {ev}
  BY Tailed DEF Types
<1> QED BY <1>1 DEF Underway

LEMMA TruthStays ==
  ASSUME UNCHANGED <<created, origin, cut, audible, played>>
  PROVE  \A ev : True(ev)' <=> True(ev)
BY DEF True

LEMMA TruthGrows ==
  ASSUME Types, Truthful, NEW ev \in DownEvents, down' = Append(down, ev), True(ev)',
         \A x \in DownEvents : True(x) => True(x)'
  PROVE  Truthful'
<1>1. /\ down'[Len(down) + 1] = ev
      /\ \A n \in DOMAIN down : n \in DOMAIN down' /\ down'[n] = down[n]
      /\ \A n \in DOMAIN down' : n \in DOMAIN down \/ n = Len(down) + 1
  BY DownGrows
<1>2. ASSUME NEW n \in DOMAIN down' PROVE True(down[n])'
  <2>1. CASE n \in DOMAIN down
    <3>1. PICK x : x = down[n]
      OBVIOUS
    <3>2. True(x)' /\ down'[n] = x
      BY <1>1, <2>1, <3>1, DownIs DEF Truthful
    <3> QED BY <3>2 DEF True
  <2>2. CASE n = Len(down) + 1
    <3>1. down'[n] = ev
      BY <1>1, <2>2
    <3> QED BY <3>1 DEF True
  <2> QED BY <1>1, <2>1, <2>2
<1> QED BY <1>2 DEF Truthful

LEMMA TruthShrinks ==
  ASSUME Types, Truthful, down # <<>>, down' = Tail(down), \A x : True(x)' <=> True(x)
  PROVE  Truthful' /\ True(Head(down)) /\ Head(down) \in DownEvents
<1>1. /\ 1 \in DOMAIN down /\ Head(down) = down[1] /\ Head(down) \in DownEvents
      /\ \A n \in DOMAIN down' : n + 1 \in DOMAIN down /\ down'[n] = down[n + 1]
  BY Tailed DEF Types
<1>2. ASSUME NEW n \in DOMAIN down' PROVE True(down[n])'
  <2>1. PICK x : x = down[n + 1]
    OBVIOUS
  <2>2. True(x)' /\ down'[n] = x
    BY <1>1, <2>1 DEF Truthful
  <2> QED BY <2>2 DEF True
<1>3. True(Head(down))
  BY <1>1 DEF Truthful
<1> QED BY <1>1, <1>2, <1>3 DEF Truthful

(* Nothing about a response comes before its creation.                     *)
LEMMA OrderGrows ==
  ASSUME Types, Truthful, InOrder, NEW ev \in DownEvents, down' = Append(down, ev),
         UNCHANGED <<played, playing, audible>>, ev.type \notin Playing,
         ev.type = "created" => /\ ev.response \notin audible
                                /\ \A n \in DOMAIN down : down[n].response # ev.response
  PROVE  InOrder'
<1> DEFINE last == Len(down) + 1
<1>1. /\ down'[last] = ev /\ Len(down) \in Nat /\ DOMAIN down = 1..Len(down)
      /\ \A n \in DOMAIN down : n \in DOMAIN down' /\ down'[n] = down[n]
      /\ \A n \in DOMAIN down' : n \in DOMAIN down \/ n = last
  BY DownGrows, Zenon
<1>2. \A n \in DOMAIN down : n \in Nat /\ n <= last
  BY <1>1
<1>3. last \in Nat /\ last <= last
  BY <1>1
<1>4. \A type, r : Underway(type, r)' <=> Underway(type, r) \/ (ev.type = type /\ ev.response = r)
  BY UnderwayGrows
<1> HIDE DEF last
<1>5. ASSUME NEW m \in DOMAIN down', NEW n \in DOMAIN down',
             down'[n].type = "created", down'[m].response = down'[n].response
      PROVE  n <= m
  <2>1. CASE m = last
    BY <1>1, <1>2, <1>3, <2>1
  <2>2. CASE m # last
    <3>1. m \in DOMAIN down /\ down'[m] = down[m]
      BY <1>1, <2>2
    <3>2. n # last
      BY <1>1, <1>5, <3>1
    <3> QED BY <1>1, <1>5, <3>1, <3>2 DEF InOrder
  <2> QED BY <2>1, <2>2
<1>6. ASSUME NEW m \in DOMAIN down', NEW n \in DOMAIN down', down'[m].type = "started",
             down'[m].response = played', down'[n].type \in Playing
      PROVE  n <= m
  <2>1. m \in DOMAIN down /\ down'[m] = down[m] /\ n \in DOMAIN down /\ down'[n] = down[n]
    BY <1>1, <1>6 DEF Playing
  <2> QED BY <1>6, <2>1 DEF InOrder
<1>7. ASSUME NEW r \in Responses, played' = r, ~Underway("started", r)'
      PROVE  playing' = r /\ \A n \in DOMAIN down' : down'[n].type \notin Playing
  <2>1. played = r /\ ~Underway("started", r)
    BY <1>4, <1>7
  <2>2. playing = r /\ \A n \in DOMAIN down : down[n].type \notin Playing
    BY <2>1 DEF InOrder
  <2> QED BY <1>1, <2>2
<1>8. ASSUME NEW r \in audible', Underway("created", r)' PROVE Underway("started", r)'
  <2>1. Underway("created", r)
    BY <1>4, <1>8
  <2> QED BY <1>4, <2>1 DEF InOrder
<1> QED BY <1>5, <1>6, <1>7, <1>8 DEF InOrder

LEMMA OrderStarts ==
  ASSUME Types, Truthful, InOrder, NEW r \in Responses, r \notin audible, played = 0,
         NEW ev \in DownEvents, ev = Event("started", r, 0, TRUE), down' = Append(down, ev),
         played' = r, audible' = audible \union {r}, UNCHANGED playing
  PROVE  InOrder'
<1> DEFINE last == Len(down) + 1
<1>1. /\ down'[last] = ev /\ Len(down) \in Nat /\ DOMAIN down = 1..Len(down)
      /\ \A n \in DOMAIN down : n \in DOMAIN down' /\ down'[n] = down[n]
      /\ \A n \in DOMAIN down' : n \in DOMAIN down \/ n = last
  BY DownGrows, Zenon
<1>2. /\ \A n \in DOMAIN down : n \in Nat /\ n <= last
      /\ last \in Nat /\ last <= last
  BY <1>1
<1>3. \A type, s : Underway(type, s)' <=> Underway(type, s) \/ (ev.type = type /\ ev.response = s)
  BY UnderwayGrows
<1>4. ev.type = "started" /\ ev.response = r /\ ev.type # "created"
  BY DEF Event
<1>5. \A n \in DOMAIN down : down[n].type = "started" => down[n].response # r
  BY DEF Truthful, True, Playing
<1> HIDE DEF last
<1>6. ASSUME NEW m \in DOMAIN down', NEW n \in DOMAIN down',
             down'[n].type = "created", down'[m].response = down'[n].response
      PROVE  n <= m
  <2>1. n \in DOMAIN down /\ down'[n] = down[n]
    BY <1>1, <1>4, <1>6
  <2>2. CASE m = last
    BY <1>2, <2>1, <2>2
  <2>3. CASE m # last
    BY <1>1, <1>6, <2>1, <2>3 DEF InOrder
  <2> QED BY <2>2, <2>3
<1>7. ASSUME NEW m \in DOMAIN down', NEW n \in DOMAIN down', down'[m].type = "started",
             down'[m].response = played', down'[n].type \in Playing
      PROVE  n <= m
  <2>1. m = last
    BY <1>1, <1>5, <1>7
  <2> QED BY <1>1, <1>2, <2>1
<1>8. Underway("started", r)'
  BY <1>3, <1>4
<1>9. ASSUME NEW s \in audible', Underway("created", s)' PROVE Underway("started", s)'
  BY <1>3, <1>4, <1>8, <1>9 DEF InOrder
<1> QED BY <1>6, <1>7, <1>8, <1>9 DEF InOrder

LEMMA OrderEnds ==
  ASSUME Types, Truthful, InOrder, played # 0,
         NEW ev \in DownEvents, ev = Event("ended", played, 0, TRUE), down' = Append(down, ev),
         played' = 0, UNCHANGED <<playing, audible>>
  PROVE  InOrder'
<1> DEFINE last == Len(down) + 1
<1>1. /\ down'[last] = ev /\ Len(down) \in Nat /\ DOMAIN down = 1..Len(down)
      /\ \A n \in DOMAIN down : n \in DOMAIN down' /\ down'[n] = down[n]
      /\ \A n \in DOMAIN down' : n \in DOMAIN down \/ n = last
  BY DownGrows, Zenon
<1>2. \A n \in DOMAIN down : n \in Nat /\ n <= last
  BY <1>1
<1>3. \A type, s : Underway(type, s)' <=> Underway(type, s) \/ (ev.type = type /\ ev.response = s)
  BY UnderwayGrows
<1>4. ev.type = "ended"
  BY DEF Event
<1>5. \A n \in DOMAIN down : down[n].type = "started" => down[n].response # 0
  BY DEF Truthful, True, Playing, About
<1> HIDE DEF last
<1>6. ASSUME NEW m \in DOMAIN down', NEW n \in DOMAIN down',
             down'[n].type = "created", down'[m].response = down'[n].response
      PROVE  n <= m
  <2>1. n \in DOMAIN down /\ down'[n] = down[n]
    BY <1>1, <1>4, <1>6
  <2>2. CASE m = last
    BY <1>2, <2>1, <2>2
  <2>3. CASE m # last
    BY <1>1, <1>6, <2>1, <2>3 DEF InOrder
  <2> QED BY <2>2, <2>3
<1>7. ASSUME NEW m \in DOMAIN down', down'[m].type = "started", down'[m].response = played'
      PROVE  FALSE
  BY <1>1, <1>4, <1>5, <1>7
<1>8. ASSUME NEW r \in Responses, played' = r PROVE FALSE
  BY <1>8, ResponsesAssumption
<1>9. ASSUME NEW s \in audible', Underway("created", s)' PROVE Underway("started", s)'
  BY <1>3, <1>4, <1>9 DEF InOrder
<1> QED BY <1>6, <1>7, <1>8, <1>9 DEF InOrder

(* The client takes the next event, and knows what is played if it says so.*)
LEMMA OrderShrinks ==
  ASSUME Types, Truthful, InOrder, down # <<>>, down' = Tail(down), NEW ev, ev = Head(down),
         ev.type = "started" => playing' = ev.response,
         ev.type \notin Playing => playing' = playing,
         UNCHANGED <<played, audible>>
  PROVE  InOrder'
<1>1. /\ 1 \in DOMAIN down /\ ev = down[1]
      /\ \A n \in DOMAIN down' : n \in Nat /\ n + 1 \in DOMAIN down /\ down'[n] = down[n + 1]
      /\ DOMAIN down' \subseteq Nat \ {0}
  BY Tailed DEF Types
<1>2. \A type, r : Underway(type, r) <=> Underway(type, r)' \/ (ev.type = type /\ ev.response = r)
  BY UnderwayShrinks
<1>3. \A m, n \in DOMAIN down' : m + 1 <= n + 1 => m <= n
  BY <1>1
<1>4. \A n \in DOMAIN down' : ~(n + 1 <= 1)
  BY <1>1
<1>5. ASSUME NEW m \in DOMAIN down', NEW n \in DOMAIN down',
             down'[n].type = "created", down'[m].response = down'[n].response
      PROVE  n <= m
  BY <1>1, <1>3, <1>5 DEF InOrder
<1>6. ASSUME NEW m \in DOMAIN down', NEW n \in DOMAIN down', down'[m].type = "started",
             down'[m].response = played', down'[n].type \in Playing
      PROVE  n <= m
  BY <1>1, <1>3, <1>6 DEF InOrder
<1>7. ASSUME NEW r \in Responses, played' = r, ~Underway("started", r)'
      PROVE  playing' = r /\ \A n \in DOMAIN down' : down'[n].type \notin Playing
  <2>1. CASE Underway("started", r)
    <3>1. ev.type = "started" /\ ev.response = r
      BY <1>2, <1>7, <2>1
    <3>2. ASSUME NEW n \in DOMAIN down', down'[n].type \in Playing PROVE FALSE
      <4>1. n + 1 <= 1
        BY <1>1, <1>7, <3>1, <3>2 DEF InOrder
      <4> QED BY <1>4, <4>1
    <3> QED BY <3>1, <3>2
  <2>2. CASE ~Underway("started", r)
    <3>1. playing = r /\ \A n \in DOMAIN down : down[n].type \notin Playing
      BY <1>7, <2>2 DEF InOrder
    <3> QED BY <1>1, <3>1
  <2> QED BY <2>1, <2>2
<1>8. ASSUME NEW r \in audible', Underway("created", r)' PROVE Underway("started", r)'
  <2>1. Underway("started", r)
    BY <1>2, <1>8 DEF InOrder
  <2>2. SUFFICES ASSUME ev.type = "started", ev.response = r PROVE FALSE
    BY <1>2, <2>1
  <2>3. PICK n \in DOMAIN down' : down'[n].type = "created" /\ down'[n].response = r
    BY <1>8, Zenon DEF Underway, ToSet
  <2>4. n + 1 <= 1
    BY <1>1, <2>2, <2>3 DEF InOrder
  <2> QED BY <1>4, <2>4
<1> QED BY <1>5, <1>6, <1>7, <1>8 DEF InOrder

-----------------------------------------------------------------------------
(* The request                                                             *)

(* A response that has not been acknowledged answers the open request, or  *)
(* none.                                                                   *)
LEMMA Unseen ==
  ASSUME Types, Truthful, OneRequest, NEW r \in Responses, ~Seen(r)
  PROVE  \/ origin[r] = 0 /\ speaks[r] = {}
         \/ \E n \in Opens(down) : down[n].type = "created" /\ down[n].response = r
<1>1. SUFFICES ASSUME origin[r] # 0
      PROVE \E n \in Opens(down) : down[n].type = "created" /\ down[n].response = r
  BY DEF OneRequest
<1>2. r \in 1..created
  BY <1>1, ResponsesAre DEF OneRequest, Types
<1>3. PICK n \in DOMAIN down : down[n].type = "created" /\ down[n].response = r
  BY <1>2, DownIs DEF Seen
<1>4. down[n].event = origin[r]
  BY <1>3 DEF Truthful, True
<1> QED BY <1>1, <1>3, <1>4 DEF Opens

LEMMA RequestStays ==
  ASSUME OneRequest, Fewer(down, down'), Fewer(up, up'), UNCHANGED <<requested, origin, speaks>>,
         Types, Types',
         created' \in Nat /\ created <= created',
         \A r \in Responses : Seen(r)' => Seen(r) \/ origin[r] = 0
  PROVE  OneRequest'
<1>1. /\ \A n \in Opens(down') : \E m \in Opens(down) : down[m] = down'[n]
      /\ \A n \in Opens(up') : \E m \in Opens(up) : up[m] = up'[n]
      /\ \A m, n \in Opens(down') : m = n
      /\ \A m, n \in Opens(up') : m = n
  BY Zenon DEF Fewer, OneRequest
<1>2. Opens(down') = {} \/ Opens(up') = {}
  BY <1>1 DEF OneRequest
<1>3. ASSUME NEW n \in Opens(down')
      PROVE  /\ down'[n].event = requested.event
             /\ down'[n].type = "created" => speaks[down'[n].response] = ToSet(requested.intents)
  <2>1. PICK m \in Opens(down) : down[m] = down'[n]
    BY <1>1
  <2> QED BY <2>1 DEF OneRequest
<1>4. ASSUME NEW n \in Opens(up')
      PROVE  /\ up'[n] = CreateEvent(requested.event, requested.intents)
             /\ \A r \in Responses : origin[r] # requested.event
  <2>1. PICK m \in Opens(up) : up[m] = up'[n]
    BY <1>1
  <2> QED BY <2>1 DEF OneRequest
<1>5. \A r \in Responses : Seen(r)' /\ origin[r] # 0 => origin[r] # requested.event
  <2>1. \A r \in Responses : Seen(r) /\ origin[r] # 0 => origin[r] # requested.event
    BY DEF OneRequest
  <2> QED BY <2>1
<1>6. \A r \in Responses : /\ origin[r] = 0 => speaks[r] = {}
                           /\ r > created' => origin[r] = 0
  <2>1. \A r \in Responses : (origin[r] = 0 => speaks[r] = {}) /\ (r > created => origin[r] = 0)
    BY DEF OneRequest
  <2>2. created \in Nat /\ Responses \subseteq Nat
    BY NumbersAre
  <2>3. \A r \in Nat : r > created' => r > created
    BY <2>2
  <2> QED BY <2>1, <2>2, <2>3
<1>7. /\ requested.event = 0 <=> requested = NoRequest
      /\ requested.intents = <<>> <=> requested = NoRequest
  BY DEF OneRequest
<1> QED BY <1>1, <1>2, <1>3, <1>4, <1>5, <1>6, <1>7 DEF OneRequest

(* The request was acknowledged or refused.                                *)
LEMMA RequestEnds ==
  ASSUME OneRequest, UNCHANGED <<origin, speaks, created>>, requested' = NoRequest,
         Opens(down') = {}, Opens(up') = {}
  PROVE  OneRequest'
<1>1. requested'.event = 0 /\ requested'.intents = <<>>
  BY DEF NoRequest
<1> QED BY <1>1 DEF OneRequest

(* Without a request none is open.                                         *)
LEMMA NoneOpen ==
  ASSUME OneRequest, requested = NoRequest
  PROVE  Opens(down) = {} /\ Opens(up) = {}
<1>1. requested.event = 0
  BY DEF NoRequest
<1>2. \A n \in Opens(down) : FALSE
  BY <1>1 DEF OneRequest, Opens
<1>3. \A n \in Opens(up) : FALSE
  BY <1>1 DEF OneRequest, Opens, CreateEvent
<1> QED BY <1>2, <1>3

-----------------------------------------------------------------------------
(* The places                                                              *)

LEMMA NothingIsPlaced == IsInjective(<<>>) /\ ToSet(<<>>) = {}
BY DEF IsInjective, ToSet

LEMMA PlacesStay ==
  ASSUME OnePlace, UNCHANGED <<pending, requested, asked, invalidTasks, invalidResponses, speaks>>,
         \A r \in Responses : owned'[r] \in {owned[r], <<>>},
         \A r \in Responses : Seen(r) => Seen(r)',
         \A r \in Responses : Seen(r)' => Seen(r) \/ speaks[r] = {}
  PROVE  OnePlace'
<1>1. /\ pending' = pending /\ requested' = requested /\ asked' = asked
      /\ invalidTasks' = invalidTasks /\ invalidResponses' = invalidResponses
      /\ speaks' = speaks /\ Valid' = Valid
  BY DEF Valid
<1>2. ASSUME NEW r \in Responses
      PROVE  /\ IsInjective(owned'[r]) /\ speaks[r] \subseteq asked
             /\ owned'[r] # <<>> => /\ Seen(r)' /\ r \in Valid /\ ToSet(owned'[r]) = speaks[r]
                                    /\ speaks[r] \cap invalidTasks = {}
             /\ r \in invalidResponses => Seen(r)'
  <2>1. /\ IsInjective(owned[r]) /\ speaks[r] \subseteq asked
        /\ owned[r] # <<>> => /\ Seen(r) /\ r \in Valid /\ ToSet(owned[r]) = speaks[r]
                              /\ speaks[r] \cap invalidTasks = {}
        /\ r \in invalidResponses => Seen(r)
    BY DEF OnePlace
  <2>2. owned'[r] = owned[r] \/ owned'[r] = <<>>
    OBVIOUS
  <2> QED BY <2>1, <2>2, NothingIsPlaced
<1>3. ASSUME NEW r \in Valid
      PROVE  /\ speaks[r] \cap ToSet(pending) = {}
             /\ Seen(r)' => speaks[r] \cap ToSet(requested.intents) = {}
  <2>1. /\ speaks[r] \cap ToSet(pending) = {}
        /\ Seen(r) => speaks[r] \cap ToSet(requested.intents) = {}
    BY DEF OnePlace
  <2>2. r \in Responses
    BY DEF Valid
  <2> QED BY <2>1, <2>2
<1>4. /\ IsInjective(pending) /\ ToSet(pending) \subseteq asked
      /\ IsInjective(requested.intents) /\ ToSet(requested.intents) \subseteq asked
      /\ ToSet(pending) \cap ToSet(requested.intents) = {}
      /\ \A r, s \in Valid : r # s => speaks[r] \cap speaks[s] = {}
  BY DEF OnePlace
<1> QED BY <1>1, <1>2, <1>3, <1>4 DEF OnePlace

(* What is put back in front of the queue, without what is bad             *)
LEMMA PutBack ==
  ASSUME NEW s \in Seq(Intents), NEW q \in Seq(Intents), IsInjective(s), IsInjective(q),
         ToSet(s) \cap ToSet(q) = {}, NEW bad
  PROVE  LET p == Current(s, bad) \o q
         IN  /\ p \in Seq(Intents) /\ IsInjective(p)
             /\ ToSet(p) = (ToSet(s) \ bad) \union ToSet(q)
<1>1. PICK c : c = Current(s, bad)
  OBVIOUS
<1>2. c \in Seq(Intents) /\ ToSet(c) = ToSet(s) \ bad /\ IsInjective(c)
  BY <1>1, CurrentOf
<1>3. /\ c \o q \in Seq(Intents) /\ IsInjective(c \o q)
      /\ ToSet(c \o q) = ToSet(c) \union ToSet(q)
  BY <1>2, Joined
<1> QED BY <1>1, <1>2, <1>3

(* An event that may be sent at the end of up                              *)
LEMMA Sends ==
  ASSUME NEW s \in Seq(UpEvents), NEW x \in UpEvents, x.event = 0, NEW c \in BOOLEAN,
         NEW t, t = s \o (IF c THEN <<x>> ELSE <<>>)
  PROVE  /\ t \in Seq(UpEvents) /\ Fewer(s, t) /\ ToSet(s) \subseteq ToSet(t)
         /\ c => x \in ToSet(t)
<1>1. CASE c
  <2>1. t = s \o <<x>>
    BY <1>1
  <2>2. t = Append(s, x)
    <3>1. Append(s, x) = s \o <<x>>
      BY AppendIsConcat
    <3> QED BY <2>1, <3>1, Zenon
  <2>3. t \in Seq(UpEvents)
    BY <2>2, Appended
  <2>4. ToSet(t) = ToSet(s) \union {x}
    <3>1. s \in Seq(UpEvents) /\ x \in UpEvents
      OBVIOUS
    <3>2. ToSet(Append(s, x)) = ToSet(s) \union {x}
      BY <3>1, AppendedSet
    <3> QED BY <2>2, <3>2
  <2>5. Fewer(s, t)
    BY <2>2, FewerAppend
  <2> QED BY <2>3, <2>4, <2>5
<1>2. CASE ~c
  <2>1. t = s \o <<>>
    BY <1>2
  <2>2. t = s
    BY <2>1, ConcatEmptySeq
  <2> QED BY <1>2, <2>2, FewerSame
<1> QED BY <1>1, <1>2

(* What cancelSuperseded() sends                                           *)
LEMMA CancelSends ==
  ASSUME Types, NEW r \in Responses, NEW still,
         up' = up \o (IF r \in still THEN <<CancelEvent(r)>> ELSE <<>>)
                  \o (IF playing = r THEN <<ClearEvent>> ELSE <<>>)
  PROVE  /\ up' \in Seq(UpEvents) /\ Fewer(up, up') /\ ToSet(up) \subseteq ToSet(up')
         /\ playing = r => ClearEvent \in ToSet(up')
<1>1. up \in Seq(UpEvents)
  BY DEF Types
<1>2. /\ CancelEvent(r) \in UpEvents /\ CancelEvent(r).event = 0
      /\ ClearEvent \in UpEvents /\ ClearEvent.event = 0
  BY DEF UpEvents, CancelEvent, ClearEvent
<1>3. PICK c : c = CancelEvent(r)
  OBVIOUS
<1>4. PICK t : t = up \o (IF r \in still THEN <<c>> ELSE <<>>)
  OBVIOUS
<1>5. t \in Seq(UpEvents) /\ Fewer(up, t) /\ ToSet(up) \subseteq ToSet(t)
  BY <1>1, <1>2, <1>3, <1>4, Sends
<1>6. PICK x : x = ClearEvent
  OBVIOUS
<1>7. up' = t \o (IF playing = r THEN <<x>> ELSE <<>>)
  BY <1>3, <1>4, <1>6
<1>8. /\ up' \in Seq(UpEvents) /\ Fewer(t, up') /\ ToSet(t) \subseteq ToSet(up')
      /\ playing = r => x \in ToSet(up')
  BY <1>2, <1>5, <1>6, <1>7, Sends
<1>9. Fewer(up, up')
  BY <1>5, <1>8, FewerTwice
<1> QED BY <1>5, <1>6, <1>8, <1>9

-----------------------------------------------------------------------------
(* Steps of the provider that have to do with no request                   *)

(* What was sent stays on its way, but for what need not be known; a clear *)
(* is needed while something is played.                                    *)
UpKept ==
  /\ up' \in Seq(UpEvents) /\ Fewer(up, up')
  /\ played' # 0 /\ ClearEvent \in ToSet(up) => ClearEvent \in ToSet(up')

LEMMA ClearKept ==
  ASSUME Types, UpKept, NEW r \in invalidResponses, played' = r, ClearEvent \in ToSet(up)
  PROVE  ClearEvent \in ToSet(up')
<1>1. r \in 1..created
  BY DEF Types
<1>2. r # 0
  BY <1>1, NumbersAre
<1> QED BY <1>2 DEF UpKept

LEMMA LostStays ==
  ASSUME NoneLost, UNCHANGED <<pending, requested, asked, invalidTasks, invalidResponses, speaks>>
  PROVE  NoneLost'
BY DEF NoneLost, NoResultLost

LEMMA SeenStays ==
  ASSUME Types, NEW ev \in DownEvents, ev.type # "created", down' = Append(down, ev), created' = created
  PROVE  \A r : Seen(r)' <=> Seen(r)
BY UnderwayGrows DEF Seen

LEMMA DownFewer ==
  ASSUME Types, NEW ev \in DownEvents, down' = Append(down, ev),
         ev.type \notin {"create", "created", "refused"} \/ ev.event = 0
  PROVE  Fewer(down, down')
<1>1. down \in Seq(DownEvents)
  BY DEF Types
<1> QED BY <1>1, FewerAppend

(* The client's variables but for up                                       *)
LEMMA OthersAre ==
  ASSUME UNCHANGED Others
  PROVE  UNCHANGED <<pending, requested, owned, responding, invalidTasks, invalidResponses, playing,
                     userSpeaking, awaitingUser, holds, timer, asked, restored>>
BY DEF Others, queueVars, gateVars

LEMMA Emitted ==
  ASSUME ReplyInv, UpKept, UNCHANGED Others, UNCHANGED <<origin, speaks, created>>,
         NEW ev \in DownEvents, down' = Append(down, ev), ev.type \notin {"create", "created", "refused"},
         True(ev)', \A x \in DownEvents : True(x) => True(x)',
         Types', InOrder', Silencing'
  PROVE  ReplyInv'
<1>1. Types /\ Truthful /\ OneRequest /\ OnePlace /\ NoneLost
  BY DEF ReplyInv
<1>2. UNCHANGED <<pending, requested, owned, invalidTasks, invalidResponses, asked>>
  BY OthersAre
<1>3. \A r : Seen(r)' <=> Seen(r)
  BY <1>1, SeenStays
<1>4. Truthful'
  BY <1>1, TruthGrows
<1>5. OneRequest'
  <2>1. Fewer(down, down') /\ Fewer(up, up')
    BY <1>1, DownFewer DEF UpKept
  <2>2. created' \in Nat /\ created <= created'
    BY <1>1, NumbersAre
  <2> QED BY <1>1, <1>2, <1>3, <2>1, <2>2, RequestStays
<1>6. OnePlace'
  BY <1>1, <1>2, <1>3, PlacesStay
<1>7. NoneLost'
  BY <1>1, <1>2, LostStays
<1> QED BY <1>4, <1>5, <1>6, <1>7 DEF ReplyInv

(* The provider takes an event and does nothing.                           *)
LEMMA Untouched ==
  ASSUME ReplyInv, UpKept, UNCHANGED Others, UNCHANGED provider
  PROVE  ReplyInv'
<1>1. Types /\ Truthful /\ InOrder /\ OneRequest /\ OnePlace /\ Silencing /\ NoneLost
  BY DEF ReplyInv
<1>2. UNCHANGED <<pending, requested, owned, responding, invalidTasks, invalidResponses, playing,
                  userSpeaking, awaitingUser, holds, timer, asked, restored>>
  BY OthersAre
<1>3. UNCHANGED <<down, generating, played, audible, cut, origin, speaks, created, speech>>
  BY DEF provider
<1>4. \A r : Seen(r)' <=> Seen(r)
  BY <1>3 DEF Seen, Underway
<1>5. Types'
  BY <1>1, <1>2, <1>3 DEF Types, UpKept
<1>6. Truthful' /\ InOrder'
  BY <1>1, <1>2, <1>3 DEF Truthful, True, InOrder, Underway
<1>7. OneRequest'
  <2>1. Fewer(down, down') /\ Fewer(up, up')
    BY <1>3, FewerSame DEF UpKept
  <2>2. created' \in Nat /\ created <= created'
    BY <1>1, <1>3, NumbersAre
  <2> QED BY <1>1, <1>2, <1>3, <1>4, <1>5, <2>1, <2>2, RequestStays
<1>8. OnePlace'
  BY <1>1, <1>2, <1>3, <1>4, PlacesStay
<1>9. NoneLost'
  BY <1>1, <1>2, <1>3, LostStays
<1>10. Silencing'
  BY <1>1, <1>2, <1>3, <1>4, ClearKept DEF Silencing, Underway, Valid
<1> QED BY <1>5, <1>6, <1>7, <1>8, <1>9, <1>10 DEF ReplyInv

LEMMA EndGeneratingStep ==
  ASSUME ReplyInv, UpKept, UNCHANGED Others, NEW kept \in BOOLEAN, EndGenerating(kept)
  PROVE  ReplyInv'
<1>1. Types /\ Truthful /\ InOrder /\ Silencing
  BY DEF ReplyInv
<1>2. UNCHANGED <<pending, requested, owned, responding, invalidTasks, invalidResponses, playing,
                  userSpeaking, awaitingUser, holds, timer, asked, restored>>
  BY OthersAre
<1>3. PICK ev : ev = Event("done", generating, origin[generating], kept)
  OBVIOUS
<1>4. /\ generating # 0 /\ generating' = 0
      /\ cut' = IF kept THEN cut ELSE cut \union {generating}
      /\ down' = Append(down, ev)
      /\ UNCHANGED <<played, audible, origin, speaks, created, speech>>
  BY <1>3 DEF EndGenerating, Emit
<1>5. generating \in 1..created /\ generating \in Responses /\ origin[generating] \in EventIds \union {0}
  <2>1. generating \in 0..created
    BY <1>1 DEF Types
  <2>2. generating \in 1..created
    BY <1>1, <1>4, <2>1, NumbersAre
  <2>3. generating \in Responses
    BY <1>1, <2>2, NumbersAre
  <2> QED BY <1>1, <2>2, <2>3 DEF Types
<1>6. /\ ev \in DownEvents
      /\ ev.type = "done" /\ ev.response = generating
      /\ ev.event = origin[generating] /\ ev.flag = kept
  <2>1. "done" \in About \union {"refused", "speech started", "speech stopped"}
    BY DEF About
  <2>2. generating \in Responses \union {0} /\ origin[generating] \in EventIds \union {0} /\ kept \in BOOLEAN
    BY <1>5
  <2> QED BY <1>3, <2>1, <2>2 DEF Event, DownEvents
<1>7. Types'
  <2>1. down' \in Seq(DownEvents)
    BY <1>1, <1>4, <1>6, DownGrows
  <2>2. cut' \subseteq 1..created
    BY <1>1, <1>4, <1>5 DEF Types
  <2>3. generating' \in 0..created
    BY <1>1, <1>4, NumbersAre
  <2> QED BY <1>1, <1>2, <1>4, <2>1, <2>2, <2>3 DEF Types, UpKept
<1>8. \A x \in DownEvents : True(x) => True(x)'
  BY <1>4 DEF True
<1>9. True(ev)'
  BY <1>4, <1>5, <1>6 DEF True, About, Playing
<1>10. InOrder'
  BY <1>1, <1>2, <1>4, <1>6, OrderGrows DEF Playing
<1>11. Silencing'
  <2>1. \A type, r : type # "done" => (Underway(type, r)' <=> Underway(type, r))
    BY <1>1, <1>4, <1>6, UnderwayGrows
  <2>2. \A r : Seen(r)' <=> Seen(r)
    BY <1>1, <1>4, <1>6, SeenStays
  <2>3. \A r \in Valid \ cut : Seen(r) /\ speaks[r] # {} /\ owned[r] = <<>> => r \in audible /\ played # r
    BY <1>1 DEF Silencing
  <2>4. \A r \in invalidResponses : played = r => ClearEvent \in ToSet(up) \/ Underway("started", r)
    BY <1>1 DEF Silencing
  <2>5. cut \subseteq cut' /\ Valid' = Valid
    BY <1>2, <1>4 DEF Valid
  <2>6. \A r \in Valid' \ cut' : Seen(r)' /\ speaks'[r] # {} /\ owned'[r] = <<>> => r \in audible' /\ played' # r
    BY <1>2, <1>4, <2>2, <2>3, <2>5
  <2>7. \A r \in invalidResponses' : played' = r => ClearEvent \in ToSet(up') \/ Underway("started", r)'
    BY <1>1, <1>2, <1>4, <2>1, <2>4, ClearKept
  <2> QED BY <2>6, <2>7 DEF Silencing
<1> QED BY <1>4, <1>6, <1>7, <1>8, <1>9, <1>10, <1>11, Emitted

LEMMA EndPlayingStep ==
  ASSUME ReplyInv, UpKept, UNCHANGED Others, EndPlaying
  PROVE  ReplyInv'
<1>1. Types /\ Truthful /\ InOrder /\ Silencing
  BY DEF ReplyInv
<1>2. UNCHANGED <<pending, requested, owned, responding, invalidTasks, invalidResponses, playing,
                  userSpeaking, awaitingUser, holds, timer, asked, restored>>
  BY OthersAre
<1>3. PICK ev : ev = Event("ended", played, 0, TRUE)
  OBVIOUS
<1>4. /\ played # 0 /\ played' = 0
      /\ down' = Append(down, ev)
      /\ UNCHANGED <<generating, audible, cut, origin, speaks, created, speech>>
  BY <1>3 DEF EndPlaying, Emit
<1>5. played \in audible /\ played \in 1..created /\ played \in Responses
  <2>1. played \in audible /\ played \in 1..created
    BY <1>1, <1>4 DEF Types
  <2> QED BY <1>1, <2>1, NumbersAre
<1>6. /\ ev \in DownEvents
      /\ ev.type = "ended" /\ ev.response = played /\ ev.event = 0
  <2>1. "ended" \in About \union {"refused", "speech started", "speech stopped"}
    BY DEF About, Playing
  <2>2. played \in Responses \union {0} /\ 0 \in EventIds \union {0} /\ TRUE \in BOOLEAN
    BY <1>5
  <2> QED BY <1>3, <2>1, <2>2 DEF Event, DownEvents
<1>7. Types'
  <2>1. down' \in Seq(DownEvents)
    BY <1>1, <1>4, <1>6, DownGrows
  <2>2. played' \in 0..created /\ played' \in audible \union {0}
    BY <1>1, <1>4, NumbersAre
  <2> QED BY <1>1, <1>2, <1>4, <2>1, <2>2 DEF Types, UpKept
<1>8. \A x \in DownEvents : True(x) => True(x)'
  <2>1. \A x : x \in 1..created => x # 0
    BY <1>1, NumbersAre
  <2> QED BY <1>4, <2>1 DEF True, About, Playing
<1>9. True(ev)'
  BY <1>4, <1>5, <1>6 DEF True, About, Playing
<1>10. InOrder'
  BY <1>1, <1>2, <1>3, <1>4, <1>6, OrderEnds
<1>11. Silencing'
  <2>1. \A r : Seen(r)' <=> Seen(r)
    BY <1>1, <1>4, <1>6, SeenStays
  <2>2. \A r \in Valid \ cut : Seen(r) /\ speaks[r] # {} /\ owned[r] = <<>> => r \in audible /\ played # r
    BY <1>1 DEF Silencing
  <2>3. Valid' = Valid /\ \A r \in Responses : r # 0
    BY <1>1, <1>2, NumbersAre DEF Valid
  <2>4. \A r \in Valid' \ cut' : Seen(r)' /\ speaks'[r] # {} /\ owned'[r] = <<>> => r \in audible' /\ played' # r
    BY <1>2, <1>4, <2>1, <2>2, <2>3 DEF Valid
  <2>5. \A r \in invalidResponses' : played' # r
    <3>1. invalidResponses \subseteq Responses
      BY <1>1, NumbersAre DEF Types
    <3> QED BY <1>2, <1>4, <2>3, <3>1
  <2> QED BY <2>4, <2>5 DEF Silencing
<1> QED BY <1>4, <1>6, <1>7, <1>8, <1>9, <1>10, <1>11, Emitted

LEMMA StartPlayingStep ==
  ASSUME ReplyInv, UpKept, UNCHANGED Others, NEW r \in Responses, StartPlaying(r)
  PROVE  ReplyInv'
<1>1. Types /\ Truthful /\ InOrder /\ Silencing
  BY DEF ReplyInv
<1>2. UNCHANGED <<pending, requested, owned, responding, invalidTasks, invalidResponses, playing,
                  userSpeaking, awaitingUser, holds, timer, asked, restored>>
  BY OthersAre
<1>3. PICK ev : ev = Event("started", r, 0, TRUE)
  OBVIOUS
<1>4. /\ r <= created /\ r \notin audible \union cut /\ played = 0
      /\ played' = r /\ audible' = audible \union {r}
      /\ down' = Append(down, ev)
      /\ UNCHANGED <<generating, cut, origin, speaks, created, speech>>
  BY <1>3 DEF StartPlaying, Emit
<1>5. r \in 1..created /\ r \in Nat
  BY <1>1, <1>4, NumbersAre
<1>6. /\ ev \in DownEvents
      /\ ev.type = "started" /\ ev.response = r /\ ev.event = 0
  <2>1. "started" \in About \union {"refused", "speech started", "speech stopped"}
    BY DEF About, Playing
  <2>2. r \in Responses \union {0} /\ 0 \in EventIds \union {0} /\ TRUE \in BOOLEAN
    OBVIOUS
  <2> QED BY <1>3, <2>1, <2>2 DEF Event, DownEvents
<1>7. Types'
  <2>1. down' \in Seq(DownEvents)
    BY <1>1, <1>4, <1>6, DownGrows
  <2>2. played' \in 0..created /\ played' \in audible' \union {0} /\ audible' \subseteq 1..created
    BY <1>1, <1>4, <1>5 DEF Types
  <2> QED BY <1>1, <1>2, <1>4, <2>1, <2>2 DEF Types, UpKept
<1>8. \A x \in DownEvents : True(x) => True(x)'
  BY <1>4 DEF True, Playing
<1>9. True(ev)'
  BY <1>4, <1>5, <1>6 DEF True, About, Playing
<1>10. InOrder'
  BY <1>1, <1>2, <1>3, <1>4, <1>6, OrderStarts
<1>11. Silencing'
  <2>1. \A s : Seen(s)' <=> Seen(s)
    BY <1>1, <1>4, <1>6, SeenStays
  <2>2. \A s \in Valid \ cut : Seen(s) /\ speaks[s] # {} /\ owned[s] = <<>> => s \in audible /\ played # s
    BY <1>1 DEF Silencing
  <2>3. Valid' = Valid
    BY <1>2 DEF Valid
  <2>4. \A s \in Valid' \ cut' : Seen(s)' /\ speaks'[s] # {} /\ owned'[s] = <<>> => s \in audible' /\ played' # s
    BY <1>2, <1>4, <2>1, <2>2, <2>3
  <2>5. Underway("started", r)'
    BY <1>1, <1>4, <1>6, UnderwayGrows
  <2> QED BY <1>4, <2>4, <2>5 DEF Silencing
<1> QED BY <1>4, <1>6, <1>7, <1>8, <1>9, <1>10, <1>11, Emitted

LEMMA UserSpeaksStep ==
  ASSUME ReplyInv, UpKept, UNCHANGED Others, NEW value \in BOOLEAN, UserSpeaks(value)
  PROVE  ReplyInv'
<1>1. Types /\ Truthful /\ InOrder /\ Silencing
  BY DEF ReplyInv
<1>2. UNCHANGED <<pending, requested, owned, responding, invalidTasks, invalidResponses, playing,
                  userSpeaking, awaitingUser, holds, timer, asked, restored>>
  BY OthersAre
<1>3. PICK type \in {"speech started", "speech stopped"} :
        type = IF value THEN "speech started" ELSE "speech stopped"
  OBVIOUS
<1>4. PICK ev : ev = Event(type, 0, 0, TRUE)
  OBVIOUS
<1>5. /\ speech' = value /\ down' = Append(down, ev)
      /\ UNCHANGED <<generating, played, audible, cut, origin, speaks, created>>
  BY <1>3, <1>4 DEF UserSpeaks, Emit
<1>6. ev \in DownEvents /\ ev.type = type /\ ev.response = 0 /\ ev.event = 0
  <2>1. type \in About \union {"refused", "speech started", "speech stopped"}
    OBVIOUS
  <2>2. 0 \in Responses \union {0} /\ 0 \in EventIds \union {0} /\ TRUE \in BOOLEAN
    OBVIOUS
  <2> QED BY <1>4, <2>1, <2>2 DEF Event, DownEvents
<1>7. Types'
  <2>1. down' \in Seq(DownEvents)
    BY <1>1, <1>5, <1>6, DownGrows
  <2>2. speech' \in BOOLEAN
    BY <1>5
  <2> QED BY <1>1, <1>2, <1>5, <2>1, <2>2 DEF Types, UpKept
<1>8. \A x \in DownEvents : True(x) => True(x)'
  BY <1>5 DEF True
<1>9. True(ev)'
  BY <1>3, <1>6 DEF True, About, Playing
<1>10. InOrder'
  BY <1>1, <1>2, <1>5, <1>6, OrderGrows DEF Playing
<1>11. Silencing'
  <2>1. \A r : (Underway("started", r)' <=> Underway("started", r)) /\ (Seen(r)' <=> Seen(r))
    BY <1>1, <1>5, <1>6, UnderwayGrows, SeenStays
  <2> QED BY <1>1, <1>2, <1>5, <2>1, ClearKept DEF Silencing, Valid
<1> QED BY <1>5, <1>6, <1>7, <1>8, <1>9, <1>10, <1>11, Emitted

-----------------------------------------------------------------------------
(* Steps of the provider that create a response or refuse to               *)

LEMMA NewResponse ==
  ASSUME Types, Truthful, created' = created + 1, created' \in Responses, NEW ev \in DownEvents,
         ev.type = "created", ev.response = created', down' = Append(down, ev)
  PROVE  /\ created' \in 1..created' /\ created' \notin 1..created /\ 1..created \subseteq 1..created'
         /\ 0..created \subseteq 0..created' /\ created' \in 0..Cardinality(Responses)
         /\ \A n \in DOMAIN down : down[n].response # created'
         /\ \A r : Seen(r)' <=> Seen(r)
         /\ \A type, r : type # "created" => (Underway(type, r)' <=> Underway(type, r))
<1>1. /\ created' \in 1..created' /\ created' \notin 1..created /\ created' # 0
      /\ 0..created \subseteq 0..created'
      /\ \A r \in 1..created' : r = created' \/ r \in 1..created
      /\ \A r \in 1..created : r \in 1..created'
  BY NumbersAre
<1>2. created' \in 0..Cardinality(Responses)
  BY ResponsesAre, NumbersAre
<1>3. \A n \in DOMAIN down : down[n].response # created'
  <2>1. \A n \in DOMAIN down : down[n].response \in 1..created \/ down[n].response = 0
    BY DEF Truthful, True
  <2> QED BY <1>1, <2>1
<1>4. \A type, r : Underway(type, r)' <=> Underway(type, r) \/ (ev.type = type /\ ev.response = r)
  BY UnderwayGrows
<1>5. ~Underway("created", created')
  BY <1>3, DownIs
<1>6. ASSUME NEW r PROVE Seen(r)' <=> Seen(r)
  BY <1>1, <1>4, <1>5 DEF Seen
<1> QED BY <1>1, <1>2, <1>3, <1>4, <1>6

LEMMA StartedTypes ==
  ASSUME Types, UpKept, UNCHANGED Others, NEW e \in EventIds \union {0}, NEW s \in SUBSET Intents,
         StartResponse(e, s), NEW ev, ev = Event("created", created', e, TRUE)
  PROVE  /\ ev \in DownEvents /\ ev.type = "created" /\ ev.response = created' /\ ev.event = e
         /\ Types'
         /\ down' = Append(down, ev)
<1>1. /\ created' = created + 1 /\ created' \in Responses /\ generating' = created'
      /\ origin' = [origin EXCEPT ![created'] = e] /\ speaks' = [speaks EXCEPT ![created'] = s]
      /\ down' = Append(down, ev)
      /\ UNCHANGED <<played, audible, cut, speech>>
  BY DEF StartResponse, Emit
<1>2. UNCHANGED <<pending, requested, owned, responding, invalidTasks, invalidResponses, playing,
                  userSpeaking, awaitingUser, holds, timer, asked, restored>>
  BY OthersAre
<1>3. ev \in DownEvents /\ ev.type = "created" /\ ev.response = created' /\ ev.event = e
  <2>1. "created" \in About \union {"refused", "speech started", "speech stopped"}
    BY DEF About
  <2>2. created' \in Responses \union {0} /\ e \in EventIds \union {0} /\ TRUE \in BOOLEAN
    BY <1>1
  <2> QED BY <2>1, <2>2 DEF Event, DownEvents
<1>4. /\ created' \in 0..Cardinality(Responses) /\ created' \in 0..created'
      /\ 0..created \subseteq 0..created' /\ 1..created \subseteq 1..created'
  BY <1>1, ResponsesAre, NumbersAre
<1>5. down' \in Seq(DownEvents)
  BY <1>1, <1>3, DownGrows
<1>6. origin' \in [Responses -> EventIds \union {0}]
  BY <1>1 DEF Types
<1>7. speaks' \in [Responses -> SUBSET Intents]
  BY <1>1 DEF Types
<1>8. /\ {playing, generating, played}' \subseteq 0..created' /\ played' \in audible' \union {0}
      /\ (responding \union invalidResponses \union audible \union cut)' \subseteq 1..created'
  BY <1>1, <1>2, <1>4 DEF Types
<1>9. Types'
  BY <1>1, <1>2, <1>4, <1>5, <1>6, <1>7, <1>8 DEF Types, UpKept
<1> QED BY <1>1, <1>3, <1>9

LEMMA StartedIsTrue ==
  ASSUME Types, Truthful, InOrder, Types', UNCHANGED Others,
         NEW e \in EventIds \union {0}, NEW s \in SUBSET Intents, StartResponse(e, s),
         NEW ev \in DownEvents, ev = Event("created", created', e, TRUE),
         ev.type = "created", ev.response = created', ev.event = e
  PROVE  Truthful' /\ InOrder'
<1>1. /\ created' = created + 1 /\ created' \in Responses
      /\ origin' = [origin EXCEPT ![created'] = e]
      /\ down' = Append(down, ev)
      /\ UNCHANGED <<played, audible, cut, playing>>
  BY OthersAre DEF StartResponse, Emit
<1>2. /\ created' \in 1..created' /\ created' \notin 1..created /\ 1..created \subseteq 1..created'
      /\ \A n \in DOMAIN down : down[n].response # created'
  BY <1>1, NewResponse
<1>3. origin'[created'] = e /\ \A r \in 1..created : origin'[r] = origin[r]
  <2>1. origin \in [Responses -> EventIds \union {0}] /\ 1..created \subseteq Responses
    BY NumbersAre DEF Types
  <2> QED BY <1>1, <1>2, <2>1
<1>4. ASSUME NEW x \in DownEvents, True(x) PROVE True(x)'
  <2>1. IF x.type \in About THEN x.response \in 1..created' ELSE x.response = 0
    BY <1>2, <1>4 DEF True
  <2>2. x.type \in {"created", "done"} => x.event = origin'[x.response]
    BY <1>3, <1>4 DEF True, About
  <2> QED BY <1>1, <1>4, <2>1, <2>2 DEF True
<1>5. True(ev)'
  BY <1>2, <1>3 DEF True, About, Playing
<1>6. Truthful'
  BY <1>1, <1>4, <1>5, TruthGrows
<1>7. InOrder'
  <2>1. audible \subseteq 1..created
    BY DEF Types
  <2>2. ev.response \notin audible /\ \A n \in DOMAIN down : down[n].response # ev.response
    BY <1>2, <2>1
  <2> QED BY <1>1, <2>2, OrderGrows DEF Playing
<1> QED BY <1>6, <1>7

LEMMA ReplyStep ==
  ASSUME ReplyInv, Reply
  PROVE  ReplyInv'
<1>1. Types /\ Truthful /\ InOrder /\ OneRequest /\ OnePlace /\ Silencing /\ NoneLost
  BY DEF ReplyInv
<1>2. StartResponse(0, {}) /\ UNCHANGED Others /\ up' = up
  BY DEF Reply, Others, client
<1>3. UNCHANGED <<pending, requested, owned, responding, invalidTasks, invalidResponses, playing,
                  userSpeaking, awaitingUser, holds, timer, asked, restored>>
  BY <1>2, OthersAre
<1>4. UpKept
  BY <1>1, <1>2, FewerSame DEF UpKept, Types
<1>5. PICK ev : ev = Event("created", created', 0, TRUE)
  OBVIOUS
<1>6. 0 \in EventIds \union {0} /\ {} \in SUBSET Intents
  OBVIOUS
<1>7. /\ ev \in DownEvents /\ ev.type = "created" /\ ev.response = created' /\ ev.event = 0
      /\ Types' /\ down' = Append(down, ev)
  BY <1>1, <1>2, <1>4, <1>5, <1>6, StartedTypes
<1>8. Truthful' /\ InOrder'
  BY <1>1, <1>2, <1>5, <1>6, <1>7, StartedIsTrue
<1>9. /\ created' = created + 1 /\ created' \in Responses
      /\ origin' = [origin EXCEPT ![created'] = 0] /\ speaks' = [speaks EXCEPT ![created'] = {}]
      /\ UNCHANGED <<played, audible, cut>>
  BY <1>2 DEF StartResponse
<1>10. /\ created' \in 1..created' /\ created' \notin 1..created
       /\ \A r : Seen(r)' <=> Seen(r)
       /\ \A r : Underway("started", r)' <=> Underway("started", r)
  BY <1>1, <1>7, <1>9, NewResponse
<1>11. origin[created'] = 0 /\ speaks[created'] = {}
  <2>1. ~Seen(created') /\ \A n \in DOMAIN down : down[n].response # created'
    BY <1>1, <1>7, <1>9, <1>10, NewResponse DEF Seen
  <2> QED BY <1>1, <1>9, <2>1, Unseen DEF Opens
<1>12. UNCHANGED <<origin, speaks>>
  <2>1. origin \in [Responses -> EventIds \union {0}] /\ speaks \in [Responses -> SUBSET Intents]
    BY <1>1 DEF Types
  <2> QED BY <1>9, <1>11, <2>1
<1>13. OneRequest'
  <2>1. Fewer(down, down') /\ Fewer(up, up')
    BY <1>1, <1>4, <1>7, DownFewer DEF UpKept
  <2>2. created' \in Nat /\ created <= created'
    BY <1>1, <1>9, NumbersAre
  <2> QED BY <1>1, <1>3, <1>7, <1>10, <1>12, <2>1, <2>2, RequestStays
<1>14. OnePlace'
  BY <1>1, <1>3, <1>10, <1>12, PlacesStay
<1>15. Silencing'
  BY <1>1, <1>2, <1>3, <1>9, <1>10, <1>12 DEF Silencing, Valid
<1>16. NoneLost'
  BY <1>1, <1>3, <1>12, LostStays
<1> QED BY <1>7, <1>8, <1>13, <1>14, <1>15, <1>16 DEF ReplyInv

(* The provider takes an event.                                            *)
LEMMA UpTaken ==
  ASSUME Types, up # <<>>, up' = Tail(up), NEW m, m = Head(up)
  PROVE  /\ m \in UpEvents /\ up' \in Seq(UpEvents) /\ Fewer(up, up')
         /\ m.type # "clear" => UpKept
         /\ 1 \in DOMAIN up /\ up[1] = m
         /\ 1 \in Opens(up) /\ (\A k, n \in Opens(up) : k = n) => Opens(up') = {}
<1>1. up \in Seq(UpEvents)
  BY DEF Types
<1>2. /\ m \in UpEvents /\ up' \in Seq(UpEvents) /\ 1 \in DOMAIN up /\ up[1] = m
      /\ ToSet(up) = ToSet(up') \union {m}
  BY <1>1, Tailed
<1>3. /\ Fewer(up, up')
      /\ 1 \in Opens(up) /\ (\A k, n \in Opens(up) : k = n) => Opens(up') = {}
  BY <1>1, FewerTail
<1>4. m.type # "clear" => m # ClearEvent
  BY DEF ClearEvent
<1> QED BY <1>2, <1>3, <1>4 DEF UpKept

(* A request that arrives is the one the client waits for.                 *)
LEMMA CreateTaken ==
  ASSUME ReplyInv, Taken("create"), NEW m, m = Head(up)
  PROVE  /\ UpKept /\ Opens(up') = {} /\ Opens(down) = {}
         /\ m.event = requested.event /\ m.intents = requested.intents
         /\ requested.event \in EventIds /\ requested.event # 0
         /\ \A r \in Responses : origin[r] # requested.event
<1>1. Types /\ OneRequest
  BY DEF ReplyInv
<1>2. up # <<>> /\ m.type = "create" /\ up' = Tail(up)
  BY DEF Taken
<1>3. /\ m \in UpEvents /\ UpKept /\ 1 \in DOMAIN up /\ up[1] = m
      /\ 1 \in Opens(up) /\ (\A k, n \in Opens(up) : k = n) => Opens(up') = {}
  BY <1>1, <1>2, UpTaken
<1>4. m.event # 0
  BY <1>2, <1>3, UpTypes
<1>5. 1 \in Opens(up)
  BY <1>2, <1>3, <1>4 DEF Opens
<1>6. /\ Opens(up') = {} /\ Opens(down) = {}
      /\ m = CreateEvent(requested.event, requested.intents)
      /\ \A r \in Responses : origin[r] # requested.event
  BY <1>1, <1>3, <1>5 DEF OneRequest
<1>7. m.event = requested.event /\ m.intents = requested.intents
  BY <1>6 DEF CreateEvent
<1>8. requested.event \in EventIds
  BY <1>1, <1>4, <1>7 DEF Types
<1> QED BY <1>3, <1>4, <1>6, <1>7, <1>8

LEMMA OneOpen ==
  ASSUME Types, Opens(down) = {}, NEW ev \in DownEvents, down' = Append(down, ev)
  PROVE  \A n \in Opens(down') : n = Len(down) + 1 /\ down'[n] = ev
<1>1. /\ down'[Len(down) + 1] = ev
      /\ \A n \in DOMAIN down : down'[n] = down[n]
      /\ \A n \in DOMAIN down' : n \in DOMAIN down \/ n = Len(down) + 1
  BY DownGrows
<1> SUFFICES ASSUME NEW n \in Opens(down') PROVE n = Len(down) + 1
  BY <1>1
<1>2. n \in DOMAIN down' /\ (n \in DOMAIN down => n \in Opens(down))
  BY <1>1 DEF Opens
<1> QED BY <1>1, <1>2

(* The answer to a request is on its way.                                  *)
LEMMA RequestAnswered ==
  ASSUME OneRequest, requested' = requested, Opens(up') = {},
         NEW ev, \A n \in Opens(down') : n = Len(down) + 1 /\ down'[n] = ev,
         ev.event = requested.event,
         ev.type = "created" => speaks'[ev.response] = ToSet(requested.intents),
         \A r \in Responses : Seen(r)' => origin'[r] = origin[r],
         \A r \in Responses : origin[r] # requested.event,
         \A r \in Responses : (origin'[r] = 0 => speaks'[r] = {}) /\ (r > created' => origin'[r] = 0)
  PROVE  OneRequest'
<1>1. /\ requested.event = 0 <=> requested = NoRequest
      /\ requested.intents = <<>> <=> requested = NoRequest
  BY DEF OneRequest
<1>2. \A m, n \in Opens(down') : m = n
  OBVIOUS
<1>3. \A n \in Opens(down') :
        /\ down'[n].event = requested.event
        /\ down'[n].type = "created" => speaks'[down'[n].response] = ToSet(requested.intents)
  OBVIOUS
<1>4. \A r \in Responses : Seen(r)' /\ origin'[r] # 0 => origin'[r] # requested.event
  OBVIOUS
<1> QED BY <1>1, <1>2, <1>3, <1>4 DEF OneRequest

LEMMA RefuseStep ==
  ASSUME ReplyInv, Taken("create"), UNCHANGED Others, NEW flag \in BOOLEAN, flag \/ OtherErrors,
         Emit(Event("refused", 0, Head(up).event, flag)),
         UNCHANGED <<generating, played, audible, cut, origin, speaks, created, speech>>
  PROVE  ReplyInv'
<1>1. Types /\ Truthful /\ InOrder /\ OneRequest /\ OnePlace /\ Silencing /\ NoneLost
  BY DEF ReplyInv
<1>2. UNCHANGED <<pending, requested, owned, responding, invalidTasks, invalidResponses, playing,
                  userSpeaking, awaitingUser, holds, timer, asked, restored>>
  BY OthersAre
<1>3. /\ UpKept /\ Opens(up') = {} /\ Opens(down) = {} /\ Head(up).event = requested.event
      /\ requested.event \in EventIds /\ requested.event # 0
      /\ \A r \in Responses : origin[r] # requested.event
  BY CreateTaken
<1>4. PICK ev : ev = Event("refused", 0, requested.event, flag)
  OBVIOUS
<1>5. /\ ev \in DownEvents /\ ev.type = "refused" /\ ev.response = 0
      /\ ev.event = requested.event /\ ev.flag = flag
  <2>1. "refused" \in About \union {"refused", "speech started", "speech stopped"}
    OBVIOUS
  <2>2. 0 \in Responses \union {0} /\ requested.event \in EventIds \union {0}
    BY <1>3
  <2> QED BY <1>4, <2>1, <2>2 DEF Event, DownEvents
<1>6. down' = Append(down, ev)
  BY <1>3, <1>4 DEF Emit
<1>7. Types'
  <2>1. down' \in Seq(DownEvents)
    BY <1>1, <1>5, <1>6, DownGrows
  <2> QED BY <1>1, <1>2, <1>3, <2>1 DEF Types, UpKept
<1>8. Truthful'
  <2>1. \A x \in DownEvents : True(x) => True(x)'
    BY DEF True
  <2>2. True(ev)'
    BY <1>3, <1>5 DEF True, About, Playing
  <2> QED BY <1>1, <1>5, <1>6, <2>1, <2>2, TruthGrows
<1>9. InOrder'
  BY <1>1, <1>2, <1>5, <1>6, OrderGrows DEF Playing
<1>10. \A r : (Seen(r)' <=> Seen(r)) /\ (Underway("started", r)' <=> Underway("started", r))
  BY <1>1, <1>5, <1>6, SeenStays, UnderwayGrows
<1>11. OneRequest'
  <2>1. \A n \in Opens(down') : n = Len(down) + 1 /\ down'[n] = ev
    BY <1>1, <1>3, <1>5, <1>6, OneOpen
  <2>2. \A r \in Responses : (origin'[r] = 0 => speaks'[r] = {}) /\ (r > created' => origin'[r] = 0)
    BY <1>1 DEF OneRequest
  <2> QED BY <1>1, <1>2, <1>3, <1>5, <2>1, <2>2, RequestAnswered
<1>12. OnePlace'
  BY <1>1, <1>2, <1>10, PlacesStay
<1>13. Silencing'
  BY <1>1, <1>2, <1>3, <1>10, ClearKept DEF Silencing, Valid
<1>14. NoneLost'
  BY <1>1, <1>2, LostStays
<1> QED BY <1>7, <1>8, <1>9, <1>11, <1>12, <1>13, <1>14 DEF ReplyInv

LEMMA AnswerStep ==
  ASSUME ReplyInv, Taken("create"), UNCHANGED Others,
         StartResponse(Head(up).event, ToSet(Head(up).intents))
  PROVE  ReplyInv'
<1> DEFINE c == created'
           new == ToSet(requested.intents)
<1>1. Types /\ Truthful /\ InOrder /\ OneRequest /\ OnePlace /\ Silencing /\ NoneLost
  BY DEF ReplyInv
<1>2. UNCHANGED <<pending, requested, owned, responding, invalidTasks, invalidResponses, playing,
                  userSpeaking, awaitingUser, holds, timer, asked, restored>>
  BY OthersAre
<1>3. /\ UpKept /\ Opens(up') = {} /\ Opens(down) = {}
      /\ Head(up).event = requested.event /\ Head(up).intents = requested.intents
      /\ requested.event \in EventIds /\ requested.event # 0
      /\ \A r \in Responses : origin[r] # requested.event
  BY CreateTaken
<1>4. new \subseteq asked /\ new \in SUBSET Intents
  <2>1. new \subseteq asked
    BY <1>1 DEF OnePlace
  <2> QED BY <1>1, <2>1 DEF Types
<1>5. StartResponse(requested.event, new) /\ requested.event \in EventIds \union {0}
  BY <1>3
<1>6. PICK ev : ev = Event("created", created', requested.event, TRUE)
  OBVIOUS
<1>7. /\ ev \in DownEvents /\ ev.type = "created" /\ ev.response = c /\ ev.event = requested.event
      /\ Types' /\ down' = Append(down, ev)
  BY <1>1, <1>3, <1>4, <1>5, <1>6, StartedTypes
<1>8. Truthful' /\ InOrder'
  BY <1>1, <1>4, <1>5, <1>6, <1>7, StartedIsTrue
<1>9. /\ c = created + 1 /\ c \in Responses
      /\ origin' = [origin EXCEPT ![c] = requested.event] /\ speaks' = [speaks EXCEPT ![c] = new]
      /\ UNCHANGED <<played, audible, cut>>
  BY <1>5 DEF StartResponse
<1>10. /\ c \in 1..c /\ c \notin 1..created /\ 1..created \subseteq 1..c
       /\ \A r : Seen(r)' <=> Seen(r)
       /\ \A r : Underway("started", r)' <=> Underway("started", r)
  BY <1>1, <1>7, <1>9, NewResponse
<1>11. /\ origin'[c] = requested.event /\ speaks'[c] = new
       /\ \A r \in Responses : r # c => origin'[r] = origin[r] /\ speaks'[r] = speaks[r]
  <2>1. origin \in [Responses -> EventIds \union {0}] /\ speaks \in [Responses -> SUBSET Intents]
    BY <1>1 DEF Types
  <2> HIDE DEF c, new
  <2> QED BY <1>9, <2>1
<1>12. /\ \A r \in Responses : ~Seen(r) => origin[r] = 0 /\ speaks[r] = {}
       /\ ~Seen(c)
  <2>1. \A r \in Responses : ~Seen(r) => origin[r] = 0 /\ speaks[r] = {}
    BY <1>1, <1>3, Unseen
  <2>2. ~Seen(c)
    BY <1>10 DEF Seen
  <2> QED BY <2>1, <2>2
<1> HIDE DEF c, new
<1>13. OneRequest'
  <2>1. \A n \in Opens(down') : n = Len(down) + 1 /\ down'[n] = ev
    BY <1>1, <1>3, <1>7, OneOpen
  <2>2. \A r \in Responses : (origin'[r] = 0 => speaks'[r] = {}) /\ (r > c => origin'[r] = 0)
    <3>1. \A r \in Responses : (origin[r] = 0 => speaks[r] = {}) /\ (r > created => origin[r] = 0)
      BY <1>1 DEF OneRequest
    <3>2. \A r \in Responses : r > c => r > created /\ r # c
      BY <1>1, <1>9, NumbersAre
    <3> QED BY <1>3, <1>11, <3>1, <3>2
  <2>3. \A r \in Responses : Seen(r)' => origin'[r] = origin[r]
    BY <1>10, <1>11, <1>12
  <2>4. speaks'[ev.response] = ToSet(requested.intents)
    BY <1>7, <1>11 DEF new
  <2>5. requested' = requested /\ ev.event = requested.event
    BY <1>2, <1>7
  <2> QED BY <1>1, <1>3, <2>1, <2>2, <2>3, <2>4, <2>5, RequestAnswered DEF c
<1>14. OnePlace'
  <2>1. /\ pending' = pending /\ requested' = requested /\ asked' = asked
        /\ invalidTasks' = invalidTasks /\ invalidResponses' = invalidResponses
        /\ owned' = owned /\ Valid' = Valid
    BY <1>2 DEF Valid
  <2>2. /\ IsInjective(pending) /\ ToSet(pending) \subseteq asked
        /\ IsInjective(requested.intents) /\ new \subseteq asked
        /\ ToSet(pending) \cap new = {}
        /\ \A r, s \in Valid : r # s => speaks[r] \cap speaks[s] = {}
    BY <1>1 DEF OnePlace, new
  <2>3. \A r \in Valid : r \in Responses /\ speaks[r] \cap ToSet(pending) = {} /\ speaks[r] \cap new = {}
    <3>1. \A r \in Valid : r \in Responses
      BY DEF Valid
    <3>2. \A r \in Valid : /\ speaks[r] \cap ToSet(pending) = {}
                           /\ Seen(r) => speaks[r] \cap new = {}
      BY <1>1 DEF OnePlace, new
    <3> QED BY <1>12, <3>1, <3>2
  <2>4. ASSUME NEW r \in Responses
        PROVE  /\ IsInjective(owned[r]) /\ speaks'[r] \subseteq asked
               /\ owned[r] # <<>> => /\ Seen(r)' /\ r \in Valid /\ ToSet(owned[r]) = speaks'[r]
                                     /\ speaks'[r] \cap invalidTasks = {}
               /\ r \in invalidResponses => Seen(r)'
    <3>1. /\ IsInjective(owned[r]) /\ speaks[r] \subseteq asked
          /\ owned[r] # <<>> => /\ Seen(r) /\ r \in Valid /\ ToSet(owned[r]) = speaks[r]
                                /\ speaks[r] \cap invalidTasks = {}
          /\ r \in invalidResponses => Seen(r)
      BY <1>1 DEF OnePlace
    <3>2. CASE r = c
      BY <1>4, <1>11, <1>12, <2>2, <3>1, <3>2
    <3>3. CASE r # c
      BY <1>10, <1>11, <3>1, <3>3
    <3> QED BY <3>2, <3>3
  <2>5. ASSUME NEW r \in Valid
        PROVE  /\ speaks'[r] \cap ToSet(pending) = {}
               /\ Seen(r)' => speaks'[r] \cap new = {}
    BY <1>10, <1>11, <1>12, <2>2, <2>3
  <2>6. ASSUME NEW r \in Valid, NEW s \in Valid, r # s PROVE speaks'[r] \cap speaks'[s] = {}
    BY <1>11, <2>2, <2>3, <2>6
  <2> QED BY <2>1, <2>2, <2>4, <2>5, <2>6 DEF OnePlace, new
<1>15. Silencing'
  <2>1. \A r \in Valid \ cut : Seen(r) /\ speaks[r] # {} /\ owned[r] = <<>> => r \in audible /\ played # r
    BY <1>1 DEF Silencing
  <2>2. \A r \in invalidResponses : played = r => ClearEvent \in ToSet(up) \/ Underway("started", r)
    BY <1>1 DEF Silencing
  <2>3. \A r \in Valid' \ cut' : Seen(r)' /\ speaks'[r] # {} /\ owned'[r] = <<>> => r \in audible' /\ played' # r
    BY <1>2, <1>9, <1>10, <1>11, <1>12, <2>1 DEF Valid
  <2>4. \A r \in invalidResponses' : played' = r => ClearEvent \in ToSet(up') \/ Underway("started", r)'
    BY <1>1, <1>2, <1>3, <1>9, <1>10, <2>2, ClearKept
  <2> QED BY <2>3, <2>4 DEF Silencing
<1>16. NoneLost'
  <2>1. \A r \in Responses : speaks[r] \subseteq speaks'[r]
    BY <1>9, <1>11, <1>12
  <2>2. \A i \in asked \ invalidTasks : OtherErrors
          \/ i \in ToSet(pending) \union new \/ \E r \in Responses \ invalidResponses : i \in speaks[r]
    BY <1>1 DEF NoneLost, NoResultLost, new
  <2>3. \A i \in asked \ invalidTasks : OtherErrors
          \/ i \in ToSet(pending) \union new \/ \E r \in Responses \ invalidResponses : i \in speaks'[r]
    BY <2>1, <2>2
  <2> QED BY <1>2, <2>3 DEF NoneLost, NoResultLost, new
<1> QED BY <1>7, <1>8, <1>13, <1>14, <1>15, <1>16 DEF ReplyInv

LEMMA TakeStep ==
  ASSUME ReplyInv, TakeCreate \/ TakeCancel \/ TakeClear
  PROVE  ReplyInv'
<1>1. Types /\ Silencing
  BY DEF ReplyInv
<1>2. UNCHANGED Others /\ up # <<>> /\ up' = Tail(up)
  BY DEF TakeCreate, TakeCancel, TakeClear, Taken
<1>3. CASE TakeCreate
  <2>1. Taken("create")
    BY <1>3 DEF TakeCreate
  <2>2. CASE StartResponse(Head(up).event, ToSet(Head(up).intents))
    BY <1>2, <2>1, <2>2, AnswerStep
  <2>3. ASSUME NEW flag \in BOOLEAN, flag \/ OtherErrors, Emit(Event("refused", 0, Head(up).event, flag)),
               UNCHANGED <<generating, played, audible, cut, origin, speaks, created, speech>>
        PROVE  ReplyInv'
    BY <1>2, <2>1, <2>3, RefuseStep
  <2>4. CASE /\ Emit(Event("refused", 0, Head(up).event, TRUE))
             /\ UNCHANGED <<generating, played, audible, cut, origin, speaks, created, speech>>
    BY <2>3, <2>4
  <2>5. CASE /\ OtherErrors
             /\ Emit(Event("refused", 0, Head(up).event, FALSE))
             /\ UNCHANGED <<generating, played, audible, cut, origin, speaks, created, speech>>
    BY <2>3, <2>5
  <2> QED BY <1>3, <2>2, <2>4, <2>5 DEF TakeCreate
<1>4. CASE TakeCancel
  <2>1. Head(up).type = "cancel"
    BY <1>4 DEF TakeCancel, Taken
  <2>2. UpKept
    BY <1>1, <1>2, <2>1, UpTaken
  <2>3. CASE EndGenerating(FALSE)
    BY <1>2, <2>2, <2>3, EndGeneratingStep
  <2>4. CASE UNCHANGED provider
    BY <1>2, <2>2, <2>4, Untouched
  <2> QED BY <1>4, <2>3, <2>4 DEF TakeCancel
<1>5. CASE TakeClear
  <2>1. up' \in Seq(UpEvents) /\ Fewer(up, up')
    BY <1>1, <1>2, UpTaken
  <2>2. CASE EndPlaying
    <3>1. UpKept
      BY <2>1, <2>2 DEF EndPlaying, UpKept
    <3> QED BY <1>2, <2>2, <3>1, EndPlayingStep
  <2>3. CASE played = 0 /\ UNCHANGED provider
    <3>1. UpKept
      BY <2>1, <2>3 DEF provider, UpKept
    <3> QED BY <1>2, <2>3, <3>1, Untouched
  <2> QED BY <1>5, <2>2, <2>3 DEF TakeClear
<1> QED BY <1>3, <1>4, <1>5

-----------------------------------------------------------------------------
(* Steps of the client but for its observations                            *)

LEMMA ProviderRests ==
  ASSUME Types, Truthful, InOrder, UNCHANGED provider, playing' = playing
  PROVE  /\ UNCHANGED <<down, generating, played, audible, cut, origin, speaks, created, speech>>
         /\ Truthful' /\ InOrder'
         /\ \A r : Seen(r)' <=> Seen(r)
         /\ \A type, r : Underway(type, r)' <=> Underway(type, r)
<1>1. UNCHANGED <<down, generating, played, audible, cut, origin, speaks, created, speech>>
  BY DEF provider
<1>2. Truthful'
  BY <1>1 DEF Truthful, True
<1>3. InOrder'
  BY <1>1 DEF InOrder, Underway
<1>4. \A type, r : Underway(type, r)' <=> Underway(type, r)
  BY <1>1 DEF Underway
<1>5. \A r : Seen(r)' <=> Seen(r)
  BY <1>1, <1>4 DEF Seen
<1> QED BY <1>1, <1>2, <1>3, <1>4, <1>5

(* Nothing that is sent or kept is touched.                                *)
LEMMA GatesStep ==
  ASSUME ReplyInv, UNCHANGED provider,
         UNCHANGED <<queueVars, responding, invalidTasks, invalidResponses, playing, up, asked, restored>>,
         holds' \subseteq Holds, {userSpeaking, awaitingUser, timer}' \subseteq BOOLEAN
  PROVE  ReplyInv'
<1>1. Types /\ Truthful /\ InOrder /\ OneRequest /\ OnePlace /\ Silencing /\ NoneLost
  BY DEF ReplyInv
<1>2. UNCHANGED <<pending, requested, owned, responding, invalidTasks, invalidResponses, playing, up,
                  asked, restored>>
  BY DEF queueVars
<1>3. /\ UNCHANGED <<down, generating, played, audible, cut, origin, speaks, created, speech>>
      /\ Truthful' /\ InOrder'
      /\ \A r : Seen(r)' <=> Seen(r)
      /\ \A type, r : Underway(type, r)' <=> Underway(type, r)
  BY <1>1, <1>2, ProviderRests
<1>4. Types'
  BY <1>1, <1>2, <1>3 DEF Types
<1>5. OneRequest'
  <2>1. Fewer(down, down') /\ Fewer(up, up')
    BY <1>2, <1>3, FewerSame
  <2>2. created' \in Nat /\ created <= created'
    BY <1>1, <1>3, NumbersAre
  <2> QED BY <1>1, <1>2, <1>3, <1>4, <2>1, <2>2, RequestStays
<1>6. OnePlace'
  BY <1>1, <1>2, <1>3, PlacesStay
<1>7. Silencing'
  BY <1>1, <1>2, <1>3 DEF Silencing, Valid
<1>8. NoneLost'
  BY <1>1, <1>2, <1>3, LostStays
<1> QED BY <1>3, <1>4, <1>5, <1>6, <1>7, <1>8 DEF ReplyInv

LEMMA UserStep ==
  ASSUME ReplyInv, User
  PROVE  ReplyInv'
<1>1. UNCHANGED provider /\ UNCHANGED <<asked, restored>>
  BY DEF User
<1>2. holds \subseteq Holds /\ {userSpeaking, awaitingUser, timer} \subseteq BOOLEAN
  BY DEF ReplyInv, Types
<1>3. CASE UserTurn
  <2>1. /\ UNCHANGED <<queueVars, responding, invalidTasks, invalidResponses, playing, up>>
        /\ holds' \subseteq Holds /\ {userSpeaking, awaitingUser, timer}' \subseteq BOOLEAN
    BY <1>2, <1>3 DEF UserTurn
  <2> QED BY <1>1, <2>1, GatesStep
<1>4. ASSUME NEW h \in Holds, NEW value \in BOOLEAN, SetHold(h, value) PROVE ReplyInv'
  <2>1. /\ UNCHANGED <<queueVars, responding, invalidTasks, invalidResponses, playing, up>>
        /\ holds' \subseteq Holds /\ {userSpeaking, awaitingUser, timer}' \subseteq BOOLEAN
    BY <1>2, <1>4 DEF SetHold
  <2> QED BY <1>1, <2>1, GatesStep
<1> QED BY <1>3, <1>4 DEF User

LEMMA AnnounceStep ==
  ASSUME ReplyInv, NEW i \in Intents, Announce(i)
  PROVE  ReplyInv'
<1>1. Types /\ Truthful /\ InOrder /\ OneRequest /\ OnePlace /\ Silencing /\ NoneLost
  BY DEF ReplyInv
<1>2. /\ i \notin asked /\ i \notin invalidTasks
      /\ pending' = Append(pending, i) /\ timer' = TRUE /\ asked' = asked \union {i}
      /\ UNCHANGED <<requested, owned, responding, invalidTasks, invalidResponses, playing,
                     userSpeaking, awaitingUser, holds, up, restored>>
      /\ UNCHANGED provider
  BY DEF Announce, Request, gateVars
<1>3. /\ UNCHANGED <<down, generating, played, audible, cut, origin, speaks, created, speech>>
      /\ Truthful' /\ InOrder'
      /\ \A r : Seen(r)' <=> Seen(r)
      /\ \A type, r : Underway(type, r)' <=> Underway(type, r)
  BY <1>1, <1>2, ProviderRests
<1>4. pending' \in Seq(Intents) /\ ToSet(pending') = ToSet(pending) \union {i}
  <2>1. pending \in Seq(Intents)
    BY <1>1 DEF Types
  <2>2. ToSet(Append(pending, i)) = ToSet(pending) \union {i}
    BY <2>1, AppendedSet
  <2>3. Append(pending, i) \in Seq(Intents)
    BY <2>1, AppendProperties
  <2> QED BY <1>2, <2>2, <2>3
<1>5. Types'
  BY <1>1, <1>2, <1>3, <1>4 DEF Types
<1>6. OneRequest'
  <2>1. Fewer(down, down') /\ Fewer(up, up')
    BY <1>2, <1>3, FewerSame
  <2>2. created' \in Nat /\ created <= created'
    BY <1>1, <1>3, NumbersAre
  <2> QED BY <1>1, <1>2, <1>3, <1>5, <2>1, <2>2, RequestStays
<1>7. OnePlace'
  <2>1. /\ IsInjective(pending) /\ ToSet(pending) \subseteq asked
        /\ IsInjective(requested.intents) /\ ToSet(requested.intents) \subseteq asked
        /\ ToSet(pending) \cap ToSet(requested.intents) = {}
        /\ \A r, s \in Valid : r # s => speaks[r] \cap speaks[s] = {}
    BY <1>1 DEF OnePlace
  <2>2. \A r \in Responses :
          /\ IsInjective(owned[r]) /\ speaks[r] \subseteq asked
          /\ owned[r] # <<>> => /\ Seen(r) /\ r \in Valid /\ ToSet(owned[r]) = speaks[r]
                                /\ speaks[r] \cap invalidTasks = {}
          /\ r \in invalidResponses => Seen(r)
    BY <1>1 DEF OnePlace
  <2>3. \A r \in Valid : /\ r \in Responses /\ speaks[r] \cap ToSet(pending) = {}
                         /\ Seen(r) => speaks[r] \cap ToSet(requested.intents) = {}
    BY <1>1 DEF OnePlace, Valid
  <2>4. IsInjective(pending')
    <3>1. /\ \A n \in DOMAIN pending : pending'[n] = pending[n] /\ pending[n] # i
          /\ \A n \in DOMAIN pending' : n \in DOMAIN pending \/ (n = Len(pending) + 1 /\ pending'[n] = i)
      <4>1. pending \in Seq(Intents)
        BY <1>1 DEF Types
      <4>2. /\ \A n \in DOMAIN pending : pending'[n] = pending[n]
            /\ \A n \in DOMAIN pending' : n \in DOMAIN pending \/ n = Len(pending) + 1
            /\ pending'[Len(pending) + 1] = i
        BY <1>2, <4>1, Appended
      <4>3. \A n \in DOMAIN pending : pending[n] # i
        BY <1>2, <2>1 DEF ToSet
      <4> QED BY <4>2, <4>3
    <3> QED BY <2>1, <3>1 DEF IsInjective
  <2>5. Valid' = Valid
    BY <1>2 DEF Valid
  <2>6. /\ ToSet(pending') \subseteq asked' /\ ToSet(requested.intents) \subseteq asked'
        /\ ToSet(pending') \cap ToSet(requested.intents) = {}
    BY <1>2, <1>4, <2>1
  <2>7. \A r \in Responses :
          /\ IsInjective(owned[r]) /\ speaks[r] \subseteq asked'
          /\ owned[r] # <<>> => /\ Seen(r)' /\ r \in Valid /\ ToSet(owned[r]) = speaks[r]
                                /\ speaks[r] \cap invalidTasks = {}
          /\ r \in invalidResponses => Seen(r)'
    BY <1>2, <1>3, <2>2
  <2>8. \A r \in Valid : /\ speaks[r] \cap ToSet(pending') = {}
                         /\ Seen(r)' => speaks[r] \cap ToSet(requested.intents) = {}
    BY <1>2, <1>3, <1>4, <2>2, <2>3
  <2> QED BY <1>2, <1>3, <2>1, <2>4, <2>5, <2>6, <2>7, <2>8 DEF OnePlace
<1>8. Silencing'
  BY <1>1, <1>2, <1>3 DEF Silencing, Valid
<1>9. NoneLost'
  BY <1>1, <1>2, <1>3, <1>4 DEF NoneLost, NoResultLost
<1> QED BY <1>3, <1>5, <1>6, <1>7, <1>8, <1>9 DEF ReplyInv

LEMMA Least ==
  ASSUME NEW S \in SUBSET Nat, S # {}
  PROVE  Min(S) \in S
<1> DEFINE R == OpToRel(<, Nat)
<1>1. IsWellFoundedOn(R, Nat)
  BY NatLessThanWellFounded
<1>2. \A x, y \in Nat : x < y => <<x, y>> \in R
  BY DEF OpToRel
<1> HIDE DEF R
<1>3. PICK x \in S : \A y \in S : ~(<<y, x>> \in R)
  BY <1>1, WFMin
<1>4. ASSUME NEW y \in S PROVE x <= y
  <2>1. x \in Nat /\ y \in Nat /\ ~(y < x)
    BY <1>2, <1>3
  <2> QED BY <2>1
<1> QED BY <1>4 DEF Min

(* Some event id is of no request that anything still refers to.           *)
LEMMA FreshEvent ==
  ASSUME Types, Truthful, OneRequest, requested = NoRequest
  PROVE  NewEvent \in EventIds /\ \A r \in Responses : origin[r] # NewEvent
<1> DEFINE O == {origin[r] : r \in Responses}
           sent == down \o up
           used == O \union {ev.event : ev \in ToSet(sent)}
<1>1. down \in Seq(DownEvents) /\ up \in Seq(UpEvents) /\ origin \in [Responses -> EventIds \union {0}]
  BY DEF Types
<1>2. Opens(down) = {} /\ Opens(up) = {}
  BY NoneOpen
<1>3. ASSUME NEW n \in DOMAIN down PROVE down[n].event \in O \union {0}
  <2>1. True(down[n])
    BY DEF Truthful
  <2>2. CASE down[n].type \in {"created", "done"}
    <3>1. down[n].response \in 1..created /\ down[n].event = origin[down[n].response]
      BY <2>1, <2>2 DEF True, About
    <3> QED BY <3>1, NumbersAre
  <2>3. CASE down[n].type = "refused"
    <3>1. n \in Opens(down)
      BY <2>1, <2>3 DEF True, Opens
    <3> QED BY <1>2, <3>1
  <2>4. CASE down[n].type \notin {"created", "done", "refused"}
    BY <2>1, <2>4 DEF True
  <2> QED BY <2>2, <2>3, <2>4
<1>4. ASSUME NEW n \in DOMAIN up PROVE up[n].event = 0
  <2>1. up[n] \in UpEvents
    BY <1>1, LenProperties, ElementOfSeq
  <2>2. SUFFICES ASSUME up[n].event # 0 PROVE FALSE
    OBVIOUS
  <2>3. up[n].type = "create"
    BY <2>1, <2>2, UpTypes
  <2>4. n \in Opens(up)
    BY <2>2, <2>3 DEF Opens
  <2> QED BY <1>2, <2>4
<1>5. ToSet(sent) = ToSet(down) \union ToSet(up)
  <2>1. PICK S : S = DownEvents \union UpEvents
    OBVIOUS
  <2>2. down \in Seq(S) /\ up \in Seq(S)
    BY <1>1, <2>1, SeqMonotonic
  <2> QED BY <2>2, Behind
<1> HIDE DEF sent, O
<1>6. \A ev \in ToSet(sent) : ev.event \in O \union {0}
  <2>1. \A ev \in ToSet(down) : ev.event \in O \union {0}
    BY <1>3 DEF ToSet
  <2>2. \A ev \in ToSet(up) : ev.event \in O \union {0}
    BY <1>4 DEF ToSet
  <2> QED BY <1>5, <2>1, <2>2
<1>7. IsFiniteSet(O) /\ Cardinality(O) <= Cardinality(Responses)
  <2>1. origin \in Surjection(Responses, O)
    BY <1>1 DEF O, Surjection
  <2>2. IsFiniteSet(Responses)
    BY ResponsesAssumption
  <2> QED BY <2>1, <2>2, FS_Surjection
<1>8. EventIds \ O # {}
  <2> SUFFICES ASSUME EventIds \in SUBSET O PROVE FALSE
    OBVIOUS
  <2>1. IsFiniteSet(EventIds) /\ Cardinality(EventIds) <= Cardinality(O)
    BY <1>7, FS_Subset
  <2>2. Cardinality(EventIds) > Cardinality(Responses)
    BY <2>1, ConversationAssumption
  <2>3. Cardinality(EventIds) \in Nat /\ Cardinality(O) \in Nat /\ Cardinality(Responses) \in Nat
    BY <1>7, <2>1, FS_CardinalityType, ResponsesAre
  <2> QED BY <1>7, <2>1, <2>2, <2>3
<1>9. EventIds \ used # {} /\ EventIds \ used \in SUBSET Nat
  BY <1>6, <1>8, ResponsesAre
<1>10. NewEvent = Min(EventIds \ used)
  BY DEF NewEvent, O, sent
<1>11. NewEvent \in EventIds \ used
  <2> HIDE DEF used
  <2> QED BY <1>9, <1>10, Least
<1> QED BY <1>11 DEF O

LEMMA SendStep ==
  ASSUME ReplyInv, UNCHANGED provider, UNCHANGED <<asked, restored>>, Flush(NewEvent),
         ~Gated, pending # <<>>
  PROVE  ReplyInv'
<1> DEFINE e == NewEvent
           l == Len(pending)
           n == IF l < Batch THEN l ELSE Batch
           front == SubSeq(pending, 1, n)
           rest == SubSeq(pending, n + 1, l)
           m == CreateEvent(e, front)
<1>1. Types /\ Truthful /\ InOrder /\ OneRequest /\ OnePlace /\ Silencing /\ NoneLost
  BY DEF ReplyInv
<1>2. /\ timer' = FALSE /\ pending' = rest /\ requested' = [event |-> e, intents |-> front]
      /\ up' = Append(up, m)
      /\ UNCHANGED <<owned, responding, invalidTasks, invalidResponses, playing,
                     userSpeaking, awaitingUser, holds, asked, restored>>
  <2>1. /\ timer' = FALSE
        /\ UNCHANGED <<owned, responding, invalidTasks, invalidResponses, playing, gateVars>>
    BY DEF Flush
  <2>2. pending' = rest /\ requested' = [event |-> e, intents |-> front] /\ up' = Append(up, m)
    BY Zenon DEF Flush
  <2> QED BY <2>1, <2>2 DEF gateVars
<1>3. /\ UNCHANGED <<down, generating, played, audible, cut, origin, speaks, created, speech>>
      /\ Truthful' /\ InOrder'
      /\ \A r : Seen(r)' <=> Seen(r)
      /\ \A type, r : Underway(type, r)' <=> Underway(type, r)
  BY <1>1, <1>2, ProviderRests
<1>4. requested = NoRequest /\ requested.intents = <<>>
  BY DEF Gated, Busy, NoRequest
<1>5. e \in EventIds /\ \A r \in Responses : origin[r] # e
  BY <1>1, <1>4, FreshEvent
<1>6. e # 0 /\ e \in EventIds \union {0}
  BY <1>5, ResponsesAre
<1> HIDE DEF e, l, n
<1>7. /\ front \in Seq(Intents) /\ rest \in Seq(Intents) /\ IsInjective(front) /\ IsInjective(rest)
      /\ ToSet(front) \union ToSet(rest) = ToSet(pending)
      /\ ToSet(front) \cap ToSet(rest) = {}
      /\ front # <<>>
  <2>1. pending \in Seq(Intents) /\ IsInjective(pending)
    BY <1>1 DEF Types, OnePlace
  <2> HIDE DEF front, rest
  <2> QED BY <2>1, Batched DEF front, rest, n, l
<1> HIDE DEF front, rest
<1>8. m \in UpEvents /\ m.event = e
  BY <1>5, <1>7 DEF UpEvents, CreateEvent
<1>9. /\ up' \in Seq(UpEvents) /\ ToSet(up) \subseteq ToSet(up')
       /\ \A k \in Opens(up') : k = Len(up) + 1 /\ up'[k] = m
  <2>1. up \in Seq(UpEvents)
    BY <1>1 DEF Types
  <2>2. /\ up' \in Seq(UpEvents) /\ up'[Len(up) + 1] = m
        /\ \A k \in DOMAIN up : k \in DOMAIN up' /\ up'[k] = up[k]
        /\ \A k \in DOMAIN up' : k \in DOMAIN up \/ k = Len(up) + 1
    <3> HIDE DEF m
    <3> QED BY <1>2, <1>8, <2>1, Appended
  <2>3. Opens(up) = {}
    BY <1>1, <1>4, NoneOpen
  <2>4. ASSUME NEW k \in Opens(up') PROVE k = Len(up) + 1
    <3>1. k \in DOMAIN up => k \in Opens(up)
      BY <2>2 DEF Opens
    <3> QED BY <2>2, <2>3, <3>1 DEF Opens
  <2> QED BY <2>2, <2>4 DEF ToSet
<1>10. Types'
  <2>1. requested' \in [event : EventIds \union {0}, intents : Seq(Intents)]
    BY <1>2, <1>6, <1>7
  <2> QED BY <1>1, <1>2, <1>3, <1>7, <1>9, <2>1 DEF Types
<1>11. OneRequest'
  <2>1. requested'.event = e /\ requested'.intents = front /\ requested' # NoRequest
    BY <1>2, <1>6 DEF NoRequest
  <2>2. Opens(down') = {}
    BY <1>1, <1>3, <1>4, NoneOpen
  <2>3. \A r \in Responses : (origin[r] = 0 => speaks[r] = {}) /\ (r > created => origin[r] = 0)
    BY <1>1 DEF OneRequest
  <2>4. \A k \in Opens(up') : up'[k] = CreateEvent(requested'.event, requested'.intents)
    BY <1>9, <2>1
  <2> QED BY <1>3, <1>5, <1>6, <1>7, <1>9, <2>1, <2>2, <2>3, <2>4 DEF OneRequest
<1>12. OnePlace'
  <2>1. Valid' = Valid /\ requested'.intents = front
    BY <1>2 DEF Valid
  <2>2. /\ ToSet(pending) \subseteq asked
        /\ \A r \in Responses :
             /\ IsInjective(owned[r]) /\ speaks[r] \subseteq asked
             /\ owned[r] # <<>> => /\ Seen(r) /\ r \in Valid /\ ToSet(owned[r]) = speaks[r]
                                   /\ speaks[r] \cap invalidTasks = {}
             /\ r \in invalidResponses => Seen(r)
        /\ \A r \in Valid : speaks[r] \cap ToSet(pending) = {}
        /\ \A r, s \in Valid : r # s => speaks[r] \cap speaks[s] = {}
    BY <1>1 DEF OnePlace
  <2>3. \A r \in Valid : speaks[r] \cap ToSet(rest) = {} /\ speaks[r] \cap ToSet(front) = {}
    BY <1>7, <2>2
  <2> QED BY <1>2, <1>3, <1>7, <2>1, <2>2, <2>3 DEF OnePlace
<1>13. Silencing'
  BY <1>1, <1>2, <1>3, <1>9 DEF Silencing, Valid
<1>14. NoneLost'
  <2>1. ToSet(pending) \union ToSet(requested.intents) = ToSet(pending') \union ToSet(requested'.intents)
    BY <1>2, <1>4, <1>7, NothingIsPlaced
  <2> QED BY <1>1, <1>2, <1>3, <2>1 DEF NoneLost, NoResultLost
<1> QED BY <1>3, <1>10, <1>11, <1>12, <1>13, <1>14 DEF ReplyInv

LEMMA FlushStep ==
  ASSUME ReplyInv, FlushTimer
  PROVE  ReplyInv'
<1>1. Flush(NewEvent) /\ UNCHANGED provider /\ UNCHANGED <<asked, restored>>
  BY DEF FlushTimer
<1>2. CASE Gated \/ pending = <<>>
  <2>1. /\ UNCHANGED <<queueVars, responding, invalidTasks, invalidResponses, playing, up>>
        /\ holds' = holds /\ userSpeaking' = userSpeaking /\ awaitingUser' = awaitingUser /\ timer' = FALSE
    BY <1>1, <1>2 DEF Flush, queueVars, gateVars
  <2>2. holds' \subseteq Holds /\ {userSpeaking, awaitingUser, timer}' \subseteq BOOLEAN
    BY <2>1 DEF ReplyInv, Types
  <2> QED BY <1>1, <2>1, <2>2, GatesStep
<1>3. CASE ~(Gated \/ pending = <<>>)
  BY <1>1, <1>3, SendStep
<1> QED BY <1>2, <1>3

(* A task is superseded that no response on the client's side reports.     *)
LEMMA DropStep ==
  ASSUME ReplyInv, UNCHANGED provider, UNCHANGED <<asked, restored>>,
         NEW i \in Intents, \A r \in Responses : i \notin ToSet(owned[r]),
         invalidTasks' = invalidTasks \union {i}, pending' = Current(pending, {i}),
         UNCHANGED <<owned, invalidResponses, timer, up, requested, responding, playing, gateVars>>
  PROVE  ReplyInv'
<1>1. Types /\ Truthful /\ InOrder /\ OneRequest /\ OnePlace /\ Silencing /\ NoneLost
  BY DEF ReplyInv
<1>2. /\ UNCHANGED <<down, generating, played, audible, cut, origin, speaks, created, speech>>
      /\ Truthful' /\ InOrder'
      /\ \A r : Seen(r)' <=> Seen(r)
      /\ \A type, r : Underway(type, r)' <=> Underway(type, r)
  BY <1>1, ProviderRests
<1>3. /\ pending' \in Seq(Intents) /\ IsInjective(pending')
      /\ ToSet(pending') = ToSet(pending) \ {i}
  <2>1. pending \in Seq(Intents) /\ IsInjective(pending)
    BY <1>1 DEF Types, OnePlace
  <2>2. PICK bad : bad = {i}
    OBVIOUS
  <2> QED BY <2>1, <2>2, CurrentOf
<1>4. Types'
  BY <1>1, <1>2, <1>3 DEF Types, gateVars
<1>5. OneRequest'
  <2>1. Fewer(down, down') /\ Fewer(up, up')
    BY <1>2, FewerSame
  <2>2. created' \in Nat /\ created <= created'
    BY <1>1, <1>2, NumbersAre
  <2> QED BY <1>1, <1>2, <1>4, <2>1, <2>2, RequestStays
<1>6. OnePlace'
  <2>1. Valid' = Valid
    BY DEF Valid
  <2>2. /\ ToSet(pending) \subseteq asked
        /\ IsInjective(requested.intents) /\ ToSet(requested.intents) \subseteq asked
        /\ ToSet(pending) \cap ToSet(requested.intents) = {}
        /\ \A r \in Responses :
             /\ IsInjective(owned[r]) /\ speaks[r] \subseteq asked
             /\ owned[r] # <<>> => /\ Seen(r) /\ r \in Valid /\ ToSet(owned[r]) = speaks[r]
                                   /\ speaks[r] \cap invalidTasks = {}
             /\ r \in invalidResponses => Seen(r)
        /\ \A r \in Valid : /\ speaks[r] \cap ToSet(pending) = {}
                            /\ Seen(r) => speaks[r] \cap ToSet(requested.intents) = {}
        /\ \A r, s \in Valid : r # s => speaks[r] \cap speaks[s] = {}
    BY <1>1 DEF OnePlace
  <2>3. ToSet(pending') \subseteq asked /\ ToSet(pending') \cap ToSet(requested.intents) = {}
    BY <1>3, <2>2
  <2>4. \A r \in Responses : owned[r] # <<>> => speaks[r] \cap invalidTasks' = {}
    BY <2>2
  <2>5. \A r \in Valid : speaks[r] \cap ToSet(pending') = {}
    BY <1>3, <2>2
  <2> QED BY <1>2, <1>3, <2>1, <2>2, <2>3, <2>4, <2>5 DEF OnePlace
<1>7. Silencing'
  BY <1>1, <1>2 DEF Silencing, Valid
<1>8. NoneLost'
  BY <1>1, <1>2, <1>3 DEF NoneLost, NoResultLost
<1> QED BY <1>2, <1>4, <1>5, <1>6, <1>7, <1>8 DEF ReplyInv

(* A task is superseded that response r reports.                           *)
LEMMA WithdrawStep ==
  ASSUME ReplyInv, UNCHANGED provider, UNCHANGED <<asked, restored>>,
         NEW i \in Intents, NEW r \in Responses, i \in ToSet(owned[r]),
         NEW bad, bad = invalidTasks \union {i}, NEW queue, queue = Current(pending, {i}),
         invalidTasks' = bad, CancelSuperseded(r, owned[r], bad, queue, responding),
         UNCHANGED <<requested, responding, playing, gateVars>>
  PROVE  ReplyInv'
<1>1. Types /\ Truthful /\ InOrder /\ OneRequest /\ OnePlace /\ Silencing /\ NoneLost
  BY DEF ReplyInv
<1>2. /\ UNCHANGED <<down, generating, played, audible, cut, origin, speaks, created, speech>>
      /\ Truthful' /\ InOrder'
      /\ \A s : Seen(s)' <=> Seen(s)
      /\ \A type, s : Underway(type, s)' <=> Underway(type, s)
  BY <1>1, ProviderRests
<1>3. /\ invalidResponses' = invalidResponses \union {r}
      /\ owned' = [owned EXCEPT ![r] = <<>>] /\ timer' = TRUE
      /\ pending' = Current(owned[r], bad) \o queue
      /\ up' = up \o (IF r \in responding THEN <<CancelEvent(r)>> ELSE <<>>)
                  \o (IF playing = r THEN <<ClearEvent>> ELSE <<>>)
  BY DEF CancelSuperseded
<1>4. /\ up' \in Seq(UpEvents) /\ Fewer(up, up') /\ ToSet(up) \subseteq ToSet(up')
      /\ playing = r => ClearEvent \in ToSet(up')
  BY <1>1, <1>3, CancelSends
<1>5. /\ ToSet(pending) \subseteq asked
      /\ IsInjective(requested.intents) /\ ToSet(requested.intents) \subseteq asked
      /\ ToSet(pending) \cap ToSet(requested.intents) = {}
      /\ \A s \in Responses :
           /\ IsInjective(owned[s]) /\ speaks[s] \subseteq asked
           /\ owned[s] # <<>> => /\ Seen(s) /\ s \in Valid /\ ToSet(owned[s]) = speaks[s]
                                 /\ speaks[s] \cap invalidTasks = {}
           /\ s \in invalidResponses => Seen(s)
      /\ \A s \in Valid : /\ speaks[s] \cap ToSet(pending) = {}
                          /\ Seen(s) => speaks[s] \cap ToSet(requested.intents) = {}
      /\ \A s, t \in Valid : s # t => speaks[s] \cap speaks[t] = {}
  BY <1>1 DEF OnePlace
<1>6. Seen(r) /\ r \in Valid /\ ToSet(owned[r]) = speaks[r] /\ i \in speaks[r]
  <2>1. owned[r] # <<>>
    BY NothingIsPlaced
  <2> QED BY <1>5, <2>1
<1>7. /\ pending' \in Seq(Intents) /\ IsInjective(pending')
      /\ ToSet(pending') = (speaks[r] \ bad) \union (ToSet(pending) \ {i})
  <2>1. pending \in Seq(Intents) /\ IsInjective(pending) /\ owned[r] \in Seq(Intents) /\ IsInjective(owned[r])
    BY <1>1 DEF Types, OnePlace
  <2>2. PICK one : one = {i}
    OBVIOUS
  <2>3. queue \in Seq(Intents) /\ IsInjective(queue) /\ ToSet(queue) = ToSet(pending) \ {i}
    BY <2>1, <2>2, CurrentOf
  <2>4. PICK s : s = owned[r]
    OBVIOUS
  <2>5. s \in Seq(Intents) /\ IsInjective(s) /\ ToSet(s) = speaks[r] /\ ToSet(s) \cap ToSet(queue) = {}
    <3>1. s \in Seq(Intents) /\ IsInjective(s) /\ ToSet(s) = speaks[r]
      BY <1>6, <2>1, <2>4
    <3>2. speaks[r] \cap ToSet(pending) = {}
      BY <1>5, <1>6
    <3> QED BY <2>3, <3>1, <3>2
  <2>6. PICK p : p = Current(s, bad) \o queue
    OBVIOUS
  <2>7. /\ p \in Seq(Intents) /\ IsInjective(p)
        /\ ToSet(p) = (ToSet(s) \ bad) \union ToSet(queue)
    BY <2>3, <2>5, <2>6, PutBack
  <2>8. pending' = p
    BY <1>3, <2>4, <2>6
  <2> QED BY <2>3, <2>5, <2>7, <2>8
<1>8. owned'[r] = <<>> /\ \A s \in Responses : s # r => owned'[s] = owned[s]
  BY <1>1, <1>3 DEF Types
<1>9. Valid' = Valid \ {r} /\ \A s \in Valid : s \in Responses
  BY <1>3 DEF Valid
<1>10. Types'
  <2>1. owned' \in [Responses -> Seq(Intents)]
    <3>1. <<>> \in Seq(Intents) /\ owned \in [Responses -> Seq(Intents)]
      BY <1>1, EmptySeq DEF Types
    <3> QED BY <1>3, <3>1
  <2>2. invalidResponses' \subseteq 1..created
    BY <1>1, <1>3, <1>6 DEF Types, Seen
  <2> QED BY <1>1, <1>2, <1>3, <1>4, <1>7, <2>1, <2>2 DEF Types, gateVars
<1>11. OneRequest'
  <2>1. Fewer(down, down') /\ Fewer(up, up')
    BY <1>2, <1>4, FewerSame
  <2>2. created' \in Nat /\ created <= created'
    BY <1>1, <1>2, NumbersAre
  <2> QED BY <1>1, <1>2, <1>10, <2>1, <2>2, RequestStays
<1>12. OnePlace'
  <2>1. ToSet(pending') \subseteq asked /\ ToSet(pending') \cap ToSet(requested.intents) = {}
    BY <1>5, <1>6, <1>7
  <2>2. ASSUME NEW s \in Responses
        PROVE  /\ IsInjective(owned'[s])
               /\ owned'[s] # <<>> => /\ Seen(s) /\ s \in Valid' /\ ToSet(owned'[s]) = speaks[s]
                                      /\ speaks[s] \cap bad = {}
               /\ s \in invalidResponses' => Seen(s)
    <3>1. CASE s = r
      BY <1>6, <1>8, <3>1, NothingIsPlaced
    <3>2. CASE s # r
      <4>1. owned[s] # <<>> => i \notin speaks[s]
        BY <1>5, <1>6, <3>2
      <4> QED BY <1>3, <1>5, <1>8, <1>9, <3>2, <4>1
    <3> QED BY <3>1, <3>2
  <2>3. \A s \in Valid' : speaks[s] \cap ToSet(pending') = {}
    BY <1>5, <1>6, <1>7, <1>9
  <2> QED BY <1>2, <1>5, <1>7, <1>9, <2>1, <2>2, <2>3 DEF OnePlace
<1>13. Silencing'
  <2>1. \A s \in Valid \ cut : Seen(s) /\ speaks[s] # {} /\ owned[s] = <<>> => s \in audible /\ played # s
    BY <1>1 DEF Silencing
  <2>2. \A s \in invalidResponses : played = s => ClearEvent \in ToSet(up) \/ Underway("started", s)
    BY <1>1 DEF Silencing
  <2>3. \A s \in Valid' \ cut' : Seen(s)' /\ speaks'[s] # {} /\ owned'[s] = <<>> => s \in audible' /\ played' # s
    BY <1>2, <1>8, <1>9, <2>1
  <2>4. played = r => ClearEvent \in ToSet(up') \/ Underway("started", r)
    BY <1>1, <1>4 DEF InOrder
  <2>5. \A s \in invalidResponses' : played' = s => ClearEvent \in ToSet(up') \/ Underway("started", s)'
    BY <1>2, <1>3, <1>4, <2>2, <2>4
  <2> QED BY <2>3, <2>5 DEF Silencing
<1>14. NoneLost'
  <2> SUFFICES ASSUME ~OtherErrors PROVE NoResultLost'
    BY DEF NoneLost
  <2> SUFFICES ASSUME NEW j \in asked \ bad
               PROVE  \/ j \in ToSet(pending') \union ToSet(requested.intents)
                      \/ \E s \in Valid' : j \in speaks[s]
    BY <1>2 DEF NoResultLost, Valid
  <2>1. \/ j \in ToSet(pending) \union ToSet(requested.intents)
        \/ \E s \in Valid : j \in speaks[s]
    BY <1>1 DEF NoneLost, NoResultLost, Valid
  <2>2. CASE j \in ToSet(pending) \union ToSet(requested.intents)
    BY <1>7, <2>2
  <2>3. ASSUME NEW s \in Valid, j \in speaks[s]
        PROVE  j \in ToSet(pending') \/ \E t \in Valid' : j \in speaks[t]
    BY <1>7, <1>9, <2>3
  <2> QED BY <2>1, <2>2, <2>3
<1> QED BY <1>2, <1>10, <1>11, <1>12, <1>13, <1>14 DEF ReplyInv

LEMMA SupersedeStep ==
  ASSUME ReplyInv, NEW i \in Intents, Supersede(i)
  PROVE  ReplyInv'
<1>1. Invalidate(i) /\ UNCHANGED provider /\ UNCHANGED <<asked, restored>>
  BY DEF Supersede
<1>2. PICK bad : bad = invalidTasks \union {i}
  OBVIOUS
<1>3. PICK queue : queue = Current(pending, {i})
  OBVIOUS
<1>4. invalidTasks' = bad /\ UNCHANGED <<requested, responding, playing, gateVars>>
  BY <1>1, <1>2 DEF Invalidate
<1>5. \/ /\ \A r \in Responses : i \notin ToSet(owned[r])
         /\ pending' = queue
         /\ UNCHANGED <<owned, invalidResponses, timer, up>>
      \/ \E r \in Responses : /\ i \in ToSet(owned[r])
                              /\ CancelSuperseded(r, owned[r], bad, queue, responding)
  BY <1>1, <1>2, <1>3 DEF Invalidate
<1>6. CASE /\ \A r \in Responses : i \notin ToSet(owned[r])
           /\ pending' = queue
           /\ UNCHANGED <<owned, invalidResponses, timer, up>>
  BY <1>1, <1>2, <1>3, <1>4, <1>6, DropStep
<1>7. ASSUME NEW r \in Responses, i \in ToSet(owned[r]),
             CancelSuperseded(r, owned[r], bad, queue, responding)
      PROVE  ReplyInv'
  BY <1>1, <1>2, <1>3, <1>4, <1>7, WithdrawStep
<1> QED BY <1>5, <1>6, <1>7

-----------------------------------------------------------------------------
(* What the client observes                                                *)

(* The next event, taken from the channel                                  *)
Takes(ev) ==
  /\ down # <<>> /\ down' = Tail(down) /\ ev = Head(down)
  /\ UNCHANGED <<generating, played, audible, cut, origin, speaks, created, speech, asked, restored>>

LEMMA Observed ==
  ASSUME ReplyInv, NEW ev, Takes(ev),
         ev.type = "started" => playing' = ev.response,
         ev.type \notin Playing => playing' = playing
  PROVE  /\ Truthful' /\ InOrder' /\ True(ev) /\ ev \in DownEvents
         /\ down' \in Seq(DownEvents) /\ Fewer(down, down')
         /\ ev.type \in About => ev.response \in 1..created /\ ev.response \in Responses
         /\ ev.type \in About \ {"created"} => Seen(ev.response)
         /\ ev.type = "created" => ~Seen(ev.response)
         /\ \A r : Seen(r)' <=> Seen(r) \/ (ev.type = "created" /\ r = ev.response)
         /\ \A type, r : Underway(type, r) <=>
              Underway(type, r)' \/ (ev.type = type /\ ev.response = r)
<1>1. Types /\ Truthful /\ InOrder
  BY DEF ReplyInv
<1>2. /\ down # <<>> /\ down' = Tail(down) /\ ev = Head(down)
      /\ UNCHANGED <<played, audible, cut, origin, created>>
  BY DEF Takes
<1>3. down \in Seq(DownEvents)
  BY <1>1 DEF Types
<1>4. Truthful' /\ True(ev) /\ ev \in DownEvents
  <2>1. \A x : True(x)' <=> True(x)
    BY <1>2, TruthStays
  <2> QED BY <1>1, <1>2, <2>1, TruthShrinks
<1>5. InOrder'
  BY <1>1, <1>2, OrderShrinks
<1>6. down' \in Seq(DownEvents) /\ Fewer(down, down')
  <2>1. down' \in Seq(DownEvents)
    BY <1>2, <1>3, Tailed
  <2>2. Fewer(down, down')
    BY <1>2, <1>3, FewerTail
  <2> QED BY <2>1, <2>2
<1>7. \A type, r : Underway(type, r) <=> Underway(type, r)' \/ (ev.type = type /\ ev.response = r)
  BY <1>1, <1>2, UnderwayShrinks
<1>8. ev.type \in About => ev.response \in 1..created /\ ev.response \in Responses
  BY <1>1, <1>4, NumbersAre DEF True
<1>9. ev.type \in About => ~Underway("created", ev.response)'
  <2> SUFFICES ASSUME ev.type \in About, Underway("created", ev.response)' PROVE FALSE
    OBVIOUS
  <2>1. PICK n \in DOMAIN down' : down'[n].type = "created" /\ down'[n].response = ev.response
    BY Zenon DEF Underway, ToSet
  <2>2. /\ 1 \in DOMAIN down /\ ev = down[1] /\ DOMAIN down' \subseteq Nat \ {0}
        /\ n + 1 \in DOMAIN down /\ down'[n] = down[n + 1]
    BY <1>2, <1>3, Tailed
  <2>3. n + 1 <= 1
    BY <1>1, <2>1, <2>2 DEF InOrder
  <2> QED BY <2>2, <2>3
<1>10. ev.type \in About \ {"created"} => Seen(ev.response)
  BY <1>7, <1>8, <1>9 DEF Seen
<1>11. ev.type = "created" => ~Seen(ev.response)
  BY <1>7 DEF Seen
<1>12. ASSUME NEW r PROVE Seen(r)' <=> Seen(r) \/ (ev.type = "created" /\ r = ev.response)
  BY <1>2, <1>7, <1>8, <1>9 DEF Seen, About
<1> QED BY <1>4, <1>5, <1>6, <1>7, <1>8, <1>10, <1>11, <1>12

(* The queue stays as it is.                                               *)
LEMMA ObservedQuietly ==
  ASSUME ReplyInv, NEW ev, Takes(ev),
         ev.type = "started" => playing' = ev.response,
         ev.type \notin Playing => playing' = playing,
         ev.type = "created" => ev.event = 0,
         UNCHANGED <<pending, requested, invalidTasks, invalidResponses>>,
         owned' \in [Responses -> Seq(Intents)],
         \A r \in Responses : owned'[r] \in {owned[r], <<>>},
         \A r \in Responses : owned'[r] # owned[r] => r \in cut \/ (r \in audible /\ played # r),
         up' \in Seq(UpEvents), Fewer(up, up'), ToSet(up) \subseteq ToSet(up'),
         ev.type = "started" /\ ev.response \in invalidResponses => ClearEvent \in ToSet(up'),
         playing' \in 0..created, responding' \subseteq 1..created,
         holds' = holds, {userSpeaking, awaitingUser, timer}' \subseteq BOOLEAN
  PROVE  ReplyInv'
<1>1. Types /\ Truthful /\ InOrder /\ OneRequest /\ OnePlace /\ Silencing /\ NoneLost
  BY DEF ReplyInv
<1>2. UNCHANGED <<generating, played, audible, cut, origin, speaks, created, speech, asked, restored>>
  BY DEF Takes
<1>3. /\ Truthful' /\ InOrder' /\ True(ev)
      /\ down' \in Seq(DownEvents) /\ Fewer(down, down')
      /\ \A r : Seen(r)' <=> Seen(r) \/ (ev.type = "created" /\ r = ev.response)
      /\ \A type, r : Underway(type, r) <=>
           Underway(type, r)' \/ (ev.type = type /\ ev.response = r)
  BY Observed
<1>4. ev.type = "created" => origin[ev.response] = 0
  BY <1>3 DEF True
<1>5. \A r \in Responses : Seen(r)' => Seen(r) \/ (origin[r] = 0 /\ speaks[r] = {})
  BY <1>1, <1>3, <1>4 DEF OneRequest
<1>6. Types'
  <2>1. /\ pending' \in Seq(Intents)
        /\ requested' \in [event : EventIds \union {0}, intents : Seq(Intents)]
        /\ (asked \union restored \union invalidTasks)' \subseteq Intents
    BY <1>1, <1>2 DEF Types
  <2>2. /\ created' \in 0..Cardinality(Responses)
        /\ {playing, generating, played}' \subseteq 0..created' /\ played' \in audible' \union {0}
        /\ (responding \union invalidResponses \union audible \union cut)' \subseteq 1..created'
    BY <1>1, <1>2 DEF Types
  <2>3. /\ holds' \subseteq Holds /\ {userSpeaking, awaitingUser, timer, speech}' \subseteq BOOLEAN
        /\ origin' \in [Responses -> EventIds \union {0}]
        /\ speaks' \in [Responses -> SUBSET Intents]
    BY <1>1, <1>2 DEF Types
  <2> QED BY <1>3, <2>1, <2>2, <2>3 DEF Types
<1>7. OneRequest'
  <2>1. created' \in Nat /\ created <= created'
    BY <1>1, <1>2, NumbersAre
  <2> QED BY <1>1, <1>2, <1>3, <1>5, <1>6, <2>1, RequestStays
<1>8. OnePlace'
  BY <1>1, <1>2, <1>3, <1>5, PlacesStay
<1>9. Silencing'
  <2>1. \A r \in Valid \ cut : Seen(r) /\ speaks[r] # {} /\ owned[r] = <<>> => r \in audible /\ played # r
    BY <1>1 DEF Silencing
  <2>2. \A r \in invalidResponses : played = r => ClearEvent \in ToSet(up) \/ Underway("started", r)
    BY <1>1 DEF Silencing
  <2>3. Valid' = Valid /\ \A r \in Valid : r \in Responses
    BY DEF Valid
  <2>4. \A r \in Valid' \ cut' : Seen(r)' /\ speaks'[r] # {} /\ owned'[r] = <<>> => r \in audible' /\ played' # r
    BY <1>2, <1>5, <2>1, <2>3
  <2>5. \A r \in invalidResponses' : played' = r => ClearEvent \in ToSet(up') \/ Underway("started", r)'
    BY <1>2, <1>3, <2>2
  <2> QED BY <2>4, <2>5 DEF Silencing
<1>10. NoneLost'
  BY <1>1, <1>2, LostStays
<1> QED BY <1>3, <1>6, <1>7, <1>8, <1>9, <1>10 DEF ReplyInv

LEMMA SpeechStep ==
  ASSUME ReplyInv, NEW ev, Takes(ev), ev.type \in {"speech started", "speech stopped"},
         SpeechStarted \/ SpeechStopped
  PROVE  ReplyInv'
<1>1. /\ UNCHANGED <<pending, requested, owned, responding, invalidTasks, invalidResponses, playing, holds, up>>
      /\ userSpeaking' \in BOOLEAN /\ awaitingUser' \in {awaitingUser, FALSE} /\ timer' = TRUE
  BY DEF SpeechStarted, SpeechStopped, queueVars
<1>2. Types
  BY DEF ReplyInv
<1>3. /\ owned' \in [Responses -> Seq(Intents)] /\ up' \in Seq(UpEvents) /\ Fewer(up, up')
      /\ playing' \in 0..created /\ responding' \subseteq 1..created
      /\ {userSpeaking, awaitingUser, timer}' \subseteq BOOLEAN
  BY <1>1, <1>2, FewerSame DEF Types
<1>4. ev.type \notin Playing /\ ev.type # "created" /\ ev.type # "started"
  BY DEF Playing
<1> QED BY <1>1, <1>3, <1>4, ObservedQuietly

LEMMA AudioStartedStep ==
  ASSUME ReplyInv, NEW ev, Takes(ev), ev.type = "started", AudioStarted(ev.response)
  PROVE  ReplyInv'
<1> DEFINE r == ev.response
<1>1. /\ playing' = r /\ timer' = TRUE
      /\ up' = IF r \in invalidResponses THEN Append(up, ClearEvent) ELSE up
      /\ UNCHANGED <<pending, requested, owned, responding, invalidTasks, invalidResponses,
                     userSpeaking, awaitingUser, holds>>
  BY DEF AudioStarted, queueVars, gateVars
<1>2. Types
  BY DEF ReplyInv
<1>3. r \in 1..created
  BY <1>1, Observed DEF About, Playing
<1>4. /\ up' \in Seq(UpEvents) /\ Fewer(up, up') /\ ToSet(up) \subseteq ToSet(up')
      /\ r \in invalidResponses => ClearEvent \in ToSet(up')
  <2>1. up \in Seq(UpEvents)
    BY <1>2 DEF Types
  <2>2. CASE r \in invalidResponses
    <3>1. PICK m : m = ClearEvent
      OBVIOUS
    <3>2. m \in UpEvents /\ m.event = 0
      BY <3>1 DEF UpEvents, ClearEvent
    <3>3. up' = Append(up, m)
      BY <1>1, <2>2, <3>1
    <3>4. up' \in Seq(UpEvents)
      BY <2>1, <3>2, <3>3, AppendProperties
    <3>5. Fewer(up, up')
      BY <2>1, <3>2, <3>3, FewerAppend
    <3>6. ToSet(Append(up, m)) = ToSet(up) \union {m}
      BY <2>1, <3>2, AppendedSet
    <3> QED BY <3>1, <3>3, <3>4, <3>5, <3>6
  <2>3. CASE r \notin invalidResponses
    BY <1>1, <2>1, <2>3, FewerSame
  <2> QED BY <2>2, <2>3
<1>5. /\ playing' \in 0..created /\ responding' \subseteq 1..created
      /\ owned' \in [Responses -> Seq(Intents)] /\ {userSpeaking, awaitingUser, timer}' \subseteq BOOLEAN
  <2>1. \A n \in 1..created : n \in 0..created
    BY <1>2, NumbersAre
  <2>2. playing' \in 0..created
    BY <1>1, <1>3, <2>1
  <2> QED BY <1>1, <1>2, <2>2 DEF Types
<1>6. "started" \in Playing /\ "started" # "created"
  BY DEF Playing
<1> QED BY <1>1, <1>4, <1>5, <1>6, ObservedQuietly

LEMMA AudioEndedStep ==
  ASSUME ReplyInv, NEW ev, Takes(ev), ev.type = "ended", AudioEnded(ev.response)
  PROVE  ReplyInv'
<1> DEFINE r == ev.response
<1>1. /\ playing' = 0 /\ timer' = TRUE /\ owned' = [owned EXCEPT ![r] = <<>>]
      /\ UNCHANGED <<pending, requested, responding, invalidTasks, invalidResponses, up,
                     userSpeaking, awaitingUser, holds>>
  BY DEF AudioEnded, gateVars
<1>2. Types
  BY DEF ReplyInv
<1>3. "ended" \in Playing /\ "ended" # "created" /\ "ended" # "started"
  BY DEF Playing
<1>4. True(ev)
  BY <1>3, Observed
<1>5. r \in audible /\ played # r
  BY <1>3, <1>4 DEF True
<1>6. /\ owned' \in [Responses -> Seq(Intents)]
      /\ \A s \in Responses : owned'[s] \in {owned[s], <<>>}
      /\ \A s \in Responses : owned'[s] # owned[s] => s \in audible /\ played # s
  <2>1. <<>> \in Seq(Intents) /\ owned \in [Responses -> Seq(Intents)]
    BY <1>2, EmptySeq DEF Types
  <2> QED BY <1>1, <1>5, <2>1
<1>7. /\ playing' \in 0..created /\ responding' \subseteq 1..created
      /\ up' \in Seq(UpEvents) /\ Fewer(up, up')
      /\ {userSpeaking, awaitingUser, timer}' \subseteq BOOLEAN
  BY <1>1, <1>2, NumbersAre, FewerSame DEF Types
<1> QED BY <1>1, <1>3, <1>6, <1>7, ObservedQuietly

LEMMA DoneStep ==
  ASSUME ReplyInv, NEW ev, Takes(ev), ev.type = "done", Done(ev.response, ev.event, ev.flag)
  PROVE  ReplyInv'
<1> DEFINE r == ev.response
<1>1. /\ responding' = responding \ {r} /\ timer' = TRUE
      /\ owned' = [owned EXCEPT ![r] = IF ev.flag THEN @ ELSE <<>>]
      /\ requested' = IF ev.event = requested.event THEN NoRequest ELSE requested
      /\ UNCHANGED <<pending, invalidTasks, invalidResponses, playing, up,
                     userSpeaking, awaitingUser, holds>>
  BY DEF Done, gateVars
<1>2. Types /\ OneRequest
  BY DEF ReplyInv
<1>3. "done" \notin Playing /\ "done" # "created" /\ "done" \in About \ {"created"}
  BY DEF Playing, About
<1>4. True(ev) /\ Seen(r) /\ r \in Responses
  BY <1>1, <1>3, Observed
<1>5. ev.event = origin[r] /\ (ev.flag \/ r \in cut)
  BY <1>4 DEF True
<1>6. requested' = requested
  <2>1. CASE ev.event = 0
    BY <1>1, <1>2, <2>1 DEF OneRequest
  <2>2. CASE ev.event # 0
    BY <1>1, <1>2, <1>4, <1>5, <2>2 DEF OneRequest
  <2> QED BY <2>1, <2>2
<1>7. /\ owned' \in [Responses -> Seq(Intents)]
      /\ \A s \in Responses : owned'[s] \in {owned[s], <<>>}
      /\ \A s \in Responses : owned'[s] # owned[s] => s \in cut
  <2>1. <<>> \in Seq(Intents) /\ owned \in [Responses -> Seq(Intents)]
    BY <1>2, EmptySeq DEF Types
  <2> QED BY <1>1, <1>5, <2>1
<1>8. /\ playing' \in 0..created /\ responding' \subseteq 1..created
      /\ up' \in Seq(UpEvents) /\ Fewer(up, up')
      /\ {userSpeaking, awaitingUser, timer}' \subseteq BOOLEAN
  BY <1>1, <1>2, FewerSame DEF Types
<1> QED BY <1>1, <1>3, <1>6, <1>7, <1>8, ObservedQuietly

(* An answer that the client observes is that to its request.              *)
LEMMA AnswerTaken ==
  ASSUME ReplyInv, NEW ev, Takes(ev), ev.type \in {"created", "refused"}, ev.event # 0
  PROVE  /\ ev.event = requested.event /\ requested # NoRequest /\ requested.intents # <<>>
         /\ Opens(down') = {} /\ Opens(up) = {}
         /\ ev.type = "created" => speaks[ev.response] = ToSet(requested.intents)
         /\ \A n \in Opens(down) : down[n] = ev
<1>1. Types /\ OneRequest
  BY DEF ReplyInv
<1>2. down \in Seq(DownEvents) /\ down # <<>> /\ down' = Tail(down) /\ ev = Head(down)
  BY <1>1 DEF Types, Takes
<1>3. 1 \in DOMAIN down /\ down[1] = ev
  BY <1>2, Tailed
<1>4. 1 \in Opens(down)
  BY <1>3 DEF Opens
<1>5. \A m, n \in Opens(down) : m = n
  BY <1>1 DEF OneRequest
<1>6. Opens(down') = {}
  BY <1>2, <1>4, <1>5, FewerTail
<1>7. /\ Opens(up) = {} /\ down[1].event = requested.event
      /\ down[1].type = "created" => speaks[down[1].response] = ToSet(requested.intents)
  BY <1>1, <1>4 DEF OneRequest
<1>8. requested # NoRequest /\ requested.intents # <<>>
  BY <1>1, <1>3, <1>7 DEF OneRequest
<1> QED BY <1>3, <1>4, <1>5, <1>6, <1>7, <1>8

LEMMA CreatedOtherStep ==
  ASSUME ReplyInv, NEW ev, Takes(ev), ev.type = "created", ev.event = 0, Created(ev.response, 0)
  PROVE  ReplyInv'
<1> DEFINE r == ev.response
<1>1. Types
  BY DEF ReplyInv
<1>2. /\ responding' = responding \union {r} /\ requested' = requested /\ timer' = TRUE
      /\ owned' = [owned EXCEPT ![r] = @]
      /\ UNCHANGED <<pending, invalidResponses, up, invalidTasks, playing,
                     userSpeaking, awaitingUser, holds>>
  BY DEF Created, gateVars
<1>3. ev.type \notin Playing /\ ev.type # "started" /\ ev.type \in About
  BY DEF Playing, About
<1>4. r \in 1..created
  BY <1>2, <1>3, Observed
<1>5. owned' = owned
  BY <1>1, <1>2 DEF Types
<1>6. /\ owned' \in [Responses -> Seq(Intents)] /\ responding' \subseteq 1..created
      /\ playing' \in 0..created /\ up' \in Seq(UpEvents) /\ Fewer(up, up')
      /\ {userSpeaking, awaitingUser, timer}' \subseteq BOOLEAN
  BY <1>1, <1>2, <1>4, <1>5, FewerSame DEF Types
<1> QED BY <1>2, <1>3, <1>5, <1>6, ObservedQuietly

(* The response asked for, when no task it reports was superseded          *)
LEMMA AcknowledgedStep ==
  ASSUME ReplyInv, NEW ev, Takes(ev), ev.type = "created", ev.event # 0,
         ToSet(requested.intents) \cap invalidTasks = {}, Created(ev.response, ev.event)
  PROVE  ReplyInv'
<1> DEFINE r == ev.response
<1>1. Types /\ Truthful /\ InOrder /\ OneRequest /\ OnePlace /\ Silencing /\ NoneLost
  BY DEF ReplyInv
<1>2. /\ ev.event = requested.event /\ requested.intents # <<>>
      /\ Opens(down') = {} /\ Opens(up) = {} /\ speaks[r] = ToSet(requested.intents)
  BY AnswerTaken
<1>3. /\ responding' = responding \union {r} /\ requested' = NoRequest /\ timer' = TRUE
      /\ owned' = [owned EXCEPT ![r] = requested.intents]
      /\ UNCHANGED <<pending, invalidResponses, up, invalidTasks, playing,
                     userSpeaking, awaitingUser, holds>>
  BY <1>2 DEF Created, gateVars
<1>4. UNCHANGED <<generating, played, audible, cut, origin, speaks, created, speech, asked, restored>>
  BY DEF Takes
<1>5. ev.type \notin Playing /\ ev.type # "started" /\ ev.type \in About
  BY DEF Playing, About
<1>6. /\ Truthful' /\ InOrder' /\ down' \in Seq(DownEvents)
      /\ r \in 1..created /\ r \in Responses /\ ~Seen(r)
      /\ \A s : Seen(s)' <=> Seen(s) \/ s = r
      /\ \A s : Underway("started", s) => Underway("started", s)'
  <2>1. \A s : Seen(s)' <=> Seen(s) \/ s = r
    BY <1>3, <1>5, Observed
  <2>2. \A type, s : Underway(type, s) <=> Underway(type, s)' \/ (ev.type = type /\ ev.response = s)
    BY <1>3, <1>5, Observed
  <2>3. Truthful' /\ InOrder' /\ down' \in Seq(DownEvents) /\ r \in 1..created /\ r \in Responses /\ ~Seen(r)
    BY <1>3, <1>5, Observed
  <2> QED BY <2>1, <2>2, <2>3
<1>7. /\ IsInjective(pending) /\ ToSet(pending) \subseteq asked
      /\ IsInjective(requested.intents) /\ ToSet(requested.intents) \subseteq asked
      /\ ToSet(pending) \cap ToSet(requested.intents) = {}
      /\ \A s \in Responses :
           /\ IsInjective(owned[s]) /\ speaks[s] \subseteq asked
           /\ owned[s] # <<>> => /\ Seen(s) /\ s \in Valid /\ ToSet(owned[s]) = speaks[s]
                                 /\ speaks[s] \cap invalidTasks = {}
           /\ s \in invalidResponses => Seen(s)
      /\ \A s \in Valid : /\ speaks[s] \cap ToSet(pending) = {}
                          /\ Seen(s) => speaks[s] \cap ToSet(requested.intents) = {}
      /\ \A s, t \in Valid : s # t => speaks[s] \cap speaks[t] = {}
  BY <1>1 DEF OnePlace
<1>8. r \in Valid
  BY <1>6, <1>7 DEF Valid
<1>9. owned'[r] = requested.intents /\ \A s \in Responses : s # r => owned'[s] = owned[s]
  BY <1>1, <1>3, <1>6 DEF Types
<1>10. Valid' = Valid /\ \A s \in Valid : s \in Responses
  BY <1>3 DEF Valid
<1>11. ToSet(requested'.intents) = {} /\ IsInjective(requested'.intents) /\ requested'.intents = <<>>
  BY <1>3, NothingIsPlaced DEF NoRequest
<1>12. Types'
  <2>1. /\ requested.intents \in Seq(Intents) /\ owned \in [Responses -> Seq(Intents)]
        /\ <<>> \in Seq(Intents)
    BY <1>1, EmptySeq DEF Types
  <2>2. owned' \in [Responses -> Seq(Intents)]
    BY <1>3, <2>1
  <2>3. requested' \in [event : EventIds \union {0}, intents : Seq(Intents)]
    BY <1>3, <2>1 DEF NoRequest
  <2>4. responding' \subseteq 1..created
    BY <1>1, <1>3, <1>6 DEF Types
  <2> QED BY <1>1, <1>3, <1>4, <1>6, <2>2, <2>3, <2>4 DEF Types
<1>13. OneRequest'
  BY <1>1, <1>2, <1>3, <1>4, RequestEnds
<1>14. OnePlace'
  <2>1. ASSUME NEW s \in Responses
        PROVE  /\ IsInjective(owned'[s]) /\ speaks[s] \subseteq asked
               /\ owned'[s] # <<>> => /\ Seen(s)' /\ s \in Valid /\ ToSet(owned'[s]) = speaks[s]
                                      /\ speaks[s] \cap invalidTasks = {}
               /\ s \in invalidResponses => Seen(s)'
    <3>1. CASE s = r
      BY <1>2, <1>6, <1>7, <1>8, <1>9, <3>1
    <3>2. CASE s # r
      BY <1>6, <1>7, <1>9, <3>2
    <3> QED BY <3>1, <3>2
  <2> QED BY <1>3, <1>4, <1>7, <1>10, <1>11, <2>1 DEF OnePlace
<1>15. Silencing'
  <2>1. \A s \in Valid \ cut : Seen(s) /\ speaks[s] # {} /\ owned[s] = <<>> => s \in audible /\ played # s
    BY <1>1 DEF Silencing
  <2>2. \A s \in invalidResponses : played = s => ClearEvent \in ToSet(up) \/ Underway("started", s)
    BY <1>1 DEF Silencing
  <2>3. \A s \in Valid' \ cut' : Seen(s)' /\ speaks'[s] # {} /\ owned'[s] = <<>> => s \in audible' /\ played' # s
    BY <1>2, <1>4, <1>6, <1>9, <1>10, <2>1
  <2>4. \A s \in invalidResponses' : played' = s => ClearEvent \in ToSet(up') \/ Underway("started", s)'
    BY <1>3, <1>4, <1>6, <2>2
  <2> QED BY <2>3, <2>4 DEF Silencing
<1>16. NoneLost'
  <2> SUFFICES ASSUME ~OtherErrors PROVE NoResultLost'
    BY DEF NoneLost
  <2> SUFFICES ASSUME NEW j \in asked \ invalidTasks
               PROVE  j \in ToSet(pending) \/ \E s \in Valid : j \in speaks[s]
    BY <1>3, <1>4, <1>10 DEF NoResultLost, Valid
  <2>1. \/ j \in ToSet(pending) \union ToSet(requested.intents)
        \/ \E s \in Valid : j \in speaks[s]
    BY <1>1 DEF NoneLost, NoResultLost, Valid
  <2> QED BY <1>2, <1>8, <2>1
<1> QED BY <1>6, <1>12, <1>13, <1>14, <1>15, <1>16 DEF ReplyInv

(* The response asked for, when a task it reports was superseded meanwhile *)
LEMMA CancelledStep ==
  ASSUME ReplyInv, NEW ev, Takes(ev), ev.type = "created", ev.event # 0,
         ToSet(requested.intents) \cap invalidTasks # {}, Created(ev.response, ev.event)
  PROVE  ReplyInv'
<1> DEFINE r == ev.response
<1>1. Types /\ Truthful /\ InOrder /\ OneRequest /\ OnePlace /\ Silencing /\ NoneLost
  BY DEF ReplyInv
<1>2. /\ ev.event = requested.event /\ requested.intents # <<>>
      /\ Opens(down') = {} /\ Opens(up) = {} /\ speaks[r] = ToSet(requested.intents)
  BY AnswerTaken
<1>3. PICK still : still = responding \union {r}
  OBVIOUS
<1>4. /\ responding' = still /\ requested' = NoRequest /\ timer' = TRUE
      /\ invalidResponses' = invalidResponses \union {r}
      /\ owned' = [owned EXCEPT ![r] = <<>>]
      /\ pending' = Current(requested.intents, invalidTasks) \o pending
      /\ up' = up \o (IF r \in still THEN <<CancelEvent(r)>> ELSE <<>>)
                  \o (IF playing = r THEN <<ClearEvent>> ELSE <<>>)
      /\ UNCHANGED <<invalidTasks, playing, userSpeaking, awaitingUser, holds>>
  <2>1. /\ responding' = still /\ requested' = NoRequest
        /\ UNCHANGED <<invalidTasks, playing, gateVars>>
    BY <1>2, <1>3 DEF Created
  <2>2. CancelSuperseded(r, requested.intents, invalidTasks, pending, responding')
    BY <1>2, Zenon DEF Created
  <2> QED BY <2>1, <2>2 DEF CancelSuperseded, gateVars
<1>5. UNCHANGED <<generating, played, audible, cut, origin, speaks, created, speech, asked, restored>>
  BY DEF Takes
<1>6. ev.type \notin Playing /\ ev.type # "started" /\ ev.type \in About
  BY DEF Playing, About
<1>7. /\ Truthful' /\ InOrder' /\ down' \in Seq(DownEvents)
      /\ r \in 1..created /\ r \in Responses /\ ~Seen(r)
      /\ \A s : Seen(s)' <=> Seen(s) \/ s = r
      /\ \A s : Underway("started", s) => Underway("started", s)'
  <2>1. \A s : Seen(s)' <=> Seen(s) \/ s = r
    BY <1>4, <1>6, Observed
  <2>2. \A type, s : Underway(type, s) <=> Underway(type, s)' \/ (ev.type = type /\ ev.response = s)
    BY <1>4, <1>6, Observed
  <2>3. Truthful' /\ InOrder' /\ down' \in Seq(DownEvents) /\ r \in 1..created /\ r \in Responses /\ ~Seen(r)
    BY <1>4, <1>6, Observed
  <2> QED BY <2>1, <2>2, <2>3
<1>8. /\ IsInjective(pending) /\ ToSet(pending) \subseteq asked
      /\ IsInjective(requested.intents) /\ ToSet(requested.intents) \subseteq asked
      /\ ToSet(pending) \cap ToSet(requested.intents) = {}
      /\ \A s \in Responses :
           /\ IsInjective(owned[s]) /\ speaks[s] \subseteq asked
           /\ owned[s] # <<>> => /\ Seen(s) /\ s \in Valid /\ ToSet(owned[s]) = speaks[s]
                                 /\ speaks[s] \cap invalidTasks = {}
           /\ s \in invalidResponses => Seen(s)
      /\ \A s \in Valid : speaks[s] \cap ToSet(pending) = {}
      /\ \A s, t \in Valid : s # t => speaks[s] \cap speaks[t] = {}
  BY <1>1 DEF OnePlace
<1>9. r \in Valid
  BY <1>7, <1>8 DEF Valid
<1>10. owned'[r] = <<>> /\ \A s \in Responses : s # r => owned'[s] = owned[s]
  BY <1>1, <1>4, <1>7 DEF Types
<1>11. Valid' = Valid \ {r} /\ \A s \in Valid : s \in Responses
  BY <1>4 DEF Valid
<1>12. ToSet(requested'.intents) = {} /\ IsInjective(requested'.intents) /\ requested'.intents = <<>>
  BY <1>4, NothingIsPlaced DEF NoRequest
<1>13. /\ up' \in Seq(UpEvents) /\ Fewer(up, up') /\ ToSet(up) \subseteq ToSet(up')
       /\ playing = r => ClearEvent \in ToSet(up')
  BY <1>1, <1>4, <1>7, CancelSends
<1>14. /\ pending' \in Seq(Intents) /\ IsInjective(pending')
       /\ ToSet(pending') = (ToSet(requested.intents) \ invalidTasks) \union ToSet(pending)
  <2>1. pending \in Seq(Intents) /\ requested.intents \in Seq(Intents)
    BY <1>1 DEF Types
  <2>2. PICK s : s = requested.intents
    OBVIOUS
  <2>3. s \in Seq(Intents) /\ IsInjective(s) /\ ToSet(s) \cap ToSet(pending) = {}
    BY <1>8, <2>1, <2>2
  <2>4. PICK p : p = Current(s, invalidTasks) \o pending
    OBVIOUS
  <2>5. /\ p \in Seq(Intents) /\ IsInjective(p)
        /\ ToSet(p) = (ToSet(s) \ invalidTasks) \union ToSet(pending)
    BY <1>8, <2>1, <2>3, <2>4, PutBack
  <2>6. pending' = p
    BY <1>4, <2>2, <2>4
  <2> QED BY <2>2, <2>5, <2>6
<1>15. Types'
  <2>1. /\ <<>> \in Seq(Intents) /\ owned \in [Responses -> Seq(Intents)]
    BY <1>1, EmptySeq DEF Types
  <2>2. owned' \in [Responses -> Seq(Intents)]
    BY <1>4, <2>1
  <2>3. requested' \in [event : EventIds \union {0}, intents : Seq(Intents)]
    BY <1>4, <2>1 DEF NoRequest
  <2>4. responding' \subseteq 1..created /\ invalidResponses' \subseteq 1..created
    BY <1>1, <1>3, <1>4, <1>7 DEF Types
  <2> QED BY <1>1, <1>4, <1>5, <1>7, <1>13, <1>14, <2>2, <2>3, <2>4 DEF Types
<1>16. OneRequest'
  <2>1. Opens(up') = {}
    BY <1>2, <1>13 DEF Fewer
  <2> QED BY <1>1, <1>2, <1>4, <1>5, <2>1, RequestEnds
<1>17. OnePlace'
  <2>1. ToSet(pending') \subseteq asked
    BY <1>8, <1>14
  <2>2. ASSUME NEW s \in Responses
        PROVE  /\ IsInjective(owned'[s]) /\ speaks[s] \subseteq asked
               /\ owned'[s] # <<>> => /\ Seen(s)' /\ s \in Valid' /\ ToSet(owned'[s]) = speaks[s]
                                      /\ speaks[s] \cap invalidTasks = {}
               /\ s \in invalidResponses' => Seen(s)'
    <3>1. CASE s = r
      BY <1>7, <1>8, <1>10, <3>1, NothingIsPlaced
    <3>2. CASE s # r
      BY <1>4, <1>7, <1>8, <1>10, <1>11, <3>2
    <3> QED BY <3>1, <3>2
  <2>3. \A s \in Valid' : speaks[s] \cap ToSet(pending') = {}
    BY <1>2, <1>8, <1>9, <1>11, <1>14
  <2> QED BY <1>4, <1>5, <1>8, <1>11, <1>12, <1>14, <2>1, <2>2, <2>3 DEF OnePlace
<1>18. Silencing'
  <2>1. \A s \in Valid \ cut : Seen(s) /\ speaks[s] # {} /\ owned[s] = <<>> => s \in audible /\ played # s
    BY <1>1 DEF Silencing
  <2>2. \A s \in invalidResponses : played = s => ClearEvent \in ToSet(up) \/ Underway("started", s)
    BY <1>1 DEF Silencing
  <2>3. \A s \in Valid' \ cut' : Seen(s)' /\ speaks'[s] # {} /\ owned'[s] = <<>> => s \in audible' /\ played' # s
    BY <1>5, <1>7, <1>10, <1>11, <2>1
  <2>4. played = r => ClearEvent \in ToSet(up') \/ Underway("started", r)
    BY <1>1, <1>7, <1>13 DEF InOrder
  <2>5. \A s \in invalidResponses' : played' = s => ClearEvent \in ToSet(up') \/ Underway("started", s)'
    BY <1>4, <1>5, <1>7, <1>13, <2>2, <2>4
  <2> QED BY <2>3, <2>5 DEF Silencing
<1>19. NoneLost'
  <2> SUFFICES ASSUME ~OtherErrors PROVE NoResultLost'
    BY DEF NoneLost
  <2> SUFFICES ASSUME NEW j \in asked \ invalidTasks
               PROVE  j \in ToSet(pending') \/ \E s \in Valid' : j \in speaks[s]
    BY <1>4, <1>5 DEF NoResultLost, Valid
  <2>1. \/ j \in ToSet(pending) \union ToSet(requested.intents)
        \/ \E s \in Valid : j \in speaks[s]
    BY <1>1 DEF NoneLost, NoResultLost, Valid
  <2> QED BY <1>2, <1>11, <1>14, <2>1
<1> QED BY <1>7, <1>15, <1>16, <1>17, <1>18, <1>19 DEF ReplyInv

(* The request was refused.                                                *)
LEMMA RefusedStep ==
  ASSUME ReplyInv, NEW ev, Takes(ev), ev.type = "refused", Refused(ev.event, ev.flag)
  PROVE  ReplyInv'
<1>1. Types /\ Truthful /\ InOrder /\ OneRequest /\ OnePlace /\ Silencing /\ NoneLost
  BY DEF ReplyInv
<1>2. UNCHANGED <<generating, played, audible, cut, origin, speaks, created, speech, asked, restored>>
  BY DEF Takes
<1>3. ev.type \notin Playing /\ ev.type # "started" /\ ev.type # "created"
  BY DEF Playing
<1>4. UNCHANGED <<owned, responding, invalidTasks, invalidResponses, playing,
                  userSpeaking, awaitingUser, holds, up>>
  BY DEF Refused, gateVars
<1>5. /\ Truthful' /\ InOrder' /\ down' \in Seq(DownEvents) /\ True(ev)
      /\ \A s : Seen(s)' <=> Seen(s)
      /\ \A s : Underway("started", s) => Underway("started", s)'
  <2>1. \A s : Seen(s)' <=> Seen(s)
    BY <1>3, <1>4, Observed
  <2>2. \A type, s : Underway(type, s) <=> Underway(type, s)' \/ (ev.type = type /\ ev.response = s)
    BY <1>3, <1>4, Observed
  <2>3. Truthful' /\ InOrder' /\ down' \in Seq(DownEvents) /\ True(ev)
    BY <1>3, <1>4, Observed
  <2> QED BY <1>3, <2>1, <2>2, <2>3
<1>6. ev.event # 0 /\ (ev.flag \/ OtherErrors)
  BY <1>5 DEF True
<1>7. ev.event = requested.event /\ Opens(down') = {} /\ Opens(up) = {}
  BY <1>6, AnswerTaken
<1>8. /\ requested' = NoRequest
      /\ IF ev.flag
         THEN pending' = Current(requested.intents, invalidTasks) \o pending /\ timer' = TRUE
         ELSE UNCHANGED <<pending, timer>>
  BY <1>7 DEF Refused
<1>9. /\ IsInjective(pending) /\ ToSet(pending) \subseteq asked
      /\ IsInjective(requested.intents) /\ ToSet(requested.intents) \subseteq asked
      /\ ToSet(pending) \cap ToSet(requested.intents) = {}
      /\ \A s \in Responses :
           /\ IsInjective(owned[s]) /\ speaks[s] \subseteq asked
           /\ owned[s] # <<>> => /\ Seen(s) /\ s \in Valid /\ ToSet(owned[s]) = speaks[s]
                                 /\ speaks[s] \cap invalidTasks = {}
           /\ s \in invalidResponses => Seen(s)
      /\ \A s \in Valid : /\ speaks[s] \cap ToSet(pending) = {}
                          /\ Seen(s) => speaks[s] \cap ToSet(requested.intents) = {}
      /\ \A s, t \in Valid : s # t => speaks[s] \cap speaks[t] = {}
  BY <1>1 DEF OnePlace
<1>10. \A s \in Valid : speaks[s] \cap ToSet(requested.intents) = {} /\ s \in Responses
  <2>1. \A n \in Opens(down) : down[n].type # "created"
    BY <1>3, <1>6, AnswerTaken
  <2>2. \A s \in Responses : ~Seen(s) => speaks[s] = {}
    BY <1>1, <2>1, Unseen
  <2>3. \A s \in Valid : s \in Responses
    BY DEF Valid
  <2> QED BY <1>9, <2>2, <2>3
<1>11. /\ pending' \in Seq(Intents) /\ IsInjective(pending') /\ timer' \in BOOLEAN
       /\ ToSet(pending') \subseteq ToSet(requested.intents) \union ToSet(pending)
       /\ ev.flag => ToSet(pending') = (ToSet(requested.intents) \ invalidTasks) \union ToSet(pending)
  <2>1. pending \in Seq(Intents) /\ requested.intents \in Seq(Intents) /\ timer \in BOOLEAN
    BY <1>1 DEF Types
  <2>2. CASE ev.flag
    <3>1. PICK s : s = requested.intents
      OBVIOUS
    <3>2. s \in Seq(Intents) /\ IsInjective(s) /\ ToSet(s) \cap ToSet(pending) = {}
      BY <1>9, <2>1, <3>1
    <3>3. PICK p : p = Current(s, invalidTasks) \o pending
      OBVIOUS
    <3>4. /\ p \in Seq(Intents) /\ IsInjective(p)
          /\ ToSet(p) = (ToSet(s) \ invalidTasks) \union ToSet(pending)
      BY <1>9, <2>1, <3>2, <3>3, PutBack
    <3>5. pending' = p /\ timer' = TRUE
      BY <1>8, <2>2, <3>1, <3>3
    <3> QED BY <3>1, <3>4, <3>5
  <2>3. CASE ~ev.flag
    BY <1>8, <1>9, <2>1, <2>3
  <2> QED BY <2>2, <2>3
<1>12. ToSet(requested'.intents) = {} /\ IsInjective(requested'.intents) /\ requested'.intents = <<>>
  BY <1>8, NothingIsPlaced DEF NoRequest
<1>13. Types'
  <2>1. requested' \in [event : EventIds \union {0}, intents : Seq(Intents)]
    BY <1>8, EmptySeq DEF NoRequest
  <2> QED BY <1>1, <1>2, <1>4, <1>5, <1>11, <2>1 DEF Types
<1>14. OneRequest'
  BY <1>1, <1>2, <1>4, <1>7, <1>8, RequestEnds
<1>15. OnePlace'
  <2>1. ToSet(pending') \subseteq asked
    BY <1>9, <1>11
  <2>2. \A s \in Valid : speaks[s] \cap ToSet(pending') = {}
    BY <1>9, <1>10, <1>11
  <2>3. Valid' = Valid
    BY <1>4 DEF Valid
  <2> QED BY <1>2, <1>4, <1>5, <1>9, <1>11, <1>12, <2>1, <2>2, <2>3 DEF OnePlace
<1>16. Silencing'
  BY <1>1, <1>2, <1>4, <1>5 DEF Silencing, Valid
<1>17. NoneLost'
  <2> SUFFICES ASSUME ~OtherErrors PROVE NoResultLost'
    BY DEF NoneLost
  <2>1. ToSet(pending') = (ToSet(requested.intents) \ invalidTasks) \union ToSet(pending)
    BY <1>6, <1>11
  <2> QED BY <1>1, <1>2, <1>4, <2>1 DEF NoneLost, NoResultLost
<1> QED BY <1>5, <1>13, <1>14, <1>15, <1>16, <1>17 DEF ReplyInv

LEMMA ObserveStep ==
  ASSUME ReplyInv, Observe
  PROVE  ReplyInv'
<1>1. PICK ev : ev = Head(down)
  OBVIOUS
<1>2. Takes(ev)
  BY <1>1 DEF Observe, Takes
<1>3. CASE ev.type \in {"speech started", "speech stopped"} /\ (SpeechStarted \/ SpeechStopped)
  BY <1>2, <1>3, SpeechStep
<1>4. CASE ev.type = "started" /\ AudioStarted(ev.response)
  BY <1>2, <1>4, AudioStartedStep
<1>5. CASE ev.type = "ended" /\ AudioEnded(ev.response)
  BY <1>2, <1>5, AudioEndedStep
<1>6. CASE ev.type = "created" /\ Created(ev.response, ev.event)
  BY <1>2, <1>6, CreatedOtherStep, AcknowledgedStep, CancelledStep
<1>7. CASE ev.type = "done" /\ Done(ev.response, ev.event, ev.flag)
  BY <1>2, <1>7, DoneStep
<1>8. CASE ev.type = "refused" /\ Refused(ev.event, ev.flag)
  BY <1>2, <1>8, RefusedStep
<1> QED BY <1>1, <1>3, <1>4, <1>5, <1>6, <1>7, <1>8 DEF Observe

-----------------------------------------------------------------------------
(* A new connection                                                        *)
Fresh == ClientInit /\ ProviderInit /\ asked = {} /\ restored \subseteq Intents

LEMMA FreshInv == Fresh => ReplyInv
<1> SUFFICES ASSUME Fresh PROVE ReplyInv
  OBVIOUS
<1>1. /\ pending = <<>> /\ requested = NoRequest /\ responding = {}
      /\ owned = [r \in Responses |-> <<>>] /\ invalidTasks = {} /\ invalidResponses = {}
      /\ playing = 0 /\ userSpeaking = FALSE /\ awaitingUser = TRUE
      /\ holds \subseteq Holds /\ timer = TRUE /\ up = <<>>
      /\ down = <<>> /\ generating = 0 /\ played = 0 /\ audible = {} /\ cut = {}
      /\ origin = [r \in Responses |-> 0] /\ speaks = [r \in Responses |-> {}]
      /\ created = 0 /\ speech = FALSE /\ asked = {} /\ restored \subseteq Intents
  BY DEF Fresh, ClientInit, ProviderInit
<1>2. /\ DOMAIN down = {} /\ Opens(down) = {} /\ Opens(up) = {}
      /\ \A type, r : ~Underway(type, r)
      /\ \A r : ~Seen(r)
  <2>1. DOMAIN <<>> = {} /\ ToSet(<<>>) = {} /\ \A r : r \notin 1..0
    BY NothingIsPlaced
  <2> QED BY <1>1, <2>1 DEF Opens, Underway, Seen
<1>3. requested.event = 0 /\ requested.intents = <<>> /\ ToSet(requested.intents) = {}
  BY <1>1, NothingIsPlaced DEF NoRequest
<1>4. Types
  <2>1. /\ pending \in Seq(Intents) /\ owned \in [Responses -> Seq(Intents)]
        /\ requested \in [event : EventIds \union {0}, intents : Seq(Intents)]
        /\ down \in Seq(DownEvents) /\ up \in Seq(UpEvents)
    BY <1>1, EmptySeq DEF NoRequest
  <2>2. /\ created \in 0..Cardinality(Responses) /\ {playing, generating, played} \subseteq 0..created
    BY <1>1, ResponsesAre
  <2>3. /\ asked \union restored \union invalidTasks \subseteq Intents
        /\ played \in audible \union {0}
        /\ responding \union invalidResponses \union audible \union cut \subseteq 1..created
        /\ holds \subseteq Holds
        /\ {userSpeaking, awaitingUser, timer, speech} \subseteq BOOLEAN
        /\ origin \in [Responses -> EventIds \union {0}]
        /\ speaks \in [Responses -> SUBSET Intents]
    BY <1>1
  <2> QED BY <2>1, <2>2, <2>3 DEF Types
<1>5. Truthful
  BY <1>2 DEF Truthful
<1>6. InOrder
  BY <1>1, <1>2, ResponsesAre DEF InOrder
<1>7. OneRequest
  BY <1>1, <1>2, <1>3 DEF OneRequest
<1>8. OnePlace
  <2>1. IsInjective(pending) /\ IsInjective(requested.intents) /\ ToSet(pending) = {}
    BY <1>1, <1>3, NothingIsPlaced
  <2>2. \A r \in Responses : owned[r] = <<>> /\ speaks[r] = {} /\ IsInjective(owned[r])
    BY <1>1, NothingIsPlaced
  <2> QED BY <1>1, <1>3, <2>1, <2>2 DEF OnePlace, Valid
<1>9. Silencing
  BY <1>1, <1>2 DEF Silencing
<1>10. NoneLost
  BY <1>1 DEF NoneLost, NoResultLost
<1> QED BY <1>4, <1>5, <1>6, <1>7, <1>8, <1>9, <1>10 DEF ReplyInv

LEMMA FreshAgain == Fresh' => ReplyInv'
BY FreshInv, PTL

LEMMA ReconnectStep ==
  ASSUME ReplyInv, Reconnect
  PROVE  ReplyInv'
<1>1. asked \union restored \subseteq Intents
  BY DEF ReplyInv, Types
<1>2. Fresh'
  BY <1>1 DEF Reconnect, Reset, Fresh, ClientInit, ProviderInit
<1> QED BY <1>2, FreshAgain

-----------------------------------------------------------------------------
(* The invariant holds.                                                    *)

LEMMA ProviderStep ==
  ASSUME ReplyInv, Provider
  PROVE  ReplyInv'
<1>1. CASE Reply \/ TakeCreate \/ TakeCancel \/ TakeClear
  BY <1>1, ReplyStep, TakeStep
<1>2. CASE /\ \/ \E kept \in BOOLEAN : EndGenerating(kept)
              \/ EndPlaying
              \/ \E r \in Responses : StartPlaying(r)
              \/ \E value \in BOOLEAN : UserSpeaks(value)
           /\ UNCHANGED <<client, asked, restored>>
  <2>1. UNCHANGED Others /\ up' = up
    BY <1>2 DEF Others, client
  <2>2. UpKept
    BY <2>1, FewerSame DEF UpKept, ReplyInv, Types
  <2> QED BY <1>2, <2>1, <2>2, EndGeneratingStep, EndPlayingStep, StartPlayingStep, UserSpeaksStep
<1> QED BY <1>1, <1>2 DEF Provider

LEMMA ReplyInvStep == ReplyInv /\ [Next]_vars => ReplyInv'
<1> SUFFICES ASSUME ReplyInv, [Next]_vars PROVE ReplyInv'
  OBVIOUS
<1>1. CASE Observe
  BY <1>1, ObserveStep
<1>2. CASE FlushTimer
  BY <1>2, FlushStep
<1>3. CASE User
  BY <1>3, UserStep
<1>4. ASSUME NEW i \in Intents, Announce(i) \/ Supersede(i) PROVE ReplyInv'
  BY <1>4, AnnounceStep, SupersedeStep
<1>5. CASE Reconnect
  BY <1>5, ReconnectStep
<1>6. CASE Provider
  BY <1>6, ProviderStep
<1>7. CASE UNCHANGED vars
  <2>1. UNCHANGED provider /\ UNCHANGED Others /\ up' = up
    BY <1>7 DEF vars, client, Others
  <2>2. UpKept
    <3>1. UNCHANGED provider => played' = played
      BY DEF provider
    <3> QED BY <2>1, <3>1, FewerSame DEF UpKept, ReplyInv, Types
  <2> QED BY <2>1, <2>2, Untouched
<1> QED BY <1>1, <1>2, <1>3, <1>4, <1>5, <1>6, <1>7 DEF Next

(* What is on its way to the client is true of the provider and in the     *)
(* order in which it happened, one request is open at most and what it     *)
(* awaits is what it gets, an intent is in one place of the coordinator,   *)
(* in no response that was not superseded twice, and is not lost.          *)
THEOREM ReplyInvariant == Spec => []ReplyInv
<1>1. Init => ReplyInv
  BY FreshInv DEF Init, Fresh
<1>2. ReplyInv /\ [Next]_vars => ReplyInv'
  BY ReplyInvStep
<1> QED BY <1>1, <1>2, PTL DEF Spec

(* The variables keep their types, and an intent is in one place of the    *)
(* coordinator: queued, requested, or owned by one response.               *)
THEOREM TypeCorrect == Spec => []TypeOK
<1> DEFINE End == Cardinality(Responses) + 1
           Place(n) == IF n = 0 THEN pending ELSE IF n = End THEN requested.intents ELSE owned[n]
<1>1. ASSUME ReplyInv PROVE TypeOK
  <2>1. Types /\ OneRequest /\ OnePlace
    BY <1>1 DEF ReplyInv
  <2>2. /\ IsInjective(pending) /\ ToSet(pending) \subseteq asked
        /\ IsInjective(requested.intents) /\ ToSet(requested.intents) \subseteq asked
        /\ ToSet(pending) \cap ToSet(requested.intents) = {}
    BY <2>1 DEF OnePlace
  <2>3. \A r \in Responses :
          /\ IsInjective(owned[r]) /\ ToSet(owned[r]) \subseteq asked
          /\ ToSet(owned[r]) \cap ToSet(pending) = {}
          /\ ToSet(owned[r]) \cap ToSet(requested.intents) = {}
    BY <2>1, NothingIsPlaced DEF OnePlace
  <2>4. \A r, s \in Responses : r # s => ToSet(owned[r]) \cap ToSet(owned[s]) = {}
    BY <2>1, NothingIsPlaced DEF OnePlace
  <2>5. ASSUME NEW n \in 0..End
        PROVE  \/ n = 0 /\ Place(n) = pending
               \/ n = End /\ Place(n) = requested.intents
               \/ n \in Responses /\ Place(n) = owned[n]
    BY ResponsesAre
  <2> HIDE DEF End, Place
  <2>6. \A n \in 0..End : IsInjective(Place(n)) /\ ToSet(Place(n)) \subseteq asked
    BY <2>2, <2>3, <2>5
  <2>7. ASSUME NEW n \in 0..End, NEW k \in 0..End, n # k
        PROVE  ToSet(Place(n)) \cap ToSet(Place(k)) = {}
    <3>1. CASE n = 0 /\ Place(n) = pending
      BY <2>2, <2>3, <2>5, <2>7, <3>1
    <3>2. CASE n = End /\ Place(n) = requested.intents
      BY <2>2, <2>3, <2>5, <2>7, <3>2
    <3>3. CASE n \in Responses /\ Place(n) = owned[n]
      BY <2>3, <2>4, <2>5, <2>7, <3>3
    <3> QED BY <2>5, <3>1, <3>2, <3>3
  <2>8. /\ requested.event \in EventIds \union {0}
        /\ requested = NoRequest <=> requested.intents = <<>>
        /\ asked \union restored \union invalidTasks \subseteq Intents
        /\ responding \union invalidResponses \union audible \union cut \subseteq 1..created
        /\ holds \subseteq Holds
        /\ {userSpeaking, awaitingUser, timer, speech} \subseteq BOOLEAN
    BY <2>1 DEF Types, OneRequest
  <2>9. {playing, generating, played} \subseteq Responses \union {0}
    <3>1. \A r \in 0..created : r \in Responses \union {0}
      BY <2>1, NumbersAre
    <3> QED BY <2>1, <3>1 DEF Types
  <2> QED BY <2>6, <2>7, <2>8, <2>9 DEF TypeOK, End, Place
<1>2. ReplyInv => TypeOK
  BY <1>1
<1> QED BY <1>2, ReplyInvariant, PTL

(* A response that reports a superseded task does not go on being played   *)
(* unnoticed, unless it was cut short anyway: the client has sent a clear, *)
(* or the event that will make it send one is on its way.                  *)
THEOREM SupersededAreSilenced == Spec => []SupersededIsSilenced
<1>1. ASSUME ReplyInv PROVE SupersededIsSilenced
  <2>1. Types /\ InOrder /\ OnePlace /\ Silencing
    BY <1>1 DEF ReplyInv
  <2> SUFFICES ASSUME NEW r \in Responses \ cut, played = r, speaks[r] \cap invalidTasks # {},
                      ~Underway("started", r)
               PROVE  ClearEvent \in ToSet(up)
    BY DEF SupersededIsSilenced
  <2>2. CASE r \in invalidResponses
    BY <2>1, <2>2 DEF Silencing
  <2>3. CASE r \in Valid
    <3>1. owned[r] = <<>> /\ speaks[r] # {}
      BY <2>1 DEF OnePlace
    <3>2. ~Seen(r)
      BY <2>1, <2>3, <3>1 DEF Silencing
    <3>3. r \in audible /\ r \in 1..created
      BY <2>1, NumbersAre DEF Types
    <3>4. Underway("started", r)
      BY <2>1, <3>2, <3>3 DEF InOrder, Seen
    <3> QED BY <3>4
  <2> QED BY <2>2, <2>3 DEF Valid
<1>2. ReplyInv => SupersededIsSilenced
  BY <1>1
<1> QED BY <1>2, ReplyInvariant, PTL

(* No result is announced by two responses, unless the coordinator         *)
(* cancelled one of them.                                                  *)
THEOREM AnnouncedAtMostOnce == Spec => []AnnouncedOnce
<1>1. ReplyInv => AnnouncedOnce
  BY DEF ReplyInv, OnePlace, AnnouncedOnce, Valid
<1> QED BY <1>1, ReplyInvariant, PTL

(* Over both channels one request or answer is open at most, and it is of  *)
(* the request the coordinator waits for: a refusal finds it.              *)
THEOREM RequestsAcknowledged == Spec => []AcknowledgedBeforeNext
<1>1. ASSUME ReplyInv PROVE AcknowledgedBeforeNext
  <2> DEFINE sent == down \o up
  <2>1. Types /\ OneRequest
    BY <1>1 DEF ReplyInv
  <2>2. down \in Seq(DownEvents) /\ up \in Seq(UpEvents)
    BY <2>1 DEF Types
  <2>3. PICK S : S = DownEvents \union UpEvents
    OBVIOUS
  <2>4. down \in Seq(S) /\ up \in Seq(S)
    BY <2>2, <2>3, SeqMonotonic
  <2>5. /\ Len(down) \in Nat /\ DOMAIN down = 1..Len(down)
        /\ Len(up) \in Nat /\ DOMAIN up = 1..Len(up) /\ DOMAIN sent = 1..Len(down) + Len(up)
    BY <2>4, Behind
  <2>6. \A n \in DOMAIN sent : \/ n \in DOMAIN down /\ sent[n] = down[n]
                               \/ n - Len(down) \in DOMAIN up /\ sent[n] = up[n - Len(down)]
    BY <2>4, Behind
  <2> HIDE DEF sent
  <2>7. \A n \in Opens(sent) : \/ n \in Opens(down) /\ sent[n] = down[n]
                               \/ n - Len(down) \in Opens(up) /\ sent[n] = up[n - Len(down)]
    BY <2>6 DEF Opens
  <2>8. /\ \A m, n \in Opens(down) : m = n
        /\ \A m, n \in Opens(up) : m = n
        /\ Opens(down) = {} \/ Opens(up) = {}
        /\ \A n \in Opens(down) : down[n].event = requested.event
        /\ \A n \in Opens(up) : up[n].event = requested.event
    BY <2>1 DEF OneRequest, CreateEvent
  <2>9. \A n \in Opens(sent) : n \in Int /\ sent[n].event = requested.event
    BY <2>5, <2>7, <2>8 DEF Opens
  <2>10. ASSUME NEW m \in Opens(sent), NEW n \in Opens(sent) PROVE m = n
    <3>1. CASE m \in Opens(down) /\ n \in Opens(down)
      BY <2>8, <3>1
    <3>2. CASE m - Len(down) \in Opens(up) /\ n - Len(down) \in Opens(up)
      <4>1. m - Len(down) = n - Len(down)
        BY <2>8, <3>2
      <4> QED BY <2>5, <2>9, <4>1
    <3> QED BY <2>7, <2>8, <3>1, <3>2
  <2>11. \A n \in Opens(sent) : Opens(sent) = {n} /\ sent[n].event = requested.event
    BY <2>9, <2>10
  <2> QED BY <2>11 DEF AcknowledgedBeforeNext, Opens, sent
<1>2. ReplyInv => AcknowledgedBeforeNext
  BY <1>1
<1> QED BY <1>2, ReplyInvariant, PTL

(* Where the provider refuses a request only while it is generating,       *)
(* neither a refusal, a race with the user's turn nor the cancellation of  *)
(* another result loses the announcement of a current result.              *)
THEOREM NoResultIsLost ==
  ASSUME ~OtherErrors
  PROVE  Spec => []NoResultLost
<1>1. ReplyInv => NoResultLost
  BY DEF ReplyInv, NoneLost
<1> QED BY <1>1, ReplyInvariant, PTL

LEMMA FlushIsScheduledStep ==
  ASSUME ~OtherErrors, ReplyInv, FlushIsScheduled, [Next]_vars
  PROVE  FlushIsScheduled'
<1>1. Types /\ Truthful /\ OneRequest
  BY DEF ReplyInv
<1>2. SUFFICES ASSUME timer' # TRUE PROVE FlushIsScheduled'
  BY DEF FlushIsScheduled
<1>3. ASSUME UNCHANGED <<requested, responding, playing, userSpeaking, awaitingUser, holds, timer>>,
             pending' # <<>> => pending # <<>>
      PROVE  FlushIsScheduled'
  BY <1>3 DEF FlushIsScheduled, Gated, Busy
<1>4. ASSUME UNCHANGED Others PROVE FlushIsScheduled'
  BY <1>3, <1>4, OthersAre
<1>5. CASE Observe
  <2>1. PICK ev : ev = Head(down)
    OBVIOUS
  <2>2. ev.type = "refused" /\ Refused(ev.event, ev.flag)
    BY <1>2, <1>5, <2>1 DEF Observe, SpeechStarted, SpeechStopped, AudioStarted, AudioEnded,
                            Created, CancelSuperseded, Done
  <2>3. Takes(ev) /\ UNCHANGED playing
    BY <1>5, <2>1, <2>2 DEF Observe, Takes, Refused
  <2>4. True(ev)
    BY <2>2, <2>3, Observed DEF Playing
  <2>5. ev.flag /\ ev.event # 0
    BY <2>2, <2>4 DEF True
  <2>6. ev.event = requested.event
    BY <2>2, <2>3, <2>5, AnswerTaken
  <2> QED BY <1>2, <2>2, <2>5, <2>6 DEF Refused
<1>6. CASE FlushTimer
  <2>1. Flush(NewEvent) /\ ReplyInv'
    BY <1>6, FlushStep DEF FlushTimer
  <2>2. CASE Gated \/ pending = <<>>
    <3>1. UNCHANGED <<pending, requested, responding, playing, userSpeaking, awaitingUser, holds>>
      BY <2>1, <2>2 DEF Flush, gateVars
    <3> QED BY <2>2, <3>1 DEF FlushIsScheduled, Gated, Busy
  <2>3. CASE ~(Gated \/ pending = <<>>)
    <3>1. requested'.event = NewEvent
      BY <2>1, <2>3 DEF Flush
    <3>2. NewEvent \in EventIds
      BY <1>1, <2>3, FreshEvent DEF Gated, Busy
    <3>3. requested' # NoRequest
      BY <3>1, <3>2, ResponsesAre DEF NoRequest
    <3> QED BY <3>3 DEF FlushIsScheduled, Gated, Busy
  <2> QED BY <2>2, <2>3
<1>7. CASE User
  BY <1>2, <1>7 DEF User, UserTurn, SetHold
<1>8. ASSUME NEW i \in Intents, Announce(i) PROVE FlushIsScheduled'
  BY <1>2, <1>8 DEF Announce, Request
<1>9. ASSUME NEW i \in Intents, Supersede(i) PROVE FlushIsScheduled'
  <2>1. /\ pending' = Current(pending, {i}) /\ timer' = timer
        /\ UNCHANGED <<requested, responding, playing, userSpeaking, awaitingUser, holds>>
    BY <1>2, <1>9 DEF Supersede, Invalidate, CancelSuperseded, gateVars
  <2>2. pending' # <<>> => pending # <<>>
    <3>1. PICK bad : bad = {i}
      OBVIOUS
    <3>2. pending \in Seq(Intents)
      BY <1>1 DEF Types
    <3>3. pending' \in Seq(Intents) /\ ToSet(pending') = ToSet(pending) \ bad
      BY <2>1, <3>1, <3>2, CurrentOf
    <3>4. ASSUME pending = <<>>, pending' # <<>> PROVE FALSE
      <4>1. 1 \in DOMAIN pending'
        BY <3>3, <3>4, Tailed
      <4>2. ToSet(pending') = {}
        BY <3>3, <3>4, NothingIsPlaced
      <4> QED BY <4>1, <4>2 DEF ToSet
    <3> QED BY <3>4
  <2> QED BY <1>3, <2>1, <2>2
<1>10. CASE Reconnect
  BY <1>2, <1>10 DEF Reconnect, Reset
<1>11. CASE Provider
  BY <1>4, <1>11 DEF Provider, Reply, TakeCreate, TakeCancel, TakeClear, Others, client
<1>12. CASE UNCHANGED vars
  BY <1>4, <1>12 DEF vars, client, Others
<1> QED BY <1>5, <1>6, <1>7, <1>8, <1>9, <1>10, <1>11, <1>12 DEF Next

(* There a flush is always scheduled for what is pending while every gate  *)
(* is open: it takes a refusal for another reason to leave it behind.      *)
THEOREM FlushFollows ==
  ASSUME ~OtherErrors
  PROVE  Spec => []FlushIsScheduled
<1>1. Init => FlushIsScheduled
  BY DEF Init, ClientInit, FlushIsScheduled
<1>2. ReplyInv /\ FlushIsScheduled /\ [Next]_vars => FlushIsScheduled'
  BY FlushIsScheduledStep
<1> QED BY <1>1, <1>2, ReplyInvariant, PTL DEF Spec

===========================================================================
