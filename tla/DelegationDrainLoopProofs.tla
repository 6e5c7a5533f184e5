---------------------- MODULE DelegationDrainLoopProofs -----------------------
(***************************************************************************)
(* The loop of drain() starts what Chosen says, for any array, any Map and *)
(* any limit.                                                              *)
(***************************************************************************)
EXTENDS DelegationDrainLoop, SequenceTheorems, FiniteSetTheorems, WellFoundedInduction, TLAPS

-----------------------------------------------------------------------------
(* Facts about numbers and sequences                                       *)

(* A set of natural numbers that is not empty has a least one.             *)
LEMMA Least ==
  ASSUME NEW S \in SUBSET Nat, S # {}
  PROVE  First(S) \in S /\ \A m \in S : First(S) <= m
<1> DEFINE R == OpToRel(<, Nat)
<1>1. IsWellFoundedOn(R, Nat)
  BY NatLessThanWellFounded
<1>2. \A x, y \in Nat : x < y => <<x, y>> \in R
  BY DEF OpToRel
<1> HIDE DEF R
<1>3. PICK x \in S : \A y \in S : ~(<<y, x>> \in R)
  BY <1>1, WFMin
<1>4. ASSUME NEW y \in S PROVE x <= y
  <2>1. x \in Nat /\ y \in Nat /\ ~(y < x)
    BY <1>2, <1>3
  <2> QED BY <2>1
<1> QED BY <1>4 DEF First

(* The part of a sequence from m to n                                      *)
LEMMA PartOf ==
  ASSUME NEW S, NEW s \in Seq(S), NEW m \in Nat, NEW n \in Nat, 1 <= m, m <= n + 1, n <= Len(s)
  PROVE  /\ SubSeq(s, m, n) \in Seq(S)
         /\ Len(SubSeq(s, m, n)) = n + 1 - m
         /\ \A k \in 1..(n + 1 - m) : SubSeq(s, m, n)[k] = s[k + m - 1]
<1>1. Len(s) \in Nat /\ \A k \in 1..Len(s) : s[k] \in S
  BY LenProperties, ElementOfSeq
<1>2. m \in Int /\ n \in Int /\ \A k \in m..n : s[k] \in S
  BY <1>1
<1>3. /\ SubSeq(s, m, n) \in Seq(S)
      /\ Len(SubSeq(s, m, n)) = IF m <= n THEN n - m + 1 ELSE 0
      /\ \A k \in 1..(n - m + 1) : SubSeq(s, m, n)[k] = s[m + k - 1]
  BY <1>2, SubSeqProperties
<1>4. n + 1 - m = n - m + 1 /\ (~(m <= n) => n + 1 - m = 0)
  OBVIOUS
<1>5. ASSUME NEW k \in 1..(n + 1 - m) PROVE SubSeq(s, m, n)[k] = s[k + m - 1]
  <2>1. m + k - 1 = k + m - 1 /\ k \in 1..(n - m + 1)
    OBVIOUS
  <2> QED BY <1>3, <2>1
<1> QED BY <1>3, <1>4, <1>5

(* A sequence from which the element at place i is spliced out             *)
LEMMA Spliced ==
  ASSUME NEW S, NEW s \in Seq(S), NEW i \in 1..Len(s)
  PROVE  LET t == SubSeq(s, 1, i - 1) \o SubSeq(s, i + 1, Len(s))
         IN  /\ t \in Seq(S) /\ Len(t) = Len(s) - 1
             /\ \A k \in 1..Len(t) : t[k] = IF k < i THEN s[k] ELSE s[k + 1]
<1> DEFINE a == SubSeq(s, 1, i - 1)
           b == SubSeq(s, i + 1, Len(s))
           t == a \o b
           l == Len(s)
<1>1. l \in Nat /\ i \in Nat /\ i >= 1 /\ i <= l /\ i - 1 \in Nat /\ i + 1 \in Nat
  BY LenProperties
<1>2. /\ a \in Seq(S) /\ Len(a) = i - 1 + 1 - 1 /\ \A k \in 1..(i - 1 + 1 - 1) : a[k] = s[k + 1 - 1]
  <2>1. 1 \in Nat /\ 1 <= 1 /\ 1 <= i - 1 + 1 /\ i - 1 <= l
    BY <1>1
  <2> QED BY <1>1, <2>1, PartOf
<1>3. /\ b \in Seq(S) /\ Len(b) = l + 1 - (i + 1)
      /\ \A k \in 1..(l + 1 - (i + 1)) : b[k] = s[k + (i + 1) - 1]
  <2>1. 1 <= i + 1 /\ i + 1 <= l + 1 /\ l <= l
    BY <1>1
  <2> QED BY <1>1, <2>1, PartOf
<1> HIDE DEF a, b
<1>4. /\ t \in Seq(S) /\ Len(t) = Len(a) + Len(b)
      /\ \A k \in 1..(Len(a) + Len(b)) : t[k] = IF k <= Len(a) THEN a[k] ELSE b[k - Len(a)]
  BY <1>2, <1>3, ConcatProperties
<1> HIDE DEF t, l
<1>5. i - 1 + 1 - 1 = i - 1 /\ l + 1 - (i + 1) = l - i /\ (i - 1) + (l - i) = l - 1
  BY <1>1
<1>6. /\ Len(a) = i - 1 /\ Len(b) = l - i /\ Len(t) = l - 1
      /\ \A k \in 1..(l - 1) : t[k] = IF k <= i - 1 THEN a[k] ELSE b[k - (i - 1)]
  BY <1>2, <1>3, <1>4, <1>5
<1>7. ASSUME NEW k \in 1..(l - 1) PROVE t[k] = IF k < i THEN s[k] ELSE s[k + 1]
  <2>1. CASE k < i
    <3>1. k \in 1..(i - 1 + 1 - 1) /\ k + 1 - 1 = k /\ k <= i - 1
      BY <1>1, <2>1
    <3> QED BY <1>2, <1>6, <2>1, <3>1
  <2>2. CASE ~(k < i)
    <3>1. /\ k - (i - 1) \in 1..(l + 1 - (i + 1)) /\ ~(k <= i - 1)
          /\ (k - (i - 1)) + (i + 1) - 1 = k + 1
      BY <1>1, <2>2
    <3> QED BY <1>3, <1>6, <2>2, <3>1
  <2> QED BY <2>1, <2>2
<1> QED BY <1>4, <1>6, <1>7 DEF t, a, b, l

-----------------------------------------------------------------------------
(* The loop.  What is left of the array is in its old order, and the Map   *)
(* holds no more keys than the limit.                                      *)
JobRows == [key : Keys, readOnly : BOOLEAN]

LoopInv ==
  /\ jobs \in Seq(JobRows)
  /\ waiting \in Seq(Items)
  /\ \A m, n \in DOMAIN waiting : m < n => waiting[m] < waiting[n]
  /\ active \in [Keys -> Access] /\ before \in [Keys -> Access]
  /\ IsFiniteSet(Held(active)) /\ Cardinality(Held(active)) <= Limit
  /\ LoopStartsChosen

(* Places in what is left of the array compare as positions do.            *)
LEMMA PlacesLeft ==
  ASSUME LoopInv
  PROVE  /\ Items \subseteq Nat /\ Left \subseteq Items /\ DOMAIN waiting = 1..Len(waiting)
         /\ Len(waiting) \in Nat
         /\ \A i \in Items : Position[i] = i /\ jobs[i] \in JobRows
         /\ \A n \in DOMAIN waiting : waiting[n] \in Left
         /\ \A i \in Left : \E n \in DOMAIN waiting : i = waiting[n]
         /\ \A m, n \in DOMAIN waiting : waiting[m] < waiting[n] <=> m < n
<1>1. /\ waiting \in Seq(Items) /\ jobs \in Seq(JobRows)
      /\ \A m, n \in DOMAIN waiting : m < n => waiting[m] < waiting[n]
  BY DEF LoopInv
<1>2. /\ DOMAIN waiting = 1..Len(waiting) /\ Len(waiting) \in Nat
      /\ \A n \in DOMAIN waiting : waiting[n] \in Items
  BY <1>1, LenProperties
<1>3. Items \subseteq Nat /\ \A i \in Items : jobs[i] \in JobRows
  BY <1>1, LenProperties, ElementOfSeq DEF Items
<1>4. ASSUME NEW m \in DOMAIN waiting, NEW n \in DOMAIN waiting, waiting[m] < waiting[n]
      PROVE  m < n
  <2>1. m \in Nat /\ n \in Nat
    BY <1>2
  <2>2. waiting[m] \in Nat /\ waiting[n] \in Nat
    BY <1>2, <1>3
  <2>3. ~(n < m) /\ n # m
    BY <1>1, <1>4, <2>2
  <2> QED BY <2>1, <2>3
<1> QED BY <1>1, <1>2, <1>3, <1>4 DEF Left, Position

(* A finite Map with one more key                                          *)
LEMMA OneMoreHeld ==
  ASSUME NEW act \in [Keys -> Access], IsFiniteSet(Held(act)),
         NEW k \in Keys, act[k] = "none", NEW mode \in {"read", "write"},
         NEW new, new = [act EXCEPT ![k] = mode]
  PROVE  /\ new \in [Keys -> Access] /\ Held(new) = Held(act) \union {k}
         /\ IsFiniteSet(Held(new)) /\ Cardinality(Held(new)) = Cardinality(Held(act)) + 1
         /\ Cardinality(Held(act)) \in Nat
<1>1. new \in [Keys -> Access]
  BY DEF Access
<1>2. Held(new) = Held(act) \union {k} /\ k \notin Held(act)
  BY DEF Held
<1>3. IsFiniteSet(Held(new)) /\ Cardinality(Held(new)) = Cardinality(Held(act)) + 1
  <2> DEFINE held == Held(act)
  <2>1. IsFiniteSet(held) /\ Held(new) = held \union {k} /\ k \notin held
    BY <1>2
  <2> HIDE DEF held
  <2>2. IsFiniteSet(held \union {k}) /\ Cardinality(held \union {k}) = Cardinality(held) + 1
    BY <2>1, FS_AddElement
  <2> QED BY <2>1, <2>2 DEF held
<1>4. Cardinality(Held(act)) \in Nat
  BY FS_CardinalityType
<1> QED BY <1>1, <1>2, <1>3, <1>4

(* The candidates once the first of them, x, has been started: one of them *)
(* loses one that was ahead of it.                                         *)
LEMMA CandidatesLeft ==
  ASSUME LoopInv, NEW x \in Candidates(Left, jobs, Position, active),
         \A i \in Candidates(Left, jobs, Position, active) : x <= i,
         NEW new, new = [active EXCEPT ![jobs[x].key] = "read"]
  PROVE  /\ Candidates(Left \ {x}, jobs, Position, new) = Candidates(Left, jobs, Position, active) \ {x}
         /\ Before(x, Candidates(Left, jobs, Position, active), Position) = {}
         /\ \A i \in Candidates(Left, jobs, Position, active) \ {x} :
              Before(i, Candidates(Left, jobs, Position, active), Position)
                = Before(i, Candidates(Left, jobs, Position, active) \ {x}, Position) \union {x}
<1> DEFINE C == Candidates(Left, jobs, Position, active)
           D == Candidates(Left \ {x}, jobs, Position, new)
<1>0. Left \subseteq Nat /\ \A i \in Left : Position[i] = i /\ jobs[i] \in JobRows
  BY PlacesLeft
<1>first. active \in [Keys -> Access] /\ x \in C /\ \A i \in C : x <= i
  BY DEF LoopInv
<1>1. C \subseteq Left /\ x \in Left /\ D \subseteq Left \ {x} /\ jobs[x].key \in Keys
  BY <1>0, <1>first DEF Candidates, JobRows
<1>2. /\ jobs[x].readOnly /\ active[jobs[x].key] = "none"
      /\ \A j \in Left : j < x => jobs[j].readOnly /\ jobs[j].key # jobs[x].key
  BY <1>0, <1>1 DEF Candidates, Before
<1>3. \A i \in Left : /\ jobs[i].key \in Keys
                   /\ new[jobs[i].key] = IF jobs[i].key = jobs[x].key THEN "read" ELSE active[jobs[i].key]
  BY <1>0, <1>first, <1>1 DEF JobRows
<1>4. ASSUME NEW i \in C, i # x PROVE i \in D
  <2>1. i \in Nat /\ x \in Nat /\ x < i
    BY <1>0, <1>1, <1>4
  <2>2. /\ jobs[i].readOnly /\ active[jobs[i].key] = "none"
        /\ \A j \in Left : j < i => jobs[j].readOnly /\ jobs[j].key # jobs[i].key
    BY <1>0, <1>1, <1>4 DEF Candidates, Before
  <2>3. jobs[i].key # jobs[x].key
    BY <1>1, <2>1, <2>2
  <2> QED BY <1>0, <1>1, <1>3, <1>4, <2>2, <2>3 DEF Candidates, Before
<1>5. ASSUME NEW i \in D PROVE i \in C
  <2>1. /\ jobs[i].readOnly /\ new[jobs[i].key] = "none"
        /\ \A j \in Left \ {x} : j < i => jobs[j].readOnly /\ jobs[j].key # jobs[i].key
    BY <1>0, <1>1, <1>5 DEF Candidates, Before
  <2>2. active[jobs[i].key] = "none" /\ jobs[i].key # jobs[x].key
    BY <1>1, <1>3, <2>1
  <2> QED BY <1>0, <1>1, <1>2, <2>1, <2>2 DEF Candidates, Before
<1>6. x \notin D
  BY <1>1
<1>7. \A i \in C : i \in Nat /\ Position[i] = i /\ x <= i /\ x \in Nat
  BY <1>0, <1>1, <1>first
<1>8. Before(x, C, Position) = {}
  BY <1>7, <1>first DEF Before
<1>9. ASSUME NEW i \in C, i # x PROVE Before(i, C, Position) = Before(i, C \ {x}, Position) \union {x}
  BY <1>7, <1>9, <1>first DEF Before
<1>10. D = C \ {x}
  BY <1>4, <1>5, <1>6
<1> QED BY <1>8, <1>9, <1>10

(* The items the search looks at are those with only readers ahead of      *)
(* them, a writer only at the head.                                        *)
LEMMA BoundaryIs ==
  ASSUME LoopInv
  PROVE  /\ Boundary \in Nat /\ Boundary <= Len(waiting)
         /\ \A n \in 1..Len(waiting) :
              n <= Boundary <=> /\ \A m \in 1..(n - 1) : jobs[waiting[m]].readOnly
                                /\ jobs[waiting[n]].readOnly \/ n = 1
<1> DEFINE l == Len(waiting)
           writers == {n \in DOMAIN waiting : ~jobs[waiting[n]].readOnly}
<1>1. DOMAIN waiting = 1..l /\ l \in Nat
  BY PlacesLeft
<1>2. Boundary = IF writers = {} THEN l ELSE IF First(writers) = 1 THEN 1 ELSE First(writers) - 1
  BY DEF Boundary
<1>3. \A n \in 1..l : n \in writers <=> ~jobs[waiting[n]].readOnly
  BY <1>1
<1>4. writers \subseteq 1..l
  BY <1>1
<1> HIDE DEF l, writers
<1>5. CASE writers = {}
  <2>1. Boundary = l /\ \A n \in 1..l : jobs[waiting[n]].readOnly
    BY <1>2, <1>3, <1>5
  <2> QED BY <1>1, <2>1 DEF l
<1>6. CASE writers # {}
  <2> DEFINE f == First(writers)
  <2>1. f \in 1..l /\ ~jobs[waiting[f]].readOnly /\ \A n \in 1..l : n < f => jobs[waiting[n]].readOnly
    <3>1. writers \in SUBSET Nat
      BY <1>1, <1>4
    <3>2. f \in writers /\ \A n \in writers : f <= n
      BY <1>6, <3>1, Least
    <3>3. ASSUME NEW n \in 1..l, n < f PROVE n \notin writers
      <4>1. f \in Nat /\ n \in Nat
        <5>1. \A i \in 1..l : i \in Nat
          BY <1>1
        <5> QED BY <1>4, <3>2, <5>1
      <4>2. ~(f <= n)
        BY <3>3, <4>1
      <4> QED BY <3>2, <4>2
    <3> QED BY <1>3, <1>4, <3>2, <3>3
  <2>2. Boundary = IF f = 1 THEN 1 ELSE f - 1
    BY <1>2, <1>6
  <2> HIDE DEF f
  <2>3. ASSUME NEW n \in 1..l
        PROVE  n <= Boundary <=> /\ \A m \in 1..(n - 1) : jobs[waiting[m]].readOnly
                                 /\ jobs[waiting[n]].readOnly \/ n = 1
    <3>1. CASE n < f
      <4>1. n <= Boundary
        BY <1>1, <2>1, <2>2, <3>1
      <4>2. \A m \in 1..n : m \in 1..l /\ m < f
        BY <1>1, <2>1, <3>1
      <4> QED BY <1>1, <2>1, <3>1, <4>1, <4>2
    <3>2. CASE n = f
      <4>1. n <= Boundary <=> n = 1
        BY <1>1, <2>1, <2>2, <3>2
      <4> QED BY <2>1, <3>2, <4>1
    <3>3. CASE n > f
      <4>1. ~(n <= Boundary) /\ f \in 1..(n - 1)
        BY <1>1, <2>1, <2>2, <3>3
      <4> QED BY <2>1, <4>1
    <3> QED BY <1>1, <2>1, <3>1, <3>2, <3>3
  <2>4. Boundary \in Nat /\ Boundary <= l
    BY <1>1, <2>1, <2>2
  <2> QED BY <2>3, <2>4 DEF l
<1> QED BY <1>5, <1>6

(* The item at place n may be started exactly when it is a candidate with  *)
(* no other ahead of it, or a writer at the head with nothing active.      *)
LEMMA StartableIs ==
  ASSUME LoopInv, NEW n \in 1..Len(waiting), NEW x, x = waiting[n]
  PROVE  n \in Startable <=>
           /\ active[jobs[x].key] = "none"
           /\ \A m \in 1..(n - 1) : jobs[waiting[m]].readOnly
           /\ jobs[x].readOnly \/ (n = 1 /\ Held(active) = {})
<1>1. n <= Boundary <=> /\ \A m \in 1..(n - 1) : jobs[waiting[m]].readOnly
                        /\ jobs[x].readOnly \/ n = 1
  BY BoundaryIs
<1>2. n \in 1..Boundary <=> n <= Boundary
  BY BoundaryIs, PlacesLeft
<1>3. n \in Startable <=> /\ n \in 1..Boundary /\ active[jobs[x].key] = "none"
                          /\ jobs[x].readOnly \/ Held(active) = {}
  BY DEF Startable
<1> QED BY <1>1, <1>2, <1>3

(* The first of the startable items is the first of the candidates, or a   *)
(* writer at the head.                                                     *)
LEMMA FirstStartable ==
  ASSUME LoopInv, Startable # {}, NEW f, f = First(Startable), NEW x, x = waiting[f]
  PROVE  /\ f \in 1..Len(waiting) /\ x \in Left
         /\ active[jobs[x].key] = "none"
         /\ jobs[x].readOnly =>
              /\ x \in Candidates(Left, jobs, Position, active)
              /\ \A i \in Candidates(Left, jobs, Position, active) : x <= i
         /\ ~jobs[x].readOnly => Held(active) = {} /\ \A i \in Left : x <= i
<1> DEFINE C == Candidates(Left, jobs, Position, active)
<1>1. Startable \subseteq 1..Len(waiting) /\ Len(waiting) \in Nat
  BY BoundaryIs, PlacesLeft DEF Startable
<1>2. f \in Startable /\ \A n \in Startable : f <= n
  <2>1. Startable \in SUBSET Nat
    BY <1>1
  <2> QED BY <2>1, Least
<1>3. f \in 1..Len(waiting) /\ x \in Left
  BY <1>1, <1>2, PlacesLeft
<1>4. /\ active[jobs[x].key] = "none"
      /\ \A m \in 1..(f - 1) : jobs[waiting[m]].readOnly
      /\ jobs[x].readOnly \/ (f = 1 /\ Held(active) = {})
  BY <1>2, <1>3, StartableIs
<1>5. \A i \in Left : i \in Nat /\ Position[i] = i /\ jobs[i] \in JobRows
  BY PlacesLeft
<1>6. ASSUME NEW n \in 1..Len(waiting), waiting[n] \in C PROVE f <= n
  <2>1. /\ jobs[waiting[n]].readOnly /\ active[jobs[waiting[n]].key] = "none"
        /\ \A j \in Left : j < waiting[n] => jobs[j].readOnly
    BY <1>5, <1>6, PlacesLeft DEF Candidates, Before
  <2>2. ASSUME NEW m \in 1..(n - 1) PROVE jobs[waiting[m]].readOnly
    <3>1. m \in 1..Len(waiting) /\ m < n
      BY <1>1
    <3>2. waiting[m] \in Left /\ waiting[m] < waiting[n]
      BY <3>1, PlacesLeft
    <3> QED BY <2>1, <3>2
  <2>3. n \in Startable
    BY <2>1, <2>2, StartableIs
  <2> QED BY <1>2, <2>3
<1>7. ASSUME NEW i \in C PROVE x <= i
  <2>1. PICK n \in 1..Len(waiting) : i = waiting[n]
    BY PlacesLeft DEF Candidates
  <2>2. f <= n
    BY <1>6, <2>1
  <2>3. f = n \/ x < i
    BY <1>1, <1>3, <2>1, <2>2, PlacesLeft
  <2>4. i \in Nat /\ x \in Nat
    BY <1>3, <1>5 DEF Candidates
  <2> QED BY <2>1, <2>3, <2>4
<1>8. ASSUME jobs[x].readOnly PROVE x \in C
  <2>1. ASSUME NEW j \in Left, j < x PROVE jobs[j].readOnly /\ jobs[j].key # jobs[x].key
    <3>1. PICK n \in 1..Len(waiting) : j = waiting[n]
      BY PlacesLeft
    <3>2. n < f /\ n \in 1..(f - 1)
      BY <1>1, <1>3, <2>1, <3>1, PlacesLeft
    <3>3. jobs[j].readOnly /\ \A m \in 1..(n - 1) : jobs[waiting[m]].readOnly
      <4>1. \A m \in 1..(n - 1) : m \in 1..(f - 1)
        BY <1>1, <1>3, <3>2
      <4> QED BY <1>4, <3>1, <3>2, <4>1
    <3>4. n \notin Startable
      <4>1. n \in Nat /\ f \in Nat
        BY <1>1, <1>3
      <4> QED BY <1>2, <3>2, <4>1
    <3>5. active[jobs[j].key] # "none"
      BY <3>1, <3>3, <3>4, StartableIs
    <3> QED BY <1>4, <3>3, <3>5
  <2> QED BY <1>3, <1>4, <1>5, <1>8, <2>1 DEF Candidates, Before
<1>9. ASSUME ~jobs[x].readOnly PROVE Held(active) = {} /\ \A i \in Left : x <= i
  <2>1. f = 1 /\ Held(active) = {}
    BY <1>4, <1>9
  <2>2. ASSUME NEW i \in Left PROVE x <= i
    <3>1. PICK n \in 1..Len(waiting) : i = waiting[n]
      BY PlacesLeft
    <3>2. n = 1 \/ 1 < n
      BY <1>1
    <3>3. x = i \/ x < i
      BY <1>3, <2>1, <3>1, <3>2, PlacesLeft
    <3> QED BY <1>3, <1>5, <3>3
  <2> QED BY <2>1, <2>2
<1> QED BY <1>3, <1>4, <1>7, <1>8, <1>9

(* What an iteration leaves of the array                                   *)
LEMMA SplicedLoop ==
  ASSUME LoopInv, NEW f \in 1..Len(waiting), NEW x, x = waiting[f],
         waiting' = SubSeq(waiting, 1, f - 1) \o SubSeq(waiting, f + 1, Len(waiting)),
         jobs' = jobs
  PROVE  /\ waiting' \in Seq(Items)
         /\ \A m, n \in DOMAIN waiting' : m < n => waiting'[m] < waiting'[n]
         /\ Left' = Left \ {x} /\ Started' = Started \union {x}
<1> DEFINE l == Len(waiting)
           u == waiting'
<1>1. /\ waiting \in Seq(Items) /\ l \in Nat /\ DOMAIN waiting = 1..l
      /\ \A m, n \in 1..l : waiting[m] < waiting[n] <=> m < n
  BY PlacesLeft DEF LoopInv
<1>2. /\ u \in Seq(Items) /\ Len(u) = l - 1
      /\ \A k \in 1..Len(u) : u[k] = IF k < f THEN waiting[k] ELSE waiting[k + 1]
  BY ZenonT(40), <1>1, Spliced
<1>3. DOMAIN u = 1..(l - 1)
  BY <1>2, LenProperties
<1> HIDE DEF l, u
<1>4. f \in 1..l
  BY DEF l
<1>5. ASSUME NEW m \in 1..(l - 1), NEW n \in 1..(l - 1), m < n PROVE u[m] < u[n]
  <2> DEFINE a == IF m < f THEN m ELSE m + 1
             b == IF n < f THEN n ELSE n + 1
  <2>1. a \in 1..l /\ b \in 1..l /\ a < b
    BY <1>1, <1>4, <1>5
  <2>2. u[m] = waiting[a] /\ u[n] = waiting[b]
    BY <1>2
  <2> HIDE DEF a, b
  <2> QED BY <1>1, <2>1, <2>2
<1>6. \A n \in 1..l : waiting[n] = x => n = f
  <2>1. \A n \in 1..l : waiting[n] \in Nat
    BY <1>1, PlacesLeft DEF l
  <2>2. ASSUME NEW n \in 1..l, waiting[n] = x PROVE n = f
    <3>1. ~(waiting[n] < waiting[f]) /\ ~(waiting[f] < waiting[n])
      BY <1>4, <2>1, <2>2
    <3>2. ~(n < f) /\ ~(f < n)
      BY <1>1, <1>4, <3>1
    <3> QED BY <1>1, <1>4, <3>2
  <2> QED BY <2>2
<1>7. Left' = Left \ {x}
  <2>1. Left' = {u[n] : n \in 1..(l - 1)} /\ Left = {waiting[n] : n \in 1..l}
    BY <1>1, <1>3 DEF Left, u
  <2>2. ASSUME NEW n \in 1..(l - 1) PROVE u[n] \in Left \ {x}
    <3> DEFINE b == IF n < f THEN n ELSE n + 1
    <3>1. b \in 1..l /\ b # f
      BY <1>1, <1>4
    <3>2. u[n] = waiting[b]
      BY <1>2
    <3> HIDE DEF b
    <3> QED BY <1>6, <2>1, <3>1, <3>2
  <2>3. ASSUME NEW n \in 1..l, waiting[n] # x PROVE waiting[n] \in Left'
    <3> DEFINE b == IF n < f THEN n ELSE n - 1
    <3>1. n # f
      BY <2>3
    <3>2. b \in 1..(l - 1) /\ n = IF b < f THEN b ELSE b + 1
      BY <1>1, <1>4, <3>1
    <3>3. u[b] = waiting[n]
      BY <1>2, <3>2
    <3> HIDE DEF b
    <3> QED BY <2>1, <3>2, <3>3
  <2> QED BY <2>1, <2>2, <2>3
<1>8. x \in Items /\ Left \subseteq Items /\ Items' = Items
  BY <1>1, <1>4, PlacesLeft DEF Items
<1> QED BY <1>2, <1>3, <1>5, <1>7, <1>8 DEF u, Started

(* The item an iteration starts is the first of those still chosen, and    *)
(* what is chosen of the rest is what was chosen but for it.               *)
LEMMA ChosenNext ==
  ASSUME LoopInv, ~WriterActive(active), Cardinality(Held(active)) < Limit, Startable # {},
         NEW x, x = waiting[First(Startable)],
         NEW act, act = [active EXCEPT ![jobs[x].key] = Mode(jobs[x])]
  PROVE  /\ act \in [Keys -> Access] /\ IsFiniteSet(Held(act)) /\ Cardinality(Held(act)) <= Limit
         /\ Chosen(Left, jobs, Position, active)
              = {x} \union Chosen(Left \ {x}, jobs, Position, act)
<1> DEFINE C == Candidates(Left, jobs, Position, active)
           C1 == Candidates(Left \ {x}, jobs, Position, act)
           held == Cardinality(Held(active))
<1>1. /\ x \in Left /\ active[jobs[x].key] = "none"
      /\ jobs[x].readOnly => x \in C /\ \A i \in C : x <= i
      /\ ~jobs[x].readOnly => Held(active) = {} /\ \A i \in Left : x <= i
  BY FirstStartable
<1>2. \A i \in Left : i \in Nat /\ Position[i] = i /\ jobs[i] \in JobRows
  BY PlacesLeft
<1>3. active \in [Keys -> Access] /\ IsFiniteSet(Held(active)) /\ jobs[x].key \in Keys
  BY <1>1, <1>2 DEF LoopInv, JobRows
<1>4. /\ act \in [Keys -> Access] /\ Held(act) = Held(active) \union {jobs[x].key}
      /\ IsFiniteSet(Held(act)) /\ Cardinality(Held(act)) = held + 1 /\ held \in Nat
  <2>1. Mode(jobs[x]) \in {"read", "write"}
    BY DEF Mode
  <2> QED BY <1>1, <1>3, <2>1, OneMoreHeld
<1>5. Cardinality(Held(act)) <= Limit
  BY <1>4, LimitAssumption
<1>6. CASE jobs[x].readOnly
  <2> DEFINE D == C \ {x}
  <2>1. act = [active EXCEPT ![jobs[x].key] = "read"]
    BY <1>6 DEF Mode
  <2>2. /\ C1 = D /\ x \in C /\ Before(x, C, Position) = {}
        /\ \A i \in D : Before(i, C, Position) = Before(i, D, Position) \union {x}
    <3>1. x \in C /\ \A i \in C : x <= i
      BY <1>1, <1>6
    <3> QED BY <2>1, <3>1, CandidatesLeft
  <2>3. ASSUME NEW i \in D
        PROVE  Cardinality(Before(i, C, Position)) < Limit - held
                 <=> Cardinality(Before(i, D, Position)) < Limit - (held + 1)
    <3> DEFINE b == Before(i, D, Position)
    <3>1. IsFiniteSet(b)
      <4>1. b \subseteq 0..i /\ i \in Nat
        BY <1>2 DEF Before, Candidates
      <4>2. IsFiniteSet(0..i)
        BY <4>1, FS_Interval
      <4> QED BY <4>1, <4>2, FS_Subset
    <3>2. x \notin b
      BY DEF Before
    <3> HIDE DEF b
    <3>3. Cardinality(b \union {x}) = Cardinality(b) + 1 /\ Cardinality(b) \in Nat
      BY <3>1, <3>2, FS_AddElement, FS_CardinalityType
    <3>4. Cardinality(Before(i, C, Position)) = Cardinality(b) + 1
      BY <2>2, <3>3 DEF b
    <3> QED BY <1>4, <3>3, <3>4, LimitAssumption DEF b
  <2>4. Cardinality(Before(x, C, Position)) < Limit - held
    BY <1>4, <2>2, FS_EmptySet, LimitAssumption
  <2>5. \A i \in Left : ~jobs[i].readOnly /\ Before(i, Left, Position) = {} => Held(active) # {}
    <3> SUFFICES ASSUME NEW i \in Left, ~jobs[i].readOnly, Before(i, Left, Position) = {} PROVE FALSE
      OBVIOUS
    <3>1. x # i /\ ~(i < x)
      BY <1>1, <1>2, <1>6, <2>2 DEF Candidates, Before
    <3>2. x < i
      BY <1>1, <1>2, <3>1
    <3> QED BY <1>1, <1>2, <3>2 DEF Before
  <2>6. Held(act) # {}
    BY <1>4
  <2>7. ~WriterActive(act)
    BY <1>3, <2>1 DEF WriterActive
  <2>8. Chosen(Left, jobs, Position, active) = {i \in C : Cardinality(Before(i, C, Position)) < Limit - held}
    BY <2>5 DEF Chosen
  <2>9. Chosen(Left \ {x}, jobs, Position, act)
          = {i \in D : Cardinality(Before(i, D, Position)) < Limit - (held + 1)}
    BY <1>4, <2>2, <2>6, <2>7 DEF Chosen
  <2> HIDE DEF C, C1, held
  <2>10. /\ x \in {i \in C : Cardinality(Before(i, C, Position)) < Limit - held}
         /\ \A i \in C \ {x} :
              i \in {j \in C : Cardinality(Before(j, C, Position)) < Limit - held}
                <=> i \in {j \in D : Cardinality(Before(j, D, Position)) < Limit - (held + 1)}
    BY <2>2, <2>3, <2>4
  <2> HIDE DEF D
  <2>11. Chosen(Left, jobs, Position, active)
           = {x} \union Chosen(Left \ {x}, jobs, Position, act)
    <3>1. D = C \ {x}
      BY DEF D
    <3> QED BY ZenonT(40), <2>8, <2>9, <2>10, <3>1
  <2> QED BY <1>4, <1>5, <2>11
<1>7. CASE ~jobs[x].readOnly
  <2>1. Held(active) = {} /\ \A i \in Left : x <= i
    BY <1>1, <1>7
  <2>2. WriterActive(act)
    BY <1>3, <1>7 DEF Mode, WriterActive
  <2>3. Chosen(Left \ {x}, jobs, Position, act) = {}
    BY <2>2 DEF Chosen
  <2>4. C = {}
    <3> SUFFICES ASSUME NEW i \in C PROVE FALSE
      OBVIOUS
    <3>1. i \in Left /\ i # x
      BY <1>7 DEF Candidates
    <3>2. x < i
      BY <1>1, <1>2, <2>1, <3>1
    <3> QED BY <1>1, <1>2, <1>7, <3>1, <3>2 DEF Candidates, Before
  <2>5. \A i \in Left : Before(i, Left, Position) = {} <=> i = x
    <3>1. Before(x, Left, Position) = {}
      BY <1>1, <1>2, <2>1 DEF Before
    <3>2. ASSUME NEW i \in Left, i # x PROVE x \in Before(i, Left, Position)
      BY <1>1, <1>2, <2>1, <3>2 DEF Before
    <3> QED BY <3>1, <3>2
  <2>6. Chosen(Left, jobs, Position, active) = {x}
    BY <1>1, <1>7, <2>1, <2>4, <2>5 DEF Chosen
  <2> QED BY <1>4, <1>5, <2>3, <2>6
<1> QED BY <1>6, <1>7

(* At every iteration, what Chosen says is still to be started together    *)
(* with what the loop has started is what it says of the array and the Map *)
(* drain() was called with.                                                *)
THEOREM LoopInvariant == DrainSpec => []LoopInv
<1>1. Init => LoopInv
  <2> SUFFICES ASSUME Init PROVE LoopInv
    OBVIOUS
  <2>1. PICK n \in 0..MaxWaiting : jobs \in [1..n -> JobRows]
    BY DEF Init, JobRows
  <2>2. jobs \in Seq(JobRows) /\ Items = 1..n /\ n \in Nat
    BY <2>1, MaxWaitingAssumption DEF Items
  <2>3. waiting = [i \in 1..n |-> i]
    BY <2>2 DEF Init, Items
  <2>4. waiting \in Seq(Items) /\ DOMAIN waiting = 1..n /\ \A i \in 1..n : waiting[i] = i
    BY <2>2, <2>3
  <2>5. Left = Items
    BY <2>2, <2>4 DEF Left
  <2>6. LoopStartsChosen
    BY <2>5 DEF LoopStartsChosen, Started, Init
  <2>7. before \in Maps /\ active = before
    BY DEF Init
  <2> QED BY <2>2, <2>4, <2>6, <2>7 DEF LoopInv, Maps
<1>2. LoopInv /\ [Iterate]_vars => LoopInv'
  <2> SUFFICES ASSUME LoopInv, [Iterate]_vars PROVE LoopInv'
    OBVIOUS
  <2>1. CASE UNCHANGED vars
    BY ZenonT(40), <2>1 DEF vars, LoopInv, LoopStartsChosen, Items, Left, Started, Position, Held
  <2>2. CASE Iterate
    <3> DEFINE f == First(Startable)
               x == waiting[f]
    <3>1. /\ ~WriterActive(active) /\ Cardinality(Held(active)) < Limit /\ Startable # {}
          /\ waiting' = SubSeq(waiting, 1, f - 1) \o SubSeq(waiting, f + 1, Len(waiting))
          /\ active' = [active EXCEPT ![jobs[x].key] = Mode(jobs[x])]
          /\ jobs' = jobs /\ before' = before
      BY <2>2 DEF Iterate
    <3>2. f \in 1..Len(waiting)
      BY <3>1, FirstStartable
    <3> HIDE DEF f
    <3>3. /\ waiting' \in Seq(Items)
          /\ \A m, n \in DOMAIN waiting' : m < n => waiting'[m] < waiting'[n]
          /\ Left' = Left \ {x} /\ Started' = Started \union {x}
      BY <3>1, <3>2, SplicedLoop
    <3>4. /\ active' \in [Keys -> Access] /\ IsFiniteSet(Held(active')) /\ Cardinality(Held(active')) <= Limit
          /\ Chosen(Left, jobs, Position, active)
               = {x} \union Chosen(Left \ {x}, jobs, Position, active')
      BY <3>1, ChosenNext DEF f
    <3>5. Items' = Items /\ Position' = Position
      BY <3>1 DEF Items, Position
    <3>6. LoopStartsChosen'
      BY <3>1, <3>3, <3>4, <3>5 DEF LoopInv, LoopStartsChosen
    <3>7. Held(active)' = Held(active')
      BY DEF Held
    <3> QED BY <3>1, <3>3, <3>4, <3>5, <3>6, <3>7 DEF LoopInv
  <2> QED BY <2>1, <2>2
<1> QED BY <1>1, <1>2, PTL DEF DrainSpec

THEOREM LoopIsChosen == DrainSpec => []LoopStartsChosen
BY LoopInvariant, PTL DEF LoopInv

(* Where the loop has no next iteration it has started all that Chosen     *)
(* says of the array and the Map drain() was called with, and nothing else.*)
THEOREM LoopEndsChosen ==
  DrainSpec => [](Stopped => Started = Chosen(Items, jobs, Position, before))
<1>1. LoopInv => (Stopped => Started = Chosen(Items, jobs, Position, before))
  <2> SUFFICES ASSUME LoopInv, Stopped PROVE Chosen(Left, jobs, Position, active) = {}
    BY DEF LoopInv, LoopStartsChosen
  <2> DEFINE C == Candidates(Left, jobs, Position, active)
             held == Cardinality(Held(active))
  <2>1. CASE WriterActive(active)
    BY <2>1 DEF Chosen
  <2>2. CASE waiting = <<>>
    <3>1. Left = {}
      BY <2>2 DEF Left
    <3> QED BY <3>1 DEF Chosen, Candidates
  <2>3. CASE held >= Limit
    <3>1. held \in Nat
      BY FS_CardinalityType DEF LoopInv
    <3>2. Held(active) # {}
      BY <2>3, <3>1, FS_EmptySet, LimitAssumption
    <3>3. ASSUME NEW i \in C PROVE ~(Cardinality(Before(i, C, Position)) < Limit - held)
      <4>1. IsFiniteSet(Before(i, C, Position))
        <5>1. Before(i, C, Position) \subseteq 0..i /\ i \in Nat
          BY PlacesLeft DEF Before, Candidates
        <5>2. IsFiniteSet(0..i)
          BY <5>1, FS_Interval
        <5> QED BY <5>1, <5>2, FS_Subset
      <4>2. Cardinality(Before(i, C, Position)) \in Nat
        BY <4>1, FS_CardinalityType
      <4> QED BY <2>3, <3>1, <4>2, LimitAssumption
    <3> QED BY <3>2, <3>3 DEF Chosen
  <2>4. CASE Startable = {}
    <3>1. ASSUME NEW i \in Left, NEW n \in 1..Len(waiting), i = waiting[n]
          PROVE  \A m \in 1..(n - 1) : waiting[m] \in Before(i, Left, Position)
      <4> SUFFICES ASSUME NEW m \in 1..(n - 1) PROVE waiting[m] \in Before(i, Left, Position)
        OBVIOUS
      <4>1. m \in 1..Len(waiting) /\ m < n
        BY PlacesLeft
      <4>2. waiting[m] \in Left /\ waiting[m] < i
        BY <3>1, <4>1, PlacesLeft
      <4>3. Position[i] = i /\ Position[waiting[m]] = waiting[m]
        BY <4>2, PlacesLeft
      <4> QED BY <4>2, <4>3 DEF Before
    <3>2. ASSUME NEW i \in C PROVE FALSE
      <4>1. PICK n \in 1..Len(waiting) : i = waiting[n]
        BY PlacesLeft DEF Candidates
      <4>2. /\ i \in Left /\ jobs[i].readOnly /\ active[jobs[i].key] = "none"
            /\ \A j \in Before(i, Left, Position) : jobs[j].readOnly
        BY DEF Candidates
      <4> QED BY <2>4, <3>1, <4>1, <4>2, StartableIs
    <3>3. ASSUME NEW i \in Left, Before(i, Left, Position) = {}, Held(active) = {} PROVE FALSE
      <4>1. PICK n \in 1..Len(waiting) : i = waiting[n]
        BY PlacesLeft
      <4>2. n = 1
        <5>1. n = 1 \/ 1 \in 1..(n - 1)
          BY PlacesLeft
        <5> QED BY <3>1, <3>3, <4>1, <5>1
      <4>3. active[jobs[i].key] = "none"
        BY <3>3, PlacesLeft DEF Held, JobRows
      <4> QED BY <2>4, <3>3, <4>1, <4>2, <4>3, StartableIs
    <3> QED BY <3>2, <3>3 DEF Chosen
  <2> QED BY <2>1, <2>2, <2>3, <2>4 DEF Stopped
<1> QED BY <1>1, LoopInvariant, PTL
===========================================================================
