------------------------ MODULE DelegationQueueProofs ------------------------
(***************************************************************************)
(* Proofs about DelegationQueue, for any number of calls, any set of keys  *)
(* and any Limit: mutual exclusion, the Map that matches the running       *)
(* calls, the array that never holds a call twice, and calls that wait     *)
(* only for the reason drain() reports.                                    *)
(*                                                                         *)
(* The invariant is inductive once it says of the state both what drain()  *)
(* needs (Good: a predicate of drain's four inputs, so that each action    *)
(* proves it of the inputs it hands to drain()) and what drain() gives     *)
(* back (Placed: the waiting calls have the places 1..n of the array).     *)
(***************************************************************************)
EXTENDS DelegationQueue, FiniteSetTheorems, TLAPS

RunningIn(ph) == {i \in Calls : ph[i] \in {"starting", "working", "resolved", "rejected"}}
WaitingIn(ph) == {i \in Calls : ph[i] = "waiting"}

Typed(ph, jb, idx, act) ==
  /\ ph \in [Calls -> Phases]
  /\ jb \in [Calls -> Jobs]
  /\ idx \in [Calls -> Nat]
  /\ act \in [Keys -> Access]
  /\ \A i \in WaitingIn(ph) \union RunningIn(ph) : jb[i].key \in Keys

Ordered(ph, idx) ==
  \A i, j \in WaitingIn(ph) : idx[i] = idx[j] => i = j

Exclusive(ph, jb) ==
  \A i, j \in RunningIn(ph) :
    i # j => jb[i].readOnly /\ jb[j].readOnly /\ jb[i].key # jb[j].key

Matching(ph, jb, act) ==
  /\ \A i \in RunningIn(ph) : act[jb[i].key] = Mode(jb[i])
  /\ \A k \in Keys : act[k] # "none" => \E i \in RunningIn(ph) : jb[i].key = k

Good(ph, jb, idx, act) ==
  /\ Typed(ph, jb, idx, act)
  /\ Ordered(ph, idx)
  /\ Exclusive(ph, jb)
  /\ Matching(ph, jb, act)
  /\ Cardinality(RunningIn(ph)) <= Limit

Placed ==
  /\ \A i \in Calls : index[i] > 0 <=> phase[i] = "waiting"
  /\ \A i \in Calls : index[i] <= Cardinality(Waiting)
  /\ aborted \subseteq Calls

IInv == Good(phase, job, index, active) /\ Placed

-----------------------------------------------------------------------------
(* Places in a finite array: the number of items before an item is below   *)
(* the length of the array, and tells the items apart.                     *)
LEMMA Ranks ==
  ASSUME NEW W, NEW idx, IsFiniteSet(W),
         \A i \in W : idx[i] \in Nat,
         \A i, j \in W : idx[i] = idx[j] => i = j
  PROVE  /\ \A i \in W : /\ Cardinality(Before(i, W, idx)) \in Nat
                         /\ Cardinality(Before(i, W, idx)) + 1 <= Cardinality(W)
         /\ \A i, j \in W :
              Cardinality(Before(i, W, idx)) = Cardinality(Before(j, W, idx)) => i = j
         /\ \A i, j \in W : idx[i] < idx[j] <=>
              Cardinality(Before(i, W, idx)) < Cardinality(Before(j, W, idx))
<1>0. Cardinality(W) \in Nat
  BY FS_CardinalityType
<1>1. ASSUME NEW i \in W
      PROVE  /\ IsFiniteSet(Before(i, W, idx))
             /\ Cardinality(Before(i, W, idx)) \in Nat
             /\ Cardinality(Before(i, W, idx)) < Cardinality(W)
  <2>1. Before(i, W, idx) \in SUBSET W /\ i \notin Before(i, W, idx)
    BY DEF Before
  <2>2. /\ IsFiniteSet(Before(i, W, idx))
        /\ Cardinality(Before(i, W, idx)) <= Cardinality(W)
        /\ Cardinality(W) = Cardinality(Before(i, W, idx)) => W = Before(i, W, idx)
    BY <2>1, FS_Subset
  <2>3. Cardinality(Before(i, W, idx)) \in Nat
    BY <2>2, FS_CardinalityType
  <2> QED BY <2>1, <2>2, <2>3, <1>0
<1>2. ASSUME NEW i \in W, NEW j \in W, idx[i] < idx[j]
      PROVE  Cardinality(Before(i, W, idx)) < Cardinality(Before(j, W, idx))
  <2>1. /\ Before(i, W, idx) \in SUBSET Before(j, W, idx)
        /\ i \in Before(j, W, idx) /\ i \notin Before(i, W, idx)
    BY <1>2 DEF Before
  <2>2. /\ Cardinality(Before(i, W, idx)) <= Cardinality(Before(j, W, idx))
        /\ Cardinality(Before(j, W, idx)) = Cardinality(Before(i, W, idx))
             => Before(j, W, idx) = Before(i, W, idx)
    BY <1>1, <2>1, FS_Subset
  <2> QED BY <1>1, <2>1, <2>2
<1>3. ASSUME NEW i \in W, NEW j \in W,
             Cardinality(Before(i, W, idx)) = Cardinality(Before(j, W, idx))
      PROVE  i = j
  <2>1. ~(idx[i] < idx[j]) /\ ~(idx[j] < idx[i])
    BY <1>1, <1>2, <1>3
  <2> QED BY <2>1
<1>4. ASSUME NEW i \in W, NEW j \in W,
             Cardinality(Before(i, W, idx)) < Cardinality(Before(j, W, idx))
      PROVE  idx[i] < idx[j]
  <2>1. i # j /\ ~(idx[j] < idx[i])
    BY <1>1, <1>2, <1>4
  <2> QED BY <2>1
<1> QED BY <1>0, <1>1, <1>2, <1>3, <1>4

-----------------------------------------------------------------------------
(* What one call of drain() may start, given a Map of at most Limit keys.  *)
LEMMA ChosenFits ==
  ASSUME NEW W, NEW jb, NEW idx, NEW act, IsFiniteSet(W),
         \A i \in W : idx[i] \in Nat,
         \A i, j \in W : idx[i] = idx[j] => i = j,
         \A i \in W : jb[i].key \in Keys,
         IsFiniteSet(Held(act)), Cardinality(Held(act)) <= Limit,
         NEW go, go = Chosen(W, jb, idx, act)
  PROVE  /\ go \subseteq W
         /\ go # {} => ~WriterActive(act)
         /\ \A i \in go : act[jb[i].key] = "none"
         /\ \A i, j \in go :
              i # j => jb[i].readOnly /\ jb[j].readOnly /\ jb[i].key # jb[j].key
         /\ \A i \in go : ~jb[i].readOnly => Held(act) = {}
         /\ Cardinality(go) + Cardinality(Held(act)) <= Limit
<1> DEFINE cands == Candidates(W, jb, idx, act)
           room == Limit - Cardinality(Held(act))
           readers == {i \in cands : Cardinality(Before(i, cands, idx)) < room}
           writer == {i \in W : ~jb[i].readOnly /\ Before(i, W, idx) = {} /\ Held(act) = {}}
<1>0. Cardinality(Held(act)) \in Nat /\ room \in Nat
  BY FS_CardinalityType, LimitAssumption
<1>1. go = IF WriterActive(act) THEN {} ELSE readers \union writer
  BY DEF Chosen
<1>2. cands \in SUBSET W /\ IsFiniteSet(cands)
  <2>1. cands \in SUBSET W
    BY DEF Candidates
  <2> QED BY <2>1, FS_Subset
<1>3. \A i \in cands : jb[i].readOnly /\ act[jb[i].key] = "none"
  BY DEF Candidates
<1>4. ASSUME NEW i \in cands, NEW j \in cands, i # j
      PROVE  jb[i].key # jb[j].key
  <2>1. i \in W /\ j \in W /\ idx[i] # idx[j] /\ idx[i] \in Nat /\ idx[j] \in Nat
    BY <1>2, <1>4
  <2>2. i \in Before(j, W, idx) \/ j \in Before(i, W, idx)
    BY <2>1 DEF Before
  <2> QED BY <2>2 DEF Candidates
<1>5. ASSUME NEW i \in writer, NEW j \in writer
      PROVE  i = j
  <2>1. i \notin Before(j, W, idx) /\ j \notin Before(i, W, idx)
    OBVIOUS
  <2>2. idx[i] = idx[j]
    BY <2>1 DEF Before
  <2> QED BY <2>2
<1>6. writer # {} => readers = {}
  <2> SUFFICES ASSUME NEW i \in writer, NEW j \in cands PROVE FALSE
    OBVIOUS
  <2>1. i \in W /\ j \in W /\ i # j /\ idx[i] # idx[j]
    BY <1>2, <1>3
  <2>2. i \notin Before(j, W, idx)
    BY DEF Candidates
  <2>3. j \in Before(i, W, idx)
    BY <2>1, <2>2 DEF Before
  <2> QED BY <2>3
<1>7. IsFiniteSet(readers) /\ Cardinality(readers) <= room
  <2>1. IsFiniteSet(readers)
    BY <1>2, FS_Subset
  <2>2. /\ \A i \in cands : /\ Cardinality(Before(i, cands, idx)) \in Nat
                            /\ Cardinality(Before(i, cands, idx)) + 1 <= Cardinality(cands)
        /\ \A i, j \in cands :
             Cardinality(Before(i, cands, idx)) = Cardinality(Before(j, cands, idx)) => i = j
    <3>1. /\ \A i \in cands : idx[i] \in Nat
          /\ \A i, j \in cands : idx[i] = idx[j] => i = j
      BY <1>2
    <3> HIDE DEF cands
    <3> QED BY <1>2, <3>1, Ranks
  <2>3. CASE Cardinality(readers) > room
    <3> DEFINE places == 0..(room - 1)
               f == [i \in readers |-> Cardinality(Before(i, cands, idx))]
    <3>1. IsFiniteSet(places) /\ Cardinality(places) = room
      <4>1. 0 \in Int /\ room - 1 \in Int
        BY <1>0
      <4>2. /\ IsFiniteSet(places)
            /\ Cardinality(places) = IF 0 > room - 1 THEN 0 ELSE (room - 1) - 0 + 1
        <5> HIDE DEF room
        <5> QED BY <4>1, FS_Interval
      <4> QED BY <1>0, <4>2
    <3>2. f \in [readers -> places]
      <4>1. \A i \in readers : Cardinality(Before(i, cands, idx)) \in places
        BY <1>0, <2>2
      <4> QED BY <4>1
    <3>3. Cardinality(places) < Cardinality(readers)
      BY <2>3, <3>1
    <3>4. PICK x, y \in readers : x # y /\ f[x] = f[y]
      <4> HIDE DEF readers, places, f
      <4> QED BY <2>1, <3>1, <3>2, <3>3, FS_PigeonHole
    <3> QED BY <2>2, <3>4
  <2>4. Cardinality(readers) \in Nat
    BY <2>1, FS_CardinalityType
  <2> QED BY <1>0, <2>1, <2>3, <2>4
<1>8. Cardinality(go) + Cardinality(Held(act)) <= Limit
  <2>1. CASE go = {}
    BY <2>1, FS_EmptySet, <1>0
  <2>2. CASE go = readers
    BY <2>2, <1>7, <1>0, FS_CardinalityType, LimitAssumption
  <2>3. CASE go = writer /\ writer # {}
    <3>1. PICK i \in writer : writer = {i}
      BY <1>5, <2>3
    <3>2. Cardinality(go) = 1 /\ Cardinality(Held(act)) = 0
      BY <2>3, <3>1, FS_Singleton, FS_EmptySet
    <3> QED BY <3>2, LimitAssumption
  <2> QED BY <1>1, <1>6, <2>1, <2>2, <2>3
<1>9. go \subseteq W /\ (go # {} => ~WriterActive(act))
  BY <1>1, <1>2
<1>10. \A i \in go : act[jb[i].key] = "none" /\ (~jb[i].readOnly => Held(act) = {})
  <2>1. \A i \in writer : Held(act) = {} /\ act[jb[i].key] = "none"
    BY DEF Held
  <2> QED BY <1>1, <1>3, <2>1
<1>11. \A i, j \in go :
         i # j => jb[i].readOnly /\ jb[j].readOnly /\ jb[i].key # jb[j].key
  BY <1>1, <1>3, <1>4, <1>5, <1>6
<1> QED BY <1>8, <1>9, <1>10, <1>11

-----------------------------------------------------------------------------
(* The Map has at most as many keys as calls run, and calls that run       *)
(* together have different keys.                                           *)
LEMMA HeldByRunning ==
  ASSUME NEW ph, NEW jb, NEW idx, NEW act, Good(ph, jb, idx, act)
  PROVE  /\ IsFiniteSet(WaitingIn(ph)) /\ IsFiniteSet(RunningIn(ph))
         /\ IsFiniteSet(Held(act))
         /\ Cardinality(Held(act)) \in Nat
         /\ Cardinality(Held(act)) = Cardinality(RunningIn(ph))
<1> DEFINE R == RunningIn(ph)
           H == Held(act)
           f == [i \in R |-> jb[i].key]
<1>1. IsFiniteSet(WaitingIn(ph)) /\ IsFiniteSet(R)
  <2>1. WaitingIn(ph) \in SUBSET Calls /\ RunningIn(ph) \in SUBSET Calls
    BY DEF WaitingIn, RunningIn
  <2> QED BY <2>1, FS_Subset, QueueAssumption
<1>2. f \in [R -> H]
  <2>1. ASSUME NEW i \in R PROVE jb[i].key \in H
    <3>1. act[jb[i].key] = Mode(jb[i]) /\ jb[i].key \in Keys
      BY DEF Good, Matching, Typed
    <3> QED BY <3>1 DEF Held, Mode
  <2> QED BY <2>1
<1>3. \A k \in H : \E i \in R : f[i] = k
  BY DEF Good, Matching, Held
<1>4. f \in Surjection(R, H)
  BY <1>2, <1>3 DEF Surjection
<1>5. IsFiniteSet(H) /\ Cardinality(H) <= Cardinality(R)
  <2> HIDE DEF f, R, H
  <2> QED BY <1>1, <1>4, FS_Surjection
<1>6. Cardinality(H) \in Nat /\ Cardinality(R) \in Nat
  BY <1>1, <1>5, FS_CardinalityType
<1>7. ASSUME Cardinality(H) < Cardinality(R) PROVE FALSE
  <2>1. PICK x, y \in R : x # y /\ f[x] = f[y]
    <3> HIDE DEF f, R, H
    <3> QED BY <1>1, <1>2, <1>5, <1>7, FS_PigeonHole
  <2> QED BY <2>1 DEF Good, Exclusive
<1> QED BY <1>1, <1>5, <1>6, <1>7

-----------------------------------------------------------------------------
(* drain() keeps the invariant: handed a good state, with an item just     *)
(* pushed, spliced out or released, it leaves one.                         *)
LEMMA DrainKeeps ==
  ASSUME NEW ph, NEW jb, NEW idx, NEW act, Good(ph, jb, idx, act),
         Drain(ph, jb, idx, act), job' = jb, aborted' \subseteq Calls
  PROVE  IInv'
<1> DEFINE W == WaitingIn(ph)
           go == Chosen(W, jb, idx, act)
           rest == W \ go
<1>1. /\ phase' = [i \in Calls |-> IF i \in go THEN "starting" ELSE ph[i]]
      /\ index' = [i \in Calls |->
                     IF i \in rest THEN Cardinality(Before(i, rest, idx)) + 1 ELSE 0]
      /\ active' = [k \in Keys |->
                      IF \E i \in go : jb[i].key = k
                      THEN Mode(jb[CHOOSE i \in go : jb[i].key = k])
                      ELSE act[k]]
  BY DEF Drain, WaitingIn
<1>2. /\ go \subseteq W
      /\ go # {} => ~WriterActive(act)
      /\ \A i \in go : act[jb[i].key] = "none"
      /\ \A i, j \in go :
           i # j => jb[i].readOnly /\ jb[j].readOnly /\ jb[i].key # jb[j].key
      /\ \A i \in go : ~jb[i].readOnly => Held(act) = {}
      /\ Cardinality(go) + Cardinality(Held(act)) <= Limit
  <2>1. \A i \in W : idx[i] \in Nat /\ jb[i].key \in Keys
    BY DEF Good, Typed, WaitingIn
  <2>2. \A i, j \in W : idx[i] = idx[j] => i = j
    BY DEF Good, Ordered
  <2>3. IsFiniteSet(W) /\ IsFiniteSet(Held(act)) /\ Cardinality(Held(act)) <= Limit
    BY HeldByRunning DEF Good
  <2> HIDE DEF W
  <2> QED BY <2>1, <2>2, <2>3, ChosenFits
<1> HIDE DEF go
<1>3. phase' \in [Calls -> Phases]
  BY <1>1 DEF Good, Typed, Phases
<1>4. WaitingIn(phase') = rest /\ RunningIn(phase') = RunningIn(ph) \union go
  BY <1>1, <1>2 DEF WaitingIn, RunningIn
<1>5. IsFiniteSet(rest) /\ IsFiniteSet(go) /\ IsFiniteSet(RunningIn(ph))
  <2>1. go \in SUBSET W /\ rest \in SUBSET W /\ IsFiniteSet(W) /\ IsFiniteSet(RunningIn(ph))
    BY <1>2, HeldByRunning
  <2> QED BY <2>1, FS_Subset
<1>6. /\ \A i \in rest : /\ Cardinality(Before(i, rest, idx)) \in Nat
                          /\ Cardinality(Before(i, rest, idx)) + 1 <= Cardinality(rest)
      /\ \A i, j \in rest :
           Cardinality(Before(i, rest, idx)) = Cardinality(Before(j, rest, idx)) => i = j
  <2>1. /\ \A i \in rest : idx[i] \in Nat
        /\ \A i, j \in rest : idx[i] = idx[j] => i = j
    BY DEF Good, Typed, Ordered, WaitingIn
  <2> HIDE DEF rest
  <2> QED BY <1>5, <2>1, Ranks
<1>7. /\ \A i \in go : active'[jb[i].key] = Mode(jb[i])
      /\ \A k \in Keys : (\A i \in go : jb[i].key # k) => active'[k] = act[k]
      /\ \A i \in RunningIn(ph) : active'[jb[i].key] = Mode(jb[i])
  <2>1. ASSUME NEW i \in go PROVE active'[jb[i].key] = Mode(jb[i])
    <3>1. jb[i].key \in Keys
      BY <1>2 DEF Good, Typed, WaitingIn
    <3> DEFINE c == CHOOSE j \in go : jb[j].key = jb[i].key
    <3>2. c \in go /\ jb[c].key = jb[i].key
      OBVIOUS
    <3>3. c = i
      BY <1>2, <3>2
    <3> QED BY <1>1, <3>1, <3>3
  <2>2. \A k \in Keys : (\A i \in go : jb[i].key # k) => active'[k] = act[k]
    BY <1>1
  <2>3. ASSUME NEW i \in RunningIn(ph) PROVE active'[jb[i].key] = Mode(jb[i])
    <3>1. act[jb[i].key] = Mode(jb[i]) /\ jb[i].key \in Keys
      BY DEF Good, Matching, Typed
    <3>2. \A j \in go : jb[j].key # jb[i].key
      BY <1>2, <3>1 DEF Mode
    <3> QED BY <2>2, <3>1, <3>2
  <2> QED BY <2>1, <2>2, <2>3
<1>8. Typed(phase', job', index', active')
  <2>1. index' \in [Calls -> Nat]
    BY <1>1, <1>6
  <2>2. active' \in [Keys -> Access]
    BY <1>1 DEF Good, Typed, Access, Mode
  <2>3. \A i \in WaitingIn(phase') \union RunningIn(phase') : jb[i].key \in Keys
    BY <1>2, <1>4 DEF Good, Typed
  <2> QED BY <1>3, <2>1, <2>2, <2>3 DEF Good, Typed
<1>9. Ordered(phase', index')
  <2> SUFFICES ASSUME NEW i \in rest, NEW j \in rest, index'[i] = index'[j]
               PROVE  i = j
    BY <1>4 DEF Ordered
  <2>1. i \in Calls /\ j \in Calls
    BY DEF WaitingIn
  <2>2. Cardinality(Before(i, rest, idx)) + 1 = Cardinality(Before(j, rest, idx)) + 1
    BY <1>1, <2>1
  <2> HIDE DEF rest
  <2> QED BY <1>6, <2>2
<1>10. Exclusive(phase', job')
  <2>1. ASSUME NEW i \in go, NEW j \in RunningIn(ph)
        PROVE  jb[i].readOnly /\ jb[j].readOnly /\ jb[i].key # jb[j].key
    <3>1. act[jb[j].key] = Mode(jb[j]) /\ jb[j].key \in Keys
      BY DEF Good, Matching, Typed
    <3>2. jb[j].key \in Held(act)
      BY <3>1 DEF Held, Mode
    <3>3. jb[i].readOnly /\ jb[i].key # jb[j].key
      BY <1>2, <3>1, <3>2 DEF Mode
    <3>4. act[jb[j].key] # "write"
      BY <1>2, <3>1 DEF WriterActive
    <3> QED BY <3>1, <3>3, <3>4 DEF Mode
  <2> QED BY <1>2, <1>4, <2>1 DEF Good, Exclusive
<1>11. Matching(phase', job', active')
  <2>1. ASSUME NEW k \in Keys, active'[k] # "none"
        PROVE  \E i \in RunningIn(phase') : jb[i].key = k
    <3>1. CASE \E i \in go : jb[i].key = k
      BY <3>1, <1>4
    <3>2. CASE \A i \in go : jb[i].key # k
      <4>1. act[k] # "none"
        BY <1>7, <2>1, <3>2
      <4> QED BY <1>4, <4>1 DEF Good, Matching
    <3> QED BY <3>1, <3>2
  <2> QED BY <1>4, <1>7, <2>1 DEF Matching
<1>12. Cardinality(RunningIn(phase')) <= Limit
  <2>1. Cardinality(go) \in Nat /\ Cardinality(RunningIn(ph)) \in Nat
    BY <1>5, FS_CardinalityType
  <2>2. RunningIn(ph) \intersect go = {}
    BY <1>2 DEF RunningIn, WaitingIn
  <2>3. Cardinality(RunningIn(ph) \union go) = Cardinality(RunningIn(ph)) + Cardinality(go)
    BY <1>5, <2>1, <2>2, FS_Union, FS_EmptySet
  <2>4. Cardinality(Held(act)) = Cardinality(RunningIn(ph))
    BY HeldByRunning
  <2> QED BY <1>2, <1>4, <2>1, <2>3, <2>4
<1>13. Placed'
  <2>1. \A i \in Calls : index'[i] > 0 <=> phase'[i] = "waiting"
    <3>1. \A i \in Calls : phase'[i] = "waiting" <=> i \in rest
      BY <1>4 DEF WaitingIn
    <3>2. \A i \in Calls : IF i \in rest THEN index'[i] > 0 ELSE index'[i] = 0
      <4> HIDE DEF rest
      <4> QED BY <1>1, <1>6
    <3> QED BY <3>1, <3>2
  <2>2. \A i \in Calls : index'[i] <= Cardinality(Waiting')
    <3>1. Waiting' = rest
      BY <1>4 DEF Waiting, WaitingIn
    <3>2. Cardinality(rest) \in Nat
      BY <1>5, FS_CardinalityType
    <3>3. \A i \in Calls : index'[i] <= Cardinality(rest)
      <4> HIDE DEF rest
      <4> QED BY <1>1, <1>6, <3>2
    <3> QED BY <3>1, <3>3
  <2> QED BY <2>1, <2>2 DEF Placed
<1> QED BY <1>8, <1>9, <1>10, <1>11, <1>12, <1>13 DEF IInv, Good

-----------------------------------------------------------------------------
(* A step is of one of two kinds: it drains an array, from a good state,   *)
(* or it moves no call in or out of the array or the Map.                  *)
DrainStep ==
  \E ph, jb, idx, act : /\ Good(ph, jb, idx, act) /\ Drain(ph, jb, idx, act)
                        /\ job' = jb /\ aborted' \subseteq Calls

SameCalls ==
  /\ phase' \in [Calls -> Phases] /\ job' \in [Calls -> Jobs]
  /\ WaitingIn(phase') = WaitingIn(phase) /\ RunningIn(phase') = RunningIn(phase)
  /\ \A i \in WaitingIn(phase) \union RunningIn(phase) : job'[i] = job[i]
  /\ index' = index /\ active' = active /\ aborted' \subseteq Calls

(* A step that moves calls only among the running phases, or outside the   *)
(* queue, keeps the invariant: drain()'s inputs are what they were.        *)
LEMMA SameCallsKept == ASSUME IInv, SameCalls PROVE IInv'
<1> USE DEF SameCalls
<1>1. Typed(phase', job', index', active')
  BY DEF IInv, Good, Typed
<1>2. Ordered(phase', index')
  BY DEF IInv, Good, Ordered
<1>3. Exclusive(phase', job')
  BY DEF IInv, Good, Exclusive
<1>4. Matching(phase', job', active')
  BY DEF IInv, Good, Matching, Mode
<1>5. Cardinality(RunningIn(phase')) <= Limit
  BY DEF IInv, Good
<1>6. Placed'
  <2>1. \A i \in Calls : phase'[i] = "waiting" <=> phase[i] = "waiting"
    BY DEF WaitingIn
  <2>2. Waiting' = Waiting
    BY DEF Waiting, WaitingIn
  <2> QED BY <2>1, <2>2 DEF IInv, Placed
<1> QED BY <1>1, <1>2, <1>3, <1>4, <1>5, <1>6 DEF IInv, Good

(* An empty queue is good.                                                 *)
LEMMA InitInvariant == Init => IInv
<1> SUFFICES ASSUME Init PROVE IInv
  OBVIOUS
<1>1. WaitingIn(phase) = {} /\ RunningIn(phase) = {} /\ Waiting = {}
  BY DEF Init, WaitingIn, RunningIn, Waiting
<1>2. Cardinality({}) = 0
  BY FS_EmptySet
<1>3. Typed(phase, job, index, active)
  BY <1>1 DEF Init, Typed, Phases, Jobs, Access
<1>4. Ordered(phase, index) /\ Exclusive(phase, job)
  BY <1>1 DEF Ordered, Exclusive
<1>5. Matching(phase, job, active)
  BY <1>1 DEF Matching, Init
<1>6. Cardinality(RunningIn(phase)) <= Limit
  BY <1>1, <1>2, LimitAssumption
<1>7. Placed
  BY <1>1, <1>2 DEF Init, Placed
<1> QED BY <1>3, <1>4, <1>5, <1>6, <1>7 DEF IInv, Good

(* run(): the item is pushed behind every other one.                       *)
LEMMA RunStep ==
  ASSUME IInv, NEW i \in Calls, NEW k \in Keys, NEW ro \in BOOLEAN, Run(i, k, ro)
  PROVE  SameCalls \/ DrainStep
<1>0. /\ phase \in [Calls -> Phases] /\ job \in [Calls -> Jobs]
      /\ index \in [Calls -> Nat] /\ active \in [Keys -> Access]
      /\ phase[i] = "idle" /\ aborted' \subseteq Calls
  BY DEF IInv, Good, Typed, Placed, Run
<1>1. /\ job' \in [Calls -> Jobs]
      /\ job' = [job EXCEPT ![i] = [key |-> k, readOnly |-> ro]]
  BY <1>0 DEF Run, Jobs
<1>2. CASE i \in aborted
  <2>1. phase' = [phase EXCEPT ![i] = "refused"] /\ index' = index /\ active' = active
    BY <1>2 DEF Run
  <2>2. phase' \in [Calls -> Phases]
    BY <1>0, <2>1 DEF Phases
  <2>3. WaitingIn(phase') = WaitingIn(phase) /\ RunningIn(phase') = RunningIn(phase)
    BY <1>0, <2>1 DEF WaitingIn, RunningIn
  <2>4. \A j \in WaitingIn(phase) \union RunningIn(phase) : job'[j] = job[j]
    BY <1>0, <1>1 DEF WaitingIn, RunningIn
  <2> QED BY <1>0, <1>1, <2>1, <2>2, <2>3, <2>4 DEF SameCalls
<1>3. CASE i \notin aborted
  <2> DEFINE ph == [phase EXCEPT ![i] = "waiting"]
             idx == [index EXCEPT ![i] = Cardinality(Waiting) + 1]
  <2>1. Drain(ph, job', idx, active)
    BY <1>3 DEF Run
  <2>2. WaitingIn(ph) = WaitingIn(phase) \union {i} /\ RunningIn(ph) = RunningIn(phase)
    BY <1>0 DEF WaitingIn, RunningIn
  <2>3. i \notin WaitingIn(phase) /\ i \notin RunningIn(phase)
    BY <1>0 DEF WaitingIn, RunningIn
  <2>4. \A j \in Calls : j # i => job'[j] = job[j]
    BY <1>0, <1>1
  <2>5. Cardinality(Waiting) \in Nat
    BY HeldByRunning, FS_CardinalityType DEF IInv, Waiting, WaitingIn
  <2>6. Typed(ph, job', idx, active)
    <3>1. ph \in [Calls -> Phases] /\ idx \in [Calls -> Nat]
      BY <1>0, <2>5 DEF Phases
    <3>2. job'[i].key \in Keys
      BY <1>0, <1>1
    <3>3. \A j \in WaitingIn(ph) \union RunningIn(ph) : job'[j].key \in Keys
      <4>1. \A j \in WaitingIn(phase) \union RunningIn(phase) : j \in Calls /\ job[j].key \in Keys
        BY DEF IInv, Good, Typed, WaitingIn, RunningIn
      <4> QED BY <2>2, <2>4, <3>2, <4>1
    <3> QED BY <1>0, <1>1, <3>1, <3>3 DEF Typed
  <2>7. Ordered(ph, idx)
    <3>1. \A j \in WaitingIn(phase) :
            idx[j] = index[j] /\ index[j] \in Nat /\ index[j] <= Cardinality(Waiting)
      BY <1>0, <2>3 DEF IInv, Placed, WaitingIn
    <3>2. idx[i] = Cardinality(Waiting) + 1
      BY <1>0
    <3>3. \A j \in WaitingIn(phase) : idx[j] # idx[i]
      BY <2>5, <3>1, <3>2
    <3>4. \A j, m \in WaitingIn(phase) : idx[j] = idx[m] => j = m
      BY <3>1 DEF IInv, Good, Ordered
    <3> QED BY <2>2, <3>3, <3>4 DEF Ordered
  <2>8. \A j \in RunningIn(phase) : j \in Calls /\ job'[j] = job[j]
    BY <2>3, <2>4 DEF RunningIn
  <2>9. Exclusive(ph, job') /\ Matching(ph, job', active)
    <3> HIDE DEF ph
    <3>1. Exclusive(ph, job')
      BY <2>2, <2>8 DEF IInv, Good, Exclusive
    <3>2. \A j \in RunningIn(phase) : active[job'[j].key] = Mode(job'[j])
      BY <2>8 DEF IInv, Good, Matching, Mode
    <3>3. \A m \in Keys : active[m] # "none" => \E j \in RunningIn(phase) : job'[j].key = m
      BY <2>8 DEF IInv, Good, Matching
    <3> QED BY <2>2, <3>1, <3>2, <3>3 DEF Matching
  <2>10. Cardinality(RunningIn(ph)) <= Limit
    BY <2>2 DEF IInv, Good
  <2>11. Good(ph, job', idx, active)
    BY <2>6, <2>7, <2>9, <2>10 DEF Good
  <2> HIDE DEF ph, idx
  <2> QED BY <1>0, <2>1, <2>11 DEF DrainStep
<1> QED BY <1>2, <1>3

(* The signal of an item: a waiting one is spliced out.                    *)
LEMMA AbortStep ==
  ASSUME IInv, NEW i \in Calls, Abort(i)
  PROVE  SameCalls \/ DrainStep
<1>0. /\ phase \in [Calls -> Phases] /\ job \in [Calls -> Jobs]
      /\ aborted' \subseteq Calls /\ job' = job
  BY DEF IInv, Good, Typed, Placed, Abort
<1>1. CASE ~(i \notin aborted /\ phase[i] = "waiting")
  <2>1. phase' = phase /\ index' = index /\ active' = active
    BY <1>1 DEF Abort
  <2> QED BY <1>0, <2>1 DEF SameCalls
<1>2. CASE i \notin aborted /\ phase[i] = "waiting"
  <2> DEFINE ph == [phase EXCEPT ![i] = "refused"]
  <2>1. Drain(ph, job, index, active)
    BY <1>2 DEF Abort
  <2>2. WaitingIn(ph) \subseteq WaitingIn(phase) /\ RunningIn(ph) = RunningIn(phase)
    BY <1>0, <1>2 DEF WaitingIn, RunningIn
  <2>3. ph \in [Calls -> Phases]
    BY <1>0 DEF Phases
  <2>4. Good(ph, job, index, active)
    BY <2>2, <2>3 DEF IInv, Good, Typed, Ordered, Exclusive, Matching
  <2> HIDE DEF ph
  <2> QED BY <1>0, <2>1, <2>4 DEF DrainStep
<1> QED BY <1>1, <1>2

(* finally(): only the key of that call is released, because no other      *)
(* running call has it.                                                    *)
LEMMA FinallyStep ==
  ASSUME IInv, NEW i \in Calls, Finally(i)
  PROVE  SameCalls \/ DrainStep
<1> DEFINE ph == [phase EXCEPT ![i] = "released"]
           act == [active EXCEPT ![job[i].key] = "none"]
<1>0. /\ phase \in [Calls -> Phases] /\ job \in [Calls -> Jobs]
      /\ active \in [Keys -> Access]
      /\ aborted' \subseteq Calls /\ job' = job
      /\ phase[i] \in {"resolved", "rejected"}
  BY DEF IInv, Good, Typed, Placed, Finally
<1>1. Drain(ph, job, index, act)
  BY DEF Finally
<1>2. /\ WaitingIn(ph) = WaitingIn(phase)
      /\ RunningIn(ph) = RunningIn(phase) \ {i}
      /\ i \in RunningIn(phase)
  BY <1>0 DEF WaitingIn, RunningIn
<1>3. ph \in [Calls -> Phases] /\ act \in [Keys -> Access]
  BY <1>0 DEF Phases, Access
<1>4. \A j \in RunningIn(ph) : job[j].key # job[i].key /\ job[j].key \in Keys
  BY <1>2 DEF IInv, Good, Exclusive, Typed
<1>5. Typed(ph, job, index, act)
  BY <1>2, <1>3 DEF IInv, Good, Typed
<1>6. Ordered(ph, index) /\ Exclusive(ph, job)
  BY <1>2 DEF IInv, Good, Ordered, Exclusive
<1>7. Matching(ph, job, act)
  <2>1. \A j \in RunningIn(ph) : act[job[j].key] = Mode(job[j])
    BY <1>0, <1>2, <1>4 DEF IInv, Good, Matching
  <2>2. ASSUME NEW k \in Keys, act[k] # "none"
        PROVE  \E j \in RunningIn(ph) : job[j].key = k
    <3>1. k # job[i].key /\ active[k] # "none"
      BY <1>0, <2>2
    <3> QED BY <1>2, <3>1 DEF IInv, Good, Matching
  <2> QED BY <2>1, <2>2 DEF Matching
<1>8. Cardinality(RunningIn(ph)) <= Limit
  <2>1. IsFiniteSet(RunningIn(phase)) /\ RunningIn(ph) \in SUBSET RunningIn(phase)
    BY <1>2, HeldByRunning DEF IInv
  <2>2. /\ Cardinality(RunningIn(ph)) <= Cardinality(RunningIn(phase))
        /\ IsFiniteSet(RunningIn(ph))
    BY <2>1, FS_Subset
  <2>3. Cardinality(RunningIn(ph)) \in Nat /\ Cardinality(RunningIn(phase)) \in Nat
    BY <2>1, <2>2, FS_CardinalityType
  <2> QED BY <2>2, <2>3, LimitAssumption DEF IInv, Good
<1>9. Good(ph, job, index, act)
  BY <1>5, <1>6, <1>7, <1>8 DEF Good
<1> HIDE DEF ph, act
<1> QED BY <1>0, <1>1, <1>9 DEF DrainStep

(* Every step is one of two kinds: no call enters or leaves the array or   *)
(* the Map, or drain() runs on inputs that are good.                       *)
LEMMA StepKinds == IInv /\ [Next]_vars => SameCalls \/ DrainStep
<1> SUFFICES ASSUME IInv, [Next]_vars PROVE SameCalls \/ DrainStep
  OBVIOUS
<1>0. phase \in [Calls -> Phases] /\ job \in [Calls -> Jobs] /\ aborted \subseteq Calls
  BY DEF IInv, Good, Typed, Placed
<1>1. ASSUME NEW i \in Calls, NEW k \in Keys, NEW ro \in BOOLEAN, Run(i, k, ro)
      PROVE  SameCalls \/ DrainStep
  BY <1>1, RunStep
<1>2. ASSUME NEW i \in Calls, Abort(i) PROVE SameCalls \/ DrainStep
  BY <1>2, AbortStep
<1>3. ASSUME NEW i \in Calls, Begin(i) PROVE SameCalls
  <2>1. /\ phase' \in [Calls -> Phases]
        /\ WaitingIn(phase') = WaitingIn(phase) /\ RunningIn(phase') = RunningIn(phase)
    BY <1>0, <1>3 DEF Begin, Phases, WaitingIn, RunningIn
  <2> QED BY <1>0, <1>3, <2>1 DEF Begin, SameCalls
<1>4. ASSUME NEW i \in Calls, NEW outcome \in {"resolved", "rejected"}, Finish(i, outcome)
      PROVE  SameCalls
  <2>1. /\ phase' \in [Calls -> Phases]
        /\ WaitingIn(phase') = WaitingIn(phase) /\ RunningIn(phase') = RunningIn(phase)
    BY <1>0, <1>4 DEF Finish, Phases, WaitingIn, RunningIn
  <2> QED BY <1>0, <1>4, <2>1 DEF Finish, SameCalls
<1>5. ASSUME NEW i \in Calls, Finally(i) PROVE SameCalls \/ DrainStep
  BY <1>5, FinallyStep
<1>6. CASE UNCHANGED vars
  BY <1>0, <1>6 DEF vars, SameCalls
<1> QED BY <1>1, <1>2, <1>3, <1>4, <1>5, <1>6 DEF Next

(* The invariant is inductive.                                             *)
LEMMA StepInvariant == IInv /\ [Next]_vars => IInv'
<1> SUFFICES ASSUME IInv, [Next]_vars PROVE IInv'
  OBVIOUS
<1>1. DrainStep => IInv'
  BY DrainKeeps DEF DrainStep
<1> QED BY <1>1, StepKinds, SameCallsKept

(* Every state the queue can reach is good: calls are typed and placed,    *)
(* exclusive, and match the Map.                                           *)
THEOREM Invariant == Spec => []IInv
<1> QED BY InitInvariant, StepInvariant, PTL DEF Spec

-----------------------------------------------------------------------------
(* What the inductive invariant says of the types of the queue's state.    *)
LEMMA InvariantTypes == IInv => TypeOK
<1> SUFFICES ASSUME IInv PROVE TypeOK
  OBVIOUS
<1>1. Waiting \in SUBSET Calls
  BY DEF Waiting
<1>2. /\ Cardinality(Waiting) <= Cardinality(Calls)
      /\ Cardinality(Waiting) \in Nat /\ Cardinality(Calls) \in Nat
  BY <1>1, QueueAssumption, FS_Subset, FS_CardinalityType
<1>3. index \in [Calls -> 0..Cardinality(Calls)]
  BY <1>2 DEF IInv, Good, Typed, Placed
<1> QED BY <1>3 DEF IInv, Good, Typed, Placed, TypeOK

(* The queue's state has its type, and an item is in the array exactly     *)
(* while its call waits.                                                   *)
THEOREM TypeCorrect == Spec => []TypeOK
<1> QED BY InvariantTypes, Invariant, PTL

(* Two readers of different conversations or one writer, never more than   *)
(* Limit: however calls arrive, are aborted and end, drain() starts none   *)
(* that may not run beside those running.                                  *)
THEOREM MutuallyExclusive == Spec => []MutualExclusion
<1>1. Running = RunningIn(phase)
  BY DEF Running, RunningIn
<1>2. IInv => MutualExclusion
  BY <1>1 DEF IInv, Good, Exclusive, MutualExclusion
<1> QED BY <1>2, Invariant, PTL

(* The Map holds the key of every running call, in its mode, and no other: *)
(* finally() never deletes the key of another call, nor leaves its own.    *)
THEOREM MapMatchesCalls == Spec => []ActiveMatchesRunning
<1>1. Running = RunningIn(phase)
  BY DEF Running, RunningIn
<1>2. IInv => ActiveMatchesRunning
  BY <1>1 DEF IInv, Good, Matching, ActiveMatchesRunning
<1> QED BY <1>2, Invariant, PTL

-----------------------------------------------------------------------------
(* What drain() starts was ahead of no writer and of no call of its key.   *)
LEMMA DrainInOrder ==
  ASSUME NEW ph, NEW jb, NEW idx, NEW act, Drain(ph, jb, idx, act),
         NEW i \in WaitingIn(ph), phase'[i] = "starting",
         NEW j \in WaitingIn(ph), idx[j] < idx[i]
  PROVE  jb[j].readOnly /\ jb[j].key # jb[i].key
<1> DEFINE W == WaitingIn(ph)
<1>1. phase' = [c \in Calls |-> IF c \in Chosen(W, jb, idx, act) THEN "starting" ELSE ph[c]]
  BY DEF Drain, WaitingIn
<1>2. i \in Chosen(W, jb, idx, act)
  BY <1>1 DEF WaitingIn
<1>3. j \in Before(i, W, idx)
  BY DEF Before
<1> QED BY <1>2, <1>3 DEF Chosen, Candidates

(* A writer is not passed, and the turns of one session key start in the   *)
(* order they were asked for: a call starts only when what was ahead of it *)
(* of that kind has gone, or goes in this step because it was aborted.     *)
THEOREM NoneOvertakes == Spec => NoOvertaking
<1> DEFINE InOrder ==
      \A i \in Waiting : phase'[i] = "starting" =>
        \A j \in Before(i, Waiting, index) :
          (~job[j].readOnly \/ job[j].key = job[i].key) => phase'[j] = "refused"
<1>1. IInv /\ [Next]_vars => [InOrder]_vars
  <2> SUFFICES ASSUME IInv, Next,
                      NEW i \in Waiting, phase'[i] = "starting",
                      NEW j \in Before(i, Waiting, index),
                      ~job[j].readOnly \/ job[j].key = job[i].key
               PROVE  phase'[j] = "refused"
    OBVIOUS
  <2>0. /\ i \in Calls /\ j \in Calls /\ phase[i] = "waiting" /\ phase[j] = "waiting"
        /\ index[j] < index[i]
        /\ phase \in [Calls -> Phases] /\ job \in [Calls -> Jobs]
        /\ index \in [Calls -> Nat]
    BY DEF Before, Waiting, IInv, Good, Typed
  <2>1. ASSUME NEW c \in Calls, NEW k \in Keys, NEW ro \in BOOLEAN, Run(c, k, ro)
        PROVE  FALSE
    <3> DEFINE ph == [phase EXCEPT ![c] = "waiting"]
               idx == [index EXCEPT ![c] = Cardinality(Waiting) + 1]
    <3>1. c # i /\ c # j /\ job'[i] = job[i] /\ job'[j] = job[j]
      BY <2>0, <2>1 DEF Run
    <3>2. CASE c \in aborted
      BY <2>0, <2>1, <3>1, <3>2 DEF Run
    <3>3. CASE c \notin aborted
      <4>1. Drain(ph, job', idx, active)
        BY <2>1, <3>3 DEF Run
      <4>2. i \in WaitingIn(ph) /\ j \in WaitingIn(ph) /\ idx[j] < idx[i]
        BY <2>0, <3>1 DEF WaitingIn
      <4> HIDE DEF ph, idx
      <4>3. job'[j].readOnly /\ job'[j].key # job'[i].key
        BY <4>1, <4>2, DrainInOrder
      <4> QED BY <3>1, <4>3
    <3> QED BY <3>2, <3>3
  <2>2. ASSUME NEW c \in Calls, Abort(c)
        PROVE  phase'[j] = "refused"
    <3> DEFINE ph == [phase EXCEPT ![c] = "refused"]
    <3>1. Drain(ph, job, index, active)
      BY <2>0, <2>2 DEF Abort
    <3>2. \A m \in Calls : ph[m] = "waiting" \/ phase'[m] = ph[m]
      <4>1. /\ phase' = [m \in Calls |->
                 IF m \in Chosen(WaitingIn(ph), job, index, active) THEN "starting" ELSE ph[m]]
            /\ Chosen(WaitingIn(ph), job, index, active) \subseteq WaitingIn(ph)
        BY <3>1 DEF Drain, WaitingIn, Chosen, Candidates
      <4> QED BY <4>1 DEF WaitingIn
    <3>3. i # c
      BY <2>0, <3>2
    <3>4. CASE j # c
      <4>1. i \in WaitingIn(ph) /\ j \in WaitingIn(ph)
        BY <2>0, <3>3, <3>4 DEF WaitingIn
      <4> HIDE DEF ph
      <4> QED BY <2>0, <3>1, <4>1, DrainInOrder
    <3>5. CASE j = c
      BY <2>0, <3>2, <3>5
    <3> QED BY <3>4, <3>5
  <2>3. ASSUME NEW c \in Calls, Begin(c) PROVE FALSE
    BY <2>0, <2>3 DEF Begin
  <2>4. ASSUME NEW c \in Calls, NEW outcome \in {"resolved", "rejected"}, Finish(c, outcome)
        PROVE  FALSE
    BY <2>0, <2>4 DEF Finish
  <2>5. ASSUME NEW c \in Calls, Finally(c) PROVE FALSE
    <3> DEFINE ph == [phase EXCEPT ![c] = "released"]
               act == [active EXCEPT ![job[c].key] = "none"]
    <3>1. Drain(ph, job, index, act)
      BY <2>5 DEF Finally
    <3>2. i \in WaitingIn(ph) /\ j \in WaitingIn(ph)
      BY <2>0, <2>5 DEF Finally, WaitingIn
    <3> HIDE DEF ph, act
    <3> QED BY <2>0, <3>1, <3>2, DrainInOrder
  <2> QED BY <2>1, <2>2, <2>3, <2>4, <2>5 DEF Next
<1> QED BY <1>1, Invariant, PTL DEF Spec, NoOvertaking

-----------------------------------------------------------------------------
(* drain() touches no call but those it starts, all of them waiting.       *)
LEMMA DrainStartsOnlyWaiting ==
  ASSUME NEW ph, NEW jb, NEW idx, NEW act, Drain(ph, jb, idx, act), NEW i \in Calls
  PROVE  phase'[i] = ph[i] \/ (ph[i] = "waiting" /\ phase'[i] = "starting")
<1>1. phase' = [c \in Calls |->
         IF c \in Chosen(WaitingIn(ph), jb, idx, act) THEN "starting" ELSE ph[c]]
  BY DEF Drain, WaitingIn
<1>2. Chosen(WaitingIn(ph), jb, idx, act) \subseteq WaitingIn(ph)
  BY DEF Chosen, Candidates
<1> QED BY <1>1, <1>2 DEF WaitingIn

(* What one step does to one call: it goes on, or it is started, released, *)
(* or was not running and is not.                                          *)
LEMMA StepOfOneCall ==
  ASSUME IInv, Next, NEW i \in Calls
  PROVE  \/ i \in Running /\ i \in Running' /\ job'[i] = job[i]
         \/ i \in Running /\ i \notin Running' /\ phase'[i] = "released"
         \/ i \notin Running /\ phase[i] # "released" /\ i \in Running'
         \/ i \notin Running /\ i \notin Running' /\ (phase[i] = "released" <=> phase'[i] = "released")
<1>0. phase \in [Calls -> Phases] /\ job \in [Calls -> Jobs]
  BY DEF IInv, Good, Typed
<1>1. ASSUME NEW c \in Calls, NEW k \in Keys, NEW ro \in BOOLEAN, Run(c, k, ro)
      PROVE  /\ c # i => job'[i] = job[i]
             /\ \/ c # i /\ phase'[i] = phase[i]
                \/ phase[i] \in {"idle", "waiting"} /\ phase'[i] \in {"starting", "waiting", "refused"}
  <2>1. CASE c \in aborted
    BY <1>0, <1>1, <2>1 DEF Run
  <2>2. CASE c \notin aborted
    <3> DEFINE ph == [phase EXCEPT ![c] = "waiting"]
               idx == [index EXCEPT ![c] = Cardinality(Waiting) + 1]
    <3>1. Drain(ph, job', idx, active) /\ phase[c] = "idle"
      BY <1>1, <2>2 DEF Run
    <3>2. phase'[i] = ph[i] \/ (ph[i] = "waiting" /\ phase'[i] = "starting")
      <4> HIDE DEF ph, idx
      <4> QED BY <3>1, DrainStartsOnlyWaiting
    <3> QED BY <1>0, <1>1, <3>1, <3>2 DEF Run
  <2> QED BY <2>1, <2>2
<1>2. ASSUME NEW c \in Calls, Abort(c)
      PROVE  /\ job'[i] = job[i]
             /\ \/ phase'[i] = phase[i]
                \/ phase[i] = "waiting" /\ phase'[i] \in {"starting", "refused"}
  <2>1. CASE ~(c \notin aborted /\ phase[c] = "waiting")
    BY <1>2, <2>1 DEF Abort
  <2>2. CASE c \notin aborted /\ phase[c] = "waiting"
    <3> DEFINE ph == [phase EXCEPT ![c] = "refused"]
    <3>1. Drain(ph, job, index, active) /\ job' = job
      BY <1>2, <2>2 DEF Abort
    <3>2. phase'[i] = ph[i] \/ (ph[i] = "waiting" /\ phase'[i] = "starting")
      <4> HIDE DEF ph
      <4> QED BY <3>1, DrainStartsOnlyWaiting
    <3> QED BY <1>0, <2>2, <3>1, <3>2
  <2> QED BY <2>1, <2>2
<1>3. ASSUME NEW c \in Calls, Finally(c)
      PROVE  /\ job'[i] = job[i]
             /\ \/ phase'[i] = phase[i]
                \/ phase[i] = "waiting" /\ phase'[i] = "starting"
                \/ i \in Running /\ phase'[i] = "released"
  <2> DEFINE ph == [phase EXCEPT ![c] = "released"]
             act == [active EXCEPT ![job[c].key] = "none"]
  <2>1. Drain(ph, job, index, act) /\ job' = job /\ phase[c] \in {"resolved", "rejected"}
    BY <1>3 DEF Finally
  <2>2. phase'[i] = ph[i] \/ (ph[i] = "waiting" /\ phase'[i] = "starting")
    <3> HIDE DEF ph, act
    <3> QED BY <2>1, DrainStartsOnlyWaiting
  <2> QED BY <1>0, <2>1, <2>2 DEF Running
<1>4. ASSUME NEW c \in Calls,
             Begin(c) \/ \E outcome \in {"resolved", "rejected"} : Finish(c, outcome)
      PROVE  /\ job'[i] = job[i]
             /\ phase'[i] = phase[i] \/ (i \in Running /\ i \in Running')
  BY <1>0, <1>4 DEF Begin, Finish, Running
<1> QED BY <1>1, <1>2, <1>3, <1>4 DEF Next, Running

(* The queue implements the lock: every step of it grants the workspace to *)
(* some calls, takes it back from others, or changes no grant, and leaves  *)
(* compatible grants only.                                                 *)
THEOREM QueueImplementsLock == Spec => ImplementsLock
<1> DEFINE bar == [i \in Calls |-> Grant(i)]
<1>1. Init => Lock!Init
  BY DEF Init, Lock!Init, Lock!NoGrant, Grant, Running
<1>2. IInv => \A i \in Running : i \in Calls /\ job[i].key \in Keys /\ job[i].readOnly \in BOOLEAN
  BY DEF IInv, Good, Typed, Running, RunningIn, Jobs
<1>3. IInv /\ IInv' /\ [Next]_vars => [Lock!Next]_bar
  <2> SUFFICES ASSUME IInv, IInv', [Next]_vars PROVE [Lock!Next]_bar
    OBVIOUS
  <2>1. CASE UNCHANGED vars
    <3>1. bar' = bar
      BY <2>1 DEF vars, Grant, Running
    <3> QED BY <3>1
  <2>2. CASE Next
    <3>1. ASSUME NEW i \in Calls
          PROVE  Lock!Acquire(i) \/ Lock!Release(i) \/ Lock!Keep(i)
      <4>1. CASE i \in Running /\ i \in Running' /\ job'[i] = job[i]
        BY <4>1 DEF Lock!Keep, Grant
      <4>2. CASE i \in Running /\ i \notin Running' /\ phase'[i] = "released"
        BY <4>2 DEF Lock!Release, Grant
      <4>3. CASE i \notin Running /\ phase[i] # "released" /\ i \in Running'
        <5>1. job'[i].key \in Keys
          BY <4>3 DEF IInv, Good, Typed, Running, RunningIn
        <5> QED BY <4>3, <5>1 DEF Lock!Acquire, Grant
      <4>4. CASE /\ i \notin Running /\ i \notin Running'
                 /\ phase[i] = "released" <=> phase'[i] = "released"
        BY <4>4 DEF Lock!Keep, Grant
      <4> QED BY <2>2, <4>1, <4>2, <4>3, <4>4, StepOfOneCall
    <3>2. Lock!Compatible(bar')
      <4>1. Lock!Holders(bar') = Running'
        BY DEF Lock!Holders, Grant, Running
      <4>2. \A i \in Running' : bar'[i].readOnly = job'[i].readOnly /\ bar'[i].key = job'[i].key
        BY DEF Grant, Running
      <4>3. /\ \A i, j \in Running' :
                 i # j => job'[i].readOnly /\ job'[j].readOnly /\ job'[i].key # job'[j].key
            /\ Cardinality(Running') <= Limit
        <5>1. Running' = RunningIn(phase')
          BY DEF Running, RunningIn
        <5> QED BY <5>1 DEF IInv, Good, Exclusive
      <4>4. Lock!Cardinality(Running') = Cardinality(Running')
        BY DEF Lock!Cardinality, Cardinality, Lock!IsFiniteSet, IsFiniteSet
      <4> HIDE DEF bar
      <4> QED BY <4>1, <4>2, <4>3, <4>4 DEF Lock!Compatible
    <3> QED BY <3>1, <3>2 DEF Lock!Next
  <2> QED BY <2>1, <2>2
<1> QED BY <1>1, <1>3, Invariant, PTL DEF Spec, ImplementsLock, Lock!Spec
-----------------------------------------------------------------------------
(***************************************************************************)
(* The queue never forgets to drain: a call left in the array has the      *)
(* obstacle it is told of.  The inductive invariant is Quiet: drain()      *)
(* called now would start nothing.  It is kept because drain() is          *)
(* idempotent, which rests on counting: when a candidate is left, those    *)
(* started fill every worker.                                              *)
(***************************************************************************)
Quiet == Chosen(Waiting, job, index, active) = {}

(* In an array with an item of rank r there are items of every rank up to  *)
(* r: at least r + 1 of them have a rank of at most r.                     *)
LEMMA RanksFill ==
  ASSUME NEW W, NEW idx, IsFiniteSet(W),
         \A i \in W : idx[i] \in Nat,
         \A i, j \in W : idx[i] = idx[j] => i = j,
         NEW n \in Nat, NEW c \in W, Cardinality(Before(c, W, idx)) >= n,
         NEW low, low = {i \in W : Cardinality(Before(i, W, idx)) < n}
  PROVE  /\ IsFiniteSet(low)
         /\ Cardinality(low) \in Nat
         /\ Cardinality(low) >= n
         /\ n > 0 => \E i \in W : Before(i, W, idx) = {}
<1> DEFINE rank == [i \in W |-> Cardinality(Before(i, W, idx))]
           places == 0..(Cardinality(W) - 1)
<1>0. Cardinality(W) \in Nat
  BY FS_CardinalityType
<1>1. /\ \A i \in W : rank[i] \in Nat /\ rank[i] + 1 <= Cardinality(W)
      /\ \A i, j \in W : rank[i] = rank[j] => i = j
  <2>1. /\ \A i \in W : /\ Cardinality(Before(i, W, idx)) \in Nat
                        /\ Cardinality(Before(i, W, idx)) + 1 <= Cardinality(W)
        /\ \A i, j \in W :
             Cardinality(Before(i, W, idx)) = Cardinality(Before(j, W, idx)) => i = j
    BY Ranks
  <2> QED BY <2>1
<1>2. IsFiniteSet(places) /\ Cardinality(places) = Cardinality(W)
  <2>1. 0 \in Int /\ Cardinality(W) - 1 \in Int
    BY <1>0
  <2>2. /\ IsFiniteSet(places)
        /\ Cardinality(places) =
             IF 0 > Cardinality(W) - 1 THEN 0 ELSE (Cardinality(W) - 1) - 0 + 1
    BY <2>1, FS_Interval
  <2> QED BY <1>0, <2>2
<1>3. \A p \in places : \E i \in W : rank[i] = p
  <2> SUFFICES ASSUME NEW p \in places, \A i \in W : rank[i] # p PROVE FALSE
    OBVIOUS
  <2> DEFINE others == places \ {p}
  <2>1. rank \in [W -> others]
    <3>1. \A i \in W : rank[i] \in others
      BY <1>0, <1>1
    <3> QED BY <3>1
  <2>2. IsFiniteSet(others) /\ Cardinality(others) = Cardinality(places) - 1
    <3> HIDE DEF places
    <3> QED BY <1>2, FS_RemoveElement
  <2>3. Cardinality(others) < Cardinality(W)
    BY <1>0, <1>2, <2>2
  <2>4. PICK x, y \in W : x # y /\ rank[x] = rank[y]
    <3> HIDE DEF rank, others, places
    <3> QED BY <2>1, <2>2, <2>3, FS_PigeonHole
  <2> QED BY <1>1, <2>4
<1>4. \A p \in 0..(n - 1) : \E i \in low : rank[i] = p
  <2> SUFFICES ASSUME NEW p \in 0..(n - 1) PROVE \E i \in low : rank[i] = p
    OBVIOUS
  <2>1. rank[c] >= n /\ rank[c] \in Nat /\ rank[c] + 1 <= Cardinality(W)
    BY <1>1
  <2>2. p \in places
    BY <1>0, <2>1
  <2>3. PICK i \in W : rank[i] = p
    BY <1>3, <2>2
  <2>4. Cardinality(Before(i, W, idx)) < n
    BY <2>3
  <2> QED BY <2>3, <2>4
<1>5. IsFiniteSet(low) /\ Cardinality(low) \in Nat
  <2>1. low \in SUBSET W
    OBVIOUS
  <2> QED BY <2>1, FS_Subset, FS_CardinalityType
<1>6. Cardinality(low) >= n
  <2> DEFINE first == 0..(n - 1)
             f == [i \in low |-> rank[i]]
  <2>1. \A i \in low : i \in W /\ rank[i] \in first
    <3>1. \A i \in low : i \in W /\ rank[i] \in Nat /\ rank[i] < n
      BY <1>1
    <3> QED BY <3>1
  <2>2. f \in [low -> first] /\ \A p \in first : \E i \in low : f[i] = p
    BY <1>4, <2>1
  <2>3. f \in Surjection(low, first)
    BY <2>2 DEF Surjection
  <2>4. Cardinality(first) <= Cardinality(low)
    <3> HIDE DEF f, first
    <3> QED BY <1>5, <2>3, FS_Surjection
  <2>5. Cardinality(first) = n
    <3>1. 0 \in Int /\ n - 1 \in Int
      OBVIOUS
    <3>2. Cardinality(first) = IF 0 > n - 1 THEN 0 ELSE (n - 1) - 0 + 1
      BY <3>1, FS_Interval
    <3> QED BY <3>2
  <2> HIDE DEF first
  <2> QED BY <1>5, <2>4, <2>5
<1>7. ASSUME n > 0 PROVE \E i \in W : Before(i, W, idx) = {}
  <2>1. 0 \in 0..(n - 1)
    BY <1>7
  <2>2. PICK i \in low : rank[i] = 0
    BY <1>4, <2>1
  <2>3. i \in W /\ Cardinality(Before(i, W, idx)) = 0
    BY <2>2
  <2>4. IsFiniteSet(Before(i, W, idx))
    <3>1. Before(i, W, idx) \in SUBSET W
      BY DEF Before
    <3> QED BY <3>1, FS_Subset
  <2> QED BY <2>3, <2>4, FS_EmptySet
<1> QED BY <1>5, <1>6, <1>7

(* An array that is not empty has a first item.                            *)
LEMMA FirstItem ==
  ASSUME NEW W, NEW idx, IsFiniteSet(W),
         \A i \in W : idx[i] \in Nat,
         \A i, j \in W : idx[i] = idx[j] => i = j,
         W # {}
  PROVE  \E i \in W : Before(i, W, idx) = {}
<1>1. PICK c \in W : TRUE
  OBVIOUS
<1>2. IsFiniteSet(Before(c, W, idx))
  <2>1. Before(c, W, idx) \in SUBSET W
    BY DEF Before
  <2> QED BY <2>1, FS_Subset
<1>3. CASE Cardinality(Before(c, W, idx)) = 0
  BY <1>2, <1>3, FS_EmptySet
<1>4. CASE Cardinality(Before(c, W, idx)) >= 1
  <2> DEFINE low == {i \in W : Cardinality(Before(i, W, idx)) < 1}
  <2> HIDE DEF low
  <2>1. 1 \in Nat /\ 1 > 0 /\ low = {i \in W : Cardinality(Before(i, W, idx)) < 1}
    BY DEF low
  <2> QED BY <1>4, <2>1, RanksFill
<1>5. Cardinality(Before(c, W, idx)) \in Nat
  BY <1>2, FS_CardinalityType
<1> QED BY <1>3, <1>4, <1>5

-----------------------------------------------------------------------------
(* drain() is idempotent: what it leaves in the array cannot start.        *)
LEMMA DrainQuiet ==
  ASSUME NEW ph, NEW jb, NEW idx, NEW act, Good(ph, jb, idx, act),
         Drain(ph, jb, idx, act), job' = jb, aborted' \subseteq Calls
  PROVE  Quiet'
<1> DEFINE W == WaitingIn(ph)
           cands == Candidates(W, jb, idx, act)
           room == Limit - Cardinality(Held(act))
           readers == {i \in cands : Cardinality(Before(i, cands, idx)) < room}
           writer == {i \in W : ~jb[i].readOnly /\ Before(i, W, idx) = {} /\ Held(act) = {}}
           go == Chosen(W, jb, idx, act)
           rest == W \ go
<1>1. IInv'
  BY DrainKeeps
<1>2. /\ phase' = [i \in Calls |-> IF i \in go THEN "starting" ELSE ph[i]]
      /\ index' = [i \in Calls |->
                     IF i \in rest THEN Cardinality(Before(i, rest, idx)) + 1 ELSE 0]
      /\ \A k \in Keys : (\A i \in go : jb[i].key # k) => active'[k] = act[k]
  BY DEF Drain, WaitingIn
<1>3. go = IF WriterActive(act) THEN {} ELSE readers \union writer
  BY DEF Chosen
<1>4. go \subseteq W /\ \A i \in go : act[jb[i].key] = "none" /\ jb[i].key \in Keys
  <2>1. go \subseteq W
    BY <1>3 DEF Candidates
  <2>2. \A i \in W : jb[i].key \in Keys
    BY DEF Good, Typed
  <2>3. \A i \in readers : act[jb[i].key] = "none"
    BY DEF Candidates
  <2>4. \A i \in writer : act[jb[i].key] = "none"
    BY <2>2 DEF Held
  <2> QED BY <1>3, <2>1, <2>2, <2>3, <2>4
<1>5. /\ Waiting' = rest
      /\ RunningIn(phase') = RunningIn(ph) \union go
      /\ RunningIn(ph) \intersect go = {}
  <2> HIDE DEF go
  <2> QED BY <1>2, <1>4 DEF Waiting, WaitingIn, RunningIn
<1>6. \A i \in go : active'[jb[i].key] = Mode(jb[i])
  BY <1>1, <1>5 DEF IInv, Good, Matching
<1>7. /\ \A i \in W : idx[i] \in Nat /\ i \in Calls /\ jb[i].key \in Keys
      /\ \A i, j \in W : idx[i] = idx[j] => i = j
      /\ IsFiniteSet(W)
  BY HeldByRunning DEF Good, Typed, Ordered, WaitingIn
<1>8. \A i \in rest : Before(i, rest, index') = Before(i, rest, idx)
  <2> HIDE DEF W, go
  <2>1. IsFiniteSet(rest)
    <3>1. rest \in SUBSET W
      OBVIOUS
    <3> QED BY <1>7, <3>1, FS_Subset
  <2>2. /\ \A i \in rest : idx[i] \in Nat /\ i \in Calls
        /\ \A i, j \in rest : idx[i] = idx[j] => i = j
    BY <1>7
  <2> HIDE DEF rest
  <2>3. /\ \A i \in rest : Cardinality(Before(i, rest, idx)) \in Nat
        /\ \A i, j \in rest : idx[i] < idx[j] <=>
             Cardinality(Before(i, rest, idx)) < Cardinality(Before(j, rest, idx))
    BY <2>1, <2>2, Ranks
  <2>4. \A i, j \in rest : index'[i] < index'[j] <=> idx[i] < idx[j]
    BY <1>2, <2>2, <2>3
  <2> QED BY <2>4 DEF Before
<1> SUFFICES ASSUME NEW c, c \in Chosen(rest, jb, index', active')
             PROVE  FALSE
  BY <1>5 DEF Quiet
<1>9. c \in rest /\ ~WriterActive(active')
  BY DEF Chosen, Candidates
<1>10. ~WriterActive(act) /\ \A i \in go : jb[i].readOnly
  <2> HIDE DEF go
  <2>1. \A i \in go : jb[i].readOnly
    BY <1>4, <1>6, <1>9 DEF WriterActive, Mode
  <2>2. ASSUME NEW k \in Keys, act[k] = "write" PROVE FALSE
    <3>1. active'[k] = act[k]
      BY <1>2, <1>4, <2>2
    <3> QED BY <1>9, <2>2, <3>1 DEF WriterActive
  <2> QED BY <2>1, <2>2 DEF WriterActive
<1>11. readers \subseteq go /\ writer \subseteq go
  BY <1>3, <1>10
<1>12. /\ IsFiniteSet(Held(act)) /\ Cardinality(Held(act)) \in Nat
       /\ Cardinality(Held(act)) = Cardinality(RunningIn(ph))
       /\ IsFiniteSet(RunningIn(ph)) /\ room \in Nat
  BY HeldByRunning, LimitAssumption DEF Good
<1>13. CASE /\ c \in Candidates(rest, jb, index', active')
            /\ Cardinality(Before(c, Candidates(rest, jb, index', active'), index'))
                 < Limit - Cardinality(Held(active'))
  <2>1. /\ jb[c].readOnly /\ active'[jb[c].key] = "none"
        /\ \A j \in Before(c, rest, idx) : jb[j].readOnly /\ jb[j].key # jb[c].key
    BY <1>8, <1>9, <1>13 DEF Candidates
  <2>2. \A i \in go : jb[i].key # jb[c].key
    BY <1>6, <2>1 DEF Mode
  <2>3. act[jb[c].key] = "none"
    BY <1>2, <1>7, <1>9, <2>1, <2>2
  <2>4. c \in cands
    <3>1. \A j \in Before(c, W, idx) : j \in go \/ j \in Before(c, rest, idx)
      BY DEF Before
    <3>2. \A j \in Before(c, W, idx) : jb[j].readOnly /\ jb[j].key # jb[c].key
      BY <1>10, <2>1, <2>2, <3>1
    <3> QED BY <1>9, <2>1, <2>3, <3>2 DEF Candidates
  <2>5. /\ cands \in SUBSET W /\ IsFiniteSet(cands)
        /\ \A i \in cands : idx[i] \in Nat
        /\ \A i, j \in cands : idx[i] = idx[j] => i = j
    <3>1. cands \in SUBSET W
      BY DEF Candidates
    <3> QED BY <1>7, <3>1, FS_Subset
  <2>6. Cardinality(Before(c, cands, idx)) >= room
    <3>1. Cardinality(Before(c, cands, idx)) \in Nat
      <4> HIDE DEF cands
      <4> QED BY <2>4, <2>5, Ranks
    <3>2. ~(Cardinality(Before(c, cands, idx)) < room)
      BY <1>9, <1>11, <2>4
    <3> QED BY <1>12, <3>1, <3>2
  <2>7. IsFiniteSet(readers) /\ Cardinality(readers) \in Nat /\ Cardinality(readers) >= room
    <3>1. readers = {i \in cands : Cardinality(Before(i, cands, idx)) < room}
      OBVIOUS
    <3> HIDE DEF readers, cands, room
    <3> QED BY <1>12, <2>4, <2>5, <2>6, <3>1, RanksFill
  <2>8. IsFiniteSet(go) /\ Cardinality(go) \in Nat /\ Cardinality(go) >= room
    <3>1. go \in SUBSET W /\ readers \in SUBSET go
      BY <1>4, <1>11
    <3> HIDE DEF readers, go, W
    <3>2. IsFiniteSet(go) /\ Cardinality(readers) <= Cardinality(go)
      BY <1>7, <3>1, FS_Subset
    <3>3. Cardinality(go) \in Nat
      BY <3>2, FS_CardinalityType
    <3> QED BY <1>12, <2>7, <3>2, <3>3
  <2>9. Cardinality(RunningIn(phase')) = Cardinality(RunningIn(ph)) + Cardinality(go)
    <3> HIDE DEF go
    <3> QED BY <1>5, <1>12, <2>8, FS_Union, FS_EmptySet
  <2>10. Cardinality(Held(active')) >= Limit /\ Cardinality(Held(active')) \in Nat
    <3>1. /\ Cardinality(Held(active')) = Cardinality(RunningIn(phase'))
          /\ Cardinality(Held(active')) \in Nat
      <4>1. Good(phase', job', index', active')
        BY <1>1 DEF IInv
      <4> QED BY <4>1, HeldByRunning
    <3> QED BY <1>12, <2>8, <2>9, <3>1, LimitAssumption
  <2>11. Cardinality(Before(c, Candidates(rest, jb, index', active'), index')) \in Nat
    <3>1. Before(c, Candidates(rest, jb, index', active'), index') \in SUBSET W
      BY DEF Before, Candidates
    <3> QED BY <1>7, <3>1, FS_Subset, FS_CardinalityType
  <2> QED BY <1>13, <2>10, <2>11, LimitAssumption
<1>14. CASE ~jb[c].readOnly /\ Before(c, rest, index') = {} /\ Held(active') = {}
  <2>1. go = {}
    BY <1>4, <1>6, <1>14 DEF Held, Mode
  <2>2. rest = W /\ \A k \in Keys : active'[k] = act[k]
    BY <1>2, <2>1
  <2>3. Held(act) = {}
    BY <1>14, <2>2 DEF Held
  <2>4. c \in W /\ Before(c, W, idx) = {}
    BY <1>8, <1>9, <1>14, <2>2
  <2> QED BY <1>11, <1>14, <2>1, <2>3, <2>4
<1> QED BY <1>13, <1>14 DEF Chosen

(* Nothing that could start is left in the array: drain() sees to it when  *)
(* it runs, and the other steps touch neither the array nor the Map.       *)
LEMMA QuietStep == IInv /\ Quiet /\ [Next]_vars => Quiet'
<1> SUFFICES ASSUME IInv, Quiet, [Next]_vars PROVE Quiet'
  OBVIOUS
<1>1. CASE DrainStep
  BY <1>1, DrainQuiet DEF DrainStep
<1>2. CASE SameCalls
  <2>1. /\ Waiting' = Waiting /\ index' = index /\ active' = active
        /\ \A i \in Waiting : job'[i] = job[i]
    BY <1>2 DEF SameCalls, Waiting, WaitingIn
  <2>2. /\ Candidates(Waiting', job', index', active') = Candidates(Waiting, job, index, active)
        /\ \A i \in Waiting : Before(i, Waiting', index') = Before(i, Waiting, index)
    BY <2>1 DEF Candidates, Before
  <2> QED BY <2>1, <2>2 DEF Quiet, Chosen, Candidates
<1> QED BY <1>1, <1>2, StepKinds

(* A call that is not started has the obstacle of its queueReason.         *)
LEMMA QuietExplains == IInv /\ Quiet => WaitsOnlyForItsReason
<1> SUFFICES ASSUME IInv, Quiet, NEW i \in Waiting
             PROVE  CASE Reason(i) = "previous turn" -> \E j \in Running : job[j].key = job[i].key
                      [] Reason(i) = "exclusive access" ->
                           \/ \E j \in Running : ~job[j].readOnly
                           \/ ~job[i].readOnly /\ (Running # {} \/ Before(i, Waiting, index) # {})
                      [] Reason(i) = "workers busy" -> Cardinality(Running) = Limit
                      [] Reason(i) = "earlier change" ->
                           \E j \in Before(i, Waiting, index) : ~job[j].readOnly
  BY DEF WaitsOnlyForItsReason
<1>1. /\ Running = RunningIn(phase) /\ Waiting = WaitingIn(phase)
      /\ IsFiniteSet(Waiting)
      /\ Cardinality(Held(active)) = Cardinality(Running)
      /\ Cardinality(Held(active)) \in Nat /\ Cardinality(Running) <= Limit
  <2>1. Good(phase, job, index, active)
    BY DEF IInv
  <2>2. Running = RunningIn(phase) /\ Waiting = WaitingIn(phase)
    BY DEF Running, RunningIn, Waiting, WaitingIn
  <2> QED BY <2>1, <2>2, HeldByRunning DEF Good
<1>2. /\ \A j \in Waiting : index[j] \in Nat /\ job[j].key \in Keys
      /\ \A j, k \in Waiting : index[j] = index[k] => j = k
      /\ \A k \in Keys : active[k] # "none" => \E j \in Running : job[j].key = k
      /\ \A j \in Running : active[job[j].key] = Mode(job[j])
  BY <1>1 DEF IInv, Good, Typed, Ordered, Matching, WaitingIn
<1>3. ASSUME active[job[i].key] # "none"
      PROVE  \E j \in Running : job[j].key = job[i].key
  BY <1>2, <1>3
<1>4. ASSUME WriterActive(active)
      PROVE  \E j \in Running : ~job[j].readOnly
  <2>1. PICK k \in Keys : active[k] = "write"
    BY <1>4 DEF WriterActive
  <2>2. PICK j \in Running : job[j].key = k
    BY <1>2, <2>1
  <2> QED BY <1>2, <2>1, <2>2 DEF Mode
<1>5. ASSUME ~WriterActive(active), ~job[i].readOnly
      PROVE  Running # {} \/ Before(i, Waiting, index) # {}
  <2> SUFFICES ASSUME Running = {}, Before(i, Waiting, index) = {} PROVE FALSE
    OBVIOUS
  <2>1. Held(active) = {}
    BY <1>2 DEF Held
  <2>2. i \in Chosen(Waiting, job, index, active)
    BY <1>5, <2>1 DEF Chosen
  <2> QED BY <2>2 DEF Quiet
<1>6. ASSUME ~WriterActive(active), job[i].readOnly, active[job[i].key] = "none",
             ~(Cardinality(Held(active)) >= Limit)
      PROVE  \E j \in Before(i, Waiting, index) : ~job[j].readOnly
  <2> SUFFICES ASSUME \A j \in Before(i, Waiting, index) : job[j].readOnly PROVE FALSE
    OBVIOUS
  (* the first reader of a free key up to i can start *)
  <2> DEFINE S == {j \in Waiting : (j = i \/ index[j] < index[i]) /\ active[job[j].key] = "none"}
             cands == Candidates(Waiting, job, index, active)
  <2>1. PICK m \in S : Before(m, S, index) = {}
    <3>1. S \in SUBSET Waiting /\ i \in S
      BY <1>6
    <3>2. /\ IsFiniteSet(S) /\ S # {}
          /\ \A j \in S : index[j] \in Nat
          /\ \A j, k \in S : index[j] = index[k] => j = k
      BY <1>1, <1>2, <3>1, FS_Subset
    <3> HIDE DEF S
    <3> QED BY <3>2, FirstItem
  <2>2. \A j \in Before(m, Waiting, index) : job[j].readOnly /\ active[job[j].key] # "none"
    <3> SUFFICES ASSUME NEW j \in Before(m, Waiting, index)
                 PROVE  job[j].readOnly /\ active[job[j].key] # "none"
      OBVIOUS
    <3>1. j \in Waiting /\ index[j] < index[m] /\ index[j] < index[i]
      BY <1>2, <2>1 DEF Before
    <3>2. j \notin S
      BY <2>1, <3>1 DEF Before
    <3> QED BY <3>1, <3>2 DEF Before
  <2>3. m \in Waiting /\ job[m].readOnly /\ active[job[m].key] = "none"
    BY <1>6, <2>1 DEF Before
  <2>4. m \in cands /\ Before(m, cands, index) = {}
    BY <2>2, <2>3 DEF Candidates, Before
  <2>5. Cardinality(Before(m, cands, index)) < Limit - Cardinality(Held(active))
    BY <1>1, <1>6, <2>4, FS_EmptySet, LimitAssumption
  <2>6. m \in Chosen(Waiting, job, index, active)
    BY <1>6, <2>4, <2>5 DEF Chosen
  <2> QED BY <2>6 DEF Quiet
<1>7. Cardinality(Held(active)) >= Limit => Cardinality(Running) = Limit
  BY <1>1, LimitAssumption
<1> QED BY <1>3, <1>4, <1>5, <1>6, <1>7 DEF Reason

(* No drain is ever missed: whatever calls are aborted or end in which     *)
(* order, what remains in the array is kept there by a running call or by  *)
(* an earlier writer, which is the reason drain() reports.                 *)
THEOREM WaitsForItsReason == Spec => []WaitsOnlyForItsReason
<1>1. Init => Quiet
  BY DEF Init, Quiet, Chosen, Candidates, Waiting
<1> QED BY <1>1, Invariant, QuietStep, QuietExplains, PTL DEF Spec
=============================================================================
