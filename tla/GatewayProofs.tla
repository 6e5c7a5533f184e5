----------------------------- MODULE GatewayProofs -----------------------------
(***************************************************************************)
(* Proofs about the command lanes, the cron service and their composition  *)
(* in the gateway process, for any number of turns, sessions, lanes and    *)
(* jobs, lanes of any length and any limits.                               *)
(***************************************************************************)
EXTENDS Gateway, FiniteSetTheorems, TLAPS

-----------------------------------------------------------------------------
(* The command lanes.  The invariant has two parts.  Fit says of one lane  *)
(* what it looks like between two events; a lane that got an entry or gave *)
(* back a place is Loose until it is pumped, which the first lemmas are    *)
(* about.  Nested says how the two lanes of a turn and its promise go      *)
(* together: a turn in a global lane holds the place of its session.       *)

LaneRecords == [queue : Seq(Turns), active : SUBSET Turns]
QueuedIn(r) == {r.queue[i] : i \in DOMAIN r.queue}
Within(r) == QueuedIn(r) \union r.active
Belongs(t, l) == l \in {SessionOf[t], GlobalOf[t]}

(* What is in a lane is there once, is of that lane, and has no more       *)
(* places than there are.                                                  *)
Loose(r, l) ==
  /\ r \in LaneRecords
  /\ IsFiniteSet(r.active)
  /\ \A i, j \in DOMAIN r.queue : r.queue[i] = r.queue[j] => i = j
  /\ QueuedIn(r) \intersect r.active = {}
  /\ \A t \in Within(r) : Belongs(t, l)
  /\ Cardinality(r.active) <= Places(l)

Fit(r, l) == Loose(r, l) /\ (r.queue # <<>> => Cardinality(r.active) = Places(l))

Added(r, t) == [r EXCEPT !.queue = Append(@, t)]
LeftBy(r, t) == [r EXCEPT !.active = @ \ {t}]
PumpLane(r, l) == IF MayStart(r, l) THEN StartHead(r) ELSE r

(* A lane has at least one place.                                          *)
LEMMA PlacesType ==
  ASSUME NEW l \in Lanes
  PROVE  Places(l) \in Nat \ {0}
BY LanesAssumption DEF Places, Lanes

(* The head of the queue and the rest of it are the queue.                 *)
LEMMA HeadTail ==
  ASSUME NEW q \in Seq(Turns), q # <<>>,
         \A i, j \in DOMAIN q : q[i] = q[j] => i = j
  PROVE  /\ Head(q) \in Turns /\ Tail(q) \in Seq(Turns)
         /\ \A i, j \in DOMAIN Tail(q) : Tail(q)[i] = Tail(q)[j] => i = j
         /\ {q[i] : i \in DOMAIN q} = {Tail(q)[i] : i \in DOMAIN Tail(q)} \union {Head(q)}
         /\ Head(q) \notin {Tail(q)[i] : i \in DOMAIN Tail(q)}
         /\ Tail(q) = <<>> <=> Len(q) = 1
<1>1. Len(q) \in Nat \ {0} /\ DOMAIN q = 1..Len(q) /\ Head(q) = q[1]
  OBVIOUS
<1>2. /\ Tail(q) \in Seq(Turns) /\ Len(Tail(q)) = Len(q) - 1
      /\ DOMAIN Tail(q) = 1..(Len(q) - 1)
      /\ \A i \in 1..(Len(q) - 1) : Tail(q)[i] = q[i + 1]
  BY <1>1
<1>3. \A i \in DOMAIN q : i = 1 \/ (i - 1 \in DOMAIN Tail(q) /\ q[i] = Tail(q)[i - 1])
  BY <1>1, <1>2
<1>4. \A i \in DOMAIN Tail(q) : i + 1 \in DOMAIN q /\ Tail(q)[i] = q[i + 1] /\ i + 1 # 1
  BY <1>1, <1>2
<1>5. {q[i] : i \in DOMAIN q} = {Tail(q)[i] : i \in DOMAIN Tail(q)} \union {Head(q)}
  BY <1>1, <1>3, <1>4
<1>6. Head(q) \notin {Tail(q)[i] : i \in DOMAIN Tail(q)}
  BY <1>1, <1>4
<1>7. \A i, j \in DOMAIN Tail(q) : Tail(q)[i] = Tail(q)[j] => i = j
  BY <1>1, <1>2, <1>4
<1> QED BY <1>1, <1>2, <1>5, <1>6, <1>7

(* A lane that lacks at most one start fits once it is pumped.             *)
LEMMA PumpFits ==
  ASSUME NEW l \in Lanes, NEW r, Loose(r, l),
         r.queue # <<>> => Len(r.queue) = 1 \/ Cardinality(r.active) + 1 >= Places(l)
  PROVE  /\ Fit(PumpLane(r, l), l)
         /\ Within(PumpLane(r, l)) = Within(r)
         /\ PumpLane(r, l).active = r.active \union
              (IF MayStart(r, l) THEN {Head(r.queue)} ELSE {})
         /\ QueuedIn(PumpLane(r, l)) \subseteq QueuedIn(r)
<1>0. Places(l) \in Nat \ {0} /\ Cardinality(r.active) \in Nat
  BY PlacesType, FS_CardinalityType DEF Loose
<1>1. CASE ~MayStart(r, l)
  BY <1>0, <1>1 DEF MayStart, PumpLane, Fit, Loose
<1>2. CASE MayStart(r, l)
  <2> DEFINE h == Head(r.queue)
             p == StartHead(r)
  <2>1. r.queue \in Seq(Turns) /\ r.queue # <<>> /\ r.active \in SUBSET Turns
    BY <1>2 DEF MayStart, Loose, LaneRecords
  <2>2. /\ h \in Turns /\ Tail(r.queue) \in Seq(Turns)
        /\ \A i, j \in DOMAIN Tail(r.queue) : Tail(r.queue)[i] = Tail(r.queue)[j] => i = j
        /\ QueuedIn(r) = {Tail(r.queue)[i] : i \in DOMAIN Tail(r.queue)} \union {h}
        /\ h \notin {Tail(r.queue)[i] : i \in DOMAIN Tail(r.queue)}
        /\ Tail(r.queue) = <<>> <=> Len(r.queue) = 1
    BY <2>1, HeadTail DEF Loose, QueuedIn
  <2>3. p.queue = Tail(r.queue) /\ p.active = r.active \union {h} /\ p \in LaneRecords
    BY <2>1, <2>2 DEF StartHead, LaneRecords
  <2> HIDE DEF h, p
  <2>4. h \notin r.active
    BY <2>2 DEF Loose
  <2>5. IsFiniteSet(p.active) /\ Cardinality(p.active) = Cardinality(r.active) + 1
    BY SMTT(20), <2>3, <2>4, FS_AddElement DEF Loose
  <2>6. Cardinality(r.active) < Places(l)
    BY <1>2 DEF MayStart
  <2>7. Within(p) = Within(r)
    BY <2>2, <2>3 DEF Within, QueuedIn
  <2>8. QueuedIn(p) \intersect p.active = {}
    BY <2>2, <2>3 DEF QueuedIn, Loose
  <2>9. Loose(p, l)
    BY <1>0, <2>2, <2>3, <2>5, <2>6, <2>7, <2>8 DEF Loose
  <2>10. p.queue # <<>> => Cardinality(p.active) = Places(l)
    BY <1>0, <2>1, <2>2, <2>3, <2>5, <2>6
  <2>11. PumpLane(r, l) = p
    BY <1>2 DEF PumpLane, p
  <2>12. QueuedIn(p) \subseteq QueuedIn(r)
    BY <2>2, <2>3 DEF QueuedIn
  <2> QED BY <1>2, <2>3, <2>7, <2>9, <2>10, <2>11, <2>12 DEF Fit, h
<1> QED BY <1>1, <1>2

-----------------------------------------------------------------------------
(* The state of all lanes                                                  *)
Fits(ls, S) == \A l \in S : Fit(ls[l], l)

(* Nobody waits for, nor executes in, a global lane without the place of   *)
(* its session; a turn in the lane of its session was asked for, its       *)
(* promise does not settle while it waits there, and one that has not      *)
(* settled is in there.                                                    *)
Nested(ls, pr) ==
  \A t \in Turns :
    /\ t \in Within(ls[GlobalOf[t]]) => t \in ls[SessionOf[t]].active
    /\ t \in Within(ls[SessionOf[t]]) => pr[t] # "none"
    /\ t \in QueuedIn(ls[SessionOf[t]]) => pr[t] = "pending"
    /\ pr[t] = "pending" => t \in Within(ls[SessionOf[t]])

LanesInv ==
  /\ LanesTypeOK
  /\ Fits(lane, Lanes)
  /\ Nested(lane, promise)

(* A turn has one session lane and one global lane, which differ.          *)
LEMMA LanesOf ==
  ASSUME NEW t \in Turns
  PROVE  /\ SessionOf[t] \in Sessions /\ SessionOf[t] \in Lanes
         /\ GlobalOf[t] \in Globals /\ GlobalOf[t] \in Lanes
         /\ SessionOf[t] # GlobalOf[t]
         /\ \A s \in Sessions : Belongs(t, s) <=> s = SessionOf[t]
         /\ \A g \in Globals : Belongs(t, g) <=> g = GlobalOf[t]
BY LanesAssumption DEF Lanes, Belongs

(* pump() of a lane changes that lane only.                                *)
LEMMA PumpIsPumpLane ==
  ASSUME NEW ls \in [Lanes -> LaneRecords], NEW l \in Lanes
  PROVE  Pump(ls, l) = [ls EXCEPT ![l] = PumpLane(ls[l], l)]
BY DEF Pump, PumpLane

(* A turn that is not in a lane is added to it.                            *)
LEMMA AppendIsLoose ==
  ASSUME NEW l \in Lanes, NEW r, Fit(r, l), NEW t \in Turns, Belongs(t, l), t \notin Within(r),
         NEW q, q = Added(r, t)
  PROVE  /\ Loose(q, l)
         /\ q.queue # <<>> => Len(q.queue) = 1 \/ Cardinality(q.active) + 1 >= Places(l)
         /\ q.active = r.active
         /\ QueuedIn(q) = QueuedIn(r) \union {t}
         /\ Within(q) = Within(r) \union {t}
<1>0. r \in LaneRecords /\ r.queue \in Seq(Turns) /\ r.active \in SUBSET Turns
  BY DEF Fit, Loose, LaneRecords
<1>1. /\ r.queue \in Seq(Turns) /\ r.active \in SUBSET Turns
      /\ q.queue = Append(r.queue, t) /\ q.active = r.active /\ q \in LaneRecords
  <2>1. Append(r.queue, t) \in Seq(Turns)
    BY <1>0
  <2>2. q = [queue |-> Append(r.queue, t), active |-> r.active]
    BY <1>0 DEF LaneRecords, Added
  <2> QED BY <1>0, <2>1, <2>2 DEF LaneRecords
<1>2. /\ DOMAIN q.queue = 1..(Len(r.queue) + 1) /\ DOMAIN r.queue = 1..Len(r.queue)
      /\ Len(r.queue) \in Nat /\ Len(q.queue) = Len(r.queue) + 1
      /\ q.queue[Len(r.queue) + 1] = t
      /\ \A i \in 1..Len(r.queue) : q.queue[i] = r.queue[i]
  BY <1>1
<1>3. QueuedIn(q) = QueuedIn(r) \union {t}
  BY <1>2 DEF QueuedIn
<1>4. \A i \in DOMAIN r.queue : r.queue[i] # t
  BY DEF Within, QueuedIn
<1>5. \A i, j \in DOMAIN q.queue : q.queue[i] = q.queue[j] => i = j
  BY SMTT(20), <1>2, <1>4 DEF Fit, Loose
<1>6. Within(q) = Within(r) \union {t}
  BY <1>1, <1>3 DEF Within
<1>7. QueuedIn(q) \intersect q.active = {}
  BY <1>1, <1>3 DEF Fit, Loose, Within
<1>8. Loose(q, l)
  BY <1>1, <1>5, <1>6, <1>7 DEF Fit, Loose
<1>9. r.queue = <<>> \/ Cardinality(r.active) = Places(l)
  BY DEF Fit
<1>10. Len(q.queue) = 1 \/ Cardinality(q.active) + 1 >= Places(l)
  BY <1>1, <1>2, <1>9, PlacesType
<1> QED BY <1>1, <1>3, <1>6, <1>8, <1>10

(* A turn that holds a place gives it back.                                *)
LEMMA LeaveIsLoose ==
  ASSUME NEW l \in Lanes, NEW r, Fit(r, l), NEW t \in r.active,
         NEW q, q = LeftBy(r, t)
  PROVE  /\ Loose(q, l)
         /\ q.queue # <<>> => Len(q.queue) = 1 \/ Cardinality(q.active) + 1 >= Places(l)
         /\ q.active = r.active \ {t}
         /\ QueuedIn(q) = QueuedIn(r)
         /\ Within(q) = Within(r) \ {t}
<1>0. r \in LaneRecords /\ r.queue \in Seq(Turns) /\ r.active \in SUBSET Turns
  BY DEF Fit, Loose, LaneRecords
<1>1. /\ r.queue \in Seq(Turns) /\ r.active \in SUBSET Turns
      /\ q.queue = r.queue /\ q.active = r.active \ {t} /\ q \in LaneRecords
  BY <1>0 DEF LaneRecords, LeftBy
<1>2. /\ IsFiniteSet(q.active) /\ Cardinality(r.active) \in Nat
      /\ Cardinality(q.active) = Cardinality(r.active) - 1
  BY <1>1, FS_RemoveElement, FS_CardinalityType DEF Fit, Loose
<1>3. QueuedIn(q) = QueuedIn(r) /\ Within(q) = Within(r) \ {t}
  BY <1>1 DEF QueuedIn, Within, Fit, Loose
<1>4. Cardinality(q.active) <= Places(l)
  BY <1>2, PlacesType DEF Fit, Loose
<1>5. QueuedIn(q) \intersect q.active = {}
  BY <1>1, <1>3 DEF Fit, Loose
<1>6. Loose(q, l)
  BY <1>1, <1>2, <1>3, <1>4, <1>5 DEF Fit, Loose
<1>7. q.queue # <<>> => Cardinality(r.active) = Places(l)
  BY <1>1 DEF Fit
<1>8. q.queue # <<>> => Cardinality(q.active) + 1 >= Places(l)
  BY <1>2, <1>7, PlacesType
<1> QED BY <1>1, <1>3, <1>6, <1>8

(* enqueue() leaves the other lanes alone and the lane consistent.         *)
LEMMA EnqueueFits ==
  ASSUME NEW ls \in [Lanes -> LaneRecords], NEW g \in Globals, Fit(ls[g], g),
         NEW t \in Turns, g = GlobalOf[t], t \notin Within(ls[g]),
         NEW ms, ms = Enqueue(ls, g, t)
  PROVE  /\ ms \in [Lanes -> LaneRecords]
         /\ \A k \in Lanes : k # g => ms[k] = ls[k]
         /\ Fit(ms[g], g)
         /\ Within(ms[g]) = Within(ls[g]) \union {t}
<1> DEFINE q == Added(ls[g], t)
           ns == [ls EXCEPT ![g].queue = Append(@, t)]
<1>1. g \in Lanes /\ Belongs(t, g)
  BY LanesOf
<1>2. /\ Loose(q, g)
      /\ q.queue # <<>> => Len(q.queue) = 1 \/ Cardinality(q.active) + 1 >= Places(g)
      /\ Within(q) = Within(ls[g]) \union {t}
  BY <1>1, AppendIsLoose
<1>3. /\ Fit(PumpLane(q, g), g)
      /\ Within(PumpLane(q, g)) = Within(q)
  BY <1>1, <1>2, PumpFits
<1>4. ns = [ls EXCEPT ![g] = q] /\ q \in LaneRecords
  BY <1>1, <1>2 DEF Loose, Added
<1>5. ns \in [Lanes -> LaneRecords] /\ ns[g] = q /\ \A k \in Lanes : k # g => ns[k] = ls[k]
  BY <1>1, <1>4
<1>6. ms = Pump(ns, g) /\ PumpLane(q, g) \in LaneRecords
  BY <1>3 DEF Enqueue, Fit, Loose
<1> HIDE DEF q, ns
<1>7. ms = [ns EXCEPT ![g] = PumpLane(q, g)]
  BY <1>1, <1>5, <1>6, PumpIsPumpLane
<1> QED BY <1>1, <1>2, <1>3, <1>5, <1>6, <1>7

(* A session's lane that lacks at most one start fits once it is pumped,   *)
(* and so does the global lane in which the turn that starts then waits.   *)
LEMMA PumpSessionFits ==
  ASSUME NEW ls \in [Lanes -> LaneRecords], NEW s \in Sessions, NEW pr,
         Loose(ls[s], s),
         ls[s].queue # <<>> => Len(ls[s].queue) = 1 \/ Cardinality(ls[s].active) + 1 >= Places(s),
         Fits(ls, Lanes \ {s}), Nested(ls, pr),
         NEW ms, ms = PumpSession(ls, s)
  PROVE  ms \in [Lanes -> LaneRecords] /\ Fits(ms, Lanes) /\ Nested(ms, pr)
<1> DEFINE p == PumpLane(ls[s], s)
           ps == [ls EXCEPT ![s] = p]
<1>0. s \in Lanes /\ s \notin Globals
  BY LanesAssumption DEF Lanes
<1>1. /\ Fit(p, s) /\ Within(p) = Within(ls[s])
      /\ p.active = ls[s].active \union
                      (IF MayStart(ls[s], s) THEN {Head(ls[s].queue)} ELSE {})
      /\ QueuedIn(p) \subseteq QueuedIn(ls[s])
  BY <1>0, PumpFits
<1>2. Pump(ls, s) = ps
  BY <1>0, PumpIsPumpLane
<1>3. p \in LaneRecords
  BY <1>1 DEF Fit, Loose
<1> HIDE DEF p
<1>4. /\ ps \in [Lanes -> LaneRecords] /\ ps[s] = p
      /\ \A k \in Lanes : k # s => ps[k] = ls[k]
  BY <1>0, <1>3
<1> HIDE DEF ps
<1>5. Fits(ps, Lanes)
  BY <1>1, <1>4 DEF Fits
<1>6. Nested(ps, pr)
  <2> SUFFICES ASSUME NEW t \in Turns
               PROVE  /\ t \in Within(ps[GlobalOf[t]]) => t \in ps[SessionOf[t]].active
                      /\ t \in Within(ps[SessionOf[t]]) => pr[t] # "none"
                      /\ t \in QueuedIn(ps[SessionOf[t]]) => pr[t] = "pending"
                      /\ pr[t] = "pending" => t \in Within(ps[SessionOf[t]])
    BY DEF Nested
  <2>1. GlobalOf[t] # s /\ GlobalOf[t] \in Lanes /\ SessionOf[t] \in Lanes
    BY <1>0, LanesOf
  <2>2. CASE SessionOf[t] = s
    BY <1>1, <1>4, <2>1, <2>2 DEF Nested
  <2>3. CASE SessionOf[t] # s
    BY <1>4, <2>1, <2>3 DEF Nested
  <2> QED BY <2>2, <2>3
<1>7. CASE ~(MayStart(ls[s], s) /\ ~draining)
  BY <1>2, <1>4, <1>5, <1>6, <1>7 DEF PumpSession
<1>8. CASE MayStart(ls[s], s) /\ ~draining
  <2> DEFINE h == Head(ls[s].queue)
             g == GlobalOf[h]
  <2>1. ls[s].queue \in Seq(Turns) /\ ls[s].queue # <<>>
    BY <1>8 DEF MayStart, Loose, LaneRecords
  <2>2. h \in Turns /\ h \in QueuedIn(ls[s])
    BY <2>1, HeadTail DEF Loose, QueuedIn
  <2>3. SessionOf[h] = s /\ g \in Globals /\ g \in Lanes /\ g # s
    BY <2>2, LanesOf, <1>0 DEF Loose, Within
  <2>4. h \notin ls[s].active
    BY <2>2 DEF Loose
  <2>5. h \notin Within(ps[g])
    BY <1>4, <2>2, <2>3, <2>4 DEF Nested
  <2>6. ms = Enqueue(ps, g, h)
    BY <1>2, <1>8 DEF PumpSession
  <2>7. h \in ps[s].active
    BY <1>1, <1>4, <1>8
  <2> HIDE DEF h, g
  <2>8. g = GlobalOf[h]
    BY DEF g
  <2>9. /\ ms \in [Lanes -> LaneRecords]
        /\ \A k \in Lanes : k # g => ms[k] = ps[k]
        /\ Fit(ms[g], g)
        /\ Within(ms[g]) = Within(ps[g]) \union {h}
    BY SMTT(20), <1>4, <1>5, <2>2, <2>3, <2>5, <2>6, <2>8, EnqueueFits DEF Fits
  <2>10. Fits(ms, Lanes)
    BY <1>5, <2>9 DEF Fits
  <2>11. Nested(ms, pr)
    <3> SUFFICES ASSUME NEW t \in Turns
                 PROVE  /\ t \in Within(ms[GlobalOf[t]]) => t \in ms[SessionOf[t]].active
                        /\ t \in Within(ms[SessionOf[t]]) => pr[t] # "none"
                        /\ t \in QueuedIn(ms[SessionOf[t]]) => pr[t] = "pending"
                        /\ pr[t] = "pending" => t \in Within(ms[SessionOf[t]])
      BY DEF Nested
    <3>1. SessionOf[t] # g /\ SessionOf[t] \in Lanes /\ GlobalOf[t] \in Lanes
      BY <2>3, LanesOf, LanesAssumption DEF Lanes
    <3>2. ms[SessionOf[t]] = ps[SessionOf[t]]
      BY <2>9, <3>1
    <3>3. CASE GlobalOf[t] = g
      BY <1>6, <2>3, <2>7, <2>9, <3>2, <3>3 DEF Nested
    <3>4. CASE GlobalOf[t] # g
      BY <1>6, <2>9, <3>1, <3>2, <3>4 DEF Nested
    <3> QED BY <3>3, <3>4
  <2> QED BY <2>9, <2>10, <2>11
<1> QED BY <1>7, <1>8

-----------------------------------------------------------------------------
(* The lanes begin empty.                                                  *)
LEMMA InitInv == LanesInit => LanesInv
<1> SUFFICES ASSUME LanesInit PROVE LanesInv
  OBVIOUS
<1> DEFINE empty == [queue |-> <<>>, active |-> {}]
<1>1. empty \in LaneRecords /\ QueuedIn(empty) = {} /\ Within(empty) = {}
  BY DEF LaneRecords, QueuedIn, Within
<1>2. \A l \in Lanes : Fit(empty, l)
  BY <1>1, PlacesType, FS_EmptySet DEF Fit, Loose
<1> HIDE DEF empty
<1>3. lane = [l \in Lanes |-> empty]
  BY DEF LanesInit, empty
<1>4. LanesTypeOK
  BY <1>1, <1>3 DEF LanesInit, LanesTypeOK, LaneRecords
<1>5. Fits(lane, Lanes)
  BY <1>2, <1>3 DEF Fits
<1>6. Nested(lane, promise)
  <2>1. \A t \in Turns : /\ QueuedIn(lane[SessionOf[t]]) = {} /\ Within(lane[SessionOf[t]]) = {}
                         /\ Within(lane[GlobalOf[t]]) = {}
    BY <1>1, <1>3, LanesOf
  <2>2. \A t \in Turns : promise[t] = "none"
    BY DEF LanesInit
  <2> QED BY <2>1, <2>2 DEF Nested
<1> QED BY <1>4, <1>5, <1>6 DEF LanesInv

(* The session lane takes a turn: it goes on to the global lane.           *)
LEMMA ExecuteInSessionInv ==
  ASSUME LanesInv, NEW t \in Turns, ExecuteInSession(t)
  PROVE  LanesInv'
<1> DEFINE s == SessionOf[t]
           q == Added(lane[s], t)
           ls == [lane EXCEPT ![s].queue = Append(@, t)]
<1>0. s \in Sessions /\ s \in Lanes /\ lane \in [Lanes -> LaneRecords] /\ Belongs(t, s)
      /\ Fit(lane[s], s) /\ promise[t] = "none"
  BY LanesOf DEF LanesInv, LanesTypeOK, LaneRecords, Fits, ExecuteInSession
<1>1. CASE draining
  <2>1. lane' = lane /\ draining' = draining /\ promise' = [promise EXCEPT ![t] = "rejected"]
    BY <1>1 DEF ExecuteInSession
  <2>2. LanesTypeOK' /\ Fits(lane', Lanes)
    BY <2>1 DEF LanesInv, LanesTypeOK
  <2>3. Nested(lane', promise')
    <3>1. \A u \in Turns : u = t \/ promise'[u] = promise[u]
      BY <2>1 DEF LanesInv, LanesTypeOK
    <3>2. promise'[t] = "rejected"
      BY <2>1 DEF LanesInv, LanesTypeOK
    <3>3. t \notin QueuedIn(lane[s])
      BY <1>0 DEF LanesInv, Nested, Within
    <3> QED BY <2>1, <3>1, <3>2, <3>3 DEF LanesInv, Nested
  <2> QED BY <2>2, <2>3 DEF LanesInv
<1>2. CASE ~draining
  <2>1. /\ lane' = PumpSession(ls, s) /\ draining' = draining
        /\ promise' = [promise EXCEPT ![t] = "pending"]
    BY <1>2 DEF ExecuteInSession
  <2>2. t \notin Within(lane[s])
    BY <1>0 DEF LanesInv, Nested
  <2>3. /\ Loose(q, s)
        /\ q.queue # <<>> => Len(q.queue) = 1 \/ Cardinality(q.active) + 1 >= Places(s)
        /\ q.active = lane[s].active
        /\ QueuedIn(q) = QueuedIn(lane[s]) \union {t}
        /\ Within(q) = Within(lane[s]) \union {t}
    BY <1>0, <2>2, AppendIsLoose
  <2>4. ls = [lane EXCEPT ![s] = q] /\ q \in LaneRecords
    BY <1>0, <2>3 DEF Loose, Added
  <2> HIDE DEF q
  <2>5. /\ ls \in [Lanes -> LaneRecords] /\ ls[s] = q
        /\ \A k \in Lanes : k # s => ls[k] = lane[k]
    BY <1>0, <2>4
  <2> HIDE DEF ls
  <2>6. Fits(ls, Lanes \ {s})
    BY <2>5 DEF LanesInv, Fits
  <2>7. promise'[t] = "pending" /\ \A u \in Turns : u # t => promise'[u] = promise[u]
    BY <2>1 DEF LanesInv, LanesTypeOK
  <2>8. Nested(ls, promise')
    <3> SUFFICES ASSUME NEW u \in Turns
                 PROVE  /\ u \in Within(ls[GlobalOf[u]]) => u \in ls[SessionOf[u]].active
                        /\ u \in Within(ls[SessionOf[u]]) => promise'[u] # "none"
                        /\ u \in QueuedIn(ls[SessionOf[u]]) => promise'[u] = "pending"
                        /\ promise'[u] = "pending" => u \in Within(ls[SessionOf[u]])
      BY DEF Nested
    <3>1. GlobalOf[u] # s /\ GlobalOf[u] \in Lanes /\ SessionOf[u] \in Lanes
      BY <1>0, LanesOf, LanesAssumption
    <3>2. ls[GlobalOf[u]] = lane[GlobalOf[u]]
      BY <2>5, <3>1
    <3>3. CASE SessionOf[u] = s
      BY <2>3, <2>5, <2>7, <3>2, <3>3 DEF LanesInv, Nested
    <3>4. CASE SessionOf[u] # s
      BY <2>5, <2>7, <3>1, <3>2, <3>4 DEF LanesInv, Nested
    <3> QED BY <3>3, <3>4
  <2>9. lane' \in [Lanes -> LaneRecords] /\ Fits(lane', Lanes) /\ Nested(lane', promise')
    BY <1>0, <2>1, <2>3, <2>5, <2>6, <2>8, PumpSessionFits
  <2>10. LanesTypeOK'
    BY <2>1, <2>9 DEF LanesInv, LanesTypeOK, LaneRecords
  <2> QED BY <2>9, <2>10 DEF LanesInv
<1> QED BY <1>1, <1>2

(* A turn ends, and its global lane goes on to the next one.               *)
LEMMA FinishTurnInv ==
  ASSUME LanesInv, NEW t \in Turns, NEW outcome \in {"resolved", "failed"}, FinishTurn(t, outcome)
  PROVE  LanesInv'
<1> DEFINE g == GlobalOf[t]
           q == LeftBy(lane[g], t)
           ls == Leave(lane, g, t)
           p == PumpLane(q, g)
<1>0. /\ g \in Globals /\ g \in Lanes /\ lane \in [Lanes -> LaneRecords]
      /\ Fit(lane[g], g) /\ t \in lane[g].active
  BY LanesOf DEF LanesInv, LanesTypeOK, LaneRecords, Fits, FinishTurn, Executes
<1>1. /\ lane' = Pump(ls, g) /\ draining' = draining
      /\ promise' = [promise EXCEPT ![t] = outcome]
  BY DEF FinishTurn
<1>2. /\ Loose(q, g)
      /\ q.queue # <<>> => Len(q.queue) = 1 \/ Cardinality(q.active) + 1 >= Places(g)
      /\ Within(q) = Within(lane[g]) \ {t}
  BY <1>0, LeaveIsLoose
<1>3. Fit(p, g) /\ Within(p) = Within(q)
  BY <1>0, <1>2, PumpFits
<1>4. ls = [lane EXCEPT ![g] = q] /\ q \in LaneRecords /\ p \in LaneRecords
  BY <1>0, <1>2, <1>3 DEF Loose, Fit, Leave, LeftBy
<1> HIDE DEF q
<1>5. ls \in [Lanes -> LaneRecords] /\ ls[g] = q /\ \A k \in Lanes : k # g => ls[k] = lane[k]
  BY <1>0, <1>4
<1> HIDE DEF ls
<1>6. lane' = [ls EXCEPT ![g] = p]
  BY <1>0, <1>1, <1>5, PumpIsPumpLane
<1> HIDE DEF p
<1>7. /\ lane' \in [Lanes -> LaneRecords] /\ lane'[g] = p
      /\ \A k \in Lanes : k # g => lane'[k] = lane[k]
  BY <1>0, <1>4, <1>5, <1>6
<1>8. promise'[t] = outcome /\ \A u \in Turns : u # t => promise'[u] = promise[u]
  BY <1>1 DEF LanesInv, LanesTypeOK
<1>9. Fits(lane', Lanes)
  BY <1>3, <1>7 DEF LanesInv, Fits
<1>10. Nested(lane', promise')
  <2>0. t \in lane[SessionOf[t]].active /\ t \notin QueuedIn(lane[SessionOf[t]])
    BY <1>0, LanesOf DEF LanesInv, Nested, Within, Fits, Fit, Loose
  <2> SUFFICES ASSUME NEW u \in Turns
               PROVE  /\ u \in Within(lane'[GlobalOf[u]]) => u \in lane'[SessionOf[u]].active
                      /\ u \in Within(lane'[SessionOf[u]]) => promise'[u] # "none"
                      /\ u \in QueuedIn(lane'[SessionOf[u]]) => promise'[u] = "pending"
                      /\ promise'[u] = "pending" => u \in Within(lane'[SessionOf[u]])
    BY DEF Nested
  <2>1. SessionOf[u] # g /\ GlobalOf[u] \in Lanes /\ SessionOf[u] \in Lanes
    BY <1>0, LanesOf, LanesAssumption
  <2>2. lane'[SessionOf[u]] = lane[SessionOf[u]]
    BY <1>7, <2>1
  <2>3. Within(lane'[GlobalOf[u]]) \subseteq Within(lane[GlobalOf[u]])
    BY <1>2, <1>3, <1>7, <2>1
  <2> QED BY <1>8, <2>0, <2>2, <2>3 DEF LanesInv, Nested
<1>11. LanesTypeOK'
  BY <1>1, <1>7 DEF LanesInv, LanesTypeOK, LaneRecords
<1> QED BY <1>9, <1>10, <1>11 DEF LanesInv

(* A turn that is over, or was refused, leaves its session lane.           *)
LEMMA ReleaseSessionInv ==
  ASSUME LanesInv, NEW t \in Turns, ReleaseSession(t)
  PROVE  LanesInv'
<1> DEFINE s == SessionOf[t]
           q == LeftBy(lane[s], t)
           ls == Leave(lane, s, t)
<1>0. /\ s \in Sessions /\ s \in Lanes /\ lane \in [Lanes -> LaneRecords]
      /\ Fit(lane[s], s) /\ t \in lane[s].active
      /\ t \notin Within(lane[GlobalOf[t]])
  BY LanesOf DEF LanesInv, LanesTypeOK, LaneRecords, Fits, ReleaseSession, Returned, Holds,
                 Executes, Queued, QueuedIn, Within
<1>1. /\ lane' = PumpSession(ls, s) /\ draining' = draining
      /\ promise' = [promise EXCEPT ![t] = IF @ = "pending" THEN "rejected" ELSE @]
  BY DEF ReleaseSession
<1>2. /\ Loose(q, s)
      /\ q.queue # <<>> => Len(q.queue) = 1 \/ Cardinality(q.active) + 1 >= Places(s)
      /\ q.active = lane[s].active \ {t}
      /\ QueuedIn(q) = QueuedIn(lane[s])
      /\ Within(q) = Within(lane[s]) \ {t}
  BY <1>0, LeaveIsLoose
<1>3. ls = [lane EXCEPT ![s] = q] /\ q \in LaneRecords
  BY <1>0, <1>2 DEF Loose, Leave, LeftBy
<1> HIDE DEF q
<1>4. ls \in [Lanes -> LaneRecords] /\ ls[s] = q /\ \A k \in Lanes : k # s => ls[k] = lane[k]
  BY <1>0, <1>3
<1> HIDE DEF ls
<1>5. Fits(ls, Lanes \ {s})
  BY <1>4 DEF LanesInv, Fits
<1>6. /\ \A u \in Turns : u # t => promise'[u] = promise[u]
      /\ promise'[t] # "pending"
      /\ promise' \in [Turns -> {"none", "pending", "resolved", "failed", "rejected"}]
  BY <1>1 DEF LanesInv, LanesTypeOK
<1>7. Nested(ls, promise')
  <2> SUFFICES ASSUME NEW u \in Turns
               PROVE  /\ u \in Within(ls[GlobalOf[u]]) => u \in ls[SessionOf[u]].active
                      /\ u \in Within(ls[SessionOf[u]]) => promise'[u] # "none"
                      /\ u \in QueuedIn(ls[SessionOf[u]]) => promise'[u] = "pending"
                      /\ promise'[u] = "pending" => u \in Within(ls[SessionOf[u]])
    BY DEF Nested
  <2>1. GlobalOf[u] # s /\ GlobalOf[u] \in Lanes /\ SessionOf[u] \in Lanes
    BY <1>0, LanesOf, LanesAssumption
  <2>2. ls[GlobalOf[u]] = lane[GlobalOf[u]]
    BY <1>4, <2>1
  <2>3. CASE u = t
    BY <1>0, <1>2, <1>4, <1>6, <2>2, <2>3 DEF Within
  <2>4. CASE u # t /\ SessionOf[u] = s
    BY <1>2, <1>4, <1>6, <2>2, <2>4 DEF LanesInv, Nested
  <2>5. CASE u # t /\ SessionOf[u] # s
    BY <1>4, <1>6, <2>1, <2>2, <2>5 DEF LanesInv, Nested
  <2> QED BY <2>3, <2>4, <2>5
<1>8. lane' \in [Lanes -> LaneRecords] /\ Fits(lane', Lanes) /\ Nested(lane', promise')
  BY <1>0, <1>1, <1>2, <1>4, <1>5, <1>7, PumpSessionFits
<1>9. LanesTypeOK'
  BY <1>1, <1>6, <1>8 DEF LanesInv, LanesTypeOK, LaneRecords
<1> QED BY <1>8, <1>9 DEF LanesInv

(* A turn's promise settles, and nothing of the lanes changes.             *)
LEMMA TakenInv ==
  ASSUME LanesInv, NEW t \in Turns, Taken(t)
  PROVE  LanesInv'
<1>1. /\ lane' = lane /\ draining' = draining /\ promise' = [promise EXCEPT ![t] = "none"]
      /\ promise[t] # "pending" /\ t \notin lane[SessionOf[t]].active
  BY DEF Taken, Settled, Holds
<1>2. t \notin Within(lane[SessionOf[t]]) /\ t \notin Within(lane[GlobalOf[t]])
  BY <1>1 DEF LanesInv, Nested, Within
<1>3. \A u \in Turns : u # t => promise'[u] = promise[u]
  BY <1>1 DEF LanesInv, LanesTypeOK
<1>4. LanesTypeOK'
  BY <1>1 DEF LanesInv, LanesTypeOK
<1>5. Nested(lane', promise')
  BY <1>1, <1>2, <1>3 DEF LanesInv, Nested, Within
<1> QED BY <1>1, <1>4, <1>5 DEF LanesInv, Fits

(* The invariant holds in every reachable state of the lanes.              *)
THEOREM LanesInvariant == LanesSpec => []LanesInv
<1>1. LanesInv /\ [LanesNext]_lanesVars => LanesInv'
  <2> SUFFICES ASSUME LanesInv, [LanesNext]_lanesVars PROVE LanesInv'
    OBVIOUS
  <2>1. CASE UNCHANGED lanesVars
    BY <2>1 DEF lanesVars, LanesInv, LanesTypeOK, Fits, Nested
  <2>2. CASE MarkGatewayDraining
    BY <2>2 DEF MarkGatewayDraining, LanesInv, LanesTypeOK, Fits, Nested
  <2>3. CASE \E t \in Turns : ExecuteInSession(t) \/ Ends(t) \/ ReleaseSession(t) \/ Taken(t)
    BY <2>3, ExecuteInSessionInv, FinishTurnInv, ReleaseSessionInv, TakenInv DEF Ends
  <2> QED BY <2>1, <2>2, <2>3 DEF LanesNext
<1> QED BY <1>1, InitInv, PTL DEF LanesSpec

(* In lanes that fit, two turns of one session are never executed.         *)
LEMMA Serialized == LanesInv => TurnsSerialized
<1> SUFFICES ASSUME LanesInv PROVE TurnsSerialized
  OBVIOUS
<1>1. ASSUME NEW t \in Executing, NEW u \in Executing, SessionOf[t] = SessionOf[u]
      PROVE  t = u
  <2> DEFINE A == lane[SessionOf[t]].active
  <2>1. t \in Turns /\ u \in Turns /\ t \in A /\ u \in A
    BY <1>1 DEF LanesInv, Nested, Executing, Executes, Within
  <2>2. IsFiniteSet(A) /\ Cardinality(A) <= 1
    BY <2>1, LanesOf DEF LanesInv, Fits, Fit, Loose, Places
  <2> HIDE DEF A
  <2>3. Cardinality(A) = 1
    BY <2>1, <2>2, FS_CardinalityType, FS_EmptySet
  <2>4. PICK x : A = {x}
    BY <2>2, <2>3, FS_Singleton
  <2> QED BY <2>1, <2>4
<1>2. \A l \in Lanes : Cardinality(lane[l].active) <= Places(l)
  BY DEF LanesInv, Fits, Fit, Loose
<1> QED BY <1>1, <1>2 DEF TurnsSerialized

(* Two turns that execute are of two sessions, and no lane has more of     *)
(* them than places.                                                       *)
THEOREM TurnsAreSerialized == LanesSpec => []TurnsSerialized
BY Serialized, LanesInvariant, PTL

(* In lanes that fit, nobody waits beside a free place.                    *)
LEMMA Taking == LanesInv => NoIdlePlace
BY DEF LanesInv, Fits, Fit, NoIdlePlace

(* No wake-up is lost: while a turn waits in a lane, its places are taken. *)
THEOREM PlacesAreTaken == LanesSpec => []NoIdlePlace
BY Taking, LanesInvariant, PTL

-----------------------------------------------------------------------------
(* The cron service.  Two facts about the marks make MarkIsExecution       *)
(* inductive: two executions of a job are one, and a stored job that is    *)
(* being executed is marked.  The jobs the catch-up reached late are       *)
(* excepted from both.                                                     *)

OnceOnly ==
  \A j \in Jobs \ late : \A e, f \in exec : e[2] = j /\ f[2] = j => e = f

ExecutingIsMarked ==
  \A j \in Jobs \ late : \A e \in exec : e[2] = j /\ job[j].there => job[j].running

CronInv ==
  /\ CronTypeOK
  /\ TimerArmed
  /\ OnceOnly
  /\ ExecutingIsMarked
  /\ MarkedIsExecuting

-----------------------------------------------------------------------------
(* A batch taken of a set of jobs that is not empty is not empty.          *)
LEMMA BatchOf ==
  ASSUME NEW S \in SUBSET Jobs, NEW n \in Nat \ {0}, NEW B \in Batches(S, n)
  PROVE  B \subseteq S /\ (S # {} => B # {})
<1>1. B \subseteq S /\ Cardinality(B) = (IF Cardinality(S) < n THEN Cardinality(S) ELSE n)
  BY DEF Batches
<1>2. IsFiniteSet(S) /\ Cardinality(S) \in Nat
  BY CronAssumption, FS_Subset, FS_CardinalityType
<1>3. S # {} => Cardinality(S) # 0
  BY <1>2, FS_EmptySet
<1>4. Cardinality({}) = 0
  BY FS_EmptySet
<1> QED BY <1>1, <1>2, <1>3, <1>4

(* Marking jobs changes nothing but their marks.                           *)
LEMMA MarkedJobs ==
  ASSUME NEW js \in [Jobs -> JobRecords], NEW B \in SUBSET Jobs
  PROVE  /\ Marked(js, B) \in [Jobs -> JobRecords]
         /\ \A j \in Jobs :
              /\ Waits(Marked(js, B)[j]) <=> Waits(js[j])
              /\ Marked(js, B)[j].there = js[j].there
              /\ Marked(js, B)[j].running <=> js[j].running \/ (j \in B /\ js[j].there)
BY DEF Marked, JobRecords, Waits

(* Records of jobs that are computed are records of jobs.                  *)
LEMMA RecordTypes ==
  /\ NoJob \in JobRecords /\ ~NoJob.there /\ ~NoJob.running
  /\ \A next \in {"none", "later", "due"} :
       Scheduled(next) \in JobRecords /\ ~Scheduled(next).running
BY DEF NoJob, Scheduled, JobRecords

(* The end of a run leaves a job unmarked.                                 *)
LEMMA ResultType ==
  ASSUME NEW j \in Jobs, NEW r \in JobRecords, NEW outcome \in Outcomes
  PROVE  Result(j, r, outcome) \in JobRecords /\ ~Result(j, r, outcome).running
<1> DEFINE errors == IF outcome = "ok" THEN 0
                     ELSE IF r.errors > MaxRetries THEN r.errors ELSE r.errors + 1
           done == [r EXCEPT !.running = FALSE, !.errors = errors]
<1>1. errors \in Nat
  BY DEF JobRecords
<1> HIDE DEF errors
<1>2. done \in JobRecords /\ ~done.running
  BY <1>1 DEF JobRecords
<1>3. \/ Result(j, r, outcome) = NoJob
      \/ Result(j, r, outcome) = [done EXCEPT !.next = IF r.enabled THEN "later" ELSE "none"]
      \/ Result(j, r, outcome) = [done EXCEPT !.next = "later"]
      \/ Result(j, r, outcome) = [done EXCEPT !.enabled = FALSE, !.next = "none"]
  BY DEF Result, errors
<1> HIDE DEF done
<1> QED BY <1>2, <1>3, RecordTypes DEF JobRecords

(* What a step does to the executions of a job, when they stay the same    *)
LEMMA SameExecutions ==
  ASSUME CronInv, NEW j \in Jobs, UNCHANGED <<stopped, exec, late>>,
         \A k \in Jobs \ {j} : job'[k] = job[k],
         job'[j].there => (job[j].there /\ job'[j].running = job[j].running) \/ Executions(j) = {},
         job'[j].running => job[j].running
  PROVE  OnceOnly' /\ ExecutingIsMarked' /\ MarkedIsExecuting'
BY DEF CronInv, OnceOnly, ExecutingIsMarked, MarkedIsExecuting, Executions

-----------------------------------------------------------------------------
(* The service begins stopped, without a mark.                             *)
LEMMA CronInitInv == CronInit => CronInv
BY RecordTypes
   DEF CronInit, CronInv, CronTypeOK, TimerArmed, OnceOnly, ExecutingIsMarked, MarkedIsExecuting

(* start() and its catch-up run                                            *)
LEMMA StartInv ==
  ASSUME CronInv, Start
  PROVE  CronInv'
<1>1. PICK next \in [Jobs -> {"later", "none"}] :
        LET js == [j \in Jobs |->
               [job[j] EXCEPT !.running = FALSE,
                              !.next = IF job[j].enabled /\ @ = "none" THEN next[j] ELSE @]]
            due == {j \in Jobs : Due(js[j])}
        IN  \E B \in Batches(due, MaxMissed) :
              /\ IF B = {} THEN missed' = {} /\ exec' = exec /\ job' = js
                 ELSE \E j \in B : /\ missed' = B \ {j}
                                   /\ exec' = {<<"missed", j>>}
                                   /\ job' = Marked(js, {j})
              /\ timer' = ArmTimer(js, FALSE)
  BY DEF Start
<1> DEFINE js == [j \in Jobs |->
             [job[j] EXCEPT !.running = FALSE,
                            !.next = IF job[j].enabled /\ @ = "none" THEN next[j] ELSE @]]
           due == {j \in Jobs : Due(js[j])}
<1>2. /\ exec = {} /\ stopped' = FALSE /\ unarmed' = {}
      /\ UNCHANGED <<ticking, late>>
  BY DEF Start
<1>3. js \in [Jobs -> JobRecords] /\ \A j \in Jobs : ~js[j].running
  <2>1. job \in [Jobs -> JobRecords]
    BY DEF CronInv, CronTypeOK
  <2>2. ASSUME NEW j \in Jobs PROVE js[j] \in JobRecords /\ ~js[j].running
    <3>1. job[j] \in JobRecords /\ next[j] \in {"later", "none"}
      BY <2>1
    <3>2. \A v \in {job[j].next, next[j]} :
            LET rec == [job[j] EXCEPT !.running = FALSE, !.next = v]
            IN  rec \in JobRecords /\ ~rec.running
      BY <3>1 DEF JobRecords
    <3>3. js[j] = [job[j] EXCEPT !.running = FALSE,
                                 !.next = IF job[j].enabled /\ @ = "none" THEN next[j] ELSE @]
      OBVIOUS
    <3> HIDE DEF js
    <3> QED BY <3>2, <3>3
  <2>3. DOMAIN js = Jobs /\ js = [j \in Jobs |-> js[j]]
    OBVIOUS
  <2> HIDE DEF js
  <2> QED BY <2>2, <2>3
<1>4. PICK B \in Batches(due, MaxMissed) :
        /\ \/ missed' = {} /\ exec' = {} /\ job' = js
           \/ \E j \in B : missed' = B \ {j} /\ exec' = {<<"missed", j>>} /\ job' = Marked(js, {j})
        /\ timer' = ArmTimer(js, FALSE)
  BY <1>1, <1>2
<1>5. B \subseteq Jobs
  BY DEF Batches
<1> HIDE DEF js, due
<1>6. ticking' = FALSE /\ timer' = (\E j \in Jobs : Waits(js[j]))
  BY <1>2, <1>4 DEF ArmTimer, CronInv, CronTypeOK
<1>7. CASE missed' = {} /\ exec' = {} /\ job' = js
  BY <1>2, <1>3, <1>6, <1>7
     DEF CronInv, CronTypeOK, TimerArmed, OnceOnly, ExecutingIsMarked, MarkedIsExecuting
<1>8. ASSUME NEW j \in B, missed' = B \ {j}, exec' = {<<"missed", j>>}, job' = Marked(js, {j})
      PROVE  CronInv'
  <2>1. j \in Jobs /\ exec' \subseteq Kinds \X Jobs /\ missed' \subseteq Jobs
    BY <1>5, <1>8 DEF Kinds
  <2>2. /\ job' \in [Jobs -> JobRecords]
        /\ \A k \in Jobs : /\ Waits(job'[k]) <=> Waits(js[k])
                           /\ job'[k].running <=> k = j /\ js[k].there
                           /\ job'[k].there = js[k].there
    BY <1>3, <1>8, <2>1, MarkedJobs
  <2>3. CronTypeOK'
    <3>1. timer' \in BOOLEAN /\ ticking' \in BOOLEAN /\ stopped' \in BOOLEAN
      BY <1>2, <1>6
    <3>2. ~ticking' /\ \A e \in exec' : e[1] # "tick"
      BY <1>6, <1>8
    <3>3. unarmed' \subseteq Jobs /\ late' \subseteq Jobs
      BY <1>2 DEF CronInv, CronTypeOK
    <3> QED BY <2>1, <2>2, <3>1, <3>2, <3>3 DEF CronTypeOK
  <2>4. TimerArmed'
    BY <1>6, <2>2 DEF TimerArmed
  <2>5. <<"missed", j>> \in exec' /\ \A e \in exec' : e = <<"missed", j>> /\ e[2] = j
    BY <1>8
  <2>6. OnceOnly'
    BY <2>5 DEF OnceOnly
  <2>7. ExecutingIsMarked'
    BY <2>2, <2>5 DEF ExecutingIsMarked
  <2>8. MarkedIsExecuting'
    BY <2>2, <2>5 DEF MarkedIsExecuting, Executions
  <2> QED BY <2>3, <2>4, <2>6, <2>7, <2>8 DEF CronInv
<1> QED BY <1>4, <1>7, <1>8

(* A method that changes one job and, in a started service, sets the timer *)
LEMMA MethodInv ==
  ASSUME CronInv, NEW j \in Jobs, NEW r \in JobRecords, job' = [job EXCEPT ![j] = r],
         timer' = ArmTimer(job', stopped), unarmed' = {},
         UNCHANGED <<ticking, stopped, exec, missed, late>>,
         r.there => (job[j].there /\ r.running = job[j].running) \/ Executions(j) = {},
         r.running => job[j].running
  PROVE  CronInv'
<1>1. job' \in [Jobs -> JobRecords] /\ job'[j] = r /\ \A k \in Jobs \ {j} : job'[k] = job[k]
  BY DEF CronInv, CronTypeOK
<1>2. OnceOnly' /\ ExecutingIsMarked' /\ MarkedIsExecuting'
  BY <1>1, SameExecutions
<1>3. timer' \in BOOLEAN
  BY DEF ArmTimer, CronInv, CronTypeOK
<1>4. CronTypeOK'
  BY <1>1, <1>3 DEF CronInv, CronTypeOK
<1>5. TimerArmed'
  BY DEF TimerArmed, ArmTimer
<1> QED BY <1>2, <1>4, <1>5 DEF CronInv

(* A job is added, and the timer armed.                                    *)
LEMMA AddJobInv ==
  ASSUME CronInv, NEW j \in Jobs, AddJob(j)
  PROVE  CronInv'
<1>1. PICK next \in {"later", "none"} : job' = [job EXCEPT ![j] = Scheduled(next)]
  BY DEF AddJob, NextRuns
<1> QED BY <1>1, RecordTypes, MethodInv DEF AddJob

(* A job is changed, and the timer armed.                                  *)
LEMMA UpdateJobInv ==
  ASSUME CronInv, NEW j \in Jobs, NEW enabled \in BOOLEAN, UpdateJob(j, enabled)
  PROVE  CronInv'
<1>1. PICK next \in {"later", "none"} :
        job' = [job EXCEPT ![j].enabled = enabled, ![j].next = IF enabled THEN next ELSE "none"]
  BY DEF UpdateJob, NextRuns
<1> DEFINE r == [job[j] EXCEPT !.enabled = enabled, !.next = IF enabled THEN next ELSE "none"]
<1>2. job \in [Jobs -> JobRecords]
  BY DEF CronInv, CronTypeOK
<1>3. r \in JobRecords /\ r.there = job[j].there /\ r.running = job[j].running
  BY <1>2 DEF JobRecords
<1>4. job' = [job EXCEPT ![j] = r]
  BY <1>1, <1>2
<1> HIDE DEF r
<1> QED BY <1>3, <1>4, MethodInv DEF UpdateJob

(* A job is deleted, perhaps while it is executed.                         *)
LEMMA RemoveJobInv ==
  ASSUME CronInv, NEW j \in Jobs, RemoveJob(j)
  PROVE  CronInv'
BY RecordTypes, MethodInv DEF RemoveJob

(* An execution of a job that is not marked begins, and marks it.          *)
LEMMA BegunInv ==
  ASSUME CronInv, NEW B \in SUBSET Jobs, NEW kind \in Kinds,
         \A j \in B : job[j].there /\ ~job[j].running,
         exec' = exec \union ({kind} \X B), job' = Marked(job, B),
         UNCHANGED <<stopped, late>>
  PROVE  /\ job' \in [Jobs -> JobRecords] /\ exec' \subseteq Kinds \X Jobs
         /\ \A j \in Jobs : Waits(job'[j]) <=> Waits(job[j])
         /\ OnceOnly' /\ ExecutingIsMarked' /\ MarkedIsExecuting'
<1>1. job \in [Jobs -> JobRecords] /\ exec \subseteq Kinds \X Jobs
  BY DEF CronInv, CronTypeOK
<1>2. /\ job' \in [Jobs -> JobRecords]
      /\ \A j \in Jobs : /\ Waits(job'[j]) <=> Waits(job[j])
                         /\ job'[j].there = job[j].there
                         /\ job'[j].running <=> job[j].running \/ j \in B
  BY <1>1, MarkedJobs
<1>3. \A e \in exec' : e \in exec \/ (e = <<kind, e[2]>> /\ e[2] \in B)
  OBVIOUS
<1>4. \A j \in B \ late : \A e \in exec : e[2] # j
  BY DEF CronInv, ExecutingIsMarked
<1>5. OnceOnly'
  BY <1>3, <1>4 DEF CronInv, OnceOnly
<1>6. ExecutingIsMarked'
  BY <1>2, <1>3 DEF CronInv, ExecutingIsMarked
<1>7. \A j \in B : <<kind, j>> \in exec' /\ <<kind, j>>[2] = j
  OBVIOUS
<1>8. MarkedIsExecuting'
  <2> SUFFICES ASSUME ~stopped, NEW j \in Jobs, job'[j].running
               PROVE  \E e \in exec' : e[2] = j
    BY DEF MarkedIsExecuting, Executions
  <2>1. CASE job[j].running
    BY <2>1 DEF CronInv, MarkedIsExecuting, Executions
  <2>2. CASE j \in B
    BY <1>7, <2>2
  <2> QED BY <1>2, <2>1, <2>2
<1> QED BY <1>1, <1>2, <1>5, <1>6, <1>8

(* A run on demand marks its job and is executed beside the timer's.       *)
LEMMA ForceRunInv ==
  ASSUME CronInv, NEW j \in Jobs, ForceRun(j)
  PROVE  CronInv'
<1>1. /\ job[j].there /\ ~job[j].running
      /\ job' = Marked(job, {j}) /\ exec' = exec \union {<<"forced", j>>}
      /\ UNCHANGED <<timer, ticking, stopped, missed, unarmed, late>>
  BY DEF ForceRun
<1>2. exec' = exec \union ({"forced"} \X {j}) /\ "forced" \in Kinds
  BY <1>1 DEF Kinds
<1>3. /\ job' \in [Jobs -> JobRecords] /\ exec' \subseteq Kinds \X Jobs
      /\ \A k \in Jobs : Waits(job'[k]) <=> Waits(job[k])
      /\ OnceOnly' /\ ExecutingIsMarked' /\ MarkedIsExecuting'
  BY <1>1, <1>2, BegunInv
<1>4. (\E e \in exec' : e[1] = "tick") <=> \E e \in exec : e[1] = "tick"
  BY <1>1
<1>5. CronTypeOK'
  BY <1>1, <1>3, <1>4 DEF CronInv, CronTypeOK
<1>6. TimerArmed'
  BY <1>1, <1>3, <1>4 DEF CronInv, TimerArmed
<1> QED BY <1>3, <1>5, <1>6 DEF CronInv

(* A job comes due: its timer is set already.                              *)
LEMMA TimePassesInv ==
  ASSUME CronInv, NEW j \in Jobs, TimePasses(j)
  PROVE  CronInv'
<1>1. /\ job' = [job EXCEPT ![j].next = "due"] /\ job[j].next = "later"
      /\ UNCHANGED <<timer, ticking, stopped, exec, missed, unarmed, late>>
  BY DEF TimePasses
<1>2. job' \in [Jobs -> JobRecords]
  BY <1>1 DEF CronInv, CronTypeOK, JobRecords
<1>3. \A k \in Jobs : /\ Waits(job'[k]) <=> Waits(job[k])
                      /\ job'[k].there = job[k].there /\ job'[k].running = job[k].running
  BY <1>1 DEF CronInv, CronTypeOK, JobRecords, Waits
<1>4. CronTypeOK' /\ TimerArmed'
  BY <1>1, <1>2, <1>3 DEF CronInv, CronTypeOK, TimerArmed
<1>5. OnceOnly' /\ ExecutingIsMarked' /\ MarkedIsExecuting'
  BY <1>1, <1>3
     DEF CronInv, OnceOnly, ExecutingIsMarked, MarkedIsExecuting, Executions
<1> QED BY <1>4, <1>5 DEF CronInv

(* The timer rings, and marks what is due.                                 *)
LEMMA TimerRingsInv ==
  ASSUME CronInv, TimerRings
  PROVE  CronInv'
<1>1. CASE ticking \/ DueJobs = {}
  <2>1. /\ timer' = ArmTimer(job, stopped) /\ unarmed' = {}
        /\ UNCHANGED <<job, ticking, exec, stopped, missed, late>>
    BY <1>1 DEF TimerRings
  <2>2. timer' \in BOOLEAN
    BY <2>1 DEF ArmTimer, CronInv, CronTypeOK
  <2> QED
    BY <2>1, <2>2 DEF CronInv, CronTypeOK, TimerArmed, ArmTimer, OnceOnly, ExecutingIsMarked,
                      MarkedIsExecuting, Executions
<1>2. CASE ~(ticking \/ DueJobs = {})
  <2>1. PICK B \in Batches(DueJobs, MaxConcurrentRuns) :
          /\ ticking' = TRUE /\ timer' = FALSE
          /\ exec' = exec \union ({"tick"} \X B)
          /\ job' = Marked(job, B)
    BY <1>2 DEF TimerRings
  <2>2. unarmed' = {} /\ UNCHANGED <<stopped, missed, late>>
    BY DEF TimerRings
  <2>0. DueJobs \in SUBSET Jobs /\ DueJobs # {} /\ MaxConcurrentRuns \in Nat \ {0}
    BY <1>2, CronAssumption DEF DueJobs
  <2>3. B \subseteq DueJobs /\ B # {} /\ DueJobs \subseteq Jobs
    BY <2>0, BatchOf
  <2>4. \A j \in B : job[j].there /\ ~job[j].running
    BY <2>3 DEF DueJobs, Due, Waits
  <2>5. /\ job' \in [Jobs -> JobRecords] /\ exec' \subseteq Kinds \X Jobs
        /\ OnceOnly' /\ ExecutingIsMarked' /\ MarkedIsExecuting'
    BY <2>1, <2>2, <2>3, <2>4, BegunInv DEF Kinds
  <2>6. \E e \in exec' : e[1] = "tick"
    <3>1. PICK j \in B : TRUE
      BY <2>3
    <3>2. <<"tick", j>> \in exec' /\ <<"tick", j>>[1] = "tick"
      BY <2>1
    <3> QED BY <3>2
  <2>7. CronTypeOK' /\ TimerArmed'
    BY <2>1, <2>2, <2>5, <2>6 DEF CronInv, CronTypeOK, TimerArmed
  <2> QED BY <2>5, <2>7 DEF CronInv
<1> QED BY <1>1, <1>2

(* A run ends: the next of its batch begins, or the timer is armed.        *)
LEMMA FinishJobInv ==
  ASSUME CronInv, NEW kind \in Kinds, NEW j \in Jobs, NEW outcome \in Outcomes,
         FinishJob(kind, j, outcome)
  PROVE  CronInv'
<1> DEFINE js == [job EXCEPT ![j] = Result(j, @, outcome)]
           left == exec \ {<<kind, j>>}
           batchEnds == kind = "tick" /\ \A e \in left : e[1] # "tick"
<1>1. /\ <<kind, j>> \in exec /\ stopped' = stopped
      /\ ticking' = (ticking /\ ~batchEnds)
      /\ timer' = IF batchEnds THEN ArmTimer(js, stopped) ELSE timer
      /\ unarmed' = IF batchEnds THEN {}
                    ELSE IF Waits(js[j]) /\ ~timer THEN unarmed \union {j} ELSE unarmed
  BY DEF FinishJob
<1>2. \/ missed' = missed /\ exec' = left /\ job' = js /\ late' = late
      \/ \E n \in missed :
           /\ missed' = missed \ {n} /\ exec' = left \union {<<"missed", n>>}
           /\ job' = Marked(js, {n})
           /\ late' = IF Executions(n) = {} THEN late ELSE late \union {n}
  BY DEF FinishJob
<1>3. /\ job \in [Jobs -> JobRecords] /\ exec \subseteq Kinds \X Jobs
      /\ missed \subseteq Jobs /\ late \subseteq Jobs
  BY DEF CronInv, CronTypeOK
<1>4. /\ js \in [Jobs -> JobRecords] /\ ~js[j].running
      /\ \A k \in Jobs : k # j => js[k] = job[k]
  BY <1>3, ResultType
<1> HIDE DEF js
<1>5. \A e \in left : e \in exec /\ (e[2] = j => j \in late)
  <2> SUFFICES ASSUME NEW e \in left, e[2] = j, j \notin late PROVE FALSE
    OBVIOUS
  <2>1. e \in exec /\ e # <<kind, j>> /\ <<kind, j>>[2] = j
    OBVIOUS
  <2> QED BY <1>1, <2>1 DEF CronInv, OnceOnly
<1>6. \A k \in Jobs : k # j /\ Executions(k) # {} => \E e \in left : e[2] = k
  BY DEF Executions
<1>7. (\E e \in left : e[1] = "tick") <=> ticking /\ ~batchEnds
  BY <1>1 DEF CronInv, CronTypeOK
<1>8. /\ left \subseteq exec' /\ late \subseteq late'
      /\ exec' \subseteq Kinds \X Jobs /\ missed' \subseteq Jobs /\ late' \subseteq Jobs
      /\ \A e \in exec' : e \in left \/ e[1] = "missed"
  <2>1. CASE missed' = missed /\ exec' = left /\ late' = late
    BY <1>3, <2>1
  <2>2. ASSUME NEW n \in missed, missed' = missed \ {n}, exec' = left \union {<<"missed", n>>},
               late' = IF Executions(n) = {} THEN late ELSE late \union {n}
        PROVE  /\ left \subseteq exec' /\ late \subseteq late'
               /\ exec' \subseteq Kinds \X Jobs /\ missed' \subseteq Jobs /\ late' \subseteq Jobs
               /\ \A e \in exec' : e \in left \/ e[1] = "missed"
    BY <1>3, <2>2 DEF Kinds
  <2> QED BY <1>2, <2>1, <2>2
<1>9. /\ job' \in [Jobs -> JobRecords]
      /\ \A k \in Jobs : (Waits(job'[k]) <=> Waits(js[k])) /\ job'[k].there = js[k].there
  <2>1. CASE job' = js
    BY <1>4, <2>1
  <2>2. ASSUME NEW n \in missed, job' = Marked(js, {n})
        PROVE  /\ job' \in [Jobs -> JobRecords]
               /\ \A k \in Jobs : /\ Waits(job'[k]) <=> Waits(js[k])
                                  /\ job'[k].there = js[k].there
    BY <1>3, <1>4, <2>2, MarkedJobs
  <2> QED BY <1>2, <2>1, <2>2
<1>10. CronTypeOK'
  <2>1. timer' \in BOOLEAN /\ ticking' \in BOOLEAN /\ unarmed' \subseteq Jobs
    BY <1>1 DEF ArmTimer, CronInv, CronTypeOK
  <2>2. ticking' <=> \E e \in exec' : e[1] = "tick"
    BY <1>1, <1>7, <1>8
  <2> QED BY <1>1, <1>8, <1>9, <2>1, <2>2 DEF CronInv, CronTypeOK
<1>11. TimerArmed'
  <2>1. CASE batchEnds
    BY <1>1, <1>9, <2>1 DEF TimerArmed, ArmTimer
  <2>2. CASE ~batchEnds
    <3> SUFFICES ASSUME ~stopped, NEW k \in Jobs \ unarmed', Waits(job'[k])
                 PROVE  timer' \/ \E e \in exec' : e[1] = "tick"
      BY <1>1 DEF TimerArmed
    <3>1. Waits(js[k]) /\ timer' = timer
      BY <1>1, <1>9, <2>2
    <3>2. CASE k = j
      BY <1>1, <2>2, <3>1, <3>2
    <3>3. CASE k # j
      <4>1. timer \/ \E e \in exec : e[1] = "tick"
        BY <1>1, <1>4, <2>2, <3>1, <3>3 DEF CronInv, TimerArmed
      <4>2. (\E e \in exec : e[1] = "tick") => ticking
        BY DEF CronInv, CronTypeOK
      <4> QED BY <1>7, <1>8, <2>2, <3>1, <4>1, <4>2
    <3> QED BY <3>2, <3>3
  <2> HIDE DEF batchEnds
  <2> QED BY <2>1, <2>2
<1>12. CASE missed' = missed /\ exec' = left /\ job' = js /\ late' = late
  <2>1. OnceOnly'
    BY <1>5, <1>12 DEF CronInv, OnceOnly
  <2>2. ExecutingIsMarked'
    BY <1>4, <1>5, <1>12 DEF CronInv, ExecutingIsMarked
  <2>3. MarkedIsExecuting'
    BY <1>1, <1>4, <1>6, <1>12 DEF CronInv, MarkedIsExecuting, Executions
  <2> QED BY <1>10, <1>11, <2>1, <2>2, <2>3 DEF CronInv
<1>13. ASSUME NEW n \in missed, exec' = left \union {<<"missed", n>>}, job' = Marked(js, {n}),
              late' = IF Executions(n) = {} THEN late ELSE late \union {n}
       PROVE  CronInv'
  <2>1. /\ n \in Jobs /\ <<"missed", n>>[2] = n
        /\ \A k \in Jobs : job'[k].running <=> js[k].running \/ (k = n /\ js[k].there)
    BY <1>3, <1>4, <1>13, MarkedJobs
  <2>2. n \notin late' => \A e \in left : e[2] # n
    BY <1>5, <1>13 DEF Executions
  <2>3. OnceOnly'
    BY <1>5, <1>13, <2>1, <2>2 DEF CronInv, OnceOnly
  <2>4. ExecutingIsMarked'
    <3> SUFFICES ASSUME NEW k \in Jobs \ late', NEW e \in exec', e[2] = k, job'[k].there
                 PROVE  job'[k].running
      BY DEF ExecutingIsMarked
    <3>1. job'[k].there = js[k].there /\ k \notin late
      BY <1>8, <1>9
    <3>2. CASE k = n
      BY <2>1, <3>1, <3>2
    <3>3. CASE k # n
      <4>1. e \in left /\ k # j
        BY <1>5, <1>13, <3>1, <3>3
      <4>2. job[k].running /\ js[k] = job[k]
        BY <1>4, <4>1, <3>1 DEF CronInv, ExecutingIsMarked
      <4> QED BY <2>1, <4>2
    <3> QED BY <3>2, <3>3
  <2>5. MarkedIsExecuting'
    BY <1>1, <1>4, <1>6, <1>13, <2>1 DEF CronInv, MarkedIsExecuting, Executions
  <2> QED BY <1>10, <1>11, <2>3, <2>4, <2>5 DEF CronInv
<1> QED BY <1>2, <1>12, <1>13

(* Every step of the service keeps the invariant.                          *)
LEMMA CronStep ==
  ASSUME CronInv, [CronNext]_cronVars
  PROVE  CronInv'
<1>1. CASE UNCHANGED cronVars
  BY <1>1 DEF cronVars, CronInv, CronTypeOK, TimerArmed, OnceOnly, ExecutingIsMarked,
              MarkedIsExecuting, Executions
<1>2. CASE Stop
  BY <1>2 DEF Stop, CronInv, CronTypeOK, TimerArmed, OnceOnly, ExecutingIsMarked,
              MarkedIsExecuting, Executions
<1>3. CASE ProcessEnds
  BY <1>3 DEF ProcessEnds, CronInv, CronTypeOK, TimerArmed, OnceOnly, ExecutingIsMarked,
              MarkedIsExecuting, Executions
<1>4. CASE Start \/ TimerRings
  BY <1>4, StartInv, TimerRingsInv
<1>5. CASE \E j \in Jobs : \/ CronClient(j) \/ TimePasses(j)
                           \/ \E kind \in Kinds, outcome \in Outcomes : FinishJob(kind, j, outcome)
  BY <1>5, AddJobInv, UpdateJobInv, RemoveJobInv, ForceRunInv, TimePassesInv, FinishJobInv
     DEF CronClient
<1> QED BY <1>1, <1>2, <1>3, <1>4, <1>5 DEF CronNext

(* The invariant holds in every reachable state of the service.            *)
THEOREM CronInvariant == CronSpec => []CronInv
<1>1. CronInv /\ [CronNext]_cronVars => CronInv'
  BY CronStep
<1> QED BY <1>1, CronInitInv, PTL DEF CronSpec

(* A job that waits for a run has a timer set, or a batch whose end sets   *)
(* it, unless its next run was computed where the code sets no timer.      *)
THEOREM TimerIsArmed == CronSpec => []TimerArmed
BY CronInvariant, PTL DEF CronInv

(* The mark of a job is that of its one execution.                         *)
LEMMA Marking == CronInv => MarkIsExecution
<1> SUFFICES ASSUME CronInv PROVE MarkIsExecution
  OBVIOUS
<1>1. ASSUME NEW j \in Jobs \ late
      PROVE  Cardinality(Executions(j)) <= 1
  <2>1. CASE Executions(j) = {}
    BY <2>1, FS_EmptySet
  <2>2. CASE Executions(j) # {}
    <3>1. PICK e \in Executions(j) : TRUE
      BY <2>2
    <3>2. Executions(j) = {e}
      BY <3>1 DEF Executions, CronInv, OnceOnly
    <3>3. Cardinality({e}) = 1
      BY FS_Singleton
    <3> QED BY <3>2, <3>3
  <2> QED BY <2>1, <2>2
<1> QED BY <1>1 DEF MarkIsExecution, OneExecutionAtATime, CronInv

(* A job is executed once at a time, unless the catch-up reached it late,  *)
(* and a job marked as running in a started service is being executed.     *)
THEOREM MarksAreExecutions == CronSpec => []MarkIsExecution
BY Marking, CronInvariant, PTL

-----------------------------------------------------------------------------
(* The gateway process.  The services it composes keep their invariants    *)
(* because each of its steps is a step of theirs or leaves them alone, but *)
(* for the end of the process, after which the lanes are as at the start.  *)
(* A drain that found nothing leaves nothing: no lane takes a turn any     *)
(* more, and the promise of a turn that is in no lane has settled.         *)

MarksAreCurrent == \A j \in Jobs : job[j].running => Executions(j) # {}
LanesEmpty == \A l \in Lanes : lane[l].queue = <<>> /\ lane[l].active = {}

GatewayInv ==
  /\ LanesInv /\ CronInv
  /\ phase \in {"down", "up", "draining", "closing"} /\ cut \in BOOLEAN
  /\ DOMAIN spent = {"chats", "edits", "moments", "starts"}
  /\ phase # "down" => MarksAreCurrent
  /\ phase \in {"draining", "closing"} => draining
  /\ phase = "closing" /\ ~cut => LanesEmpty

(* A step that unmarks no execution and ends none that is marked keeps the *)
(* marks current.                                                          *)
LEMMA CurrentStays ==
  ASSUME MarksAreCurrent,
         \A j \in Jobs : job'[j].running =>
           \/ job[j].running /\ \A e \in exec : e[2] = j => e \in exec'
           \/ \E e \in exec' : e[2] = j
  PROVE  MarksAreCurrent'
BY DEF MarksAreCurrent, Executions

(* While a process is up only its executions are marked, stopped or not.   *)
LEMMA MarksKept ==
  ASSUME CronInv, MarksAreCurrent,
         \/ Stop \/ TimerRings
         \/ \E j \in Jobs : \/ CronClient(j) \/ TimePasses(j)
                            \/ \E kind \in Kinds, outcome \in Outcomes : FinishJob(kind, j, outcome)
  PROVE  MarksAreCurrent'
<1>1. job \in [Jobs -> JobRecords] /\ missed \subseteq Jobs /\ exec \subseteq Kinds \X Jobs
  BY DEF CronInv, CronTypeOK
<1>2. ASSUME exec' = exec, \A j \in Jobs : job'[j].running => job[j].running
      PROVE  MarksAreCurrent'
  BY <1>2, CurrentStays
<1>3. ASSUME NEW kind, NEW B \in SUBSET Jobs, exec' = exec \union ({kind} \X B), job' = Marked(job, B)
      PROVE  MarksAreCurrent'
  <2>1. \A j \in Jobs : job'[j].running => job[j].running \/ j \in B
    BY <1>1, <1>3, MarkedJobs
  <2>2. \A j \in B : <<kind, j>> \in exec' /\ <<kind, j>>[2] = j
    BY <1>3
  <2>3. exec \subseteq exec'
    BY <1>3
  <2> HIDE DEF MarksAreCurrent
  <2> QED BY <2>1, <2>2, <2>3, CurrentStays
<1>4. CASE Stop
  BY <1>2, <1>4 DEF Stop
<1>5. CASE TimerRings
  <2>1. CASE UNCHANGED <<job, exec>>
    BY <1>2, <2>1
  <2>2. ASSUME NEW B \in Batches(DueJobs, MaxConcurrentRuns),
               exec' = exec \union ({"tick"} \X B), job' = Marked(job, B)
        PROVE  MarksAreCurrent'
    <3>1. B \in SUBSET Jobs
      BY DEF Batches, DueJobs
    <3> QED BY <1>3, <2>2, <3>1
  <2> QED BY <1>5, <2>1, <2>2 DEF TimerRings
<1>6. ASSUME NEW j \in Jobs, CronClient(j) PROVE MarksAreCurrent'
  <2>1. CASE AddJob(j)
    <3>1. PICK next \in {"later", "none"} : job' = [job EXCEPT ![j] = Scheduled(next)]
      BY <2>1 DEF AddJob, NextRuns
    <3>2. ~Scheduled(next).running /\ exec' = exec
      BY <2>1, RecordTypes DEF AddJob
    <3> QED BY <1>1, <1>2, <3>1, <3>2
  <2>2. ASSUME NEW enabled \in BOOLEAN, UpdateJob(j, enabled) PROVE MarksAreCurrent'
    <3>1. PICK next \in {"later", "none"} :
            job' = [job EXCEPT ![j].enabled = enabled, ![j].next = IF enabled THEN next ELSE "none"]
      BY <2>2 DEF UpdateJob, NextRuns
    <3>2. \A k \in Jobs : job'[k].running = job[k].running
      BY <1>1, <3>1 DEF JobRecords
    <3> QED BY <1>2, <2>2, <3>2 DEF UpdateJob
  <2>3. CASE RemoveJob(j)
    BY <1>1, <1>2, <2>3, RecordTypes DEF RemoveJob
  <2>4. CASE ForceRun(j)
    <3>1. exec' = exec \union ({"forced"} \X {j}) /\ job' = Marked(job, {j})
      BY <2>4 DEF ForceRun
    <3> QED BY <1>3, <3>1
  <2> QED BY <1>6, <2>1, <2>2, <2>3, <2>4 DEF CronClient
<1>7. ASSUME NEW j \in Jobs, TimePasses(j) PROVE MarksAreCurrent'
  <2>1. \A k \in Jobs : job'[k].running = job[k].running
    BY <1>1, <1>7 DEF TimePasses, JobRecords
  <2> QED BY <1>2, <1>7, <2>1 DEF TimePasses
<1>8. ASSUME NEW j \in Jobs, NEW kind \in Kinds, NEW outcome \in Outcomes, FinishJob(kind, j, outcome)
      PROVE  MarksAreCurrent'
  <2> DEFINE js == [job EXCEPT ![j] = Result(j, @, outcome)]
             left == exec \ {<<kind, j>>}
  <2>1. /\ js \in [Jobs -> JobRecords] /\ ~js[j].running
        /\ \A k \in Jobs : k # j => js[k] = job[k]
    BY <1>1, ResultType
  <2>2. \A k \in Jobs : k # j => \A e \in exec : e[2] = k => e \in left
    OBVIOUS
  <2>3. \/ exec' = left /\ job' = js
        \/ \E n \in missed : exec' = left \union {<<"missed", n>>} /\ job' = Marked(js, {n})
    BY <1>8 DEF FinishJob
  <2> HIDE DEF js, left
  <2>4. CASE exec' = left /\ job' = js
    BY <2>1, <2>2, <2>4, CurrentStays
  <2>5. ASSUME NEW n \in missed, exec' = left \union {<<"missed", n>>}, job' = Marked(js, {n})
        PROVE  MarksAreCurrent'
    <3>1. n \in Jobs /\ <<"missed", n>> \in exec' /\ <<"missed", n>>[2] = n
      BY <1>1, <2>5
    <3>2. \A k \in Jobs : job'[k].running => js[k].running \/ k = n
      BY <2>1, <2>5, <3>1, MarkedJobs
    <3> QED BY <2>1, <2>2, <2>5, <3>1, <3>2, CurrentStays
  <2> QED BY <2>3, <2>4, <2>5
<1> QED BY <1>4, <1>5, <1>6, <1>7, <1>8

(* A step that leaves the lanes alone, or closes them to new turns         *)
LEMMA LanesStutter ==
  ASSUME LanesInv, UNCHANGED <<lane, draining, promise>>
  PROVE  LanesInv'
BY DEF LanesInv, LanesTypeOK, Fits, Fit, Loose, Nested, Within, QueuedIn, Lanes, Places, Belongs

LEMMA DrainingStays ==
  ASSUME LanesInv, MarkGatewayDraining
  PROVE  LanesInv'
BY DEF MarkGatewayDraining, LanesInv, LanesTypeOK, Fits, Fit, Loose, Nested, Within, QueuedIn, Lanes,
       Places, Belongs

(* The lanes as the end of a process leaves them                           *)
LEMMA LanesInitInv == LanesInit' => LanesInv'
<1>1. LanesInit => LanesInv
  BY InitInv
<1> QED BY <1>1, PTL

(* A turn that waits or executes in a lane is of no use to empty lanes.    *)
LEMMA EmptyLanes ==
  ASSUME LanesInv, LanesEmpty, NEW t \in Turns
  PROVE  ~Holds(t) /\ ~Executes(t) /\ promise[t] # "pending"
<1>1. /\ lane[SessionOf[t]].queue = <<>> /\ lane[SessionOf[t]].active = {}
      /\ lane[GlobalOf[t]].active = {}
  BY LanesOf DEF LanesEmpty
<1>2. Within(lane[SessionOf[t]]) = {}
  BY <1>1 DEF Within, QueuedIn
<1> QED BY <1>1, <1>2 DEF LanesInv, Nested, Holds, Executes

(* Phase 2 of the shutdown: what check() found empty                       *)
LEMMA DrainedEmpty ==
  ASSUME LanesInv, Drained
  PROVE  LanesEmpty
<1> SUFFICES ASSUME NEW l \in Lanes
             PROVE  lane[l].queue = <<>> /\ lane[l].active = {}
  BY DEF LanesEmpty
<1>1. lane[l].queue \in Seq(Turns) /\ IsFiniteSet(lane[l].active)
  BY DEF LanesInv, Fits, Fit, Loose, LaneRecords
<1>2. Len(lane[l].queue) + Cardinality(lane[l].active) = 0
  BY DEF Drained, QueueSize
<1>3. Len(lane[l].queue) \in Nat /\ Cardinality(lane[l].active) \in Nat
  BY <1>1, FS_CardinalityType
<1>4. Len(lane[l].queue) = 0 /\ Cardinality(lane[l].active) = 0
  BY <1>2, <1>3
<1> QED BY <1>1, <1>4, FS_EmptySet

(* A step of the lanes while the cron service and the phase stand still:   *)
(* of empty lanes that drain, only a refusal or its receipt is left.       *)
LEMMA LanesStepInv ==
  ASSUME GatewayInv, NEW t \in Turns,
         ExecuteInSession(t) \/ Taken(t) \/ Ends(t) \/ ReleaseSession(t)
  PROVE  /\ LanesInv' /\ draining' = draining
         /\ phase \in {"draining", "closing"} /\ LanesEmpty => LanesEmpty'
<1>1. CASE ExecuteInSession(t)
  <2>1. LanesInv' /\ draining' = draining
    BY <1>1, ExecuteInSessionInv DEF GatewayInv, ExecuteInSession
  <2>2. draining => lane' = lane
    BY <1>1 DEF ExecuteInSession
  <2> QED BY <2>1, <2>2 DEF GatewayInv, LanesEmpty, Lanes
<1>2. CASE Taken(t)
  <2>1. LanesInv' /\ UNCHANGED <<lane, draining>>
    BY <1>2, TakenInv DEF GatewayInv, Taken
  <2> QED BY <2>1 DEF LanesEmpty, Lanes
<1>3. CASE Ends(t)
  <2>1. PICK outcome \in {"resolved", "failed"} : FinishTurn(t, outcome)
    BY <1>3 DEF Ends
  <2>2. LanesInv' /\ draining' = draining /\ Executes(t)
    BY <2>1, FinishTurnInv DEF GatewayInv, FinishTurn
  <2> QED BY <2>2, EmptyLanes DEF GatewayInv
<1>4. CASE ReleaseSession(t)
  <2>1. LanesInv' /\ draining' = draining /\ Holds(t)
    BY <1>4, ReleaseSessionInv DEF GatewayInv, ReleaseSession, Returned
  <2> QED BY <2>1, EmptyLanes DEF GatewayInv
<1> QED BY <1>1, <1>2, <1>3, <1>4

(* The invariant holds in every reachable state of the gateway.            *)
THEOREM GatewayInvariant == GatewaySpec => []GatewayInv
<1>1. GatewayInit => GatewayInv
  BY InitInv, CronInitInv DEF GatewayInit, GatewayInv
<1>2. GatewayInv /\ [GatewayNext]_gatewayVars => GatewayInv'
  <2> SUFFICES ASSUME GatewayInv, [GatewayNext]_gatewayVars PROVE GatewayInv'
    OBVIOUS
  <2>1. /\ LanesInv /\ CronInv
        /\ phase \in {"down", "up", "draining", "closing"} /\ cut \in BOOLEAN
        /\ DOMAIN spent = {"chats", "edits", "moments", "starts"}
        /\ phase # "down" => MarksAreCurrent
        /\ phase \in {"draining", "closing"} => draining
        /\ phase = "closing" /\ ~cut => LanesEmpty
    BY DEF GatewayInv
  <2>2. \A what, bound : Spend(what, bound) => DOMAIN spent' = DOMAIN spent
    BY DEF Spend
  <2>3. CASE UNCHANGED gatewayVars
    <3>1. UNCHANGED <<lane, draining, promise>> /\ UNCHANGED cronVars /\ UNCHANGED <<phase, cut, spent>>
      BY <2>3 DEF gatewayVars, lanesVars
    <3>2. LanesInv' /\ CronInv'
      BY <2>1, <3>1, LanesStutter, CronStep
    <3> QED BY <2>1, <3>1, <3>2 DEF GatewayInv, MarksAreCurrent, LanesEmpty, Executions, Lanes, cronVars
  <2>4. CASE Boot
    <3>1. CronInv' /\ stopped' = FALSE
      BY <2>1, <2>4, StartInv DEF Boot, Start
    <3>2. MarksAreCurrent'
      BY <3>1 DEF CronInv, MarkedIsExecuting, MarksAreCurrent
    <3>3. LanesInv'
      BY <2>1, <2>4, LanesStutter DEF Boot, lanesVars
    <3> QED BY <2>1, <2>2, <2>4, <3>1, <3>2, <3>3 DEF Boot, GatewayInv
  <2>5. ASSUME NEW t \in Turns,
               ExecuteInSession(t) \/ Taken(t) \/ Ends(t) \/ ReleaseSession(t),
               UNCHANGED <<phase, cut>>, DOMAIN spent' = DOMAIN spent,
               CronInv', phase # "down" => MarksAreCurrent'
        PROVE  GatewayInv'
    <3>1. /\ LanesInv' /\ draining' = draining
          /\ phase \in {"draining", "closing"} /\ LanesEmpty => LanesEmpty'
      BY <2>5, LanesStepInv
    <3> QED BY <2>1, <2>5, <3>1 DEF GatewayInv
  <2>6. UNCHANGED cronVars => CronInv' /\ (MarksAreCurrent => MarksAreCurrent')
    BY <2>1, CronStep DEF MarksAreCurrent, Executions, cronVars
  <2>7. ASSUME NEW t \in Turns, AskTurn(t) \/ TurnEnds(t) \/ SessionFreed(t)
        PROVE  GatewayInv'
    BY <2>1, <2>5, <2>6, <2>7 DEF AskTurn, TurnEnds, SessionFreed
  <2>8. ASSUME NEW t \in Chats, ChatSend(t) \/ ChatAnswered(t) PROVE GatewayInv'
    <3>1. t \in Turns
      BY GatewayAssumption
    <3> QED BY <2>1, <2>2, <2>5, <2>6, <2>8, <3>1 DEF ChatSend, ChatAnswered
  <2>9. ASSUME NEW j \in Jobs, NEW kind \in Kinds, JobEnds(kind, j) PROVE GatewayInv'
    <3>1. PICK outcome \in Outcomes : FinishJob(kind, j, outcome)
      BY <2>9 DEF JobEnds
    <3>2. <<kind, j>> \in Turns
      BY GatewayAssumption
    <3>3. MarksAreCurrent => MarksAreCurrent'
      BY <2>1, <3>1, MarksKept
    <3>4. CronInv'
      BY <2>1, <3>1, FinishJobInv
    <3> QED BY <2>1, <2>5, <2>9, <3>2, <3>3, <3>4 DEF JobEnds
  <2>10. ASSUME UNCHANGED lanesVars, UNCHANGED <<phase, cut>>, DOMAIN spent' = DOMAIN spent,
                CronInv', phase # "down" => MarksAreCurrent'
         PROVE  GatewayInv'
    <3>1. LanesInv' /\ draining' = draining
      BY <2>1, <2>10, LanesStutter DEF lanesVars
    <3>2. LanesEmpty => LanesEmpty'
      BY <2>10 DEF LanesEmpty, Lanes, lanesVars
    <3> QED BY <2>1, <2>10, <3>1, <3>2 DEF GatewayInv
  <2>11. ASSUME NEW j \in Jobs, CronMethod(j) \/ Moment(j) PROVE GatewayInv'
    <3>1. CronClient(j) \/ TimePasses(j)
      BY <2>11 DEF CronMethod, Moment
    <3>2. CronInv'
      BY <2>1, <3>1, CronStep DEF CronNext
    <3>3. MarksAreCurrent => MarksAreCurrent'
      BY <2>1, <3>1, MarksKept
    <3> QED BY <2>1, <2>2, <2>10, <2>11, <3>2, <3>3 DEF CronMethod, Moment
  <2>12. CASE CronTimer
    <3>1. CronInv' /\ (MarksAreCurrent => MarksAreCurrent')
      BY <2>1, <2>12, CronStep, MarksKept DEF CronTimer, CronNext
    <3> QED BY <2>1, <2>10, <2>12, <3>1 DEF CronTimer
  <2>13. CASE ShutDown
    <3>1. CronInv' /\ MarksAreCurrent'
      BY <2>1, <2>13, CronStep, MarksKept DEF ShutDown, CronNext
    <3>2. LanesInv' /\ draining' = TRUE
      BY <2>1, <2>13, DrainingStays DEF ShutDown, MarkGatewayDraining
    <3> QED BY <2>1, <2>13, <3>1, <3>2 DEF ShutDown, GatewayInv
  <2>14. CASE DrainEnds
    <3>1. /\ LanesInv' /\ CronInv' /\ draining' = draining
          /\ MarksAreCurrent => MarksAreCurrent'
      BY <2>1, <2>6, <2>14, LanesStutter DEF DrainEnds, lanesVars
    <3>2. ~cut' => LanesEmpty
      BY <2>1, <2>14, DrainedEmpty DEF DrainEnds
    <3>3. LanesEmpty => LanesEmpty'
      BY <2>14 DEF DrainEnds, LanesEmpty, Lanes, lanesVars
    <3> QED BY <2>1, <2>14, <3>1, <3>2, <3>3 DEF DrainEnds, GatewayInv, Drained
  <2>15. CASE Exit \/ Crash
    <3>1. CronInv'
      BY <2>1, <2>15, CronStep DEF Exit, Crash, Gone, CronNext
    <3>2. LanesInv'
      BY <2>15, LanesInitInv DEF Exit, Crash, Gone, LanesInit
    <3> QED BY <2>1, <2>15, <3>1, <3>2 DEF Exit, Crash, Gone, GatewayInv
  <2> QED BY <2>3, <2>4, <2>7, <2>8, <2>9, <2>11, <2>12, <2>13, <2>14, <2>15 DEF GatewayNext
<1> QED BY <1>1, <1>2, PTL DEF GatewaySpec

(* In the gateway, as in the services by themselves, turns are serialized, *)
(* no wake-up of a lane or of the timer is lost, and a mark in the store   *)
(* of the jobs is that of an execution.                                    *)
THEOREM GatewayKeeps ==
  GatewaySpec => [](GatewayTypeOK /\ TurnsSerialized /\ NoIdlePlace /\ TimerArmed /\ MarkIsExecution)
<1>1. GatewayInv => GatewayTypeOK /\ TurnsSerialized /\ NoIdlePlace /\ TimerArmed /\ MarkIsExecution
  BY Serialized, Taking, Marking DEF GatewayInv, GatewayTypeOK, LanesInv, CronInv
<1> QED BY <1>1, GatewayInvariant, PTL

(* A drain that did not time out cuts nothing off: when the process exits  *)
(* no turn executes, no execution of a job is under way, and no job stays  *)
(* marked as running in the store.                                         *)
THEOREM DrainsClean == GatewaySpec => []DrainedIsClean
<1>1. GatewayInv => DrainedIsClean
  <2> SUFFICES ASSUME GatewayInv, phase = "closing", ~cut, Quiet
               PROVE  /\ Executing = {} /\ exec = {}
                      /\ \A j \in Jobs : ~job[j].running
    BY DEF DrainedIsClean
  <2>1. LanesInv /\ CronInv /\ LanesEmpty /\ MarksAreCurrent
    BY DEF GatewayInv
  <2>2. Executing = {}
    BY <2>1, EmptyLanes DEF Executing
  <2>3. exec = {}
    <3>1. SUFFICES ASSUME NEW e \in exec PROVE FALSE
      OBVIOUS
    <3>2. e \in Turns
      BY <2>1, <3>1, GatewayAssumption DEF CronInv, CronTypeOK
    <3>3. ~Holds(e) /\ promise[e] # "pending"
      BY <2>1, <3>2, EmptyLanes
    <3>4. promise[e] # "none" /\ ~Settled(e)
      BY <3>1 DEF Quiet, Asking
    <3>5. promise[e] \in {"none", "pending", "resolved", "failed", "rejected"}
      BY <2>1, <3>2 DEF LanesInv, LanesTypeOK
    <3> QED BY <3>3, <3>4, <3>5 DEF Settled
  <2>4. \A j \in Jobs : ~job[j].running
    BY <2>1, <2>3 DEF MarksAreCurrent, Executions
  <2> QED BY <2>2, <2>3, <2>4
<1> QED BY <1>1, GatewayInvariant, PTL

(* The gateway drives the cron service: each of its steps is one of the    *)
(* service or leaves it alone.                                             *)
THEOREM GatewayImplementsCron == GatewaySpec => CronSpec
<1>1. GatewayInit => CronInit
  BY DEF GatewayInit
<1>2. [GatewayNext]_gatewayVars => [CronNext]_cronVars
  <2> SUFFICES ASSUME [GatewayNext]_gatewayVars PROVE [CronNext]_cronVars
    OBVIOUS
  <2>1. CASE UNCHANGED gatewayVars \/ DrainEnds
    BY <2>1 DEF gatewayVars, DrainEnds
  <2>2. CASE Boot \/ CronTimer \/ ShutDown \/ Exit \/ Crash
    BY <2>2 DEF Boot, CronTimer, ShutDown, Exit, Crash, Gone, CronNext
  <2>3. CASE \E t \in Chats : ChatSend(t) \/ ChatAnswered(t)
    BY <2>3 DEF ChatSend, ChatAnswered
  <2>4. CASE \E t \in Turns : AskTurn(t) \/ TurnEnds(t) \/ SessionFreed(t)
    BY <2>4 DEF AskTurn, TurnEnds, SessionFreed
  <2>5. CASE \E j \in Jobs : CronMethod(j) \/ Moment(j) \/ \E kind \in Kinds : JobEnds(kind, j)
    BY <2>5 DEF CronMethod, Moment, JobEnds, CronNext
  <2> QED BY <2>1, <2>2, <2>3, <2>4, <2>5 DEF GatewayNext
<1> QED BY <1>1, <1>2, PTL DEF GatewaySpec, CronSpec
===========================================================================
