------------------------------ MODULE ServiceProofs ------------------------------
(***************************************************************************)
(* Proofs about the services of the gateway that stand beside its lanes:   *)
(* the heartbeat, the calls of device nodes, the coordinator of a live     *)
(* conversation, reminders and volunteered needs.  For any number of       *)
(* devices, connections, calls, tasks, things said, reminders, sessions,   *)
(* contents, restarts and lost connections.                                *)
(***************************************************************************)
EXTENDS NodeRegistry, GptLiveCoordinator, Heartbeat, Intentions, LatentNeeds,
        FiniteSetTheorems, SequenceTheorems, WellFoundedInduction, TLAPS

-----------------------------------------------------------------------------
(* The heartbeat.  What is wanted was asked for, a timer is for something  *)
(* wanted, and a stopped scheduler wants nothing.                          *)

HeartbeatInv ==
  /\ HeartbeatTypeOK
  /\ (asked <=> wanted) /\ (ring => wanted)
  /\ asleep => ~wanted

(* The types, variable by variable                                         *)
LEMMA HeartbeatTypes ==
  HeartbeatTypeOK <=>
    /\ enabled \in BOOLEAN /\ interval \in BOOLEAN /\ asleep \in BOOLEAN
    /\ wanted \in BOOLEAN /\ ring \in BOOLEAN /\ asked \in BOOLEAN
    /\ beat \in {"none", "deciding", "executing"}
    /\ interval => enabled
BY Zenon DEF HeartbeatTypeOK

LEMMA HeartbeatTypesNext ==
  ASSUME /\ enabled' \in BOOLEAN /\ interval' \in BOOLEAN /\ asleep' \in BOOLEAN
         /\ wanted' \in BOOLEAN /\ ring' \in BOOLEAN /\ asked' \in BOOLEAN
         /\ beat' \in {"none", "deciding", "executing"}
         /\ interval' => enabled'
  PROVE  HeartbeatTypeOK'
BY Zenon DEF HeartbeatTypeOK

(* The variables of the heartbeat are of their types, and what was asked   *)
(* for is pending until a beat begins or a stop withdraws it.              *)
THEOREM HeartbeatInvariant == HeartbeatSpec => []HeartbeatInv
<1>1. HeartbeatInit => HeartbeatInv
  <2> SUFFICES ASSUME HeartbeatInit PROVE HeartbeatInv
    OBVIOUS
  <2>1. HeartbeatTypeOK
    BY Zenon, HeartbeatTypes DEF HeartbeatInit
  <2> QED BY <2>1 DEF HeartbeatInit, HeartbeatInv
<1>2. HeartbeatInv /\ [HeartbeatNext]_heartbeatVars => HeartbeatInv'
  <2> SUFFICES ASSUME HeartbeatInv, [HeartbeatNext]_heartbeatVars PROVE HeartbeatInv'
    OBVIOUS
  <2>1. CASE Request
    <3>1. UNCHANGED <<enabled, interval, asleep, beat>>
      BY <2>1 DEF Request
    <3>2. CASE asleep
      <4>1. UNCHANGED <<wanted, ring, asked>>
        BY <2>1, <3>2 DEF Request
      <4> QED BY <3>1, <4>1 DEF HeartbeatInv, HeartbeatTypeOK
    <3>3. CASE ~asleep
      <4>1. wanted' = TRUE /\ ring' = TRUE /\ asked' = TRUE
        BY <2>1, <3>3 DEF Request
      <4>2. HeartbeatTypeOK'
        BY Zenon, <3>1, <4>1, HeartbeatTypes, HeartbeatTypesNext DEF HeartbeatInv
      <4> QED BY Zenon, <3>1, <3>3, <4>1, <4>2 DEF HeartbeatInv
    <3> QED BY <3>2, <3>3
  <2>2. CASE RingInVain \/ BeginBeat
    <3>1. /\ UNCHANGED <<enabled, interval, asleep>> /\ ring' = FALSE
          /\ \/ UNCHANGED <<wanted, beat, asked>>
             \/ wanted' = FALSE /\ asked' = FALSE /\ beat' = "deciding"
      BY <2>2 DEF RingInVain, BeginBeat
    <3>2. HeartbeatTypeOK'
      <4>1. wanted' \in BOOLEAN /\ asked' \in BOOLEAN /\ ring' \in BOOLEAN
        BY Zenon, <3>1, HeartbeatTypes DEF HeartbeatInv
      <4>2. beat' \in {"none", "deciding", "executing"}
        BY Zenon, <3>1, HeartbeatTypes DEF HeartbeatInv
      <4>3. enabled' = enabled /\ interval' = interval /\ asleep' = asleep
        BY <3>1
      <4>4. enabled' \in BOOLEAN /\ interval' \in BOOLEAN /\ asleep' \in BOOLEAN
            /\ (interval' => enabled')
        BY Zenon, <4>3, HeartbeatTypes DEF HeartbeatInv
      <4> QED BY Zenon, <4>1, <4>2, <4>4, HeartbeatTypesNext
    <3>3. asleep' = asleep /\ ring' = FALSE
      BY <3>1
    <3>4. CASE wanted' = FALSE /\ asked' = FALSE
      BY Zenon, <3>2, <3>3, <3>4 DEF HeartbeatInv
    <3>5. CASE UNCHANGED <<wanted, beat, asked>>
      <4>1. wanted' = wanted /\ asked' = asked
        BY <3>5
      <4> QED BY Zenon, <3>2, <3>3, <4>1 DEF HeartbeatInv
    <3> QED BY <3>1, <3>4, <3>5
  <2>3. CASE Decided \/ Executed
    BY <2>3 DEF Decided, Executed, HeartbeatInv, HeartbeatTypeOK
  <2>4. ASSUME NEW now \in BOOLEAN, Reload(now) PROVE HeartbeatInv'
    BY <2>4 DEF Reload, HeartbeatInv, HeartbeatTypeOK
  <2>5. CASE UNCHANGED heartbeatVars
    BY <2>5 DEF heartbeatVars, HeartbeatInv, HeartbeatTypeOK
  <2> QED BY <2>1, <2>2, <2>3, <2>4, <2>5 DEF HeartbeatNext, Trigger, IntervalRings
<1> QED BY <1>1, <1>2, PTL DEF HeartbeatSpec

(* "Re-arm with new interval" wakes nobody: once a reload has stopped the  *)
(* scheduler, no request is taken and no beat begins, whatever is asked    *)
(* for and however often the configuration is reloaded.                    *)
SleepsForGood ==
  asleep => asleep' /\ ~wanted' /\ ~ring' /\ (beat' = "deciding" => beat = "deciding")

THEOREM HeartbeatSleepsForGood == HeartbeatSpec => [][SleepsForGood]_heartbeatVars
<1>1. HeartbeatInv /\ [HeartbeatNext]_heartbeatVars => [SleepsForGood]_heartbeatVars
  <2> SUFFICES ASSUME HeartbeatInv, HeartbeatNext PROVE SleepsForGood
    OBVIOUS
  <2>1. CASE \/ Trigger \/ IntervalRings \/ RingInVain \/ BeginBeat \/ Decided \/ Executed
    BY <2>1 DEF Trigger, IntervalRings, Request, RingInVain, BeginBeat, Decided, Executed,
                SleepsForGood, HeartbeatInv
  <2>2. ASSUME NEW now \in BOOLEAN, Reload(now) PROVE SleepsForGood
    BY <2>2 DEF Reload, SleepsForGood, HeartbeatInv
  <2> QED BY <2>1, <2>2 DEF HeartbeatNext
<1> QED BY <1>1, HeartbeatInvariant, PTL DEF HeartbeatSpec

-----------------------------------------------------------------------------
(* Device nodes.  InvokesReachable alone is not inductive: that a          *)
(* connection may be replaced or closed without a look at any other rests  *)
(* on the two Maps of the registry being inverse to each other.            *)

(* A connection of nodesByConn is open, and that of its own node.          *)
ConnsAreNodes ==
  \A c \in Conns : nodeOf[c] # Nobody =>
    /\ socket[c] = "open" /\ nodeOf[c] = HostOf[c]
    /\ connOf[HostOf[c]] = c

(* A node of nodesById is found by its connection.                         *)
NodesHaveConns ==
  \A n \in Nodes : connOf[n] # Nobody =>
    /\ nodeOf[connOf[n]] = n

(* A pending invoke knows its node.                                        *)
InvokesHaveNodes == \A i \in Invokes : Pending(i) => invoke[i].node \in Nodes

NodesInv ==
  NodesTypeOK /\ ConnsAreNodes /\ NodesHaveConns /\ InvokesHaveNodes /\ InvokesReachable

(* What is pending after a device closed was for another device.           *)
LEMMA FailOfType ==
  ASSUME NodesTypeOK, NEW n \in Nodes
  PROVE  /\ FailOf(n) \in [Invokes -> InvokeRecords]
         /\ \A i \in Invokes : /\ FailOf(n)[i].state = "pending" =>
                                    /\ FailOf(n)[i] = invoke[i]
                                    /\ Pending(i) /\ invoke[i].node # n
BY DEF FailOf, Pending, NodesTypeOK, InvokeRecords

(* No device is connected at first.                                        *)
LEMMA NodesInitInv == NodesInit => NodesInv
BY NodesAssumption
   DEF NodesInit, NodesInv, NodesTypeOK, ConnsAreNodes, NodesHaveConns, InvokesHaveNodes,
       InvokesReachable,
       InvokeRecords, Pending

(* A device registers, perhaps under a name that is taken.                 *)
LEMMA RegisterInv ==
  ASSUME NodesInv, NEW c \in Conns, Register(c)
  PROVE  NodesInv'
<1> DEFINE n == HostOf[c]
<1>n. n \in Nodes /\ n # Nobody /\ c # Nobody
  BY NodesAssumption
<1> USE DEF NodesInv
<1>t. NodesTypeOK'
  BY <1>n, FailOfType DEF Register, NodesTypeOK
<1>a. ConnsAreNodes'
  BY <1>n, NodesAssumption DEF Register, NodesTypeOK, ConnsAreNodes, NodesHaveConns
<1>b. NodesHaveConns'
  BY <1>n, NodesAssumption DEF Register, NodesTypeOK, ConnsAreNodes, NodesHaveConns
<1>c. InvokesReachable'
  <2> SUFFICES ASSUME NEW i \in Invokes, Pending(i)'
               PROVE  LET d == invoke'[i].conn
                      IN  /\ d \in Conns /\ socket'[d] = "open"
                          /\ connOf'[invoke'[i].node] = d /\ nodeOf'[d] = invoke'[i].node
    BY DEF InvokesReachable
  <2>1. invoke'[i] = invoke[i] /\ Pending(i)
    BY <1>n, FailOfType DEF Register, Pending
  <2>2. invoke[i].node # n
    <3>1. CASE connOf[n] = Nobody
      BY <3>1, <2>1, <1>n, NodesAssumption DEF InvokesReachable
    <3>2. CASE connOf[n] # Nobody
      BY <3>2, <1>n, FailOfType DEF Register, Pending
    <3> QED BY <3>1, <3>2
  <2>3. invoke[i].node \in Nodes
    BY <2>1 DEF InvokesHaveNodes
  <2> QED
    BY <1>n, <2>1, <2>2, <2>3, NodesAssumption
       DEF Register, InvokesReachable, NodesTypeOK, ConnsAreNodes, NodesHaveConns
<1>d. InvokesHaveNodes'
  BY <1>n, FailOfType DEF Register, Pending, InvokesHaveNodes
<1> QED BY <1>t, <1>a, <1>b, <1>c, <1>d

(* A connection closes: its invocations fail, if it has its name still.    *)
LEMMA CloseInv ==
  ASSUME NodesInv, NEW c \in Conns, Close(c)
  PROVE  NodesInv'
<1> USE DEF NodesInv
<1>1. CASE nodeOf[c] = Nobody
  BY <1>1, NodesAssumption
     DEF Close, NodesTypeOK, ConnsAreNodes, NodesHaveConns, InvokesHaveNodes, InvokesReachable,
         Pending
<1>2. CASE nodeOf[c] # Nobody
  <2> DEFINE n == nodeOf[c]
  <2>n. n \in Nodes /\ n = nodeOf[c] /\ n = HostOf[c] /\ connOf[n] = c /\ c # Nobody
    BY <1>2, NodesAssumption DEF ConnsAreNodes, NodesTypeOK
  <2>s. /\ socket' = [socket EXCEPT ![c] = "closed"]
        /\ nodeOf' = [nodeOf EXCEPT ![c] = Nobody]
        /\ connOf' = [connOf EXCEPT ![n] = Nobody]
        /\ invoke' = FailOf(n) /\ device' = device
    BY <1>2 DEF Close
  <2>f. /\ FailOf(n) \in [Invokes -> InvokeRecords]
        /\ \A i \in Invokes : Pending(i)' => /\ invoke'[i] = invoke[i] /\ Pending(i)
                                            /\ invoke[i].node # n
    BY <2>n, <2>s, FailOfType DEF Pending
  <2> HIDE DEF n
  <2>t. NodesTypeOK'
    BY <2>n, <2>s, <2>f DEF NodesTypeOK
  <2>a. ConnsAreNodes'
    BY <2>n, <2>s, NodesAssumption DEF NodesTypeOK, ConnsAreNodes, NodesHaveConns
  <2>b. NodesHaveConns'
    BY <2>n, <2>s, NodesAssumption DEF NodesTypeOK, ConnsAreNodes, NodesHaveConns
  <2>c. InvokesReachable'
    <3> SUFFICES ASSUME NEW i \in Invokes, Pending(i)'
                 PROVE  LET d == invoke'[i].conn
                        IN  /\ d \in Conns /\ socket'[d] = "open"
                            /\ connOf'[invoke'[i].node] = d /\ nodeOf'[d] = invoke'[i].node
      BY DEF InvokesReachable
    <3>1. invoke[i].node \in Nodes /\ invoke[i].node # n /\ Pending(i) /\ invoke'[i] = invoke[i]
      BY <2>f DEF InvokesHaveNodes
    <3>2. invoke[i].conn # c
      BY <3>1, <2>n DEF InvokesReachable
    <3> QED
      BY <3>1, <3>2, <2>n, <2>s DEF InvokesReachable, NodesTypeOK
  <2>d. InvokesHaveNodes'
    BY <2>f DEF InvokesHaveNodes
  <2> QED BY <2>t, <2>a, <2>b, <2>c, <2>d
<1> QED BY <1>1, <1>2

(* An invocation is sent, or fails at once.                                *)
LEMMA InvokeInv ==
  ASSUME NodesInv, NEW i \in Invokes, NEW n \in Nodes, Invoke(i, n)
  PROVE  NodesInv'
<1>1. ~Pending(i) /\ UNCHANGED <<socket, connOf, nodeOf>>
  BY DEF Invoke, Pending
<1>2. CASE connOf[n] = Nobody
  <2>1. invoke' = [invoke EXCEPT ![i].state = "failed"] /\ device' = device
    BY <1>2 DEF Invoke
  <2>2. NodesTypeOK'
    BY <1>1, <2>1 DEF NodesInv, NodesTypeOK, InvokeRecords
  <2>3. \A j \in Invokes : Pending(j)' => Pending(j) /\ invoke'[j] = invoke[j]
    BY <2>1 DEF NodesInv, NodesTypeOK, InvokeRecords, Pending
  <2> QED
    BY <1>1, <2>2, <2>3 DEF NodesInv, ConnsAreNodes, NodesHaveConns, InvokesHaveNodes,
                            InvokesReachable
<1>3. CASE connOf[n] # Nobody
  <2>1. PICK sent \in BOOLEAN, arrives \in BOOLEAN :
          /\ invoke' = [invoke EXCEPT ![i] = [state |-> IF sent THEN "pending" ELSE "failed",
                                              node |-> n, conn |-> connOf[n]]]
          /\ device' = IF arrives THEN [device EXCEPT ![i] = connOf[n]] ELSE device
    BY <1>3 DEF Invoke
  <2>2. NodesTypeOK'
    BY <1>1, <2>1 DEF NodesInv, NodesTypeOK, InvokeRecords
  <2>3. \A j \in Invokes : Pending(j)' =>
          \/ Pending(j) /\ invoke'[j] = invoke[j]
          \/ invoke'[j].node = n /\ invoke'[j].conn = connOf[n]
    BY <2>1 DEF NodesInv, NodesTypeOK, Pending
  <2>4. /\ connOf[n] \in Conns /\ nodeOf[connOf[n]] = n /\ n # Nobody
        /\ socket[connOf[n]] = "open"
    BY <1>3, NodesAssumption DEF NodesInv, NodesTypeOK, NodesHaveConns, ConnsAreNodes
  <2>5. InvokesHaveNodes' /\ InvokesReachable'
    BY <1>1, <2>3, <2>4 DEF NodesInv, InvokesHaveNodes, InvokesReachable
  <2> QED BY <1>1, <2>2, <2>5 DEF NodesInv, ConnsAreNodes, NodesHaveConns
<1> QED BY <1>2, <1>3

(* The end of a call changes neither a connection nor a Map.               *)
LEMMA EndInv ==
  ASSUME NodesInv, NEW i \in Invokes, NEW state \in {"answered", "failed", "cancelled"},
         invoke' = [invoke EXCEPT ![i].state = state] \/ invoke' = invoke,
         device' \in [Invokes -> Conns \union {Nobody}],
         UNCHANGED <<socket, connOf, nodeOf>>
  PROVE  NodesInv'
<1>1. NodesTypeOK'
  BY SMTT(20) DEF NodesInv, NodesTypeOK, InvokeRecords
<1>2. \A j \in Invokes : Pending(j)' => Pending(j) /\ invoke'[j] = invoke[j]
  BY DEF NodesInv, NodesTypeOK, InvokeRecords, Pending
<1>3. InvokesHaveNodes' /\ InvokesReachable'
  BY <1>2 DEF NodesInv, InvokesHaveNodes, InvokesReachable
<1>4. ConnsAreNodes' /\ NodesHaveConns'
  BY DEF NodesInv, ConnsAreNodes, NodesHaveConns
<1> QED BY <1>1, <1>3, <1>4 DEF NodesInv

(* An invocation ends: in time, too late or by the caller.                 *)
LEMMA OtherInv ==
  ASSUME NodesInv, NEW i \in Invokes,
         InvokeTimeout(i) \/ CancelInvoke(i) \/ \E c \in Conns : Answer(i, c)
  PROVE  NodesInv'
<1>1. device \in [Invokes -> Conns \union {Nobody}]
  BY DEF NodesInv, NodesTypeOK
<1>2. CASE InvokeTimeout(i)
  BY <1>1, <1>2, EndInv DEF InvokeTimeout
<1>3. CASE CancelInvoke(i)
  BY <1>1, <1>3, EndInv DEF CancelInvoke
<1>4. CASE \E c \in Conns : Answer(i, c)
  BY <1>1, <1>4, EndInv DEF Answer
<1> QED BY <1>2, <1>3, <1>4

(* The registry is destroyed: every invocation fails.                      *)
LEMMA DestroyInv ==
  ASSUME NodesInv, Destroy
  PROVE  NodesInv'
<1>1. \A i \in Invokes : ~Pending(i)'
  BY DEF Destroy, Pending, NodesInv, NodesTypeOK, InvokeRecords
<1>2. NodesTypeOK'
  BY SMTT(20) DEF Destroy, Pending, NodesInv, NodesTypeOK, InvokeRecords
<1> QED
  BY <1>1, <1>2 DEF Destroy, NodesInv, ConnsAreNodes, NodesHaveConns, InvokesHaveNodes,
                    InvokesReachable

(* The invariant holds in every reachable state of the registry.           *)
THEOREM NodesInvariant == NodesSpec => []NodesInv
<1>1. NodesInit => NodesInv
  BY NodesInitInv
<1>2. NodesInv /\ [NodesNext]_nodesVars => NodesInv'
  <2> SUFFICES ASSUME NodesInv, [NodesNext]_nodesVars PROVE NodesInv'
    OBVIOUS
  <2>1. CASE UNCHANGED nodesVars
    BY <2>1 DEF nodesVars, NodesInv, NodesTypeOK, ConnsAreNodes, NodesHaveConns,
                InvokesHaveNodes, InvokesReachable,
                Pending
  <2>2. CASE NodesNext
    BY <2>2, RegisterInv, CloseInv, InvokeInv, OtherInv, DestroyInv DEF NodesNext
  <2> QED BY <2>1, <2>2
<1> QED BY <1>1, <1>2, PTL DEF NodesSpec

(* What is waited for was sent over an open connection that is still the   *)
(* node's: an invoke whose node is replaced or gone has been failed.       *)
THEOREM NodesReachable == NodesSpec => []InvokesReachable
BY NodesInvariant, PTL DEF NodesInv

-----------------------------------------------------------------------------
(* Live conversations.  That results are announced once is inductive when  *)
(* it says that a task told of is a delivered one, and that no stale plan  *)
(* is executed once each order is known by its fingerprint.                *)

ToldAreDelivered ==
  /\ told \in [LiveTasks -> Nat]
  /\ \A t \in LiveTasks : told[t] = 0 \/ (told[t] = 1 /\ t \in delivered)

NewsIsKept ==
  ~shut => \A t \in arrived \ superseded : IF heard THEN t \in delivered
                                           ELSE t \in news \union delivered

OrdersAreSubmitted == \A o \in orders : <<o.said, o.action>> \in submitted

ResultsInv == arrived \subseteq LiveTasks /\ ToldAreDelivered /\ NewsIsKept
PlansInv == OrdersAreSubmitted /\ PlansAreCurrent

-----------------------------------------------------------------------------
(* Telling of tasks tells once of each, and delivers those still current.  *)
LEMMA DeliverOnce ==
  ASSUME ToldAreDelivered, NEW S, Deliver(S)
  PROVE  ToldAreDelivered' /\ delivered \subseteq delivered' /\ S \ superseded \subseteq delivered'
<1>1. \A t \in LiveTasks :
        told'[t] = told[t] + IF t \in S \ (superseded \union delivered) THEN 1 ELSE 0
  BY DEF Deliver
<1>2. /\ delivered \subseteq delivered' /\ S \ superseded \subseteq delivered'
      /\ told' \in [LiveTasks -> Nat]
  BY DEF Deliver, ToldAreDelivered
<1>3. \A t \in LiveTasks : told'[t] = 0 \/ (told'[t] = 1 /\ t \in delivered')
  BY <1>1, <1>2 DEF ToldAreDelivered
<1> QED BY <1>2, <1>3 DEF ToldAreDelivered

(* The user is heard: what was kept is told.                               *)
LEMMA HeardInv ==
  ASSUME ResultsInv, heard', Deliver(news), news' = {}, UNCHANGED <<shut, superseded, arrived>>
  PROVE  ResultsInv'
BY DeliverOnce DEF ResultsInv, NewsIsKept

(* A task is published.                                                    *)
LEMMA UpdateInv ==
  ASSUME ResultsInv, NEW t \in LiveTasks, NEW ended \in BOOLEAN, Update(t, ended),
         arrived' = arrived \/ (arrived' = arrived \union {t} /\ ended),
         UNCHANGED <<shut, heard, superseded>>
  PROVE  ResultsInv'
<1>1. CASE shut \/ (t \notin superseded /\ (~ended \/ t \in delivered))
  <2>1. UNCHANGED <<news, delivered, told>>
    BY <1>1 DEF Update
  <2> QED BY <1>1, <2>1 DEF ResultsInv, ToldAreDelivered, NewsIsKept
<1>2. CASE ~shut /\ t \in superseded
  <2>1. news' = news \ {t} /\ UNCHANGED <<delivered, told>>
    BY <1>2 DEF Update
  <2> QED BY <1>2, <2>1 DEF ResultsInv, ToldAreDelivered, NewsIsKept
<1>3. CASE ~shut /\ t \notin superseded /\ ended /\ t \notin delivered
  <2>1. IF heard THEN Deliver({t}) /\ UNCHANGED news
        ELSE news' = news \union {t} /\ UNCHANGED <<delivered, told>>
    BY <1>3 DEF Update
  <2>2. CASE heard
    BY <1>3, <2>1, <2>2, DeliverOnce DEF ResultsInv, NewsIsKept
  <2>3. CASE ~heard
    BY <1>3, <2>1, <2>3 DEF ResultsInv, ToldAreDelivered, NewsIsKept
  <2> QED BY <2>2, <2>3
<1> QED BY <1>1, <1>2, <1>3

(* Tasks are corrected, or their results shown on request.                 *)
LEMMA CorrectedInv ==
  ASSUME ResultsInv, NEW S,
         superseded' = superseded \union S,
         shut \/ news \ S \subseteq news', delivered \subseteq delivered',
         UNCHANGED <<shut, heard, told, arrived>>
  PROVE  ResultsInv'
BY DEF ResultsInv, ToldAreDelivered, NewsIsKept

(* Every step keeps what is known of the results.                          *)
LEMMA ResultsNext == ResultsInv /\ [LiveNext]_liveVars => ResultsInv'
<1> SUFFICES ASSUME ResultsInv, [LiveNext]_liveVars PROVE ResultsInv'
  OBVIOUS
<1>1. CASE UNCHANGED <<shut, heard, superseded, news, delivered, told, arrived>>
  BY <1>1 DEF ResultsInv, ToldAreDelivered, NewsIsKept
<1>2. CASE UNCHANGED liveVars
  BY <1>1, <1>2 DEF liveVars
<1>3. CASE Speak \/ Typed
  BY <1>3, HeardInv DEF Speak, Typed, tasksVars
<1>4. CASE Delegate \/ AlarmRings \/ RouteFails \/ RouteAgain
  BY <1>1, <1>4 DEF Delegate, AlarmRings, RouteFails, RouteAgain, tasksVars
<1>5. ASSUME NEW plan, NEW broken, RouteReturns(plan, broken)
      PROVE  ResultsInv'
  <2> DEFINE revised == {t \in Existing : <<"revise", t>> \in
                           {a \in plan : <<said, a>> \notin submitted} \ broken}
  <2>1. superseded' = superseded \union revised /\ news' = news \ revised
    BY <1>5 DEF RouteReturns
  <2>2. delivered \subseteq delivered' /\ UNCHANGED <<shut, heard, told, arrived>>
    BY <1>5 DEF RouteReturns
  <2>3. news \ revised \subseteq news'
    BY <2>1
  <2> HIDE DEF revised
  <2> QED BY <2>1, <2>2, <2>3, CorrectedInv
<1>6. ASSUME NEW t \in LiveTasks, TaskEnds(t)
      PROVE  ResultsInv'
  BY <1>6, UpdateInv DEF TaskEnds
<1>7. ASSUME NEW t \in LiveTasks, TaskPublished(t)
      PROVE  ResultsInv'
  <2> DEFINE ended == t \in Ended
  <2>1. Update(t, ended) /\ UNCHANGED <<shut, heard, superseded, arrived>>
    BY <1>7 DEF TaskPublished, tasksVars
  <2>2. ended \in BOOLEAN
    OBVIOUS
  <2> HIDE DEF ended
  <2> QED BY <2>1, <2>2, UpdateInv
<1>8. ASSUME NEW t \in LiveTasks, TaskSubmitted(t)
      PROVE  ResultsInv'
  <2>1. UNCHANGED <<shut, heard, delivered, told, arrived>>
    BY <1>8 DEF TaskSubmitted
  <2>2. CASE UNCHANGED <<superseded, news>>
    BY <1>1, <2>1, <2>2
  <2>3. ASSUME NEW old, superseded' = superseded \union {old},
               news' = IF shut THEN news ELSE news \ {old}
        PROVE  ResultsInv'
    BY <2>1, <2>3, CorrectedInv
  <2> QED BY <1>8, <2>2, <2>3 DEF TaskSubmitted
<1>9. CASE CloseLive
  BY <1>9 DEF CloseLive, tasksVars, ResultsInv, ToldAreDelivered, NewsIsKept
<1> QED BY <1>2, <1>3, <1>4, <1>5, <1>6, <1>7, <1>8, <1>9 DEF LiveNext

(* Every task that ends during a connection is announced once it may be,   *)
(* and no task twice.                                                      *)
THEOREM ResultsAreAnnounced == LiveSpec => []ResultsAnnounced
<1>1. LiveInit => ResultsInv
  BY DEF LiveInit, ResultsInv, ToldAreDelivered, NewsIsKept
<1>2. ResultsInv => ResultsAnnounced
  BY DEF ResultsInv, ToldAreDelivered, NewsIsKept, ResultsAnnounced
<1> QED BY <1>1, <1>2, ResultsNext, PTL DEF LiveSpec

-----------------------------------------------------------------------------
(* The orders of a plan are those of the words it was made of, and no      *)
(* other of these words.                                                   *)
LEMMA ReturnsInv ==
  ASSUME PlansInv, NEW plan, NEW broken, PlanHolds, RouteReturns(plan, broken)
  PROVE  PlansInv'
<1> DEFINE fresh == {a \in plan : <<said, a>> \notin submitted}
           creating == {a \in fresh \ broken : Submits(a)}
<1>1. submitted' = submitted \union {<<said, a>> : a \in fresh}
  BY DEF RouteReturns
<1>2. PICK new \in [creating -> Unused] :
        orders' = orders \union
          {[task |-> new[a], heard |-> route.said, said |-> said, action |-> a] : a \in creating}
  BY DEF RouteReturns
<1>3. route.said = said
  BY DEF PlanHolds
<1> DEFINE Made(a) == [task |-> new[a], heard |-> route.said, said |-> said, action |-> a]
<1>4. \A o \in orders' : o \in orders \/ (/\ o.said = said /\ o.heard = said /\ o.action \in fresh
                                          /\ o = Made(o.action))
  <2> SUFFICES ASSUME NEW o \in orders', o \notin orders
               PROVE  /\ o.said = said /\ o.heard = said /\ o.action \in fresh
                      /\ o = Made(o.action)
    OBVIOUS
  <2>1. PICK a \in creating : o = Made(a)
    BY <1>2
  <2>2. o.said = said /\ o.heard = said /\ o.action = a
    BY <1>3, <2>1
  <2> QED BY <2>1, <2>2
<1>5. \A a \in fresh : <<said, a>> \in submitted' /\ <<said, a>> \notin submitted
  BY <1>1
<1> HIDE DEF Made, creating, fresh
<1>6. OrdersAreSubmitted'
  <2> SUFFICES ASSUME NEW o \in orders' PROVE <<o.said, o.action>> \in submitted'
    BY DEF OrdersAreSubmitted
  <2>1. CASE o \in orders
    BY <1>1, <2>1 DEF PlansInv, OrdersAreSubmitted
  <2>2. CASE o \notin orders
    BY <1>4, <1>5, <2>2
  <2> QED BY <2>1, <2>2
<1>7. \A o \in orders : o.said # said \/ o.action \notin fresh
  BY <1>5 DEF PlansInv, OrdersAreSubmitted
<1>8. PlansAreCurrent'
  <2> SUFFICES ASSUME NEW o \in orders', NEW p \in orders'
               PROVE  o.heard = o.said /\ (o.said = p.said /\ o.action = p.action => o = p)
    BY DEF PlansAreCurrent
  <2>1. o.heard = o.said
    <3>1. CASE o \in orders
      BY <3>1 DEF PlansInv, PlansAreCurrent
    <3> QED BY <1>4, <3>1
  <2>2. ASSUME o.said = p.said, o.action = p.action
        PROVE  o = p
    <3>1. CASE o \in orders /\ p \in orders
      BY <2>2, <3>1 DEF PlansInv, PlansAreCurrent
    <3>2. CASE o \in orders /\ p \notin orders
      BY <1>4, <1>7, <2>2, <3>2
    <3>3. CASE o \notin orders /\ p \in orders
      BY <1>4, <1>7, <2>2, <3>3
    <3>4. CASE o \notin orders /\ p \notin orders
      BY <1>4, <2>2, <3>4
    <3> QED BY <3>1, <3>2, <3>3, <3>4
  <2> QED BY <2>1, <2>2
<1> QED BY <1>6, <1>8 DEF PlansInv

(* Each task the coordinator submits is for all that the user had said     *)
(* when the plan was executed, and no words order the same thing twice.    *)
THEOREM PlansStayCurrent == LiveSpec => []PlansAreCurrent
<1>1. LiveInit => PlansInv
  BY DEF LiveInit, PlansInv, OrdersAreSubmitted, PlansAreCurrent
<1>2. PlansInv /\ [LiveNext]_liveVars => PlansInv'
  <2> SUFFICES ASSUME PlansInv, [LiveNext]_liveVars PROVE PlansInv'
    OBVIOUS
  <2>1. CASE UNCHANGED <<orders, submitted>>
    BY <2>1 DEF PlansInv, OrdersAreSubmitted, PlansAreCurrent
  <2>2. ASSUME NEW plan, NEW broken, PlanHolds, RouteReturns(plan, broken)
        PROVE  PlansInv'
    BY <2>2, ReturnsInv
  <2>3. CASE \/ Speak \/ Delegate \/ Typed \/ AlarmRings \/ RouteFails \/ RouteAgain \/ CloseLive
             \/ UNCHANGED liveVars
    BY <2>1, <2>3 DEF Speak, Delegate, Typed, AlarmRings, RouteFails, RouteAgain, CloseLive,
                      tasksVars, liveVars
  <2>4. CASE \E t \in LiveTasks : TaskEnds(t) \/ TaskPublished(t) \/ TaskSubmitted(t)
    BY <2>1, <2>4 DEF TaskEnds, TaskPublished, TaskSubmitted, tasksVars
  <2> QED BY <2>2, <2>3, <2>4 DEF LiveNext
<1> QED BY <1>1, <1>2, PTL DEF LiveSpec, PlansInv

-----------------------------------------------------------------------------
(* The variables of the coordinator are of their types: what is kept,      *)
(* delivered or told of has ended, and nothing that ended starts again.    *)

LiveTypes ==
  /\ {shut, heard, alarm} \subseteq BOOLEAN
  /\ said \in Nat /\ delegated \in Nat /\ requests \in Nat
  /\ route \in [on : BOOLEAN, said : Nat, tries : 0..3]
  /\ status \in [LiveTasks -> {"none", "running", "finished"}]
  /\ superseded \subseteq LiveTasks /\ arrived \subseteq Ended
  /\ news \subseteq Ended /\ delivered \subseteq Ended

(* An interpretation begins, or ends.                                      *)
LEMMA RouteTypes ==
  ASSUME LiveTypes, NEW set \in BOOLEAN, NEW n \in Nat, NEW now \in Nat, RouteNext(set, n, now)
  PROVE  /\ alarm' \in BOOLEAN /\ requests' \in Nat
         /\ route' \in [on : BOOLEAN, said : Nat, tries : 0..3]
<1>1. CASE shut \/ route.on \/ n = 0
  BY <1>1 DEF RouteNext, LiveTypes
<1>2. CASE ~(shut \/ route.on \/ n = 0)
  <2>1. requests' = n - 1 /\ n - 1 \in Nat
    BY <1>2 DEF RouteNext
  <2>2. CASE route' = [on |-> TRUE, said |-> now, tries |-> 1] /\ alarm' = set
    BY <2>1, <2>2
  <2>3. CASE UNCHANGED route /\ Schedule(set, n - 1, FALSE)
    BY <2>1, <2>3 DEF Schedule, LiveTypes
  <2> QED BY <1>2, <2>2, <2>3 DEF RouteNext
<1> QED BY <1>1, <1>2

LEMMA RouteEndsTypes ==
  ASSUME LiveTypes, RouteEnds
  PROVE  alarm' \in BOOLEAN /\ route' \in [on : BOOLEAN, said : Nat, tries : 0..3]
<1>1. Idle \in [on : BOOLEAN, said : Nat, tries : 0..3]
  BY DEF Idle
<1>2. alarm' = (alarm \/ (requests > 0 /\ ~FALSE)) /\ route' = Idle
  BY DEF RouteEnds, Schedule
<1>3. alarm' \in BOOLEAN
  BY Zenon, <1>2
<1> QED BY <1>1, <1>2, <1>3

(* What has ended stays so when other tasks change.                        *)
LEMMA EndedStay ==
  ASSUME LiveTypes, NEW S \in SUBSET LiveTasks, \A t \in S : status[t] # "finished",
         status' \in [LiveTasks -> {"none", "running", "finished"}],
         \A t \in LiveTasks : t \in S \/ status'[t] = status[t]
  PROVE  Ended \subseteq Ended'
BY DEF Ended

LEMMA LiveTypesNext == LiveTypes /\ [LiveNext]_liveVars => LiveTypes'
<1> SUFFICES ASSUME LiveTypes, [LiveNext]_liveVars PROVE LiveTypes'
  OBVIOUS
<1>1. CASE UNCHANGED liveVars
  BY <1>1 DEF liveVars, LiveTypes, Ended
<1>2. CASE Speak
  BY <1>2 DEF Speak, Schedule, Deliver, tasksVars, LiveTypes, Ended
<1>3. CASE Delegate
  BY <1>3 DEF Delegate, Schedule, tasksVars, LiveTypes, Ended
<1>4. CASE Typed
  <2>1. /\ said' \in Nat /\ delegated' \in Nat /\ heard' = TRUE /\ shut' = shut /\ news' = {}
        /\ delivered' = delivered \union (news \ superseded)
        /\ RouteNext(alarm, requests + 1, said') /\ UNCHANGED tasksVars
    BY <1>4 DEF Typed, Deliver, LiveTypes
  <2>2. requests + 1 \in Nat /\ alarm \in BOOLEAN
    BY DEF LiveTypes
  <2>3. /\ alarm' \in BOOLEAN /\ requests' \in Nat
        /\ route' \in [on : BOOLEAN, said : Nat, tries : 0..3]
    BY <2>1, <2>2, RouteTypes
  <2> QED BY <2>1, <2>3 DEF tasksVars, LiveTypes, Ended
<1>5. CASE AlarmRings
  <2>1. /\ alarm' \in BOOLEAN /\ requests' \in Nat
        /\ route' \in [on : BOOLEAN, said : Nat, tries : 0..3]
    BY <1>5, RouteTypes DEF AlarmRings, LiveTypes
  <2> QED BY <1>5, <2>1 DEF AlarmRings, tasksVars, LiveTypes, Ended
<1>6. CASE RouteFails
  <2>1. alarm' \in BOOLEAN /\ route' \in [on : BOOLEAN, said : Nat, tries : 0..3]
    BY <1>6, RouteEndsTypes DEF RouteFails
  <2> QED BY <1>6, <2>1 DEF RouteFails, tasksVars, LiveTypes, Ended
<1>7. CASE RouteAgain
  <2>1. route' \in [on : BOOLEAN, said : Nat, tries : 0..3]
    <3>1. route.tries + 1 \in 0..3 /\ said \in Nat
      BY <1>7 DEF RouteAgain, LiveTypes
    <3>2. route' = [route EXCEPT !.said = said, !.tries = route.tries + 1]
      BY <1>7 DEF RouteAgain
    <3> QED BY <3>1, <3>2 DEF LiveTypes
  <2> QED BY <1>7, <2>1 DEF RouteAgain, tasksVars, LiveTypes, Ended
<1>8. ASSUME NEW plan, NEW broken, RouteReturns(plan, broken)
      PROVE  LiveTypes'
  <2> DEFINE taken == {a \in plan : <<said, a>> \notin submitted} \ broken
             creating == {a \in taken : Submits(a)}
  <2>1. PICK new \in [creating -> Unused] :
          status' = [t \in LiveTasks |->
                       IF \E a \in creating : new[a] = t THEN "running" ELSE status[t]]
    BY <1>8 DEF RouteReturns
  <2>2. /\ superseded' \subseteq LiveTasks /\ news' \subseteq news
        /\ delivered' \subseteq delivered \union Ended
        /\ UNCHANGED <<shut, heard, said, delegated, requests, told, arrived>>
    <3>1. Existing \subseteq LiveTasks
      BY DEF Existing
    <3> QED BY <1>8, <3>1 DEF RouteReturns, LiveTypes
  <2>3. alarm' \in BOOLEAN /\ route' \in [on : BOOLEAN, said : Nat, tries : 0..3]
    BY <1>8, RouteEndsTypes DEF RouteReturns
  <2> DEFINE S == {new[a] : a \in creating}
  <2>4. /\ S \subseteq Unused
        /\ \A t \in LiveTasks : status'[t] = IF t \in S THEN "running" ELSE status[t]
    BY <2>1
  <2>5. status' \in [LiveTasks -> {"none", "running", "finished"}]
    BY <2>1 DEF LiveTypes
  <2> HIDE DEF S, creating, taken
  <2>6. Ended \subseteq Ended'
    <3>1. S \subseteq LiveTasks /\ \A t \in S : status[t] # "finished"
      BY <2>4 DEF Unused, Existing
    <3> QED BY <2>4, <2>5, <3>1, EndedStay
  <2> QED BY <2>2, <2>3, <2>5, <2>6 DEF LiveTypes
<1>9. ASSUME NEW t \in LiveTasks, TaskEnds(t)
      PROVE  LiveTypes'
  <2>1. /\ status[t] = "running" /\ status' = [status EXCEPT ![t] = "finished"]
        /\ Update(t, TRUE) /\ arrived' \subseteq arrived \union {t}
        /\ UNCHANGED <<shut, heard, said, delegated, requests, alarm, route, superseded>>
    BY <1>9 DEF TaskEnds
  <2>2. news' \subseteq news \union {t} /\ delivered' \subseteq delivered \union {t}
    BY <2>1 DEF Update, Deliver
  <2>3. Ended' = Ended \union {t} /\ status' \in [LiveTasks -> {"none", "running", "finished"}]
    BY <2>1 DEF Ended, LiveTypes
  <2> QED BY <2>1, <2>2, <2>3 DEF LiveTypes
<1>10. ASSUME NEW t \in LiveTasks, TaskPublished(t)
       PROVE  LiveTypes'
  <2>1. Update(t, t \in Ended) /\ UNCHANGED tasksVars
        /\ UNCHANGED <<shut, heard, said, delegated, requests, alarm, route>>
    BY <1>10 DEF TaskPublished
  <2>2. news' \subseteq news \union Ended /\ delivered' \subseteq delivered \union Ended
    BY <2>1 DEF Update, Deliver
  <2> QED BY <2>1, <2>2 DEF tasksVars, LiveTypes, Ended
<1>11. ASSUME NEW t \in LiveTasks, TaskSubmitted(t)
       PROVE  LiveTypes'
  <2>1. /\ t \in Unused /\ status' = [status EXCEPT ![t] = "running"]
        /\ superseded' \subseteq superseded \union Existing /\ news' \subseteq news
        /\ UNCHANGED <<shut, heard, said, delegated, requests, alarm, route, delivered, told, arrived>>
    BY <1>11 DEF TaskSubmitted
  <2>2. Ended' = Ended /\ status' \in [LiveTasks -> {"none", "running", "finished"}]
    BY <2>1 DEF Ended, Unused, Existing, LiveTypes
  <2>3. Existing \subseteq LiveTasks
    BY DEF Existing
  <2> QED BY <2>1, <2>2, <2>3 DEF LiveTypes
<1>12. CASE CloseLive
  BY <1>12 DEF CloseLive, tasksVars, LiveTypes, Ended
<1> QED BY <1>1, <1>2, <1>3, <1>4, <1>5, <1>6, <1>7, <1>8, <1>9, <1>10, <1>11, <1>12 DEF LiveNext

(* The variables of the coordinator are of their types.                    *)
THEOREM LiveTyped == LiveSpec => []LiveTypeOK
<1>1. LiveInit => LiveTypes /\ ResultsInv
  <2> SUFFICES ASSUME LiveInit PROVE LiveTypes /\ ResultsInv
    OBVIOUS
  <2>1. route \in [on : BOOLEAN, said : Nat, tries : 0..3]
    BY DEF LiveInit, Idle
  <2>2. {shut, heard, alarm} \subseteq BOOLEAN
    BY Zenon DEF LiveInit
  <2>3. ResultsInv
    BY DEF LiveInit, ResultsInv, ToldAreDelivered, NewsIsKept
  <2> QED BY <2>1, <2>2, <2>3 DEF LiveInit, LiveTypes
<1>2. LiveTypes /\ ResultsInv => LiveTypeOK
  BY DEF LiveTypes, ResultsInv, ToldAreDelivered, LiveTypeOK
<1> QED BY <1>1, <1>2, LiveTypesNext, ResultsNext, PTL DEF LiveSpec

-----------------------------------------------------------------------------
(* Reminders.  An armed reminder is held: what it waits for will come.     *)
(* What makes this inductive is how a reminder comes to be armed: nothing  *)
(* of it has come before, one whose device is asked is pending, and its    *)
(* time stays prepared until its place is armed, or armed too late.        *)

States == {"none", "pending_arm", "armed", "arm_failed", "surfaced", "resolved",
           "suppressed", "pruned"}
Rows == [state : States, terms : SUBSET {"when", "where"}]

(* RemindersAreHeld of reminder i, in the row and the memory m; first: of  *)
(* the first process                                                       *)
HeldRow(i, row, m, first) ==
  row.state = "armed" =>
    LET open == row.terms \ m.satisfied[i]
    IN  /\ "when" \in open => i \in m.timers \union m.retries \union m.untimed
        /\ open = {} => i \in m.retries
        /\ "where" \in open /\ first => i \in m.armed

(* How it is armed                                                         *)
Arming(i, row, m) ==
  /\ row.state \in {"none", "pending_arm"} => m.satisfied[i] = {}
  /\ row.state \in {"pending_arm", "armed"} => row.terms # {}
  /\ i \in m.waiting => i \in m.pending /\ row.state = "pending_arm" /\ "where" \in row.terms
  /\ i \in m.pending /\ row.state = "pending_arm" /\ "when" \in row.terms => i \in m.prepared

Sent == ~unheard => regions = RegionsOf(mem)

HeldInv ==
  /\ IntentionsTypeOK
  /\ \A i \in Reminders : HeldRow(i, intention[i], mem, boots = 1) /\ Arming(i, intention[i], mem)
  /\ Sent

-----------------------------------------------------------------------------
(* A reminder with more than one term has both.                            *)
LEMMA TwoTerms ==
  ASSUME NEW T \in SUBSET {"when", "where"}
  PROVE  Cardinality(T) > 1 <=> T = {"when", "where"}
<1>1. Cardinality({"when", "where"}) = 2
  <2>1. Cardinality({"when"}) = 1 /\ IsFiniteSet({"when"})
    BY FS_Singleton
  <2>2. {"when", "where"} = {"when"} \union {"where"} /\ "where" \notin {"when"}
    OBVIOUS
  <2> QED BY <2>1, <2>2, FS_AddElement
<1>2. Cardinality({"when"}) = 1 /\ Cardinality({"where"}) = 1 /\ Cardinality({}) = 0
  BY FS_Singleton, FS_EmptySet
<1>3. \/ T = {} \/ T = {"when"} \/ T = {"where"} \/ T = {"when", "where"}
  OBVIOUS
<1>4. CASE T = {"when", "where"}
  BY <1>1, <1>4
<1>5. CASE T # {"when", "where"}
  <2>1. Cardinality(T) \in {0, 1}
    BY <1>2, <1>3, <1>5, Zenon
  <2> QED BY <2>1, <1>5
<1> QED BY <1>4, <1>5

(* A change of regions that keeps the device told                          *)
Told == \/ Emit(mem')
        \/ RegionsOf(mem') = RegionsOf(mem) /\ UNCHANGED <<regions, unheard>>

(* What the device is told is what the service remembers.                  *)
LEMMA ToldIsSent ==
  ASSUME HeldInv, Told, mem' \in Memories
  PROVE  Sent' /\ unheard' \in BOOLEAN /\ regions' \subseteq Reminders
BY DEF HeldInv, Told, Sent, Emit, RegionsOf, IntentionsTypeOK, Memories

(* A term of reminder i comes: what a timer that rang no longer holds is   *)
(* noted, spoken or tried again.                                           *)
LEMMA FireHolds ==
  ASSUME NEW rows \in [Reminders -> Rows], NEW m \in Memories, NEW i \in Reminders,
         NEW term \in {"when", "where"}, NEW ofTimer \in BOOLEAN,
         NEW first \in BOOLEAN,
         ofTimer => term = "when", connected \/ ofTimer,
         \A j \in Reminders \ {i} : HeldRow(j, rows[j], m, first),
         \A j \in Reminders : Arming(j, rows[j], m),
         ofTimer \/ HeldRow(i, rows[i], m, first),
         rows[i].state = "armed" /\ first /\ "where" \in rows[i].terms \ m.satisfied[i] => i \in m.armed,
         Fire(rows, m, i, term, ofTimer)
  PROVE  /\ intention' \in [Reminders -> Rows] /\ mem' \in Memories
         /\ \A j \in Reminders : HeldRow(j, intention'[j], mem', first) /\ Arming(j, intention'[j], mem')
         /\ \/ Emit(mem')
            \/ RegionsOf(mem') = RegionsOf(m) /\ UNCHANGED <<regions, unheard>>
<1> DEFINE row == rows[i]
           satisfied == m.satisfied[i] \union {term}
           noted == IF Cardinality(row.terms) > 1 THEN [m EXCEPT !.satisfied[i] = satisfied] ELSE m
           clear == [DisarmWhere(m, {i}) EXCEPT !.satisfied[i] = {}]
           done == IF ofTimer THEN DisarmWhen(clear, {i}) ELSE clear
<1>1. row \in Rows /\ satisfied \in SUBSET {"when", "where"} /\ noted \in Memories
  BY DEF Rows, Memories
<1>2. clear \in Memories /\ done \in Memories
  <2>1. DisarmWhere(m, {i}) \in Memories
    BY DEF Memories, DisarmWhere
  <2>2. clear \in Memories
    BY <2>1 DEF Memories
  <2> HIDE DEF clear
  <2>3. DisarmWhen(clear, {i}) \in Memories
    BY <2>2 DEF Memories, DisarmWhen
  <2> QED BY <2>2, <2>3
<1>3. CASE row.state # "armed"
  <2>1. intention' = rows /\ mem' = [m EXCEPT !.satisfied[i] = {}] /\ UNCHANGED <<regions, unheard>>
    BY <1>3 DEF Fire
  <2>2. RegionsOf(mem') = RegionsOf(m) /\ mem' \in Memories
    BY <2>1 DEF RegionsOf, Memories
  <2>3. HeldRow(i, row, mem', first)
    BY <1>3 DEF HeldRow
  <2>4. Arming(i, row, mem')
    BY <2>1, <1>1 DEF Arming, Memories
  <2>5. ASSUME NEW j \in Reminders \ {i}
        PROVE  HeldRow(j, rows[j], mem', first) /\ Arming(j, rows[j], mem')
    BY <2>1 DEF HeldRow, Arming, Memories
  <2> QED BY <2>1, <2>2, <2>3, <2>4, <2>5
<1>4. CASE row.state = "armed" /\ ~(row.terms \subseteq satisfied)
  <2>1. intention' = rows /\ mem' = noted /\ UNCHANGED <<regions, unheard>>
    BY <1>4 DEF Fire
  <2>2. RegionsOf(mem') = RegionsOf(m) /\ mem' \in Memories
    BY <2>1, <1>1 DEF RegionsOf, Memories
  <2>3. HeldRow(i, row, mem', first)
    <3>1. CASE row.terms = {"when", "where"}
      <4>1. mem'.satisfied[i] = satisfied
        BY <2>1, <3>1, <1>1, TwoTerms DEF Memories
      <4>2. /\ mem'.timers = m.timers /\ mem'.retries = m.retries /\ mem'.untimed = m.untimed
            /\ mem'.armed = m.armed
        BY <2>1 DEF Memories
      <4> QED BY <4>1, <4>2, <3>1, <1>4 DEF HeldRow
    <3>2. CASE row.terms # {"when", "where"}
      <4>1. mem' = m
        BY <2>1, <3>2, <1>1, TwoTerms DEF Rows
      <4> QED BY <4>1, <3>2, <1>4, <1>1 DEF HeldRow, Rows
    <3> QED BY <3>1, <3>2
  <2>4. Arming(i, row, mem')
    BY <2>1, <1>4 DEF Arming, Memories
  <2>5. ASSUME NEW j \in Reminders \ {i}
        PROVE  HeldRow(j, rows[j], mem', first) /\ Arming(j, rows[j], mem')
    BY <2>1 DEF HeldRow, Arming, Memories
  <2> QED BY <2>1, <2>2, <2>3, <2>4, <2>5
<1>5. CASE row.state = "armed" /\ row.terms \subseteq satisfied /\ connected
  <2>1. /\ intention' = [rows EXCEPT ![i].state = "surfaced"]
        /\ mem' = done /\ EmitIf(i \in RegionsOf(m), clear)
    BY <1>5 DEF Fire
  <2>2. RegionsOf(mem') = RegionsOf(clear)
    BY <2>1 DEF RegionsOf, DisarmWhen, DisarmWhere, Memories
  <2>3. Emit(mem') \/ (RegionsOf(mem') = RegionsOf(m) /\ UNCHANGED <<regions, unheard>>)
    <3>1. i \notin RegionsOf(m) => RegionsOf(clear) = RegionsOf(m)
      BY DEF RegionsOf, DisarmWhere, Memories
    <3> HIDE DEF clear, done
    <3> QED BY <2>1, <2>2, <3>1 DEF EmitIf, Emit
  <2>4. intention' \in [Reminders -> Rows] /\ intention'[i].state = "surfaced"
    BY <2>1 DEF Rows, States
  <2>5. HeldRow(i, intention'[i], mem', first)
    BY <2>4 DEF HeldRow
  <2>6. Arming(i, intention'[i], mem')
    <3>1. i \notin mem'.waiting
      BY <2>1 DEF DisarmWhen, DisarmWhere, Memories
    <3> QED BY <2>4, <3>1 DEF Arming
  <2>7. ASSUME NEW j \in Reminders \ {i}
        PROVE  HeldRow(j, intention'[j], mem', first) /\ Arming(j, intention'[j], mem')
    <3>1. intention'[j] = rows[j]
      BY <2>1
    <3>2. /\ j \in mem'.timers <=> j \in m.timers
          /\ j \in mem'.retries <=> j \in m.retries
          /\ j \in mem'.prepared <=> j \in m.prepared
          /\ j \in mem'.untimed <=> j \in m.untimed
          /\ j \in mem'.waiting <=> j \in m.waiting
          /\ j \in mem'.pending <=> j \in m.pending
          /\ j \in mem'.armed <=> j \in m.armed
          /\ mem'.satisfied[j] = m.satisfied[j]
      BY <2>1 DEF DisarmWhen, DisarmWhere, Memories
    <3> QED BY <3>1, <3>2 DEF HeldRow, Arming
  <2> QED BY <2>1, <2>3, <2>4, <2>5, <2>6, <2>7, <1>2
<1>6. CASE row.state = "armed" /\ row.terms \subseteq satisfied /\ ~connected
  <2>1. ofTimer /\ term = "when"
    BY <1>6
  <2>2. /\ intention' = rows /\ UNCHANGED <<regions, unheard>>
        /\ mem' = [noted EXCEPT !.retries = @ \union {i}]
    BY <1>6, <2>1 DEF Fire, RetryLater
  <2>3. RegionsOf(mem') = RegionsOf(m) /\ mem' \in Memories
    BY ZenonT(40), <2>2, <1>1 DEF RegionsOf, Memories
  <2>4. HeldRow(i, row, mem', first)
    <3>1. i \in mem'.retries
      BY <2>2, <1>1 DEF Memories
    <3>2. "where" \notin row.terms \ mem'.satisfied[i]
      <4>1. m.satisfied[i] \subseteq mem'.satisfied[i]
        BY <2>2, <1>1 DEF Memories
      <4> QED BY <4>1, <1>6, <2>1
    <3> QED BY <3>1, <3>2 DEF HeldRow
  <2>5. Arming(i, row, mem')
    BY <2>2, <1>6 DEF Arming, Memories
  <2>6. ASSUME NEW j \in Reminders \ {i}
        PROVE  HeldRow(j, rows[j], mem', first) /\ Arming(j, rows[j], mem')
    BY <2>2 DEF HeldRow, Arming, Memories
  <2> QED BY <2>2, <2>3, <2>4, <2>5, <2>6
<1> QED BY <1>3, <1>4, <1>5, <1>6

-----------------------------------------------------------------------------
(* There are no reminders at first.                                        *)
LEMMA IntentionsInitInv == IntentionsInit => HeldInv
<1> SUFFICES ASSUME IntentionsInit PROVE HeldInv
  OBVIOUS
<1>1. Forgotten \in Memories /\ RegionsOf(Forgotten) = {}
  BY DEF Forgotten, Memories, RegionsOf
<1>2. IntentionsTypeOK
  <2>1. intention \in [Reminders -> Rows]
    BY DEF IntentionsInit, Rows, States
  <2>2. mem \in Memories /\ boots \in Nat \ {0} /\ regions \subseteq Reminders
    BY <1>1 DEF IntentionsInit
  <2>3. connected \in BOOLEAN /\ unheard \in BOOLEAN
    BY Zenon DEF IntentionsInit
  <2> QED BY <2>1, <2>2, <2>3 DEF IntentionsTypeOK, Rows, States
<1>3. \A i \in Reminders : HeldRow(i, intention[i], mem, boots = 1) /\ Arming(i, intention[i], mem)
  BY DEF IntentionsInit, HeldRow, Arming, Forgotten
<1>4. Sent
  BY <1>1 DEF IntentionsInit, Sent
<1> QED BY <1>2, <1>3, <1>4 DEF HeldInv

(* What is left to show of a step of the process                           *)
LEMMA StepInv ==
  ASSUME HeldInv, intention' \in [Reminders -> Rows], mem' \in Memories,
         \A j \in Reminders : /\ HeldRow(j, intention'[j], mem', boots = 1)
                              /\ Arming(j, intention'[j], mem'),
         Told, UNCHANGED <<connected, boots>>
  PROVE  HeldInv'
<1>1. Sent' /\ unheard' \in BOOLEAN /\ regions' \subseteq Reminders
  BY ToldIsSent
<1> QED BY <1>1 DEF HeldInv, IntentionsTypeOK, Rows, States

(* Memories that agree about reminder j                                    *)
Same(j, m, n) ==
  /\ j \in m.timers <=> j \in n.timers
  /\ j \in m.retries <=> j \in n.retries
  /\ j \in m.prepared <=> j \in n.prepared
  /\ j \in m.untimed <=> j \in n.untimed
  /\ j \in m.waiting <=> j \in n.waiting
  /\ j \in m.pending <=> j \in n.pending
  /\ j \in m.armed <=> j \in n.armed
  /\ m.satisfied[j] = n.satisfied[j]

(* A reminder depends only on what is remembered of itself.                *)
LEMMA SameHeld ==
  ASSUME NEW j, NEW row, NEW m, NEW n, Same(j, m, n), NEW first
  PROVE  /\ HeldRow(j, row, m, first) <=> HeldRow(j, row, n, first)
         /\ Arming(j, row, m) <=> Arming(j, row, n)
BY DEF Same, HeldRow, Arming

(* What the invariant says of the memory and of each row.                  *)
LEMMA InvTypes ==
  ASSUME HeldInv
  PROVE  /\ intention \in [Reminders -> Rows] /\ mem \in Memories
         /\ \A j \in Reminders : HeldRow(j, intention[j], mem, boots = 1) /\ Arming(j, intention[j], mem)
BY DEF HeldInv, IntentionsTypeOK, Rows, States

(* A reminder is created: its timer is set, its place sent, or both.       *)
LEMMA CreateInv ==
  ASSUME HeldInv, NEW i \in Reminders, NEW terms \in (SUBSET {"when", "where"}) \ {{}}, Create(i, terms)
  PROVE  HeldInv'
<1> DEFINE arming == [mem EXCEPT !.prepared = IF "when" \in terms THEN @ \union {i} ELSE @,
                                !.pending = @ \union {i}, !.waiting = @ \union {i}]
           timed == [mem EXCEPT !.timers = @ \union {i}]
<1>1. State(i) = "none" /\ mem.satisfied[i] = {} /\ UNCHANGED <<connected, boots>>
  BY InvTypes DEF Arming, Create, State
<1>2. ASSUME NEW state \in {"pending_arm", "armed"},
             intention' = [intention EXCEPT ![i] = [state |-> state, terms |-> terms]]
      PROVE  /\ intention' \in [Reminders -> Rows] /\ intention'[i] = [state |-> state, terms |-> terms]
             /\ \A j \in Reminders \ {i} : intention'[j] = intention[j]
  BY InvTypes, <1>2 DEF Rows, States
<1>3. ASSUME mem' \in {arming, timed}
      PROVE  mem' \in Memories /\ \A j \in Reminders \ {i} : Same(j, mem', mem)
  <2>1. arming \in Memories /\ \A j \in Reminders \ {i} : Same(j, arming, mem)
    BY InvTypes DEF Memories, Same
  <2>2. timed \in Memories /\ \A j \in Reminders \ {i} : Same(j, timed, mem)
    BY InvTypes DEF Memories, Same
  <2> HIDE DEF arming, timed
  <2> QED BY <2>1, <2>2, <1>3
<1>4. CASE "where" \in terms
  <2>1. /\ intention' = [intention EXCEPT ![i] = [state |-> "pending_arm", terms |-> terms]]
        /\ mem' = arming /\ Told
    BY <1>4 DEF Create, Told
  <2>2. /\ i \in mem'.pending /\ ("when" \in terms => i \in mem'.prepared)
        /\ mem'.satisfied = mem.satisfied
    BY <2>1, InvTypes DEF Memories
  <2>3. HeldRow(i, intention'[i], mem', boots = 1) /\ Arming(i, intention'[i], mem')
    BY <2>1, <2>2, <1>1, <1>2, <1>4 DEF HeldRow, Arming
  <2> QED BY <2>1, <2>3, <1>1, <1>2, <1>3, InvTypes, SameHeld, StepInv
<1>5. CASE "where" \notin terms
  <2>1. /\ intention' = [intention EXCEPT ![i] = [state |-> "armed", terms |-> terms]]
        /\ mem' = timed /\ UNCHANGED <<regions, unheard>>
    BY <1>5 DEF Create
  <2>2. /\ RegionsOf(mem') = RegionsOf(mem)
        /\ i \in mem'.timers /\ i \notin mem'.waiting
        /\ mem'.satisfied[i] = {}
    BY <2>1, <1>1, InvTypes DEF Memories, RegionsOf, Arming, State
  <2>3. intention'[i] = [state |-> "armed", terms |-> {"when"}]
    <3>1. terms = {"when"}
      BY <1>5
    <3> QED BY <2>1, <3>1, <1>2
  <2>4. HeldRow(i, intention'[i], mem', boots = 1) /\ Arming(i, intention'[i], mem')
    BY <2>2, <2>3 DEF HeldRow, Arming
  <2> QED BY <2>1, <2>2, <2>4, <1>1, <1>2, <1>3, InvTypes, SameHeld, StepInv DEF Told
<1> QED BY <1>4, <1>5

(* Arming a place, after which an entry that was latched comes             *)
LEMMA ActivateInv ==
  ASSUME HeldInv, NEW i \in Reminders, NEW m \in Memories,
         connected, State(i) = "pending_arm", i \in mem.pending, i \notin m.waiting,
         "when" \in Terms(i) => i \in m.timers \union m.untimed,
         m.pending = mem.pending, m.armed = mem.armed, m.satisfied = mem.satisfied,
         \A j \in Reminders \ {i} : Same(j, m, mem),
         Activate(To(i, "armed"), m, i), UNCHANGED <<connected, boots>>
  PROVE  HeldInv'
<1> DEFINE rows == To(i, "armed")
           live == [m EXCEPT !.pending = @ \ {i}, !.armed = @ \union {i}, !.latched = @ \ {i}]
<1>1. /\ rows \in [Reminders -> Rows] /\ rows[i] = [state |-> "armed", terms |-> Terms(i)]
      /\ \A j \in Reminders \ {i} : rows[j] = intention[j]
  BY InvTypes DEF To, Rows, States, Terms
<1>2. live \in Memories /\ RegionsOf(live) = RegionsOf(mem)
  <2>1. live \in Memories
    BY DEF Memories
  <2>2. live.pending = mem.pending \ {i} /\ live.armed = mem.armed \union {i}
    BY DEF Memories
  <2> QED BY <2>1, <2>2 DEF RegionsOf
<1>3. \A j \in Reminders \ {i} : Same(j, live, m)
  BY DEF Memories, Same
<1>4. \A j \in Reminders \ {i} : HeldRow(j, rows[j], live, boots = 1) /\ Arming(j, rows[j], live)
  BY <1>1, <1>3, InvTypes, SameHeld
<1>5. HeldRow(i, rows[i], live, boots = 1) /\ Arming(i, rows[i], live)
  <2>1. Terms(i) # {} /\ mem.satisfied[i] = {}
    BY InvTypes DEF Arming, State, Terms
  <2>2. /\ live.satisfied = mem.satisfied /\ live.timers = m.timers /\ live.untimed = m.untimed
        /\ live.waiting = m.waiting /\ i \in live.armed
    BY InvTypes DEF Memories
  <2> QED BY <2>1, <2>2, <1>1 DEF HeldRow, Arming
<1>6. CASE i \in mem.latched
  <2>1. Fire(rows, live, i, "where", FALSE)
    BY <1>6 DEF Activate
  <2>2. /\ intention' \in [Reminders -> Rows] /\ mem' \in Memories
        /\ \A j \in Reminders : HeldRow(j, intention'[j], mem', boots = 1) /\ Arming(j, intention'[j], mem')
        /\ Emit(mem') \/ (RegionsOf(mem') = RegionsOf(live) /\ UNCHANGED <<regions, unheard>>)
    <3>1. i \in live.armed
      BY DEF Memories
    <3> HIDE DEF live, rows
    <3> QED BY <2>1, <3>1, <1>1, <1>2, <1>4, <1>5, FireHolds
  <2> QED BY <2>2, <1>2, StepInv DEF Told
<1>7. CASE i \notin mem.latched
  <2>1. intention' = rows /\ mem' = live /\ UNCHANGED <<regions, unheard>>
    BY <1>7 DEF Activate
  <2> HIDE DEF live, rows
  <2> QED BY <2>1, <1>1, <1>2, <1>4, <1>5, StepInv DEF Told
<1> QED BY <1>6, <1>7

(* Arming that failed                                                      *)
LEMMA FailedInv ==
  ASSUME HeldInv, NEW i \in Reminders, mem' \in Memories, Emit(mem'),
         i \notin mem'.waiting, \A j \in Reminders \ {i} : Same(j, mem', mem),
         intention' = To(i, "arm_failed"), UNCHANGED <<connected, boots>>
  PROVE  HeldInv'
<1>1. /\ intention' \in [Reminders -> Rows] /\ intention'[i].state = "arm_failed"
      /\ \A j \in Reminders \ {i} : intention'[j] = intention[j]
  BY InvTypes DEF To, Rows, States
<1>2. HeldRow(i, intention'[i], mem', boots = 1) /\ Arming(i, intention'[i], mem')
  BY <1>1 DEF HeldRow, Arming
<1> QED BY <1>1, <1>2, InvTypes, SameHeld, StepInv DEF Told

(* The device says that a place is armed, or that it cannot be.            *)
LEMMA RegionArmedInv ==
  ASSUME HeldInv, NEW i \in Reminders, NEW ok \in BOOLEAN, RegionArmed(i, ok)
  PROVE  HeldInv'
<1>1. connected /\ UNCHANGED <<connected, boots>>
  BY DEF RegionArmed
<1>2. CASE Answered(i, ok)
  <2> DEFINE m == [mem EXCEPT !.waiting = @ \ {i}, !.prepared = @ \ {i},
                              !.timers = @ \union (IF ok THEN Only(i, mem.prepared) ELSE {})]
             less == [m EXCEPT !.pending = @ \ {i}]
             dropped == DisarmWhen(less, {i})
  <2>1. /\ i \in mem.waiting /\ i \in mem.pending /\ State(i) = "pending_arm"
    BY <1>2, InvTypes DEF Answered, Arming, State
  <2>2. m \in Memories /\ i \notin m.waiting /\ m.pending = mem.pending /\ m.armed = mem.armed
        /\ m.satisfied = mem.satisfied /\ \A j \in Reminders \ {i} : Same(j, m, mem)
    BY InvTypes DEF Memories, Same, Only
  <2>3. CASE ok
    <3>1. Activate(To(i, "armed"), m, i)
      BY <1>2, <2>3 DEF Answered
    <3>2. "when" \in Terms(i) => i \in m.timers
      <4>1. "when" \in Terms(i) => i \in mem.prepared
        BY <2>1, InvTypes DEF Arming, State, Terms
      <4> QED BY <2>3, <4>1, InvTypes DEF Memories, Only
    <3> HIDE DEF m
    <3> QED BY <3>1, <3>2, <2>1, <2>2, <1>1, ActivateInv
  <2>4. CASE ~ok
    <3>1. intention' = To(i, "arm_failed") /\ mem' = dropped /\ Emit(mem')
      BY <1>2, <2>4 DEF Answered
    <3>2. less \in Memories /\ i \notin less.waiting /\ \A j \in Reminders \ {i} : Same(j, less, m)
      BY ZenonT(40), <2>2 DEF Memories, Same
    <3> HIDE DEF m, less
    <3>3. dropped \in Memories /\ i \notin dropped.waiting /\ \A j \in Reminders \ {i} : Same(j, dropped, less)
      BY <3>2 DEF Memories, Same, DisarmWhen
    <3>4. \A j \in Reminders \ {i} : Same(j, dropped, mem)
      BY <3>2, <3>3, <2>2 DEF Same
    <3> QED BY <3>1, <3>3, <3>4, <1>1, FailedInv
  <2> QED BY <2>3, <2>4
<1>3. CASE AnsweredLate(i, ok)
  <2>1. i \in mem.pending /\ i \notin mem.waiting /\ State(i) = "pending_arm"
    BY <1>3 DEF AnsweredLate
  <2>2. CASE ok
    <3> DEFINE m == [mem EXCEPT !.untimed = @ \union Only(i, Timed)]
    <3>1. Activate(To(i, "armed"), m, i)
      BY <1>3, <2>2 DEF AnsweredLate
    <3>2. /\ m \in Memories /\ i \notin m.waiting /\ m.pending = mem.pending
          /\ m.armed = mem.armed /\ m.satisfied = mem.satisfied
          /\ \A j \in Reminders \ {i} : Same(j, m, mem)
      BY <2>1, InvTypes DEF Memories, Same, Only
    <3>3. "when" \in Terms(i) => i \in m.untimed
      BY InvTypes DEF Memories, Only, Timed
    <3> HIDE DEF m
    <3> QED BY <3>1, <3>2, <3>3, <2>1, <1>1, ActivateInv
  <2>3. CASE ~ok
    <3>1. /\ intention' = To(i, "arm_failed") /\ mem' = [mem EXCEPT !.pending = @ \ {i}] /\ Emit(mem')
      BY <1>3, <2>3 DEF AnsweredLate
    <3>2. mem' \in Memories /\ i \notin mem'.waiting /\ \A j \in Reminders \ {i} : Same(j, mem', mem)
      BY <3>1, <2>1, InvTypes DEF Memories, Same
    <3> QED BY <3>1, <3>2, <1>1, FailedInv
  <2> QED BY <2>2, <2>3
<1> QED BY <1>2, <1>3 DEF RegionArmed

(* A timer rings: m is what is left in memory without it.                  *)
LEMMA RingInv ==
  ASSUME HeldInv, NEW i \in Reminders, NEW m \in Memories,
         \A j \in Reminders \ {i} : Same(j, m, mem),
         m.satisfied = mem.satisfied, m.prepared = mem.prepared, m.waiting = mem.waiting,
         m.untimed = mem.untimed, m.pending = mem.pending, m.armed = mem.armed,
         Fire(intention, m, i, "when", TRUE), UNCHANGED <<connected, boots>>
  PROVE  HeldInv'
<1>1. \A j \in Reminders \ {i} : HeldRow(j, intention[j], m, boots = 1) /\ Arming(j, intention[j], m)
  BY InvTypes, SameHeld
<1>2. Arming(i, intention[i], m)
  BY InvTypes DEF Arming
<1>3. intention[i].state = "armed" /\ boots = 1 /\ "where" \in intention[i].terms \ m.satisfied[i]
        => i \in m.armed
  BY InvTypes DEF HeldRow
<1>4. RegionsOf(m) = RegionsOf(mem)
  BY DEF RegionsOf
<1>5. /\ intention' \in [Reminders -> Rows] /\ mem' \in Memories
      /\ \A j \in Reminders : HeldRow(j, intention'[j], mem', boots = 1) /\ Arming(j, intention'[j], mem')
      /\ Emit(mem') \/ (RegionsOf(mem') = RegionsOf(m) /\ UNCHANGED <<regions, unheard>>)
  BY ZenonT(40), <1>1, <1>2, <1>3, InvTypes, FireHolds
<1> QED BY <1>4, <1>5, StepInv DEF Told

(* A timer rings, at the time of a reminder or to try it again.            *)
LEMMA TimersInv ==
  ASSUME HeldInv, NEW i \in Reminders, WhenRings(i) \/ RetryRings(i)
  PROVE  HeldInv'
<1>1. CASE WhenRings(i)
  <2> DEFINE m == [mem EXCEPT !.timers = @ \ {i}]
  <2>1. m \in Memories /\ \A j \in Reminders \ {i} : Same(j, m, mem)
    BY InvTypes DEF Memories, Same
  <2>2. /\ m.satisfied = mem.satisfied /\ m.prepared = mem.prepared /\ m.waiting = mem.waiting
        /\ m.untimed = mem.untimed /\ m.pending = mem.pending /\ m.armed = mem.armed
    BY InvTypes DEF Memories
  <2>3. Fire(intention, m, i, "when", TRUE) /\ UNCHANGED <<connected, boots>>
    BY <1>1 DEF WhenRings
  <2> HIDE DEF m
  <2> QED BY <2>1, <2>2, <2>3, RingInv
<1>2. CASE RetryRings(i)
  <2> DEFINE m == [mem EXCEPT !.retries = @ \ {i}]
  <2>1. m \in Memories /\ \A j \in Reminders \ {i} : Same(j, m, mem)
    BY InvTypes DEF Memories, Same
  <2>2. /\ m.satisfied = mem.satisfied /\ m.prepared = mem.prepared /\ m.waiting = mem.waiting
        /\ m.untimed = mem.untimed /\ m.pending = mem.pending /\ m.armed = mem.armed
    BY InvTypes DEF Memories
  <2>3. Fire(intention, m, i, "when", TRUE) /\ UNCHANGED <<connected, boots>>
    BY <1>2 DEF RetryRings
  <2> HIDE DEF m
  <2> QED BY <2>1, <2>2, <2>3, RingInv
<1> QED BY <1>1, <1>2

(* The device has not answered in time.                                    *)
LEMMA AckTimeoutInv ==
  ASSUME HeldInv, NEW i \in Reminders, AckTimeout(i)
  PROVE  HeldInv'
<1>1. mem' = [mem EXCEPT !.waiting = @ \ {i}] /\ UNCHANGED <<intention, connected, regions, unheard, boots>>
  BY DEF AckTimeout
<1>2. mem' \in Memories /\ RegionsOf(mem') = RegionsOf(mem)
  BY <1>1, InvTypes DEF Memories, RegionsOf
<1>3. \A j \in Reminders : HeldRow(j, intention[j], mem', boots = 1) /\ Arming(j, intention[j], mem')
  BY <1>1, InvTypes DEF Memories, HeldRow, Arming
<1> QED BY <1>1, <1>2, <1>3, InvTypes, StepInv DEF Told

(* The user comes to the place of a reminder.                              *)
LEMMA RegionEnteredInv ==
  ASSUME HeldInv, NEW i \in Reminders, RegionEntered(i)
  PROVE  HeldInv'
<1>1. connected /\ UNCHANGED <<connected, boots>>
  BY DEF RegionEntered
<1>2. CASE /\ mem' = [mem EXCEPT !.latched = @ \union {i}]
           /\ UNCHANGED <<intention, regions, unheard>>
  <2>1. mem' \in Memories /\ RegionsOf(mem') = RegionsOf(mem)
    BY <1>2, InvTypes DEF Memories, RegionsOf
  <2>2. \A j \in Reminders : Same(j, mem', mem)
    BY <1>2, InvTypes DEF Memories, Same
  <2> QED BY <1>1, <1>2, <2>1, <2>2, InvTypes, SameHeld, StepInv DEF Told
<1>3. CASE State(i) = "armed" /\ Fire(intention, mem, i, "where", FALSE)
  <2>1. intention[i].state = "armed" /\ boots = 1 /\ "where" \in intention[i].terms \ mem.satisfied[i]
          => i \in mem.armed
    BY InvTypes DEF HeldRow
  <2>2. /\ intention' \in [Reminders -> Rows] /\ mem' \in Memories
        /\ \A j \in Reminders : HeldRow(j, intention'[j], mem', boots = 1) /\ Arming(j, intention'[j], mem')
        /\ Emit(mem') \/ (RegionsOf(mem') = RegionsOf(mem) /\ UNCHANGED <<regions, unheard>>)
    BY <1>1, <1>3, <2>1, InvTypes, FireHolds
  <2> QED BY <1>1, <2>2, StepInv DEF Told
<1> QED BY <1>2, <1>3 DEF RegionEntered

(* The places S are given up: what a step that disarms them leaves         *)
LEMMA DisarmedInv ==
  ASSUME HeldInv, NEW S \in SUBSET Reminders, NEW state \in States \ {"none", "pending_arm", "armed"},
         NEW P \in SUBSET S,
         mem' = DisarmWhen(DisarmWhere(mem, S), P),
         EmitIf(S \intersect RegionsOf(mem) # {}, mem'),
         intention' = [i \in Reminders |-> IF i \in S THEN [intention[i] EXCEPT !.state = state]
                                           ELSE intention[i]],
         UNCHANGED <<connected, boots>>
  PROVE  HeldInv'
<1>1. intention' \in [Reminders -> Rows] /\ \A j \in S : intention'[j].state = state
  BY InvTypes DEF Rows, States
<1>2. /\ DisarmWhere(mem, S) \in Memories
      /\ RegionsOf(DisarmWhere(mem, S)) = RegionsOf(mem) \ S
      /\ \A j \in S : j \notin DisarmWhere(mem, S).waiting
      /\ \A j \in Reminders \ S : Same(j, DisarmWhere(mem, S), mem)
  BY InvTypes DEF DisarmWhere, Memories, RegionsOf, Same
<1> DEFINE less == DisarmWhere(mem, S)
<1> HIDE DEF less
<1>3. /\ mem' \in Memories /\ RegionsOf(mem') = RegionsOf(less)
      /\ \A j \in S : j \in mem'.waiting <=> j \in less.waiting
      /\ \A j \in Reminders \ S : Same(j, mem', less)
  BY <1>2 DEF DisarmWhen, Memories, RegionsOf, Same, less
<1>4. \A j \in Reminders \ S : Same(j, mem', mem)
  BY <1>2, <1>3 DEF Same, less
<1>5. ASSUME NEW j \in Reminders
      PROVE  HeldRow(j, intention'[j], mem', boots = 1) /\ Arming(j, intention'[j], mem')
  <2>1. CASE j \in S
    BY <2>1, <1>1, <1>2, <1>3 DEF HeldRow, Arming, less
  <2>2. CASE j \notin S
    BY <2>2, <1>4, InvTypes, SameHeld
  <2> QED BY <2>1, <2>2
<1>6. Told
  <2>1. S \intersect RegionsOf(mem) = {} => RegionsOf(mem') = RegionsOf(mem)
    BY <1>2, <1>3 DEF less
  <2> QED BY <2>1 DEF EmitIf, Told
<1> QED BY <1>1, <1>3, <1>5, <1>6, StepInv

(* The user denies the location to the device.                             *)
LEMMA LocationDeniedInv ==
  ASSUME HeldInv, LocationDenied
  PROVE  HeldInv'
<1> DEFINE S == {i \in Placed : State(i) \in {"pending_arm", "armed"}}
<1>1. /\ mem' = DisarmWhen(DisarmWhere(mem, S), S \intersect mem.waiting)
      /\ EmitIf(S \intersect RegionsOf(mem) # {}, mem')
      /\ intention' = [i \in Reminders |-> IF i \in S THEN [intention[i] EXCEPT !.state = "arm_failed"]
                                           ELSE intention[i]]
      /\ UNCHANGED <<connected, boots>>
  BY DEF LocationDenied
<1>2. S \in SUBSET Reminders /\ "arm_failed" \in States \ {"none", "pending_arm", "armed"}
  BY DEF Placed, States
<1>3. S \intersect mem.waiting \in SUBSET S
  OBVIOUS
<1> HIDE DEF S
<1> QED BY <1>1, <1>2, <1>3, DisarmedInv

(* The user answers what was spoken.                                       *)
LEMMA RespondInv ==
  ASSUME HeldInv, NEW i \in Reminders, NEW state \in {"resolved", "suppressed"}, Respond(i, state)
  PROVE  HeldInv'
<1>1. /\ mem' = DisarmWhere(mem, {i}) /\ EmitIf(i \in RegionsOf(mem), mem')
      /\ intention' = To(i, state) /\ UNCHANGED <<connected, boots>>
  BY DEF Respond
<1>2. mem' = DisarmWhen(DisarmWhere(mem, {i}), {})
  BY ZenonT(40), <1>1, InvTypes DEF DisarmWhen, DisarmWhere, Memories
<1>3. intention' = [j \in Reminders |-> IF j \in {i} THEN [intention[j] EXCEPT !.state = state]
                                        ELSE intention[j]]
  BY <1>1, InvTypes DEF To, Rows
<1>4. EmitIf({i} \intersect RegionsOf(mem) # {}, mem')
  BY <1>1 DEF EmitIf
<1>5. state \in States \ {"none", "pending_arm", "armed"} /\ {i} \in SUBSET Reminders
  BY DEF States
<1> QED BY ZenonT(40), <1>1, <1>2, <1>3, <1>4, <1>5, DisarmedInv

(* Rows of what is done are deleted.                                       *)
LEMMA PruneInv ==
  ASSUME HeldInv, Prune
  PROVE  HeldInv'
<1>1. /\ intention' \in [Reminders -> Rows]
      /\ \A i \in Reminders : \/ intention'[i] = intention[i]
                              \/ /\ intention[i].state \in {"resolved", "suppressed"}
                                 /\ intention'[i].state = "pruned"
  BY InvTypes DEF Prune, Rows, States, State
<1>2. UNCHANGED <<mem, connected, regions, unheard, boots>>
  BY DEF Prune
<1>3. ASSUME NEW i \in Reminders
      PROVE  HeldRow(i, intention'[i], mem', boots = 1) /\ Arming(i, intention'[i], mem')
  BY <1>1, <1>2, InvTypes DEF HeldRow, Arming
<1> QED BY <1>1, <1>2, <1>3, InvTypes, StepInv DEF Told

(* Another process schedules the armed rows again.                         *)
LEMMA RebootInv ==
  ASSUME HeldInv, Reboot
  PROVE  HeldInv'
<1>1. /\ boots' = boots + 1 /\ mem' = Rehydrated /\ connected' = FALSE /\ unheard' = TRUE
      /\ UNCHANGED <<intention, regions>>
  BY DEF Reboot
<1>2. boots' \in Nat \ {0} /\ boots' # 1
  BY <1>1 DEF HeldInv, IntentionsTypeOK
<1>3. /\ Rehydrated \in Memories /\ Rehydrated.waiting = {} /\ Rehydrated.pending = {}
      /\ Rehydrated.timers = {i \in Timed : State(i) = "armed"}
      /\ \A i \in Reminders : Rehydrated.satisfied[i] = {}
  BY DEF Rehydrated, Forgotten, Memories, Timed
<1>4. ASSUME NEW i \in Reminders
      PROVE  HeldRow(i, intention[i], Rehydrated, boots' = 1) /\ Arming(i, intention[i], Rehydrated)
  <2>1. intention[i].state \in {"pending_arm", "armed"} => intention[i].terms # {}
    BY InvTypes DEF Arming
  <2> QED BY <1>2, <1>3, <2>1 DEF HeldRow, Arming, Timed, Terms, State
<1>5. Sent'
  BY <1>1 DEF Sent
<1> QED BY <1>1, <1>2, <1>3, <1>4, <1>5 DEF HeldInv, IntentionsTypeOK

-----------------------------------------------------------------------------
(* Every step keeps the reminders held.                                    *)
THEOREM IntentionsInvariant == IntentionsSpec => []HeldInv
<1>1. ASSUME HeldInv, [IntentionsNext]_intentionsVars
      PROVE  HeldInv'
  <2>1. CASE UNCHANGED intentionsVars
    BY <1>1, <2>1 DEF intentionsVars, HeldInv, IntentionsTypeOK, Sent, RegionsOf, HeldRow, Arming
  <2>2. CASE Connects \/ Disconnects
    BY ZenonT(40), <1>1, <2>2 DEF Connects, Disconnects, HeldInv, IntentionsTypeOK, Sent, RegionsOf, HeldRow, Arming
  <2>3. CASE LocationDenied \/ Prune \/ Reboot
    BY <1>1, <2>3, LocationDeniedInv, PruneInv, RebootInv
  <2>4. ASSUME NEW i \in Reminders, NEW terms \in (SUBSET {"when", "where"}) \ {{}}, Create(i, terms)
        PROVE  HeldInv'
    BY <1>1, <2>4, CreateInv
  <2>5. ASSUME NEW i \in Reminders,
               \/ \E ok \in BOOLEAN : RegionArmed(i, ok)
               \/ AckTimeout(i) \/ RegionEntered(i) \/ WhenRings(i) \/ RetryRings(i)
               \/ \E state \in {"resolved", "suppressed"} : Respond(i, state)
        PROVE  HeldInv'
    BY <1>1, <2>5, RegionArmedInv, AckTimeoutInv, RegionEnteredInv, TimersInv, RespondInv
  <2> QED BY <1>1, <2>1, <2>2, <2>3, <2>4, <2>5 DEF IntentionsNext
<1> QED BY <1>1, IntentionsInitInv, PTL DEF IntentionsSpec

(* The time of an armed reminder has a timer or a retry, unless a late     *)
(* answer armed it; what has come is retried; its place is watched in the  *)
(* first process; and the device was sent what the process has.            *)
THEOREM ArmedAreHeld == IntentionsSpec => []RemindersAreHeld
<1>1. HeldInv => RemindersAreHeld
  BY DEF HeldInv, HeldRow, Sent, RemindersAreHeld, State, Terms
<1> QED BY <1>1, IntentionsInvariant, PTL

-----------------------------------------------------------------------------
(* Needs.  What the user declined stays quiet.  Declining silences one row,*)
(* so a content must have at most one that is pending.  That the recognizer*)
(* mints no second one follows from the rows it was given, though they may *)
(* be old: a row pending now was pending then, or was minted in the same   *)
(* tick, which makes the new one a twin.                                   *)

IsRow(r) ==
  /\ r = [want |-> r.want, state |-> r.state, at |-> r.at, twin |-> r.twin]
  /\ r.want \in Wants

AreRows(rows) ==
  /\ rows \in Seq({rows[i] : i \in Ids(rows)})
  /\ \A i \in Ids(rows) : IsRow(rows[i])

Wanted(rows, w) == {i \in InState(rows, Active) : rows[i].want = w}
HasTwin(rows, w) == \E i \in Ids(rows) : rows[i].want = w /\ rows[i].twin

(* One row of each content is pending, and none of a suppressed one.       *)
Hushed(rows, declined, w) ==
  /\ \A i, j \in Wanted(rows, w) : i = j
  /\ w \in declined => Wanted(rows, w) = {}

(* What a tick read is still so, but for what it minted and what ended.    *)
Snapshot(old, fresh, rows) ==
  /\ Ids(old) \subseteq Ids(rows) /\ Ids(rows) \ Ids(old) \subseteq fresh
  /\ \A i \in Ids(old) : /\ rows[i].want = old[i].want
                         /\ rows[i].state \in Active => old[i].state \in Active

IsPass ==
  pass = [stage |-> pass.stage, asking |-> pass.asking, time |-> pass.time, rows |-> pass.rows,
          fresh |-> pass.fresh, offered |-> pass.offered]

NeedsInv ==
  /\ AreRows(latent)
  /\ IsPass
  /\ pass.stage = "recognizing" => Snapshot(pass.rows, pass.fresh, latent)
  /\ \A w \in Wants : HasTwin(latent, w) \/ Hushed(latent, suppressed, w)

-----------------------------------------------------------------------------
(* Rows are a sequence.                                                    *)
LEMMA RowsOf ==
  ASSUME NEW rows, AreRows(rows)
  PROVE  Len(rows) \in Nat /\ Ids(rows) = 1..Len(rows) /\ rows \in [1..Len(rows) -> {rows[i] : i \in Ids(rows)}]
BY DEF AreRows, Ids

(* Sets have an enumeration, and SetToSeq() is one.                        *)
LEMMA SeqOfSet ==
  ASSUME NEW S, IsFiniteSet(S)
  PROVE  /\ SetToSeq(S) \in Seq(S) /\ Len(SetToSeq(S)) \in Nat
         /\ \A n \in 1..Len(SetToSeq(S)) : SetToSeq(S)[n] \in S
         /\ \A m, n \in 1..Len(SetToSeq(S)) : SetToSeq(S)[m] = SetToSeq(S)[n] => m = n
<1> DEFINE D == 1..Cardinality(S)
<1>1. Cardinality(S) \in Nat /\ ExistsBijection(D, S)
  BY FS_CardinalityType
<1>2. \E f \in [D -> S] : IsInjective(f)
  BY <1>1 DEF ExistsBijection, Bijection, Injection, IsInjective
<1>3. SetToSeq(S) \in [D -> S] /\ IsInjective(SetToSeq(S))
  BY <1>2 DEF SetToSeq
<1> QED BY <1>1, <1>3 DEF IsInjective

(* States change, and nothing becomes pending that was not.                *)
RowsEnd(rows, new) ==
  /\ AreRows(new) /\ Ids(new) = Ids(rows)
  /\ \A i \in Ids(rows) : /\ new[i].want = rows[i].want /\ new[i].twin = rows[i].twin
                          /\ new[i].state \in Active => rows[i].state \in Active

(* A row becomes what was not pending, or was: no more are pending.        *)
LEMMA BecomeEnds ==
  ASSUME NEW rows, AreRows(rows), NEW S, NEW state,
         state \in Active => \A i \in S \intersect Ids(rows) : rows[i].state \in Active
  PROVE  /\ RowsEnd(rows, Become(rows, S, state))
         /\ \A i \in Ids(rows) : Become(rows, S, state)[i].state = IF i \in S THEN state ELSE rows[i].state
<1> DEFINE new == Become(rows, S, state)
<1>1. Len(rows) \in Nat /\ Ids(rows) = 1..Len(rows)
  BY RowsOf
<1>2. Ids(new) = Ids(rows) /\ new \in [1..Len(rows) -> {new[i] : i \in Ids(rows)}]
  BY <1>1 DEF Become, Ids
<1>3. new \in Seq({new[i] : i \in Ids(new)})
  BY <1>1, <1>2
<1>4. ASSUME NEW i \in Ids(rows)
      PROVE  /\ IsRow(new[i]) /\ new[i].want = rows[i].want /\ new[i].twin = rows[i].twin
             /\ new[i].state = IF i \in S THEN state ELSE rows[i].state
  <2>1. rows[i] = [want |-> rows[i].want, state |-> rows[i].state, at |-> rows[i].at, twin |-> rows[i].twin]
        /\ rows[i].want \in Wants
    BY DEF AreRows, IsRow
  <2>2. new[i] = [want |-> rows[i].want, state |-> IF i \in S THEN state ELSE rows[i].state,
                  at |-> rows[i].at, twin |-> rows[i].twin]
    BY <2>1 DEF Become
  <2> HIDE DEF new
  <2> QED BY <2>1, <2>2 DEF IsRow
<1> HIDE DEF new
<1>5. RowsEnd(rows, new)
  BY <1>2, <1>3, <1>4 DEF RowsEnd, AreRows
<1> QED BY <1>4, <1>5 DEF new

(* Rows that end in two steps have ended.                                  *)
LEMMA EndedTwice ==
  ASSUME NEW rows, NEW new, NEW newer, RowsEnd(rows, new), RowsEnd(new, newer)
  PROVE  RowsEnd(rows, newer)
BY DEF RowsEnd

(* What is said of a content stays true when rows end, if one that was     *)
(* pending ends whenever the content is newly declined.                    *)
LEMMA QuietStays ==
  ASSUME NEW rows, NEW new, NEW w, NEW declined, NEW more, RowsEnd(rows, new),
         HasTwin(rows, w) \/ Hushed(rows, declined, w),
         w \in more \ declined => \E i \in Wanted(rows, w) : new[i].state \notin Active
  PROVE  HasTwin(new, w) \/ Hushed(new, more, w)
<1>1. HasTwin(rows, w) => HasTwin(new, w)
  BY DEF HasTwin, RowsEnd
<1>2. \A i \in Wanted(new, w) : i \in Wanted(rows, w) /\ new[i].state \in Active
  BY DEF Wanted, InState, RowsEnd
<1> QED BY <1>1, <1>2 DEF Hushed

(* What a tick read is still so when rows end.                             *)
LEMMA SnapshotStays ==
  ASSUME NEW rows, NEW new, NEW old, NEW fresh, RowsEnd(rows, new), Snapshot(old, fresh, rows)
  PROVE  Snapshot(old, fresh, new)
BY DEF RowsEnd, Snapshot

-----------------------------------------------------------------------------
(* There are no rows at first.                                             *)
LEMMA NeedsInitInv == NeedsInit => NeedsInv
BY DEF NeedsInit, NeedsInv, AreRows, Ids, IsPass, Idling, Hushed, Wanted, InState

(* A step in which rows only end                                           *)
LEMMA EndingInv ==
  ASSUME NeedsInv, RowsEnd(latent, latent'),
         \A w \in suppressed' \ suppressed : \E i \in Wanted(latent, w) : latent'[i].state \notin Active,
         IsPass',
         \/ UNCHANGED pass
         \/ (pass.stage # "recognizing")'
         \/ (Snapshot(pass.rows, pass.fresh, latent))'
  PROVE  NeedsInv'
<1>1. \A w \in Wants : HasTwin(latent', w) \/ Hushed(latent', suppressed', w)
  BY QuietStays DEF NeedsInv
<1>2. (pass.stage = "recognizing" => Snapshot(pass.rows, pass.fresh, latent))'
  BY SnapshotStays DEF NeedsInv
<1> QED BY <1>1, <1>2 DEF NeedsInv, RowsEnd

(* A sweep ends rows, and a pending one of each content it suppresses.     *)
LEMMA SweepEnds ==
  ASSUME NEW D, AreRows(latent), Sweep(D, latent)
  PROVE  /\ RowsEnd(latent, latent')
         /\ \A w \in suppressed' \ suppressed : \E i \in Wanted(latent, w) : latent'[i].state \notin Active
<1> DEFINE found == [i \in Ids(latent) |-> IF latent[i].state = "armed"
                                           THEN UNION {Verdicts(latent[i], s) : s \in D} ELSE {}]
           some == {i \in Ids(latent) : found[i] # {}}
<1>1. PICK has \in SUBSET {i \in Ids(latent) : "has" \in found[i]} :
        latent' = Become(Become(latent, some \ has, "suppressed"), has, "resolved")
  BY DEF Sweep
<1>2. suppressed' = suppressed \union {latent[i].want : i \in {j \in Ids(latent) : "drops" \in found[j]}}
  BY DEF Sweep
<1> DEFINE first == Become(latent, some \ has, "suppressed")
<1>3. /\ RowsEnd(latent, first)
      /\ \A i \in Ids(latent) : first[i].state = IF i \in some \ has THEN "suppressed" ELSE latent[i].state
  <2>1. "suppressed" \notin Active
    BY DEF Active
  <2> HIDE DEF found, some
  <2> QED BY <2>1, BecomeEnds
<1> HIDE DEF first
<1>4. /\ RowsEnd(first, latent')
      /\ \A i \in Ids(first) : latent'[i].state = IF i \in has THEN "resolved" ELSE first[i].state
  <2>1. "resolved" \notin Active
    BY DEF Active
  <2>2. AreRows(first)
    BY <1>3 DEF RowsEnd
  <2>3. latent' = Become(first, has, "resolved")
    BY <1>1 DEF first
  <2> HIDE DEF found, some
  <2> QED BY <2>1, <2>2, <2>3, BecomeEnds
<1>5. RowsEnd(latent, latent')
  BY <1>3, <1>4, EndedTwice
<1>6. ASSUME NEW w \in suppressed' \ suppressed
      PROVE  \E i \in Wanted(latent, w) : latent'[i].state \notin Active
  <2>1. PICK i \in Ids(latent) : "drops" \in found[i] /\ latent[i].want = w
    BY <1>2
  <2>2. latent[i].state = "armed"
    BY <2>1
  <2>3. i \in Wanted(latent, w)
    BY <2>1, <2>2 DEF Wanted, InState, Active
  <2>4. i \in some
    BY <2>1
  <2>5. latent'[i].state \in {"suppressed", "resolved"}
    BY <1>3, <1>4, <2>4 DEF RowsEnd
  <2> QED BY <2>3, <2>5 DEF Active
<1> QED BY <1>5, <1>6

(* The second half of a tick recognizes nothing.                           *)
LEMMA OfferPass ==
  ASSUME NEW rows, NEW fresh, Offer(rows, fresh)
  PROVE  IsPass' /\ (pass.stage # "recognizing")'
<1>1. PICK live \in SUBSET Talks :
        LET offered == InState(rows, {"armed"}) \ (fresh \union reserved)
        IN  pass' = IF live = {} \/ offered = {} THEN Idling
                    ELSE [Idling EXCEPT !.stage = "surfacing", !.asking = live, !.offered = offered]
  BY DEF Offer
<1> DEFINE offered == InState(rows, {"armed"}) \ (fresh \union reserved)
<1>2. CASE pass' = Idling
  BY <1>2 DEF IsPass, Idling
<1>3. CASE pass' = [Idling EXCEPT !.stage = "surfacing", !.asking = live, !.offered = offered]
  <2> HIDE DEF offered
  <2> QED BY <1>3 DEF IsPass, Idling
<1> QED BY <1>1, <1>2, <1>3

(* A tick sweeps, and reads the rows for its recognizer.                   *)
LEMMA TickBeginsInv ==
  ASSUME NeedsInv, TickBegins
  PROVE  NeedsInv'
<1>0. PICK awake \in SUBSET dirty :
        /\ Sweep(awake, latent)
        /\ IF awake = {} THEN Offer(latent', {})
           ELSE pass' = [Idling EXCEPT !.stage = "recognizing", !.asking = awake,
                                       !.time = uttered, !.rows = latent']
  BY DEF TickBegins
<1>1. /\ RowsEnd(latent, latent')
      /\ \A w \in suppressed' \ suppressed : \E i \in Wanted(latent, w) : latent'[i].state \notin Active
  BY <1>0, SweepEnds DEF NeedsInv
<1>2. CASE awake = {}
  BY <1>0, <1>1, <1>2, OfferPass, EndingInv DEF TickBegins
<1>3. CASE awake # {}
  <2>1. pass' = [Idling EXCEPT !.stage = "recognizing", !.asking = awake,
                               !.time = uttered, !.rows = latent']
    BY <1>0, <1>3
  <2>2. IsPass' /\ pass'.rows = latent'
    BY <2>1 DEF IsPass, Idling
  <2>3. Snapshot(latent', pass'.fresh, latent')
    BY DEF Snapshot
  <2> QED BY <1>1, <2>2, <2>3, EndingInv DEF TickBegins
<1> QED BY <1>2, <1>3

(* A function on 1..n is a sequence.                                       *)
LEMMA SeqOfFunction ==
  ASSUME NEW n \in Nat, NEW f, f = [m \in 1..n |-> f[m]], NEW S, \A m \in 1..n : f[m] \in S
  PROVE  f \in Seq(S) /\ Len(f) = n
<1>1. f \in [1..n -> S]
  OBVIOUS
<1> QED BY <1>1

Joined(a, b, c) ==
  /\ Len(c) = Len(a) + Len(b)
  /\ \A i \in 1..Len(a) : c[i] = a[i]
  /\ \A i \in 1..Len(b) : c[Len(a) + i] = b[i]

(* The elements of two sequences, one after the other                      *)
LEMMA Joining ==
  ASSUME NEW S, NEW a \in Seq(S), NEW b \in Seq(S)
  PROVE  a \o b \in Seq(S) /\ Joined(a, b, a \o b)
<1>1. Len(a) \in Nat /\ Len(b) \in Nat
  OBVIOUS
<1>2. /\ a \o b \in Seq(S) /\ Len(a \o b) = Len(a) + Len(b)
      /\ \A i \in 1..Len(a) + Len(b) : (a \o b)[i] = IF i <= Len(a) THEN a[i] ELSE b[i - Len(a)]
  BY ConcatProperties
<1>3. ASSUME NEW i \in 1..Len(b)
      PROVE  (a \o b)[Len(a) + i] = b[i]
  <2>1. /\ Len(a) + i \in 1..Len(a) + Len(b) /\ ~(Len(a) + i <= Len(a))
        /\ Len(a) + i - Len(a) = i
    BY <1>1
  <2> QED BY <2>1, <1>2
<1> QED BY <1>1, <1>2, <1>3 DEF Joined

(* A sequence is one of its own elements.                                  *)
LEMMA RowsAre ==
  ASSUME NEW S, NEW rows \in Seq(S), \A i \in Ids(rows) : IsRow(rows[i])
  PROVE  AreRows(rows)
<1>1. rows \in Seq({rows[i] : i \in DOMAIN rows})
  OBVIOUS
<1> QED BY <1>1 DEF AreRows, Ids

(* A row the tick mints is the only pending one of its content, or has a   *)
(* twin: what was pending when the tick read the rows is not recognized,   *)
(* and what was minted since makes it a twin.                              *)
LEMMA RecognizedInv ==
  ASSUME NeedsInv, NEW s \in Talks, NEW found \in SUBSET Wants, Recognized(s, found)
  PROVE  NeedsInv'
<1> DEFINE unseen == {w \in found : New(w, s)}
           new == SetToSeq(unseen)
           twin(w) == \E i \in pass.fresh : latent[i].want = w
           minted == [n \in DOMAIN new |-> [want |-> new[n], state |-> "armed", at |-> LastTurn(s),
                                            twin |-> twin(new[n])]]
           old == Len(latent)
           fresh == pass.fresh \union (old + 1 .. old + Len(new))
<1>1. /\ pass.stage = "recognizing" /\ found \subseteq Recognizable(s)
      /\ latent' = latent \o minted /\ UNCHANGED suppressed
      /\ \/ Offer(latent', fresh)
         \/ pass' = [pass EXCEPT !.asking = @ \ {s}, !.fresh = fresh]
  BY DEF Recognized
<1>2. /\ new \in Seq(unseen) /\ Len(new) \in Nat /\ DOMAIN new = 1..Len(new)
      /\ \A n \in 1..Len(new) : new[n] \in unseen
      /\ \A m, n \in 1..Len(new) : new[m] = new[n] => m = n
  <2>1. IsFiniteSet(unseen)
    BY NeedsAssumption, FS_Subset
  <2> HIDE DEF unseen
  <2> QED BY <2>1, SeqOfSet
<1>3. /\ old \in Nat /\ Ids(latent) = 1..old
      /\ latent \in [1..old -> {latent[i] : i \in Ids(latent)}]
  BY RowsOf DEF NeedsInv
<1>4. /\ \A n \in 1..Len(new) : /\ IsRow(minted[n]) /\ minted[n].want = new[n]
                                /\ minted[n].state = "armed"
                                /\ minted[n].twin = twin(new[n])
      /\ minted = [n \in 1..Len(new) |-> minted[n]]
  <2> HIDE DEF new
  <2> QED BY <1>2 DEF IsRow, unseen
<1> HIDE DEF new, unseen, minted
<1> DEFINE All == {latent[i] : i \in 1..old} \union {minted[n] : n \in 1..Len(new)}
<1>5. latent \in Seq(All) /\ minted \in Seq(All) /\ Len(minted) = Len(new)
  <2>1. \A m \in 1..old : latent[m] \in All
    OBVIOUS
  <2>2. \A m \in 1..Len(new) : minted[m] \in All
    OBVIOUS
  <2>3. latent = [m \in 1..old |-> latent[m]]
    BY <1>3
  <2> HIDE DEF All, old
  <2> QED BY <2>1, <2>2, <2>3, <1>2, <1>3, <1>4, SeqOfFunction
<1> HIDE DEF All
<1>6. /\ latent' \in Seq(All) /\ Ids(latent') = 1..old + Len(new)
      /\ \A i \in 1..old : latent'[i] = latent[i]
      /\ \A n \in 1..Len(new) : latent'[old + n] = minted[n]
  <2> HIDE DEF old
  <2>1. latent' = latent \o minted /\ old = Len(latent)
    BY <1>1 DEF old
  <2>2. Joined(latent, minted, latent')
    BY <2>1, <1>5, Joining
  <2> QED BY SMTT(20), <1>2, <1>3, <1>5, <2>1, <2>2 DEF Joined, Ids
<1> HIDE DEF old
<1>7. AreRows(latent')
  <2>1. \A i \in 1..old : IsRow(latent[i])
    BY <1>3 DEF NeedsInv, AreRows
  <2>2. ASSUME NEW i \in Ids(latent') PROVE IsRow(latent'[i])
    <3>1. CASE i \in 1..old
      BY <2>1, <3>1, <1>6
    <3>2. CASE i \notin 1..old
      <4>1. i - old \in 1..Len(new) /\ i = old + (i - old)
        BY <3>2, <1>2, <1>3, <1>6
      <4> QED BY <4>1, <1>4, <1>6
    <3> QED BY <3>1, <3>2
  <2> QED BY <2>2, <1>6, RowsAre
<1>8. ASSUME NEW w \in Wants, ~HasTwin(latent', w)
      PROVE  Hushed(latent', suppressed, w)
  <2>1. ~HasTwin(latent, w)
    BY SMTT(20), <1>3, <1>6, <1>8 DEF HasTwin
  <2>2. Hushed(latent, suppressed, w)
    BY <2>1 DEF NeedsInv
  <2>3. \A i \in Wanted(latent', w) : i \in 1..old => i \in Wanted(latent, w)
    BY <1>3, <1>6 DEF Wanted, InState
  <2>4. ASSUME NEW n \in 1..Len(new), new[n] = w
        PROVE  w \notin suppressed /\ Wanted(latent, w) = {}
    <3>1. w \notin suppressed /\ w \in Recognizable(s)
      BY <1>1, <1>2, <2>4 DEF unseen, New
    <3>2. \A i \in pass.fresh : latent[i].want # w
      <4>1. old + n \in Ids(latent') /\ latent'[old + n] = minted[n] /\ minted[n].want = w
        <5>1. old + n \in 1..old + Len(new)
          BY <1>2, <1>3
        <5> QED BY <5>1, <1>4, <1>6, <2>4
      <4>2. ~latent'[old + n].twin
        BY <4>1, <1>8 DEF HasTwin
      <4>3. ~twin(new[n])
        BY <4>1, <4>2, <1>4
      <4> QED BY <4>3, <2>4
    <3>3. ASSUME NEW i \in Wanted(latent, w) PROVE FALSE
      <4>1. i \in Ids(latent) /\ latent[i].want = w /\ latent[i].state \in Active
        BY DEF Wanted, InState
      <4>2. Snapshot(pass.rows, pass.fresh, latent)
        BY <1>1 DEF NeedsInv
      <4>3. i \in Ids(pass.rows)
        BY <3>2, <4>1, <4>2 DEF Snapshot
      <4>4. i \in InState(pass.rows, Active) /\ pass.rows[i].want = w
        BY <4>1, <4>2, <4>3 DEF Snapshot, InState
      <4> QED BY <3>1, <4>4 DEF Recognizable
    <3> QED BY <3>1, <3>3
  <2>5. \A i \in Wanted(latent', w) : i \notin 1..old =>
          i - old \in 1..Len(new) /\ i = old + (i - old) /\ new[i - old] = w
    <3>1. ASSUME NEW i \in Wanted(latent', w), i \notin 1..old
          PROVE  i - old \in 1..Len(new) /\ i = old + (i - old) /\ new[i - old] = w
      <4>1. i \in Ids(latent') /\ latent'[i].want = w
        BY DEF Wanted, InState
      <4>2. i - old \in 1..Len(new) /\ i = old + (i - old)
        BY <3>1, <4>1, <1>2, <1>3, <1>6
      <4> QED BY ZenonT(40), <4>1, <4>2, <1>6, <1>4
    <3> QED BY <3>1
  <2>6. \A i, j \in Wanted(latent', w) : i = j
    <3> SUFFICES ASSUME NEW i \in Wanted(latent', w), NEW j \in Wanted(latent', w)
                 PROVE  i = j
      OBVIOUS
    <3>1. CASE i \in 1..old /\ j \in 1..old
      BY <3>1, <2>2, <2>3 DEF Hushed
    <3>2. CASE i \notin 1..old /\ j \notin 1..old
      BY <3>2, <2>5, <1>2
    <3>3. CASE (i \in 1..old /\ j \notin 1..old) \/ (i \notin 1..old /\ j \in 1..old)
      BY <3>3, <2>3, <2>4, <2>5
    <3> QED BY <3>1, <3>2, <3>3
  <2>7. w \in suppressed => Wanted(latent', w) = {}
    BY <2>2, <2>3, <2>4, <2>5 DEF Hushed
  <2> QED BY <2>6, <2>7 DEF Hushed
<1>9. IsPass' /\ (pass.stage = "recognizing" => Snapshot(pass.rows, pass.fresh, latent))'
  <2>1. CASE Offer(latent', fresh)
    BY <2>1, OfferPass
  <2>2. CASE pass' = [pass EXCEPT !.asking = @ \ {s}, !.fresh = fresh]
    <3>1. IsPass' /\ pass'.rows = pass.rows /\ pass'.fresh = fresh
      BY <2>2 DEF NeedsInv, IsPass
    <3>2. Snapshot(pass.rows, pass.fresh, latent)
      BY <1>1 DEF NeedsInv
    <3>3. Ids(pass.rows) \subseteq 1..old /\ Ids(latent') \ Ids(pass.rows) \subseteq fresh
      BY <1>2, <1>3, <1>6, <3>2 DEF Snapshot
    <3>4. \A i \in Ids(pass.rows) : latent'[i] = latent[i]
      BY <1>6, <3>3
    <3>5. Ids(pass.rows) \subseteq Ids(latent')
      BY <1>2, <1>3, <1>6, <3>3
    <3> QED BY <3>1, <3>2, <3>3, <3>4, <3>5 DEF Snapshot
  <2> QED BY <1>1, <2>1, <2>2
<1> QED BY <1>1, <1>7, <1>8, <1>9 DEF NeedsInv

(* A need is delivered: it is pending as before.                           *)
LEMMA VolunteerInv ==
  ASSUME NeedsInv, NEW s \in Talks, NEW apt \in SUBSET pass.offered, Volunteer(s, apt)
  PROVE  NeedsInv'
<1> DEFINE S == {i \in apt : StillOffered(i)}
<1>1. latent' = Become(latent, S, "surfaced") /\ UNCHANGED suppressed
  BY DEF Volunteer
<1>2. \A i \in S \intersect Ids(latent) : latent[i].state \in Active
  BY DEF StillOffered, Active
<1> HIDE DEF S
<1>3. RowsEnd(latent, latent')
  BY <1>1, <1>2, BecomeEnds DEF NeedsInv
<1>4. IsPass' /\ (pass.stage # "recognizing")'
  <2>1. pass.stage = "surfacing" /\ (pass' = Idling \/ pass' = [pass EXCEPT !.asking = @ \ {s}])
    BY DEF Volunteer
  <2>2. CASE pass' = Idling
    BY <2>2 DEF IsPass, Idling
  <2>3. CASE pass' = [pass EXCEPT !.asking = @ \ {s}]
    BY <2>1, <2>3 DEF NeedsInv, IsPass
  <2> QED BY <2>1, <2>2, <2>3
<1> QED BY <1>1, <1>3, <1>4, EndingInv

(* The user declines a need, which ends its row, or accepts it.            *)
LEMMA RespondToNeedInv ==
  ASSUME NeedsInv, NEW i \in Ids(latent), NEW declined \in BOOLEAN, RespondToNeed(i, declined)
  PROVE  NeedsInv'
<1> DEFINE state == IF declined THEN "suppressed" ELSE "resolved"
<1>1. /\ latent' = Become(latent, {i}, state) /\ UNCHANGED pass
      /\ suppressed' \ suppressed \subseteq {latent[i].want}
      /\ latent[i].state \in Active /\ state \notin Active
  BY DEF RespondToNeed, Active
<1> HIDE DEF state
<1>2. RowsEnd(latent, latent') /\ latent'[i].state = state
  BY <1>1, BecomeEnds DEF NeedsInv
<1>3. \A w \in suppressed' \ suppressed : \E j \in Wanted(latent, w) : latent'[j].state \notin Active
  BY <1>1, <1>2 DEF Wanted, InState
<1> QED BY <1>1, <1>2, <1>3, EndingInv DEF NeedsInv, IsPass

(* Rows of what is done are deleted.                                       *)
LEMMA PruneNeedsInv ==
  ASSUME NeedsInv, PruneNeeds
  PROVE  NeedsInv'
<1> DEFINE S == InState(latent, {"resolved", "suppressed"})
<1>1. latent' = Become(latent, S, "pruned") /\ UNCHANGED <<suppressed, pass>>
  BY DEF PruneNeeds
<1>2. "pruned" \notin Active
  BY DEF Active
<1> HIDE DEF S
<1>3. RowsEnd(latent, latent')
  BY <1>1, <1>2, BecomeEnds DEF NeedsInv
<1> QED BY <1>1, <1>3, EndingInv DEF NeedsInv, IsPass

(* Rows that stay have ended nothing.                                      *)
LEMMA NoChangeEnds ==
  ASSUME AreRows(latent), UNCHANGED latent
  PROVE  RowsEnd(latent, latent')
BY DEF RowsEnd

-----------------------------------------------------------------------------
(* Every step keeps one pending row of each content, twins apart.          *)
THEOREM NeedsInvariant == NeedsSpec => []NeedsInv
<1>1. ASSUME NeedsInv, [NeedsNext]_needsVars
      PROVE  NeedsInv'
  <2>1. CASE UNCHANGED <<latent, suppressed, pass>>
    BY <1>1, <2>1, NoChangeEnds, EndingInv DEF NeedsInv, IsPass
  <2>2. CASE NeedsReboot
    <3>1. IsPass' /\ (pass.stage # "recognizing")' /\ UNCHANGED <<latent, suppressed>>
      BY <2>2 DEF NeedsReboot, IsPass, Idling
    <3> QED BY <1>1, <3>1, NoChangeEnds, EndingInv DEF NeedsInv
  <2>3. CASE TickBegins \/ PruneNeeds
    BY <1>1, <2>3, TickBeginsInv, PruneNeedsInv
  <2>4. ASSUME NEW s \in Talks, NEW found \in SUBSET Wants, Recognized(s, found) PROVE NeedsInv'
    BY <1>1, <2>4, RecognizedInv
  <2>5. ASSUME NEW s \in Talks, NEW apt \in SUBSET pass.offered, Volunteer(s, apt) PROVE NeedsInv'
    BY <1>1, <2>5, VolunteerInv
  <2>6. ASSUME NEW i \in Ids(latent), NEW declined \in BOOLEAN, RespondToNeed(i, declined) PROVE NeedsInv'
    BY <1>1, <2>6, RespondToNeedInv
  <2>7. CASE \/ \E s \in Talks, want \in Wants, kind \in {"lacks", "has", "drops"} : Utter(s, want, kind)
             \/ BeginScan \/ \E apt \in SUBSET Ids(scan) : EndScan(apt)
             \/ \E i \in Ids(latent) : ReservationExpires(i)
             \/ UNCHANGED needsVars
    BY <2>1, <2>7 DEF Utter, BeginScan, EndScan, ReservationExpires, needsVars
  <2> QED BY <1>1, <2>2, <2>3, <2>4, <2>5, <2>6, <2>7 DEF NeedsNext
<1> QED BY <1>1, NeedsInitInv, PTL DEF NeedsSpec

(* A need that was declined or dropped is not pending, nor comes to be,    *)
(* but for one that two sessions let slip in the same tick.                *)
THEOREM DeclinedIsQuiet == NeedsSpec => []DeclinedStaysQuiet
<1>1. NeedsInv => DeclinedStaysQuiet
  <2> SUFFICES ASSUME NeedsInv, NEW i \in InState(latent, Active), latent[i].want \in suppressed
               PROVE  HasTwin(latent, latent[i].want)
    BY DEF DeclinedStaysQuiet, HasTwin
  <2>1. latent[i].want \in Wants
    BY DEF NeedsInv, AreRows, IsRow, InState
  <2>2. i \in Wanted(latent, latent[i].want)
    BY DEF Wanted
  <2> QED BY <2>1, <2>2 DEF NeedsInv, Hushed
<1> QED BY <1>1, NeedsInvariant, PTL

-----------------------------------------------------------------------------
(* The variables of the needs are of their types: a row is dated by what   *)
(* was said, and what is reserved, minted, offered or scanned is a row.    *)

NeedStates == Active \union {"resolved", "suppressed", "pruned"}
NeedRows == [want : Wants, at : 1..MaxUtterances, twin : BOOLEAN, state : NeedStates]

NeedsTyped ==
  /\ NeedsTypeOK
  /\ IsPass /\ pass.time \in Nat
  /\ Ids(scan) \subseteq Ids(latent)

(* Rows that change their state are rows.                                  *)
LEMMA BecomeTyped ==
  ASSUME NEW rows \in Seq(NeedRows), NEW S, NEW state \in NeedStates
  PROVE  Become(rows, S, state) \in Seq(NeedRows) /\ Ids(Become(rows, S, state)) = Ids(rows)
<1> DEFINE new == Become(rows, S, state)
<1>1. Len(rows) \in Nat /\ Ids(rows) = 1..Len(rows) /\ \A i \in 1..Len(rows) : rows[i] \in NeedRows
  BY DEF Ids
<1>2. new = [i \in 1..Len(rows) |-> IF i \in S THEN [rows[i] EXCEPT !.state = state] ELSE rows[i]]
  BY <1>1 DEF Become
<1>3. \A r \in NeedRows : [r EXCEPT !.state = state] \in NeedRows
  BY DEF NeedRows
<1>4. \A i \in 1..Len(rows) : new[i] \in NeedRows
  BY <1>1, <1>2, <1>3
<1>5. new \in [1..Len(rows) -> NeedRows]
  BY <1>2, <1>4
<1> QED BY <1>1, <1>5 DEF Ids

(* The store keeps its rows, and nothing refers to others.                 *)
LEMMA RowsStay ==
  ASSUME NeedsTyped, UNCHANGED <<uttered, window>>,
         latent' \in Seq(NeedRows), Ids(latent) \subseteq Ids(latent'),
         suppressed' \subseteq Wants, dirty' \subseteq Talks,
         reserved' \subseteq Ids(latent'),
         IsPass', pass'.time \in Nat, pass'.fresh \union pass'.offered \subseteq Ids(latent'),
         Ids(scan') \subseteq Ids(latent')
  PROVE  NeedsTyped'
BY DEF NeedsTyped, NeedsTypeOK, NeedRows, NeedStates

LEMMA SamePass ==
  ASSUME NeedsTyped, UNCHANGED pass
  PROVE  IsPass' /\ pass'.time \in Nat /\ pass'.fresh \union pass'.offered \subseteq Ids(latent)
BY DEF NeedsTyped, NeedsTypeOK, IsPass

LEMMA IdlePass ==
  ASSUME pass' = Idling
  PROVE  IsPass' /\ pass'.time \in Nat /\ pass'.fresh = {} /\ pass'.offered = {}
BY DEF Idling, IsPass

LEMMA OfferTyped ==
  ASSUME NEW rows, NEW fresh, Offer(rows, fresh)
  PROVE  IsPass' /\ pass'.time \in Nat /\ pass'.fresh = {} /\ pass'.offered \subseteq Ids(rows)
<1> DEFINE offered == InState(rows, {"armed"}) \ (fresh \union reserved)
<1>1. PICK live \in SUBSET Talks :
        pass' = IF live = {} \/ offered = {} THEN Idling
                ELSE [Idling EXCEPT !.stage = "surfacing", !.asking = live, !.offered = offered]
  BY DEF Offer
<1>2. offered \subseteq Ids(rows)
  BY DEF InState
<1> HIDE DEF offered
<1>3. CASE pass' = Idling
  BY <1>3, IdlePass
<1>4. CASE pass' = [Idling EXCEPT !.stage = "surfacing", !.asking = live, !.offered = offered]
  BY <1>2, <1>4 DEF IsPass, Idling
<1> QED BY <1>1, <1>3, <1>4

LEMMA SweepTyped ==
  ASSUME NEW D, NEW rows \in Seq(NeedRows), suppressed \subseteq Wants, Sweep(D, rows)
  PROVE  latent' \in Seq(NeedRows) /\ Ids(latent') = Ids(rows) /\ suppressed' \subseteq Wants
<1> DEFINE found == [i \in Ids(rows) |-> IF rows[i].state = "armed"
                                         THEN UNION {Verdicts(rows[i], s) : s \in D} ELSE {}]
           some == {i \in Ids(rows) : found[i] # {}}
<1>1. PICK has : latent' = Become(Become(rows, some \ has, "suppressed"), has, "resolved")
  BY DEF Sweep
<1>2. suppressed' = suppressed \union {rows[i].want : i \in {j \in Ids(rows) : "drops" \in found[j]}}
  BY DEF Sweep
<1>3. \A i \in Ids(rows) : rows[i].want \in Wants
  <2>1. \A i \in Ids(rows) : rows[i] \in NeedRows
    BY DEF Ids
  <2> QED BY <2>1 DEF NeedRows
<1> HIDE DEF found, some
<1>4. {"suppressed", "resolved"} \subseteq NeedStates
  BY DEF NeedStates
<1>5. /\ Become(rows, some \ has, "suppressed") \in Seq(NeedRows)
      /\ Ids(Become(rows, some \ has, "suppressed")) = Ids(rows)
  BY <1>4, BecomeTyped
<1> QED BY <1>1, <1>2, <1>3, <1>4, <1>5, BecomeTyped

(* Something is said.                                                      *)
LEMMA UtterTyped ==
  ASSUME NeedsTyped, NEW s \in Talks, NEW want \in Wants, NEW kind \in {"lacks", "has", "drops"},
         Utter(s, want, kind)
  PROVE  NeedsTyped'
<1> DEFINE T == [at : 1..MaxUtterances, want : Wants, kind : {"lacks", "has", "drops"}]
           t == [at |-> uttered', want |-> want, kind |-> kind]
<1>1. /\ uttered < MaxUtterances /\ uttered' = uttered + 1
      /\ window' = [window EXCEPT ![s] = @ \union {t}] /\ dirty' = dirty \union {s}
      /\ UNCHANGED <<latent, suppressed, reserved, pass, scan>>
  BY DEF Utter
<1>2. uttered' \in 0..MaxUtterances /\ uttered' \in 1..MaxUtterances
  BY <1>1, NeedsAssumption DEF NeedsTyped, NeedsTypeOK
<1>3. t \in T
  BY <1>2
<1>4. window \in [Talks -> SUBSET T]
  BY DEF NeedsTyped, NeedsTypeOK
<1> HIDE DEF T, t
<1>5. window' \in [Talks -> SUBSET T]
  BY <1>1, <1>3, <1>4
<1> QED BY <1>1, <1>2, <1>5 DEF T, NeedsTyped, NeedsTypeOK, IsPass

LEMMA TickBeginsTyped ==
  ASSUME NeedsTyped, TickBegins
  PROVE  NeedsTyped'
<1>1. /\ latent \in Seq(NeedRows) /\ suppressed \subseteq Wants /\ uttered \in Nat
      /\ reserved \subseteq Ids(latent) /\ Ids(scan) \subseteq Ids(latent)
  BY NeedsAssumption DEF NeedsTyped, NeedsTypeOK, NeedRows, NeedStates
<1>0. PICK awake \in SUBSET dirty :
        /\ Sweep(awake, latent)
        /\ IF awake = {} THEN Offer(latent', {})
           ELSE pass' = [Idling EXCEPT !.stage = "recognizing", !.asking = awake,
                                       !.time = uttered, !.rows = latent']
  BY DEF TickBegins
<1>2. latent' \in Seq(NeedRows) /\ Ids(latent') = Ids(latent) /\ suppressed' \subseteq Wants
  BY <1>0, <1>1, SweepTyped
<1>3. IsPass' /\ pass'.time \in Nat /\ pass'.fresh \union pass'.offered \subseteq Ids(latent')
  <2>1. CASE awake = {}
    BY <1>0, <2>1, OfferTyped
  <2>2. CASE awake # {}
    <3>1. pass' = [Idling EXCEPT !.stage = "recognizing", !.asking = awake,
                                 !.time = uttered, !.rows = latent']
      BY <1>0, <2>2
    <3> QED BY <1>1, <3>1 DEF Idling, IsPass
  <2> QED BY <2>1, <2>2
<1>4. dirty' = {} /\ UNCHANGED <<uttered, window, reserved, scan>>
  BY DEF TickBegins
<1> QED BY <1>1, <1>2, <1>3, <1>4, RowsStay

(* Of a set of natural numbers that are at most n one is the greatest.     *)
LEMMA LatestOf ==
  ASSUME NEW n \in Nat, NEW S \in SUBSET (0..n), S # {}
  PROVE  \E x \in S : \A y \in S : y <= x
<1> DEFINE R == OpToRel(<, Nat)
           T == {n - x : x \in S}
<1>0. IsWellFoundedOn(R, Nat)
  BY NatLessThanWellFounded
<1>1. \A x, y \in Nat : x < y => <<x, y>> \in R
  BY DEF OpToRel
<1>2. T \subseteq Nat /\ T # {}
  <2>1. \A x \in S : x \in 0..n /\ n - x \in Nat
    OBVIOUS
  <2> QED BY <2>1
<1> HIDE DEF R
<1>3. PICK t \in T : \A y \in T : ~(<<y, t>> \in R)
  <2> HIDE DEF T
  <2> QED BY <1>0, <1>2, WFMin
<1>4. PICK x \in S : t = n - x
  BY <1>3
<1>5. ASSUME NEW y \in S PROVE y <= x
  <2>1. n - y \in T /\ n - y \in Nat /\ n - x \in Nat /\ x \in 0..n /\ y \in 0..n
    BY <1>4
  <2> HIDE DEF T
  <2>2. ~(n - y < n - x)
    BY <1>1, <1>3, <1>4, <2>1
  <2> QED BY <2>1, <2>2
<1> QED BY <1>5

(* What the recognizer returns was said, and so is dated.                  *)
LEMMA LastTurnDated ==
  ASSUME NeedsTyped, NEW s \in Talks, NEW w \in Recognizable(s)
  PROVE  LastTurn(s) \in 1..MaxUtterances
<1> DEFINE A == {t.at : t \in window[s]}
           B == {n \in A : n <= pass.time}
<1>1. \A t \in window[s] : t.at \in 1..MaxUtterances
  BY DEF NeedsTyped, NeedsTypeOK
<1>2. B # {} /\ B \subseteq 0..MaxUtterances
  <2>1. PICK t \in window[s] : t.at <= pass.time
    BY DEF Recognizable
  <2> QED BY <1>1, <2>1
<1>3. MaxUtterances \in Nat
  BY NeedsAssumption
<1>4. PICK x \in B : \A y \in B : y <= x
  <2> HIDE DEF B
  <2> QED BY <1>2, <1>3, LatestOf
<1>5. x \in A /\ x <= pass.time /\ \A t \in window[s] : t.at <= pass.time => t.at <= x
  BY <1>4
<1>6. LastTurn(s) \in A
  BY <1>5 DEF LastTurn
<1> QED BY <1>1, <1>6

LEMMA RecognizedTyped ==
  ASSUME NeedsTyped, NEW s \in Talks, NEW found \in SUBSET Wants, Recognized(s, found)
  PROVE  NeedsTyped'
<1> DEFINE unseen == {w \in found : New(w, s)}
           new == SetToSeq(unseen)
           twin(w) == \E i \in pass.fresh : latent[i].want = w
           minted == [n \in DOMAIN new |-> [want |-> new[n], state |-> "armed", at |-> LastTurn(s),
                                            twin |-> twin(new[n])]]
           old == Len(latent)
           fresh == pass.fresh \union (old + 1 .. old + Len(new))
<1>1. /\ found \subseteq Recognizable(s) /\ latent' = latent \o minted
      /\ \/ Offer(latent', fresh)
         \/ pass' = [pass EXCEPT !.asking = @ \ {s}, !.fresh = fresh]
      /\ UNCHANGED <<uttered, window, dirty, suppressed, reserved, scan>>
  BY DEF Recognized
<1>2. /\ new \in Seq(unseen) /\ Len(new) \in Nat /\ DOMAIN new = 1..Len(new)
      /\ \A n \in 1..Len(new) : new[n] \in unseen
  <2>1. IsFiniteSet(unseen)
    BY NeedsAssumption, FS_Subset
  <2> HIDE DEF unseen
  <2> QED BY <2>1, SeqOfSet
<1>3. minted \in Seq(NeedRows) /\ Len(minted) = Len(new)
  <2>1. \A n \in 1..Len(new) : /\ new[n] \in Wants /\ LastTurn(s) \in 1..MaxUtterances
                               /\ twin(new[n]) \in BOOLEAN
    <3> SUFFICES ASSUME NEW n \in 1..Len(new)
                 PROVE  new[n] \in Wants /\ LastTurn(s) \in 1..MaxUtterances
      OBVIOUS
    <3>1. new[n] \in found
      BY <1>2 DEF unseen
    <3>2. new[n] \in Recognizable(s)
      BY <1>1, <3>1
    <3> QED BY <3>1, <3>2, LastTurnDated
  <2>2. "armed" \in NeedStates
    BY DEF NeedStates, Active
  <2> HIDE DEF new, twin
  <2>3. \A n \in 1..Len(new) : [want |-> new[n], state |-> "armed", at |-> LastTurn(s),
                                twin |-> twin(new[n])] \in NeedRows
    BY <2>1, <2>2 DEF NeedRows
  <2>4. minted \in [1..Len(new) -> NeedRows]
    BY <1>2, <2>3
  <2> QED BY <1>2, <2>4
<1> HIDE DEF minted, new, unseen
<1>4. latent \in Seq(NeedRows) /\ Ids(latent) = 1..old /\ old \in Nat
  BY DEF NeedsTyped, NeedsTypeOK, NeedRows, NeedStates, Ids
<1>5. latent' \in Seq(NeedRows) /\ Ids(latent') = 1..old + Len(new)
  <2>1. latent \o minted \in Seq(NeedRows) /\ Len(latent \o minted) = Len(latent) + Len(minted)
    BY <1>3, <1>4, ConcatProperties
  <2> QED BY <1>1, <1>3, <2>1 DEF Ids
<1>6. Ids(latent) \subseteq Ids(latent') /\ fresh \subseteq Ids(latent')
  <2>1. pass.fresh \subseteq Ids(latent)
    BY DEF NeedsTyped, NeedsTypeOK
  <2> HIDE DEF old
  <2> QED BY <1>2, <1>4, <1>5, <2>1
<1> HIDE DEF fresh, old
<1>7. IsPass' /\ pass'.time \in Nat /\ pass'.fresh \union pass'.offered \subseteq Ids(latent')
  <2>1. CASE Offer(latent', fresh)
    BY <2>1, OfferTyped
  <2>2. CASE pass' = [pass EXCEPT !.asking = @ \ {s}, !.fresh = fresh]
    <3>1. IsPass /\ pass.time \in Nat /\ pass.offered \subseteq Ids(latent)
      BY DEF NeedsTyped, NeedsTypeOK
    <3>2. /\ IsPass' /\ pass'.time = pass.time /\ pass'.fresh = fresh
          /\ pass'.offered = pass.offered
      BY <2>2, <3>1 DEF IsPass
    <3> QED BY <1>6, <3>1, <3>2
  <2> QED BY <1>1, <2>1, <2>2
<1> QED BY <1>1, <1>5, <1>6, <1>7, RowsStay DEF NeedsTyped, NeedsTypeOK

LEMMA VolunteerTyped ==
  ASSUME NeedsTyped, NEW s \in Talks, NEW apt \in SUBSET pass.offered, Volunteer(s, apt)
  PROVE  NeedsTyped'
<1> DEFINE S == {i \in apt : StillOffered(i)}
<1>1. /\ latent' = Become(latent, S, "surfaced")
      /\ pass' = Idling \/ pass' = [pass EXCEPT !.asking = @ \ {s}]
      /\ UNCHANGED <<uttered, window, dirty, suppressed, reserved, scan>>
  BY DEF Volunteer
<1>2. latent \in Seq(NeedRows) /\ "surfaced" \in NeedStates
  BY DEF NeedsTyped, NeedsTypeOK, NeedRows, NeedStates, Active
<1> HIDE DEF S
<1>3. latent' \in Seq(NeedRows) /\ Ids(latent') = Ids(latent)
  BY <1>1, <1>2, BecomeTyped
<1>4. IsPass' /\ pass'.time \in Nat /\ pass'.fresh \union pass'.offered \subseteq Ids(latent)
  <2>1. CASE pass' = Idling
    BY <2>1, IdlePass
  <2>2. CASE pass' = [pass EXCEPT !.asking = @ \ {s}]
    BY <2>2 DEF NeedsTyped, NeedsTypeOK, IsPass
  <2> QED BY <1>1, <2>1, <2>2
<1> QED BY <1>1, <1>3, <1>4, RowsStay DEF NeedsTyped, NeedsTypeOK

(* The other steps move no row but to another state.                       *)
LEMMA OthersTyped ==
  ASSUME NeedsTyped, NeedsNext,
         \/ \E i \in Ids(latent) : ReservationExpires(i)
         \/ \E i \in Ids(latent), declined \in BOOLEAN : RespondToNeed(i, declined)
         \/ BeginScan \/ \E apt \in SUBSET Ids(scan) : EndScan(apt)
         \/ PruneNeeds \/ NeedsReboot
  PROVE  NeedsTyped'
<1>1. /\ latent \in Seq(NeedRows) /\ suppressed \subseteq Wants /\ dirty \subseteq Talks
      /\ reserved \subseteq Ids(latent) /\ Ids(scan) \subseteq Ids(latent)
      /\ \A i \in Ids(latent) : latent[i].want \in Wants
  <2>1. latent \in Seq(NeedRows)
    BY DEF NeedsTyped, NeedsTypeOK, NeedRows, NeedStates
  <2>2. \A i \in Ids(latent) : latent[i] \in NeedRows
    BY <2>1 DEF Ids
  <2> QED BY <2>1, <2>2 DEF NeedsTyped, NeedsTypeOK, NeedRows
<1>2. ASSUME NEW i \in Ids(latent), ReservationExpires(i) PROVE NeedsTyped'
  BY <1>1, <1>2, SamePass, RowsStay DEF ReservationExpires
<1>3. ASSUME NEW i \in Ids(latent), NEW declined \in BOOLEAN, RespondToNeed(i, declined)
      PROVE  NeedsTyped'
  <2> DEFINE state == IF declined THEN "suppressed" ELSE "resolved"
  <2>1. /\ latent' = Become(latent, {i}, state) /\ state \in NeedStates
        /\ suppressed' \subseteq suppressed \union {latent[i].want}
        /\ UNCHANGED <<uttered, window, dirty, reserved, pass, scan>>
    BY <1>3 DEF RespondToNeed, NeedStates
  <2> HIDE DEF state
  <2>2. latent' \in Seq(NeedRows) /\ Ids(latent') = Ids(latent)
    BY <1>1, <2>1, BecomeTyped
  <2> QED BY <1>1, <2>1, <2>2, SamePass, RowsStay
<1>4. CASE BeginScan
  BY <1>1, <1>4, SamePass, RowsStay DEF BeginScan
<1>5. ASSUME NEW apt \in SUBSET Ids(scan), EndScan(apt) PROVE NeedsTyped'
  <2>1. /\ reserved' \subseteq reserved \union apt /\ scan' = <<>>
        /\ UNCHANGED <<uttered, window, dirty, latent, suppressed, pass>>
    BY <1>5 DEF EndScan
  <2>2. Ids(<<>>) = {}
    BY DEF Ids
  <2> QED BY <1>1, <2>1, <2>2, SamePass, RowsStay
<1>6. CASE PruneNeeds
  <2> DEFINE S == InState(latent, {"resolved", "suppressed"})
  <2>1. /\ latent' = Become(latent, S, "pruned") /\ "pruned" \in NeedStates
        /\ UNCHANGED <<uttered, window, dirty, suppressed, reserved, pass, scan>>
    BY <1>6 DEF PruneNeeds, NeedStates
  <2> HIDE DEF S
  <2>2. latent' \in Seq(NeedRows) /\ Ids(latent') = Ids(latent)
    BY <1>1, <2>1, BecomeTyped
  <2> QED BY <1>1, <2>1, <2>2, SamePass, RowsStay
<1>7. CASE NeedsReboot
  <2>1. /\ window' = [t \in Talks |-> {}] /\ dirty' = {} /\ reserved' = {} /\ pass' = Idling
        /\ scan' = <<>> /\ UNCHANGED <<uttered, latent, suppressed>>
    BY <1>7 DEF NeedsReboot
  <2>2. Ids(<<>>) = {}
    BY DEF Ids
  <2> QED BY <2>1, <2>2, IdlePass DEF NeedsTyped, NeedsTypeOK
<1> QED BY <1>2, <1>3, <1>4, <1>5, <1>6, <1>7

(* The variables of the needs are of their types, and everything that      *)
(* refers to a row refers to one of the store.                             *)
THEOREM NeedsAreTyped == NeedsSpec => []NeedsTypeOK
<1>1. NeedsInit => NeedsTyped
  <2> SUFFICES ASSUME NeedsInit PROVE NeedsTyped
    OBVIOUS
  <2>1. /\ uttered = 0 /\ window = [s \in Talks |-> {}] /\ dirty = {} /\ latent = <<>>
        /\ suppressed = {} /\ reserved = {} /\ pass = Idling /\ scan = <<>>
    BY DEF NeedsInit
  <2>2. IsPass /\ pass.time \in Nat /\ pass.fresh = {} /\ pass.offered = {}
    BY <2>1 DEF IsPass, Idling
  <2>3. uttered \in 0..MaxUtterances
    BY <2>1, NeedsAssumption
  <2>4. Ids(<<>>) = {} /\ <<>> \in Seq(NeedRows)
    BY DEF Ids
  <2> QED BY <2>1, <2>2, <2>3, <2>4 DEF NeedsTyped, NeedsTypeOK, NeedRows, NeedStates
<1>2. NeedsTyped /\ [NeedsNext]_needsVars => NeedsTyped'
  <2> SUFFICES ASSUME NeedsTyped, [NeedsNext]_needsVars PROVE NeedsTyped'
    OBVIOUS
  <2>1. CASE UNCHANGED needsVars
    BY <2>1 DEF needsVars, NeedsTyped, NeedsTypeOK, IsPass
  <2>2. CASE NeedsNext
    BY <2>2, UtterTyped, TickBeginsTyped, RecognizedTyped, VolunteerTyped, OthersTyped
       DEF NeedsNext
  <2> QED BY <2>1, <2>2
<1>3. NeedsTyped => NeedsTypeOK
  BY DEF NeedsTyped
<1> QED BY <1>1, <1>2, <1>3, PTL DEF NeedsSpec
=============================================================================
