----------------------------- MODULE CommandLanes ------------------------------
(***************************************************************************)
(* The command lanes of the gateway: src/src/gateway/command-queue.ts and  *)
(* executeInSession() of lanes.ts.                                         *)
(*                                                                         *)
(* A turn takes a place in the lane of its session, which has one, and     *)
(* there waits for a place in a global lane (Main, Cron, ...), which has   *)
(* several.  A lane is a queue and the set of the turns that hold a place. *)
(*                                                                         *)
(* drainLane() is a loop, but what calls it adds one entry or frees one    *)
(* place: it starts one entry at most.  NoIdlePlace says that nothing is   *)
(* ever left for a second iteration.  Lane lengths are those set at        *)
(* startup; resetAllLanes() and clearCommandLane() have no caller in the   *)
(* program, and a provider swap runs within one event, so that no turn     *)
(* meets its flag.                                                         *)
(***************************************************************************)
EXTENDS Naturals, Sequences, FiniteSets

CONSTANTS
  Turns,      \* turns asked for
  Sessions,   \* session lanes
  Globals,    \* global lanes
  SessionOf,  \* session of each turn
  GlobalOf,   \* global lane of each turn
  LaneLimit       \* places of each global lane

ASSUME LanesAssumption ==
  /\ SessionOf \in [Turns -> Sessions]
  /\ GlobalOf \in [Turns -> Globals]
  /\ Sessions \intersect Globals = {}
  /\ LaneLimit \in [Globals -> Nat \ {0}]

VARIABLES
  lane,      \* queue and active task ids of each lane
  draining,  \* gatewayDraining
  promise    \* what the caller's promise of each turn has come to

lanesVars == <<lane, draining, promise>>

Lanes == Sessions \union Globals
Places(l) == IF l \in Sessions THEN 1 ELSE LaneLimit[l]

Queued(l) == {lane[l].queue[i] : i \in DOMAIN lane[l].queue}
Holds(t) == t \in lane[SessionOf[t]].active
Executes(t) == t \in lane[GlobalOf[t]].active
Executing == {t \in Turns : Executes(t)}
QueueSize(l) == Len(lane[l].queue) + Cardinality(lane[l].active)

LanesInit ==
  /\ lane = [l \in Lanes |-> [queue |-> <<>>, active |-> {}]]
  /\ draining = FALSE
  /\ promise = [t \in Turns |-> "none"]

(* Mutant: a lane takes one more than its places.                          *)
MayStartOneMore(r, l) == r.queue # <<>> /\ Cardinality(r.active) <= Places(l)

(* drainLane(): the head of the queue takes a free place.                  *)
MayStart(r, l) == r.queue # <<>> /\ Cardinality(r.active) < Places(l)
StartHead(r) == [queue |-> Tail(r.queue), active |-> r.active \union {Head(r.queue)}]
Pump(ls, l) == IF MayStart(ls[l], l) THEN [ls EXCEPT ![l] = StartHead(@)] ELSE ls

(* enqueueCommandInLane() of a gateway that is not draining                *)
Enqueue(ls, l, t) == Pump([ls EXCEPT ![l].queue = Append(@, t)], l)

Leave(ls, l, t) == [ls EXCEPT ![l].active = @ \ {t}]

(* The task of the session's next entry asks for a place in its global     *)
(* lane, which a draining gateway refuses: the entry then holds its place  *)
(* until that rejection reaches it.                                        *)
PumpSession(ls, s) ==
  IF MayStart(ls[s], s) /\ ~draining
  THEN LET t == Head(ls[s].queue) IN Enqueue(Pump(ls, s), GlobalOf[t], t)
  ELSE Pump(ls, s)

(* executeInSession()                                                      *)
ExecuteInSession(t) ==
  /\ promise[t] = "none"
  /\ IF draining
     THEN promise' = [promise EXCEPT ![t] = "rejected"] /\ UNCHANGED lane
     ELSE /\ promise' = [promise EXCEPT ![t] = "pending"]
          /\ lane' = LET s == SessionOf[t]
                     IN  PumpSession([lane EXCEPT ![s].queue = Append(@, t)], s)
  /\ UNCHANGED draining

(* Mutant: the global place is given back, but the lane is not drained.    *)
FinishTurnUndrained(t, outcome) ==
  /\ Executes(t)
  /\ lane' = Leave(lane, GlobalOf[t], t)
  /\ promise' = [promise EXCEPT ![t] = outcome]
  /\ UNCHANGED draining

(* The turn's own promise settles: its place in the global lane goes to    *)
(* the next in it.  outcome is what the session's entry will settle with.  *)
FinishTurn(t, outcome) ==
  /\ Executes(t)
  /\ lane' = Pump(Leave(lane, GlobalOf[t], t), GlobalOf[t])
  /\ promise' = [promise EXCEPT ![t] = outcome]
  /\ UNCHANGED draining

(* The settled inner promise reaches the session's entry, whose place goes *)
(* to the next in the session.  An entry that has not been executed was    *)
(* refused by the draining gateway.                                        *)
Returned(t) == Holds(t) /\ ~Executes(t) /\ t \notin Queued(GlobalOf[t])
ReleaseSession(t) ==
  /\ Returned(t)
  /\ lane' = LET s == SessionOf[t] IN PumpSession(Leave(lane, s, t), s)
  /\ promise' = [promise EXCEPT ![t] = IF @ = "pending" THEN "rejected" ELSE @]
  /\ UNCHANGED draining

(* The caller has seen its promise settle and may ask for the turn again.  *)
Settled(t) == promise[t] \in {"resolved", "failed", "rejected"} /\ ~Holds(t)
Taken(t) == Settled(t) /\ promise' = [promise EXCEPT ![t] = "none"] /\ UNCHANGED <<lane, draining>>

(* markGatewayDraining()                                                   *)
MarkGatewayDraining == draining' = TRUE /\ UNCHANGED <<lane, promise>>

(* Mutant: only the queues are looked at.                                  *)
DrainedQueues == \A l \in Lanes : lane[l].queue = <<>>

(* check() of waitForActiveTasks()                                         *)
Drained == \A l \in Lanes : QueueSize(l) = 0

Ends(t) == \E outcome \in {"resolved", "failed"} : FinishTurn(t, outcome)

LanesNext ==
  \/ \E t \in Turns :
       \/ ExecuteInSession(t)
       \/ Ends(t)
       \/ ReleaseSession(t)
       \/ Taken(t)
  \/ MarkGatewayDraining

LanesSpec == LanesInit /\ [][LanesNext]_lanesVars

(* A turn that executes ends, and the event loop runs what then follows.   *)
FairLanesSpec ==
  /\ LanesSpec
  /\ \A t \in Turns : WF_lanesVars(Ends(t)) /\ WF_lanesVars(ReleaseSession(t))
-----------------------------------------------------------------------------
LanesTypeOK ==
  /\ lane \in [Lanes -> [queue : Seq(Turns), active : SUBSET Turns]]
  /\ draining \in BOOLEAN
  /\ promise \in [Turns -> {"none", "pending", "resolved", "failed", "rejected"}]

(* "Two messages in the same session are always serialized", and a global  *)
(* lane never executes more turns than it has places: lanes.ts:51.         *)
TurnsSerialized ==
  /\ \A t, u \in Executing : t # u => SessionOf[t] # SessionOf[u]
  /\ \A l \in Lanes : Cardinality(lane[l].active) <= Places(l)

(* No wake-up is lost: a lane with a free place has nobody waiting.        *)
NoIdlePlace == \A l \in Lanes : lane[l].queue # <<>> => Cardinality(lane[l].active) = Places(l)

(* A turn asked for settles, whatever waits in its session and in its      *)
(* lane: a turn waits for its second place while it holds the first, and   *)
(* every place that comes free is handed on.                               *)
TurnsSettle == \A t \in Turns : promise[t] = "pending" ~> promise[t] # "pending"
=============================================================================
