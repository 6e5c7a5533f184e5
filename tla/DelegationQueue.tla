--------------------------- MODULE DelegationQueue ---------------------------
(***************************************************************************)
(* The queue in front of the delegated tasks' executor:                    *)
(* src/src/gateway/delegation-queue.ts.  Each member of Calls is one call  *)
(* of run(key, readOnly, signal, work).                                    *)
(*                                                                         *)
(* The array `waiting` of the class is kept as `index`, the place of each  *)
(* call in it, counted from 1, or 0; the Map `active` is the function      *)
(* `active`.  DelegationDrain says which calls drain() starts.             *)
(***************************************************************************)
EXTENDS DelegationDrain

CONSTANTS
  Calls,  \* the calls of run() ever made
  None    \* the key of a call not made yet

ASSUME QueueAssumption ==
  /\ IsFiniteSet(Calls)
  /\ None \notin Keys

VARIABLES
  phase,    \* where each call is between run() and its last callback
  job,      \* key and readOnly of each call
  index,    \* place of each call in the waiting array
  active,   \* the Map from key to readOnly
  aborted   \* calls whose AbortSignal has fired

vars == <<phase, job, index, active, aborted>>

Phases == {"idle",      \* run() not called
           "waiting",   \* in the waiting array
           "starting",  \* start() ran, its first microtask has not
           "working",   \* work() is executing
           "resolved", "rejected",  \* settled, finally() not run yet
           "released",  \* finally() has run
           "refused"}   \* rejected without having been started
Jobs == [key: Keys \union {None}, readOnly: BOOLEAN]

Running == {i \in Calls : phase[i] \in {"starting", "working", "resolved", "rejected"}}
Waiting == {i \in Calls : phase[i] = "waiting"}

-----------------------------------------------------------------------------
(* drain() of the array whose items are in phase "waiting" in ph, at their *)
(* places in idx, with the Map act: every chosen item is spliced out, and  *)
(* its start() puts its key in the Map.                                    *)
Drain(ph, jb, idx, act) ==
  LET array == {i \in Calls : ph[i] = "waiting"}
      go == Chosen(array, jb, idx, act)
      rest == array \ go
  IN  /\ phase' = [i \in Calls |-> IF i \in go THEN "starting" ELSE ph[i]]
      /\ index' = [i \in Calls |->
                     IF i \in rest THEN Cardinality(Before(i, rest, idx)) + 1 ELSE 0]
      /\ active' = [k \in Keys |->
                      IF \E i \in go : jb[i].key = k
                      THEN Mode(jb[CHOOSE i \in go : jb[i].key = k])
                      ELSE act[k]]

(* The reason drain() shows each item it leaves in the array.              *)
Reason(i) ==
  IF active[job[i].key] # "none" THEN "previous turn"
  ELSE IF WriterActive(active) \/ ~job[i].readOnly THEN "exclusive access"
  ELSE IF Cardinality(Held(active)) >= Limit THEN "workers busy"
  ELSE "earlier change"

-----------------------------------------------------------------------------
Init ==
  /\ phase = [i \in Calls |-> "idle"]
  /\ job = [i \in Calls |-> [key |-> None, readOnly |-> TRUE]]
  /\ index = [i \in Calls |-> 0]
  /\ active = [k \in Keys |-> "none"]
  /\ aborted = {}

(* run(): a signal that has fired already rejects at once; otherwise the   *)
(* item is pushed and the array drained.                                   *)
Run(i, k, ro) ==
  /\ phase[i] = "idle"
  /\ job' = [job EXCEPT ![i] = [key |-> k, readOnly |-> ro]]
  /\ IF i \in aborted
     THEN /\ phase' = [phase EXCEPT ![i] = "refused"]
          /\ UNCHANGED <<index, active>>
     ELSE Drain([phase EXCEPT ![i] = "waiting"], job',
                [index EXCEPT ![i] = Cardinality(Waiting) + 1], active)
  /\ UNCHANGED aborted

(* Mutant: the item leaves the array without a drain behind it.            *)
AbortWithoutDrain(i) ==
  /\ aborted' = aborted \union {i}
  /\ IF i \notin aborted /\ phase[i] = "waiting"
     THEN /\ phase' = [phase EXCEPT ![i] = "refused"]
          /\ index' = [j \in Calls |->
                IF j = i THEN 0 ELSE IF index[j] > index[i] THEN index[j] - 1 ELSE index[j]]
     ELSE UNCHANGED <<phase, index>>
  /\ UNCHANGED <<job, active>>

(* controller.abort(): the first time, a waiting item leaves the array and *)
(* rejects; an item already started only sees its signal.                  *)
Abort(i) ==
  /\ aborted' = aborted \union {i}
  /\ IF i \notin aborted /\ phase[i] = "waiting"
     THEN Drain([phase EXCEPT ![i] = "refused"], job, index, active)
     ELSE UNCHANGED <<phase, index, active>>
  /\ UNCHANGED job

(* the microtask of start(): throwIfAborted, then work()                   *)
Begin(i) ==
  /\ phase[i] = "starting"
  /\ phase' = [phase EXCEPT ![i] = IF i \in aborted THEN "rejected" ELSE "working"]
  /\ UNCHANGED <<job, index, active, aborted>>

(* work() settles the promise run() returned                               *)
Finish(i, outcome) ==
  /\ phase[i] = "working"
  /\ phase' = [phase EXCEPT ![i] = outcome]
  /\ UNCHANGED <<job, index, active, aborted>>

(* Mutant: the key is released and the array is not drained.               *)
FinallyWithoutDrain(i) ==
  /\ phase[i] \in {"resolved", "rejected"}
  /\ phase' = [phase EXCEPT ![i] = "released"]
  /\ active' = [active EXCEPT ![job[i].key] = "none"]
  /\ UNCHANGED <<job, index, aborted>>

(* finally(): release the key and drain                                    *)
Finally(i) ==
  /\ phase[i] \in {"resolved", "rejected"}
  /\ Drain([phase EXCEPT ![i] = "released"], job, index,
           [active EXCEPT ![job[i].key] = "none"])
  /\ UNCHANGED <<job, aborted>>

Next ==
  \E i \in Calls :
    \/ \E k \in Keys, ro \in BOOLEAN : Run(i, k, ro)
    \/ i \notin aborted /\ Abort(i)
    \/ Begin(i)
    \/ \E outcome \in {"resolved", "rejected"} : Finish(i, outcome)
    \/ Finally(i)

(* Microtasks run, and work() settles: a delegated turn has a deadline     *)
(* after which it is cancelled.  Nothing obliges a client to call or abort.*)
Fairness ==
  \A i \in Calls :
    /\ WF_vars(Begin(i))
    /\ WF_vars(\E outcome \in {"resolved", "rejected"} : Finish(i, outcome))
    /\ WF_vars(Finally(i))

Spec == Init /\ [][Next]_vars
FairSpec == Spec /\ Fairness

-----------------------------------------------------------------------------
TypeOK ==
  /\ phase \in [Calls -> Phases]
  /\ job \in [Calls -> Jobs]
  /\ index \in [Calls -> 0..Cardinality(Calls)]
  /\ \A i \in Calls : index[i] > 0 <=> phase[i] = "waiting"
  /\ active \in [Keys -> Access]
  /\ aborted \subseteq Calls

(* What the class comment promises of the calls between start() and        *)
(* finally(): two readers may run together, a writer runs alone, and a     *)
(* session key is in one turn at a time; never more than Limit.            *)
MutualExclusion ==
  /\ \A i, j \in Running :
       i # j => /\ job[i].readOnly /\ job[j].readOnly
                /\ job[i].key # job[j].key
  /\ Cardinality(Running) <= Limit

(* The Map holds exactly the keys of the running calls, in their mode: a   *)
(* key deleted by the wrong finally(), or never deleted, breaks it.        *)
ActiveMatchesRunning ==
  /\ \A i \in Running : active[job[i].key] = Mode(job[i])
  /\ \A k \in Keys : active[k] # "none" => \E i \in Running : job[i].key = k

(* No lost drain: a call left in the array really has the obstacle that    *)
(* drain() reports to the user as its queueReason.                         *)
WaitsOnlyForItsReason ==
  \A i \in Waiting :
    CASE Reason(i) = "previous turn" -> \E j \in Running : job[j].key = job[i].key
      [] Reason(i) = "exclusive access" ->
           \/ \E j \in Running : ~job[j].readOnly
           \/ ~job[i].readOnly /\ (Running # {} \/ Before(i, Waiting, index) # {})
      [] Reason(i) = "workers busy" -> Cardinality(Running) = Limit
      [] Reason(i) = "earlier change" ->
           \E j \in Before(i, Waiting, index) : ~job[j].readOnly

(* "Do not pass an earlier writer": a call leaves the array for a worker   *)
(* only after every writer that was ahead of it has left the array, and    *)
(* turns of one session key start in the order they were asked for.        *)
NoOvertaking ==
  [][\A i \in Waiting : phase'[i] = "starting" =>
       \A j \in Before(i, Waiting, index) :
          (~job[j].readOnly \/ job[j].key = job[i].key) => phase'[j] = "refused"]_vars

(* Every call that waits settles: no writer is starved by readers and no   *)
(* reader waits for ever behind its own key.                               *)
EveryCallEnds ==
  \A i \in Calls : phase[i] = "waiting" ~> phase[i] \in {"released", "refused"}

(* The queue implements the exclusive-workspace lock: a call holds its     *)
(* grant from start() to finally().                                        *)
Grant(i) ==
  IF i \in Running
  THEN [state |-> "held", key |-> job[i].key, readOnly |-> job[i].readOnly]
  ELSE [state |-> IF phase[i] = "released" THEN "over" ELSE "none",
        key |-> None, readOnly |-> TRUE]
Lock == INSTANCE WorkspaceLock WITH
  Callers <- Calls, grant <- [i \in Calls |-> Grant(i)]
ImplementsLock == Lock!Spec
=============================================================================
