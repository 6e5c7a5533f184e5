--------------------------- MODULE DelegationProofs ---------------------------
(***************************************************************************)
(* Proofs about Delegation, for any tasks, runtimes, responses and Limit,  *)
(* and any number of cancellations, permissions and restarts.              *)
(*                                                                         *)
(* The invariant DInv is inductive once it relates, for each task, its     *)
(* record, its promise, its call of the queue and its work.  A step is     *)
(* shown to be a restart or Ordinary: what it does to one record           *)
(* (RecordStep) and to one call (CallStep).  The parts of DInv follow from *)
(* these without looking at the action again.  The queue's own invariant   *)
(* is taken from DelegationQueueProofs.                                    *)
(***************************************************************************)
EXTENDS Delegation, FiniteSetTheorems, TLAPS

QP == INSTANCE DelegationQueueProofs WITH Calls <- Tasks, Keys <- Tasks

-----------------------------------------------------------------------------
(* The queue of this module and the one DelegationQueueProofs speaks of    *)
(* are two instances of one module: their definitions are the same.        *)
LEMMA SameSizes ==
  ASSUME NEW S
  PROVE  /\ Queue!Cardinality(S) = Cardinality(S)
         /\ QP!Cardinality(S) = Cardinality(S)
         /\ QP!IsFiniteSet(S) <=> IsFiniteSet(S)
BY DEF Queue!Cardinality, QP!Cardinality, Cardinality, QP!IsFiniteSet,
       Queue!IsFiniteSet, IsFiniteSet

(* What drain() chooses is the same in both.                               *)
LEMMA SameChosen ==
  ASSUME NEW W, NEW jb, NEW idx, NEW act
  PROVE  Queue!Chosen(W, jb, idx, act) = QP!Chosen(W, jb, idx, act)
<1>1. Queue!Candidates(W, jb, idx, act) = QP!Candidates(W, jb, idx, act)
  BY DEF Queue!Candidates, QP!Candidates, Queue!Before, QP!Before
<1>2. Queue!Held(act) = QP!Held(act) /\ (Queue!WriterActive(act) <=> QP!WriterActive(act))
  BY DEF Queue!Held, QP!Held, Queue!WriterActive, QP!WriterActive
<1>3. \A i, V : Queue!Before(i, V, idx) = QP!Before(i, V, idx)
  BY DEF Queue!Before, QP!Before
<1>4. \A V : Queue!Cardinality(V) = QP!Cardinality(V)
  BY SameSizes
<1> QED BY <1>1, <1>2, <1>3, <1>4 DEF Queue!Chosen, QP!Chosen

(* So is all that drain() does.                                            *)
LEMMA SameDrain ==
  ASSUME NEW ph, NEW jb, NEW idx, NEW act, Queue!Drain(ph, jb, idx, act)
  PROVE  QP!Drain(ph, jb, idx, act)
BY SameSizes, SameChosen
   DEF Queue!Drain, QP!Drain, Queue!Before, QP!Before, Queue!Mode, QP!Mode

(* The assumptions of the queue follow from those of this module.          *)
LEMMA QueueConstants == QP!LimitAssumption /\ QP!QueueAssumption
BY DelegationAssumption, SameSizes DEF QP!LimitAssumption, QP!QueueAssumption

(* A step of a task that uses the queue keeps what is proved of the queue. *)
QueueStep ==
  \/ \E t \in Tasks : \/ \E k \in Tasks, ro \in BOOLEAN : Queue!Run(t, k, ro)
                      \/ Queue!Abort(t)
                      \/ Queue!Begin(t)
                      \/ \E outcome \in {"resolved", "rejected"} : Queue!Finish(t, outcome)
                      \/ Queue!Finally(t)
  \/ UNCHANGED queueVars

(* The queue of a gateway just started is empty.                           *)
LEMMA QueueInit == Queue!Init => QP!IInv
<1>1. Queue!Init => QP!Init
  BY DEF Queue!Init, QP!Init
<1> QED BY <1>1, QueueConstants, QP!InitInvariant

(* An operation of the queue, called with a backend session as its key,    *)
(* keeps its invariant; so does a step that does not use it.               *)
LEMMA QueueKept == QP!IInv /\ QueueStep => QP!IInv'
<1> SUFFICES ASSUME QP!IInv, QueueStep PROVE QP!IInv'
  OBVIOUS
<1> USE QueueConstants
<1>1. ASSUME NEW t \in Tasks, NEW k \in Tasks, NEW ro \in BOOLEAN, Queue!Run(t, k, ro)
      PROVE  QP!IInv'
  <2>1. QP!Run(t, k, ro)
    BY <1>1, SameDrain, SameSizes DEF Queue!Run, QP!Run, Queue!Waiting, QP!Waiting
  <2>2. QP!SameCalls \/ QP!DrainStep
    BY <2>1, QP!RunStep
  <2> QED BY <2>2, QP!SameCallsKept, QP!DrainKeeps DEF QP!DrainStep
<1>2. ASSUME NEW t \in Tasks, Queue!Abort(t) PROVE QP!IInv'
  <2>1. QP!Abort(t)
    BY <1>2, SameDrain DEF Queue!Abort, QP!Abort
  <2>2. QP!SameCalls \/ QP!DrainStep
    BY <2>1, QP!AbortStep
  <2> QED BY <2>2, QP!SameCallsKept, QP!DrainKeeps DEF QP!DrainStep
<1>3. ASSUME NEW t \in Tasks,
             \/ Queue!Begin(t)
             \/ \E outcome \in {"resolved", "rejected"} : Queue!Finish(t, outcome)
             \/ Queue!Finally(t)
      PROVE  QP!IInv'
  <2>1. \/ QP!Begin(t)
        \/ \E outcome \in {"resolved", "rejected"} : QP!Finish(t, outcome)
        \/ QP!Finally(t)
    BY <1>3, SameDrain
       DEF Queue!Begin, QP!Begin, Queue!Finish, QP!Finish, Queue!Finally, QP!Finally
  <2>2. QP!Next
    BY <2>1 DEF QP!Next
  <2> QED BY <2>2, QP!StepInvariant
<1>4. CASE UNCHANGED queueVars
  <2>1. UNCHANGED QP!vars
    BY <1>4 DEF queueVars, QP!vars
  <2> QED BY <2>1, QP!StepInvariant
<1> QED BY <1>1, <1>2, <1>3, <1>4 DEF QueueStep

(* What the queue's invariant says to this module: types, and that two     *)
(* calls that run are readers of two conversations.                        *)
LEMMA QueueState ==
  QP!IInv =>
    /\ phase \in [Tasks -> Queue!Phases]
    /\ job \in [Tasks -> Queue!Jobs]
    /\ aborted \subseteq Tasks
    /\ Queue!TypeOK
    /\ \A t, u \in Queue!Running :
         t # u => job[t].readOnly /\ job[u].readOnly /\ job[t].key # job[u].key
    /\ IsFiniteSet(Queue!Running) /\ Cardinality(Queue!Running) <= Limit
<1> SUFFICES ASSUME QP!IInv
             PROVE  /\ Queue!TypeOK
                    /\ \A t, u \in Queue!Running :
                         t # u => job[t].readOnly /\ job[u].readOnly /\ job[t].key # job[u].key
                    /\ IsFiniteSet(Queue!Running) /\ Cardinality(Queue!Running) <= Limit
  BY DEF Queue!TypeOK
<1>1. Queue!TypeOK
  <2>1. QP!TypeOK
    BY QueueConstants, QP!InvariantTypes
  <2>2. QP!Cardinality(Tasks) = Queue!Cardinality(Tasks)
    BY SameSizes
  <2> QED BY <2>1, <2>2
       DEF QP!TypeOK, Queue!TypeOK, QP!Phases, Queue!Phases, QP!Jobs, Queue!Jobs,
           QP!Access, Queue!Access
<1>2. Queue!Running = QP!RunningIn(phase)
  BY DEF Queue!Running, QP!RunningIn
<1>3. /\ \A t, u \in Queue!Running :
           t # u => job[t].readOnly /\ job[u].readOnly /\ job[t].key # job[u].key
      /\ Cardinality(Queue!Running) <= Limit
  BY <1>2, SameSizes DEF QP!IInv, QP!Good, QP!Exclusive
<1>4. IsFiniteSet(Queue!Running)
  <2>1. Queue!Running \in SUBSET Tasks
    BY DEF Queue!Running
  <2> QED BY <2>1, DelegationAssumption, FS_Subset
<1> QED BY <1>1, <1>3, <1>4

-----------------------------------------------------------------------------
(* What the queue's operations do to the phase of each call.  Only waiting *)
(* calls are started on the way.                                           *)
Goes(old, new) == new = old \/ (old = "waiting" /\ new = "starting")

(* drain() starts waiting calls and touches no other.                      *)
LEMMA DrainGoes ==
  ASSUME NEW ph, NEW jb, NEW idx, NEW act, Queue!Drain(ph, jb, idx, act), NEW u \in Tasks
  PROVE  Goes(ph[u], phase'[u])
<1> DEFINE W == {i \in Tasks : ph[i] = "waiting"}
<1>1. phase' = [i \in Tasks |->
                  IF i \in Queue!Chosen(W, jb, idx, act) THEN "starting" ELSE ph[i]]
  BY DEF Queue!Drain
<1>2. Queue!Chosen(W, jb, idx, act) \subseteq W
  BY DEF Queue!Chosen, Queue!Candidates
<1> HIDE DEF W
<1>3. \A i \in W : ph[i] = "waiting"
  BY DEF W
<1> QED BY <1>1, <1>2, <1>3 DEF Goes

(* run() of a task not aborted: it waits or starts, with its key and mode. *)
LEMMA RunGoes ==
  ASSUME QP!IInv, NEW t \in Tasks, NEW k, NEW ro, Queue!Run(t, k, ro), t \notin aborted
  PROVE  /\ aborted' = aborted
         /\ job' = [job EXCEPT ![t] = [key |-> k, readOnly |-> ro]]
         /\ phase[t] = "idle" /\ phase'[t] \in {"waiting", "starting"}
         /\ \A u \in Tasks \ {t} : Goes(phase[u], phase'[u])
<1> DEFINE ph == [phase EXCEPT ![t] = "waiting"]
           idx == [index EXCEPT ![t] = Queue!Cardinality(Queue!Waiting) + 1]
<1>1. phase \in [Tasks -> Queue!Phases]
  BY QueueState
<1>2. Queue!Drain(ph, job', idx, active)
  BY DEF Queue!Run
<1>3. \A u \in Tasks : Goes(ph[u], phase'[u])
  <2> HIDE DEF ph, idx
  <2> QED BY <1>2, DrainGoes
<1> QED BY <1>1, <1>3 DEF Queue!Run, Goes

(* An abort takes calls out of the array, and starts others.               *)
LEMMA AbortGoes ==
  ASSUME QP!IInv, NEW t \in Tasks, Queue!Abort(t)
  PROVE  /\ aborted' = aborted \union {t} /\ job' = job
         /\ \A u \in Tasks : \/ Goes(phase[u], phase'[u])
                             \/ phase[u] = "waiting" /\ phase'[u] = "refused"
<1>1. phase \in [Tasks -> Queue!Phases]
  BY QueueState
<1>2. CASE t \notin aborted /\ phase[t] = "waiting"
  <2> DEFINE ph == [phase EXCEPT ![t] = "refused"]
  <2>1. Queue!Drain(ph, job, index, active)
    BY <1>2 DEF Queue!Abort
  <2>2. \A u \in Tasks : Goes(ph[u], phase'[u])
    <3> HIDE DEF ph
    <3> QED BY <2>1, DrainGoes
  <2> QED BY <1>1, <1>2, <2>2 DEF Queue!Abort, Goes
<1>3. CASE ~(t \notin aborted /\ phase[t] = "waiting")
  BY <1>3 DEF Queue!Abort, Goes
<1> QED BY <1>2, <1>3

(* finally() releases one call, and starts others.                         *)
LEMMA FinallyGoes ==
  ASSUME QP!IInv, NEW t \in Tasks, Queue!Finally(t)
  PROVE  /\ aborted' = aborted /\ job' = job
         /\ phase[t] \in {"resolved", "rejected"} /\ phase'[t] = "released"
         /\ \A u \in Tasks \ {t} : Goes(phase[u], phase'[u])
<1> DEFINE ph == [phase EXCEPT ![t] = "released"]
           act == [active EXCEPT ![job[t].key] = "none"]
<1>1. phase \in [Tasks -> Queue!Phases]
  BY QueueState
<1>2. Queue!Drain(ph, job, index, act)
  BY DEF Queue!Finally
<1>3. \A u \in Tasks : Goes(ph[u], phase'[u])
  <2> HIDE DEF ph, act
  <2> QED BY <1>2, DrainGoes
<1> QED BY <1>1, <1>3 DEF Queue!Finally, Goes

-----------------------------------------------------------------------------
Typed ==
  /\ task \in [Tasks -> Records]
  /\ live \subseteq Tasks
  /\ todo \in [Tasks -> SUBSET Tasks]
  /\ asking \in [Tasks -> Nat]
  /\ asks \in Nat
  /\ cut \subseteq Tasks
  /\ runs \in [Tasks -> Nat]
  /\ crashes \in Nat

(* A task id not used yet has left no trace.                               *)
Blank ==
  \A t \in Tasks : ~Exists(t) =>
    task[t] = NoTask /\ t \notin live /\ phase[t] = "idle" /\ runs[t] = 0

(* A backend session is named by a task, and an external CLI job of claude *)
(* is never admitted as a reader.                                          *)
Conversations ==
  \A t \in Tasks : Exists(t) =>
    /\ task[t].session \in Tasks
    /\ task[t].runtime = "claude" => ~task[t].readOnly

(* How far the promise of a task, its call of the queue and its work are.  *)
Promises ==
  \A t \in Tasks :
    /\ t \in live => ~Terminal(task[t])
    /\ phase[t] \in {"waiting", "starting", "working"} => t \in live
    /\ t \in live /\ phase[t] = "idle" => runs[t] = 0
    /\ phase[t] \in {"waiting", "starting"} => runs[t] = 0
    /\ phase[t] \in {"working", "resolved"} => runs[t] = 1
    /\ runs[t] <= 1

(* A cancellation reaches the signal of a promise, a correction cancels,   *)
(* and neither is forgotten by the final status.                           *)
Cancels ==
  \A t \in Tasks :
    /\ t \in live /\ task[t].cancelRequested => t \in aborted
    /\ t \in live /\ task[t].superseded => task[t].cancelRequested
    /\ task[t].cancelRequested => task[t].status \notin {"completed", "failed"}

(* A prerequisite that a promise no longer waits for gave its result.      *)
Results ==
  \A t \in Tasks :
    /\ task[t].status = "completed" => task[t].result
    /\ task[t].result => runs[t] = 1
    /\ t \in live => \A d \in task[t].dependsOn \ todo[t] : task[d].result
    /\ t \in live /\ phase[t] # "idle" => todo[t] = {}
    /\ runs[t] > 0 => \A d \in task[t].dependsOn : task[d].result

(* The queue was asked for the task's own conversation, and only a task    *)
(* that runs has started; only aborted turns were told to stop.            *)
Turns ==
  /\ \A t \in Tasks :
       /\ phase[t] # "idle" =>
            job[t] = [key |-> task[t].session, readOnly |-> task[t].readOnly]
       /\ t \in live /\ task[t].started => phase[t] \in {"working", "resolved", "rejected"}
  /\ cut \subseteq aborted

Lineage ==
  \A old \in Tasks :
    /\ task[old].superseded => Replacements(old) # {}
    /\ crashes = 0 => /\ \A t, u \in Replacements(old) : t = u
                      /\ Replacements(old) # {} => task[old].superseded

DInv ==
  /\ QP!IInv /\ Typed /\ Blank /\ Conversations /\ Promises
  /\ Cancels /\ Results /\ Turns /\ Lineage

-----------------------------------------------------------------------------
(* What a lookup may show of a task.                                       *)
Kept(r, q) ==
  /\ q.runtime = r.runtime /\ q.session = r.session /\ q.readOnly = r.readOnly
  /\ q.dependsOn = r.dependsOn /\ q.supersedes = r.supersedes

ViewOf(t, q) ==
  /\ q \in Records
  /\ Kept(task[t], q)
  /\ q.superseded = task[t].superseded /\ q.started = task[t].started
  /\ q.cancelRequested = task[t].cancelRequested /\ q.result = task[t].result
  /\ q.delivery = task[t].delivery /\ q.response = task[t].response
  /\ IF ~Exists(t) \/ Terminal(task[t]) THEN q = task[t]
     ELSE IF t \notin live THEN q.status \in {task[t].status, "interrupted"}
     ELSE q.status \in {task[t].status, "needs_input", "running", "queued"}

(* recover() changes the status, the error and the input of a task, and    *)
(* ends no pending promise: it interrupts a task that has none.            *)
LEMMA RecoveredView ==
  ASSUME Typed, Conversations, NEW t \in Tasks
  PROVE  /\ ViewOf(t, Recovered(t))
         /\ Exists(t) /\ t \notin live => Terminal(Recovered(t))
         /\ Recovered(t).status = "completed" <=> task[t].status = "completed"
<1>1. task[t] \in Records
  BY DEF Typed
<1>2. CASE ~Exists(t) \/ Terminal(task[t])
  BY <1>1, <1>2 DEF Recovered, ViewOf, Kept
<1>3. CASE Exists(t) /\ ~Terminal(task[t]) /\ t \notin live
  BY <1>1, <1>3 DEF Recovered, ViewOf, Kept, Records, Statuses, Final, Terminal, Exists
<1>4. CASE Exists(t) /\ ~Terminal(task[t]) /\ t \in live
  <2>1. asking[task[t].session] \in Nat
    BY <1>4 DEF Typed, Conversations
  <2>2. \/ Recovered(t) = task[t]
        \/ \E i \in Nat, s \in {"needs_input", "running", "queued"} :
             Recovered(t) = [task[t] EXCEPT !.input = i, !.status = s]
    BY <1>4, <2>1 DEF Recovered
  <2>3. CASE Recovered(t) = task[t]
    BY <1>1, <1>4, <2>3 DEF ViewOf, Kept, Exists, Terminal, Final
  <2>4. ASSUME NEW i \in Nat, NEW s \in {"needs_input", "running", "queued"},
               Recovered(t) = [task[t] EXCEPT !.input = i, !.status = s]
         PROVE  /\ ViewOf(t, Recovered(t))
                /\ Recovered(t).status # "completed" /\ task[t].status # "completed"
    <3>1. Recovered(t) \in Records
      BY <1>1, <2>4 DEF Records, Statuses
    <3>2. /\ Kept(task[t], Recovered(t)) /\ Recovered(t).status = s
          /\ Recovered(t).superseded = task[t].superseded
          /\ Recovered(t).started = task[t].started
          /\ Recovered(t).cancelRequested = task[t].cancelRequested
          /\ Recovered(t).result = task[t].result
          /\ Recovered(t).delivery = task[t].delivery
          /\ Recovered(t).response = task[t].response
      BY <1>1, <2>4 DEF Kept, Records
    <3> QED BY <1>4, <3>1, <3>2 DEF ViewOf, Terminal, Final
  <2> QED BY <1>4, <2>2, <2>3, <2>4
<1> QED BY <1>2, <1>3, <1>4

(* So does a lookup of any tasks.                                          *)
LEMMA SeenView ==
  ASSUME Typed, Conversations, NEW S
  PROVE  /\ Seen(S) \in [Tasks -> Records]
         /\ \A t \in Tasks :
              /\ ViewOf(t, Seen(S)[t])
              /\ t \in S /\ Exists(t) /\ t \notin live => Terminal(Seen(S)[t])
<1>1. \A u \in Tasks : ViewOf(u, task[u])
  BY DEF Typed, ViewOf, Kept
<1>2. \A u \in Tasks : ViewOf(u, Seen(S)[u])
  BY <1>1, RecoveredView DEF Seen
<1>3. Seen(S) \in [Tasks -> Records]
  BY <1>2 DEF Seen, ViewOf
<1> QED BY <1>2, <1>3, RecoveredView DEF Seen

-----------------------------------------------------------------------------
(* What a step that is no restart does to the record of a task.            *)
Fresh(t) ==
  /\ task'[t].status = "queued" /\ task'[t].session \in Tasks
  /\ task'[t].runtime = "claude" => ~task'[t].readOnly
  /\ ~task'[t].superseded /\ ~task'[t].started /\ ~task'[t].cancelRequested
  /\ ~task'[t].result
  /\ t \in live' /\ todo'[t] = task'[t].dependsOn

Changed(t) ==
  /\ task'[t].status # "none" /\ Kept(task[t], task'[t])
  /\ t \in live' => t \in live /\ ~Terminal(task'[t])
  /\ task[t].result => task'[t].result
  /\ task'[t].result => task[t].result \/ phase[t] = "resolved"
  /\ task'[t].started => task[t].started \/ Working(t)
  /\ task[t].cancelRequested => task'[t].cancelRequested
  /\ task'[t].cancelRequested /\ ~task[t].cancelRequested =>
       t \in aborted' /\ task'[t].status = "cancelling"
  /\ task'[t].superseded /\ t \in live' => task[t].superseded \/ task'[t].cancelRequested
  /\ task'[t].status = "completed" =>
       \/ task[t].status = "completed"
       \/ task'[t].result /\ ~task[t].superseded /\ ~task[t].cancelRequested
  /\ task'[t].status = "failed" => task[t].status = "failed" \/ ~task[t].cancelRequested

RecordStep(t) ==
  IF Exists(t) THEN Changed(t)
  ELSE Fresh(t) \/ (task'[t] = task[t] /\ t \notin live')

(* What it does to its promise, its call of the queue and its work.        *)
CallStep(t) ==
  /\ t \in aborted => t \in aborted'
  /\ phase[t] # "idle" => phase'[t] # "idle" /\ job'[t] = job[t]
  /\ phase[t] = "idle" =>
       \/ phase'[t] = "idle"
       \/ /\ t \in live /\ t \in live' /\ todo'[t] = {}
          /\ phase'[t] \in {"waiting", "starting"}
          /\ job'[t] = [key |-> task[t].session, readOnly |-> task[t].readOnly]
  /\ \/ runs'[t] = runs[t] /\ (phase'[t] = "working" => phase[t] = "working")
     \/ phase[t] = "starting" /\ phase'[t] = "working" /\ runs'[t] = runs[t] + 1
  /\ phase'[t] = "resolved" => phase[t] \in {"working", "resolved"}
  /\ phase'[t] \in {"waiting", "starting"} => phase[t] \in {"idle", "waiting", "starting"}
  /\ phase[t] \in {"working", "resolved", "rejected"} /\ t \in live' =>
       phase'[t] \in {"working", "resolved", "rejected"}
  /\ phase'[t] \in {"waiting", "starting", "working"} /\ t \in live => t \in live'
  /\ t \in live /\ t \in live' =>
       todo'[t] \subseteq todo[t] /\ \A d \in todo[t] \ todo'[t] : task[d].result

Ordinary ==
  /\ Typed' /\ QueueStep /\ cut' \subseteq aborted'
  /\ \A t \in Tasks : RecordStep(t) /\ CallStep(t)
  /\ crashes' = crashes

(* The steps that leave the promises and the queue alone.                  *)
LEMMA CallsIdle ==
  ASSUME DInv, UNCHANGED <<queueVars, live, todo, runs>>, NEW t \in Tasks
  PROVE  CallStep(t)
BY DEF CallStep, queueVars

(* delegation.get and delegation.list.                                     *)
LEMMA LookStep == ASSUME DInv, Look PROVE Ordinary
<1>1. PICK S : task' = Seen(S)
  BY DEF Look
<1>2. UNCHANGED <<queueVars, live, todo, runs, turnVars, crashes>>
  BY DEF Look
<1>3. \A t \in Tasks : ViewOf(t, task'[t])
  BY <1>1, SeenView DEF DInv
<1>4. \A t \in Tasks : RecordStep(t)
  BY <1>2, <1>3 DEF RecordStep, Changed, ViewOf, DInv, Promises, Terminal, Final, Exists, Blank, Kept
<1>5. Typed'
  BY <1>1, <1>2, SeenView DEF DInv, Typed, turnVars
<1> QED BY <1>2, <1>4, <1>5, CallsIdle DEF Ordinary, DInv, Turns, turnVars, queueVars, QueueStep

(* The handlers and callbacks that edit one record.                        *)
Edit(t, q) ==
  /\ task' = [task EXCEPT ![t] = q]
  /\ UNCHANGED <<live, todo, runs, crashes, queueVars>>
  /\ cut' = cut /\ asks' \in Nat /\ asking' \in [Tasks -> Nat]

(* A handler that edits one record, within what Changed allows.            *)
LEMMA EditStep ==
  ASSUME DInv, NEW t \in Tasks, NEW q \in Records, Edit(t, q), Exists(t), Changed(t)
  PROVE  Ordinary
<1>1. task \in [Tasks -> Records]
  BY DEF DInv, Typed
<1>2. Typed'
  BY <1>1 DEF Edit, DInv, Typed
<1>3. ASSUME NEW u \in Tasks, u # t PROVE RecordStep(u)
  <2>1. task'[u] = task[u] /\ live' = live /\ aborted' = aborted
    BY <1>1, <1>3 DEF Edit, queueVars
  <2> QED BY <2>1 DEF RecordStep, Changed, Kept, DInv, Promises, Exists, Blank
<1>4. RecordStep(t)
  BY DEF RecordStep
<1>5. cut' \subseteq aborted'
  BY DEF DInv, Turns, Edit, queueVars
<1>6. \A u \in Tasks : CallStep(u)
  BY CallsIdle DEF Edit
<1> QED BY <1>2, <1>3, <1>4, <1>5, <1>6 DEF Ordinary, QueueStep, Edit

(* delegation.respond.                                                     *)
LEMMA RespondStep == ASSUME DInv, NEW t \in Tasks, Respond(t) PROVE Ordinary
<1> DEFINE r == Recovered(t)
           q == [r EXCEPT !.input = 0, !.status = "running"]
<1>1. task \in [Tasks -> Records] /\ ViewOf(t, r)
  BY RecoveredView DEF DInv, Typed
<1>2. q \in Records /\ Kept(task[t], q) /\ q.status = "running"
      /\ q.superseded = task[t].superseded /\ q.started = task[t].started
      /\ q.cancelRequested = task[t].cancelRequested /\ q.result = task[t].result
      /\ q.delivery = task[t].delivery /\ q.response = task[t].response
  BY <1>1 DEF ViewOf, Kept, Records, Statuses
<1>3. Edit(t, q) /\ Exists(t) /\ live' = live
  <2>1. asking' \in [Tasks -> Nat] /\ asks' \in Nat
    BY DEF Respond, DInv, Typed
  <2> QED BY <2>1 DEF Respond, Edit
<1> HIDE DEF q
<1>4. task'[t] = q
  BY <1>1, <1>3 DEF Edit
<1>5. Changed(t)
  BY <1>2, <1>3, <1>4 DEF Changed, Kept, Terminal, Final
<1> QED BY <1>2, <1>3, <1>5, EditStep

(* delegation.delivery changes nothing but the delivery.                   *)
LEMMA DeliverStep ==
  ASSUME DInv, NEW t \in Tasks, NEW state \in Deliveries, NEW response \in Responses,
         Deliver(t, state, response)
  PROVE  Ordinary
<1> DEFINE r == Recovered(t)
           q == IF r.superseded \/ (r.delivery \in SettledDelivery /\ r.response = response)
                THEN r ELSE [r EXCEPT !.delivery = state, !.response = response]
<1>1. task \in [Tasks -> Records] /\ ViewOf(t, r)
  BY RecoveredView DEF DInv, Typed
<1>2. q \in Records /\ Kept(task[t], q) /\ q.status = r.status
      /\ q.superseded = task[t].superseded /\ q.started = task[t].started
      /\ q.cancelRequested = task[t].cancelRequested /\ q.result = task[t].result
  <2>1. CASE r.superseded \/ (r.delivery \in SettledDelivery /\ r.response = response)
    <3>1. q = r
      BY <2>1
    <3> HIDE DEF q, r
    <3> QED BY <1>1, <3>1 DEF ViewOf, Kept
  <2>2. CASE ~(r.superseded \/ (r.delivery \in SettledDelivery /\ r.response = response))
    <3>1. q = [r EXCEPT !.delivery = state, !.response = response]
      BY <2>2
    <3> HIDE DEF q, r
    <3> QED BY <1>1, <2>2, <3>1 DEF ViewOf, Kept, Records
  <2> QED BY <2>1, <2>2
<1>3. Edit(t, q) /\ Exists(t) /\ live' = live
  <2>1. asking' \in [Tasks -> Nat] /\ asks' \in Nat
    BY DEF Deliver, DInv, Typed, turnVars
  <2> QED BY <2>1 DEF Deliver, Edit, turnVars
<1>4. /\ r.status # "none" /\ (t \in live => ~Terminal(r))
      /\ r.status = "completed" => task[t].status = "completed"
      /\ r.status = "failed" => task[t].status = "failed"
  BY <1>1, <1>3 DEF ViewOf, Exists, Terminal, Final, DInv, Promises
<1> HIDE DEF q, r
<1>5. task'[t] = q
  BY <1>1, <1>3 DEF Edit
<1>6. Changed(t)
  BY <1>2, <1>3, <1>4, <1>5 DEF Changed, Kept, Terminal
<1> QED BY <1>2, <1>3, <1>6, EditStep

(* An answer from a chat window changes no task.                           *)
LEMMA AnswerStep == ASSUME DInv, NEW s \in Tasks, Answer(s) PROVE Ordinary
<1>1. Typed'
  BY DEF Answer, DInv, Typed
<1>2. UNCHANGED <<task, live, todo, runs, crashes, cut, queueVars>>
  BY DEF Answer
<1>3. \A t \in Tasks : RecordStep(t)
  BY <1>2 DEF RecordStep, Changed, Kept, DInv, Promises, Blank, Exists
<1> QED BY <1>1, <1>2, <1>3, CallsIdle DEF Ordinary, QueueStep, DInv, Turns, queueVars

(* Callbacks of the executor: the task works, so its promise is pending.   *)
LEMMA CallbackStep ==
  ASSUME DInv, NEW t \in Tasks, Started(t) \/ Ask(t) \/ Resume(t) \/ ErrorEvent(t)
  PROVE  Ordinary
<1>1. /\ task \in [Tasks -> Records] /\ task[t] \in Records
      /\ Working(t) /\ t \in live /\ Exists(t) /\ ~Terminal(task[t])
  BY DEF Started, Ask, Resume, ErrorEvent, Working, DInv, Typed, Promises, Blank
<1> DEFINE q == task'[t]
<1>2. /\ q \in Records /\ Kept(task[t], q)
      /\ q.status \in {task[t].status, "running", "needs_input"}
      /\ q.superseded = task[t].superseded
      /\ q.cancelRequested = task[t].cancelRequested /\ q.result = task[t].result
      /\ q.delivery = task[t].delivery /\ q.response = task[t].response
  <2>1. \/ \E st \in {task[t].status, "running", "needs_input"} :
             q \in {[task[t] EXCEPT !.status = st],
                   [task[t] EXCEPT !.started = TRUE, !.status = st]}
        \/ q = [task[t] EXCEPT !.error = TRUE]
    BY <1>1 DEF Started, Ask, Resume, ErrorEvent
  <2> HIDE DEF q
  <2> QED BY ZenonT(40), <1>1, <2>1 DEF Kept, Records, Statuses
<1>3. task' = [task EXCEPT ![t] = q]
  BY <1>1 DEF Started, Ask, Resume, ErrorEvent
<1>4. Edit(t, q) /\ live' = live
  <2>1. asking' \in [Tasks -> Nat] /\ asks' \in Nat
    BY DEF Started, Ask, Resume, ErrorEvent, DInv, Typed, turnVars
  <2> QED BY <1>3, <2>1 DEF Edit, Started, Ask, Resume, ErrorEvent, turnVars
<1>5. Changed(t)
  BY <1>1, <1>2, <1>4 DEF Changed, Kept, Terminal, Final, Exists
<1> QED BY <1>1, <1>2, <1>4, <1>5, EditStep

-----------------------------------------------------------------------------
(* cancel(): the turn it stops, if any, is that of the cancelled task,     *)
(* because no other running task has the key of a started one.             *)
LEMMA CancelEffect ==
  ASSUME DInv, NEW t \in Tasks, NEW tk \in [Tasks -> Records], CancelIn(t, tk),
         tk[t].session = task[t].session, tk[t].started = task[t].started,
         ~Terminal(tk[t]) => t \in live,
         live \subseteq live', runs' = runs,
         \A u \in live : todo'[u] = todo[u]
  PROVE  /\ QueueStep
         /\ cut' \subseteq aborted' /\ cut' \subseteq Tasks
         /\ asks' = asks /\ asking' \in [Tasks -> Nat]
         /\ task' = IF Terminal(tk[t]) THEN tk
                    ELSE [tk EXCEPT ![t].status = "cancelling", ![t].cancelRequested = TRUE]
         /\ ~Terminal(tk[t]) => t \in aborted'
         /\ \A u \in Tasks : CallStep(u)
<1>0. /\ phase \in [Tasks -> Queue!Phases] /\ aborted \subseteq Tasks
      /\ asking \in [Tasks -> Nat] /\ cut \subseteq Tasks /\ cut \subseteq aborted
  BY QueueState DEF DInv, Typed, Turns
<1>1. CASE Terminal(tk[t])
  <2>1. task' = tk /\ UNCHANGED <<queueVars, asking, cut, asks>>
    BY <1>1 DEF CancelIn
  <2>2. \A u \in Tasks : CallStep(u)
    BY <2>1 DEF CallStep, queueVars
  <2> QED BY <1>0, <1>1, <2>1, <2>2 DEF QueueStep, queueVars
<1>2. CASE ~Terminal(tk[t])
  <2>1. /\ task' = [tk EXCEPT ![t].status = "cancelling", ![t].cancelRequested = TRUE]
        /\ Queue!Abort(t) /\ asks' = asks /\ t \in live
        /\ IF task[t].started THEN StopTurn(task[t].session) ELSE UNCHANGED <<asking, cut>>
    BY <1>2 DEF CancelIn
  <2>2. /\ aborted' = aborted \union {t} /\ job' = job
        /\ \A u \in Tasks : \/ Goes(phase[u], phase'[u])
                            \/ phase[u] = "waiting" /\ phase'[u] = "refused"
    BY <2>1, AbortGoes DEF DInv
  <2>3. QueueStep
    BY <2>1 DEF QueueStep
  <2>4. \A u \in Tasks : CallStep(u)
    BY <2>2 DEF CallStep, Goes, DInv, Promises
  <2>5. cut' \subseteq aborted' /\ cut' \subseteq Tasks
    <3>1. CASE ~task[t].started
      BY <1>0, <2>1, <2>2, <3>1
    <3>2. CASE task[t].started
      <4>1. phase[t] \in {"working", "resolved", "rejected"} /\ job[t].key = task[t].session
        <5>1. t \in live /\ Turns
          BY <2>1 DEF DInv
        <5>2. phase[t] \in {"working", "resolved", "rejected"}
          BY <3>2, <5>1 DEF Turns
        <5>3. job[t] = [key |-> task[t].session, readOnly |-> task[t].readOnly]
          BY <5>1, <5>2 DEF Turns
        <5> QED BY <5>2, <5>3
      <4>2. ASSUME NEW u \in Executing, job[u].key = task[t].session PROVE u = t
        <5>1. u \in Queue!Running /\ t \in Queue!Running
          BY <4>1, <4>2 DEF Executing, Working, Queue!Running
        <5> QED BY <4>1, <4>2, <5>1, QueueState DEF DInv
      <4>3. cut' = cut \union {u \in Executing : job[u].key = task[t].session}
        BY <2>1, <3>2 DEF StopTurn
      <4> QED BY <1>0, <2>2, <4>2, <4>3
    <3> QED BY <3>1, <3>2
  <2>6. asking' \in [Tasks -> Nat]
    BY <1>0, <2>1 DEF StopTurn
  <2> QED BY <1>2, <2>1, <2>2, <2>3, <2>4, <2>5, <2>6
<1> QED BY <1>1, <1>2

(* The records cancel() starts from show each task as it is.               *)
LEMMA CancelStep ==
  ASSUME DInv, NEW t \in Tasks, NEW tk \in [Tasks -> Records], CancelIn(t, tk), Exists(t),
         \A u \in Tasks : ViewOf(u, tk[u]),
         t \in live \/ Terminal(tk[t]),
         UNCHANGED <<live, todo, runs, crashes>>
  PROVE  Ordinary
<1>1. Kept(task[t], tk[t]) /\ tk[t].started = task[t].started
  BY DEF ViewOf
<1>2. /\ QueueStep /\ cut' \subseteq aborted' /\ cut' \subseteq Tasks
      /\ asks' = asks /\ asking' \in [Tasks -> Nat]
      /\ task' = IF Terminal(tk[t]) THEN tk
                 ELSE [tk EXCEPT ![t].status = "cancelling", ![t].cancelRequested = TRUE]
      /\ ~Terminal(tk[t]) => t \in aborted'
      /\ \A u \in Tasks : CallStep(u)
  BY <1>1, CancelEffect DEF Kept
<1>3. task' \in [Tasks -> Records]
  <2>1. [tk[t] EXCEPT !.status = "cancelling", !.cancelRequested = TRUE] \in Records
    <3>1. tk[t] \in Records
      OBVIOUS
    <3> QED BY <3>1 DEF Records, Statuses
  <2> QED BY <1>2, <2>1
<1>4. \A u \in Tasks : tk[u] = task'[u] => RecordStep(u)
  BY DEF RecordStep, Changed, ViewOf, DInv, Promises, Terminal, Final, Exists, Blank
<1>5. CASE Terminal(tk[t])
  BY <1>2, <1>3, <1>4, <1>5 DEF Ordinary, DInv, Typed
<1>6. CASE ~Terminal(tk[t])
  <2>1. \A u \in Tasks \ {t} : tk[u] = task'[u]
    BY <1>2, <1>6
  <2>2. task'[t] = [tk[t] EXCEPT !.status = "cancelling", !.cancelRequested = TRUE]
    BY <1>2, <1>6
  <2>3. Changed(t)
    BY <1>2, <1>6, <2>2 DEF Changed, ViewOf, Kept, Records, Terminal, Final
  <2> QED BY <1>2, <1>3, <1>4, <2>1, <2>3 DEF Ordinary, DInv, Typed, RecordStep
<1> QED BY <1>5, <1>6

(* delegation.cancel.                                                      *)
LEMMA ClientCancelStep == ASSUME DInv, NEW t \in Tasks, Cancel(t) PROVE Ordinary
<1>1. /\ Seen({t}) \in [Tasks -> Records]
      /\ \A u \in Tasks : ViewOf(u, Seen({t})[u])
      /\ t \in live \/ Terminal(Seen({t})[t])
  BY SeenView DEF DInv, Cancel
<1> QED BY <1>1, CancelStep DEF Cancel

(* The timer of a pending promise, which cancels with an error.            *)
LEMMA DeadlineStep == ASSUME DInv, NEW t \in Tasks, Deadline(t) PROVE Ordinary
<1> DEFINE tk == [task EXCEPT ![t].error = TRUE]
<1>1. /\ task \in [Tasks -> Records] /\ t \in live /\ Exists(t) /\ ~Terminal(task[t])
  BY DEF Deadline, DInv, Typed, Blank, Promises
<1>2. tk \in [Tasks -> Records]
  BY ZenonT(40), <1>1 DEF Records
<1>3. \A u \in Tasks : ViewOf(u, tk[u])
  <2>1. \A u \in Tasks \ {t} : tk[u] = task[u] /\ task[u] \in Records
    BY <1>1
  <2>2. tk[t] = [task[t] EXCEPT !.error = TRUE] /\ tk[t] \in Records
    BY <1>1, <1>2
  <2> HIDE DEF tk
  <2>3. ViewOf(t, tk[t])
    BY <1>1, <2>2 DEF ViewOf, Kept, Records
  <2>4. \A u \in Tasks \ {t} : ViewOf(u, tk[u])
    BY <2>1 DEF ViewOf, Kept
  <2> QED BY <2>3, <2>4
<1> HIDE DEF tk
<1>4. CancelIn(t, tk) /\ UNCHANGED <<live, todo, runs, crashes>>
  BY DEF Deadline, tk
<1> QED BY <1>1, <1>2, <1>3, <1>4, CancelStep

-----------------------------------------------------------------------------
(* The record submit() builds.                                             *)
FreshRecord(r, deps, old) ==
  /\ r.status = "queued" /\ r.session \in Tasks
  /\ r.runtime = "claude" => ~r.readOnly
  /\ ~r.superseded /\ ~r.started /\ ~r.cancelRequested /\ ~r.result
  /\ r.dependsOn = deps /\ r.supersedes = old

(* submit() gives a claude task no read-only mode, whatever it continues,  *)
(* and a backend session of a task.                                        *)
LEMMA SubmittedFresh ==
  ASSUME DInv, NEW t \in Tasks, NEW runtime, NEW cont \in Existing \union {None},
         NEW readOnly \in BOOLEAN, NEW deps \in SUBSET Tasks, NEW old \in Tasks \union {None},
         cont = None => runtime \in Runtimes
  PROVE  /\ Submitted(t, runtime, cont, readOnly, deps, old) \in Records
         /\ FreshRecord(Submitted(t, runtime, cont, readOnly, deps, old), deps, old)
<1> DEFINE kind == IF cont = None THEN runtime ELSE task[cont].runtime
           session == IF cont = None THEN t ELSE task[cont].session
           mode == CASE kind = "native" -> IF cont = None THEN readOnly ELSE task[cont].readOnly
                     [] kind = "codex" -> readOnly /\ ~LinuxUser
                     [] kind = "claude" -> FALSE
           r == Submitted(t, runtime, cont, readOnly, deps, old)
<1>1. cont # None => cont \in Tasks /\ Exists(cont) /\ task[cont] \in Records
  BY DEF Existing, DInv, Typed
<1>2. kind \in {"native", "codex", "claude"} /\ session \in Tasks
  BY <1>1, DelegationAssumption DEF Records, DInv, Conversations
<1>3. mode \in BOOLEAN /\ (kind = "claude" => ~mode)
  <2>1. cont # None => task[cont].readOnly \in BOOLEAN
    BY <1>1 DEF Records
  <2> HIDE DEF kind
  <2>2. CASE kind = "native"
    BY <2>1, <2>2
  <2>3. CASE kind = "codex"
    BY <2>3
  <2>4. CASE kind = "claude"
    BY <2>4
  <2> QED BY <1>2, <2>2, <2>3, <2>4
<1>4. r = NewTask(kind, session, mode, deps, old)
  BY DEF Submitted
<1> HIDE DEF kind, session, mode, r
<1>5. r \in Records /\ FreshRecord(r, deps, old)
  BY <1>2, <1>3, <1>4 DEF NewTask, Records, Statuses, Deliveries, FreshRecord
<1> QED BY <1>5 DEF r

(* delegation.submit and delegation.run.                                   *)
LEMMA SubmitStep ==
  ASSUME DInv, NEW t \in Tasks, NEW runtime \in Runtimes, NEW cont \in Existing \union {None},
         NEW readOnly \in BOOLEAN, NEW deps \in SUBSET Existing,
         Submit(t, runtime, cont, readOnly, deps)
  PROVE  Ordinary
<1> DEFINE S == deps \union ({cont} \ {None})
           q == Submitted(t, runtime, cont, readOnly, deps, None)
<1>1. /\ task' = [Seen(S) EXCEPT ![t] = q] /\ live' = live \union {t}
      /\ todo' = [todo EXCEPT ![t] = deps] /\ ~Exists(t)
      /\ UNCHANGED <<turnVars, runs, crashes, queueVars>>
  BY DEF Submit, Known
<1>2. q \in Records /\ FreshRecord(q, deps, None) /\ deps \in SUBSET Tasks
  <2>1. deps \in SUBSET Tasks
    BY DEF Existing
  <2> QED BY <2>1, SubmittedFresh
<1>3. Seen(S) \in [Tasks -> Records] /\ \A u \in Tasks : ViewOf(u, Seen(S)[u])
  BY SeenView DEF DInv
<1> HIDE DEF S, q
<1>4. Typed'
  BY <1>1, <1>2, <1>3 DEF DInv, Typed, turnVars
<1>5. RecordStep(t)
  BY <1>1, <1>2, <1>3 DEF RecordStep, Fresh, FreshRecord, DInv, Typed
<1>6. ASSUME NEW u \in Tasks, u # t PROVE RecordStep(u)
  <2>1. task'[u] = Seen(S)[u] /\ (u \in live' <=> u \in live) /\ aborted' = aborted
    BY <1>1, <1>3, <1>6 DEF queueVars
  <2>2. ViewOf(u, task'[u])
    BY <1>3, <2>1
  <2> QED BY <2>1, <2>2
       DEF RecordStep, Changed, ViewOf, DInv, Promises, Terminal, Final, Exists, Blank, Kept
<1>7. \A u \in Tasks : CallStep(u)
  BY <1>1 DEF CallStep, queueVars, DInv, Blank, Typed
<1> QED BY <1>1, <1>4, <1>5, <1>6, <1>7
     DEF Ordinary, QueueStep, DInv, Turns, queueVars, turnVars

(* Both revisions, on the records base: old is marked superseded and       *)
(* cancelled, new is either a task known already or the replacement.       *)
LEMMA RevisedStep ==
  ASSUME DInv, NEW old \in Tasks, NEW new \in Tasks, old # new, Exists(old),
         NEW base \in [Tasks -> Records],
         \A u \in Tasks \ {new} : ViewOf(u, base[u]),
         old \in live \/ Terminal(base[old]),
         CancelIn(old, [base EXCEPT ![old].superseded = TRUE]),
         live \subseteq live', live' \subseteq live \union {new},
         todo' \in [Tasks -> SUBSET Tasks],
         \A u \in Tasks : (u # new \/ new \in live) => todo'[u] = todo[u],
         UNCHANGED <<runs, crashes>>,
         IF Exists(new) THEN live' = live /\ ViewOf(new, base[new])
         ELSE FreshRecord(base[new], todo'[new], old) /\ new \in live'
  PROVE  Ordinary
<1> DEFINE tk == [base EXCEPT ![old].superseded = TRUE]
<1>1. CancelIn(old, tk)
  OBVIOUS
<1>2. ViewOf(old, base[old])
  OBVIOUS
<1>3. /\ tk \in [Tasks -> Records]
      /\ tk[old] = [base[old] EXCEPT !.superseded = TRUE]
      /\ \A u \in Tasks \ {old} : tk[u] = base[u]
  <2>1. [base[old] EXCEPT !.superseded = TRUE] \in Records
    <3>1. base[old] \in Records
      BY <1>2
    <3> QED BY <3>1 DEF Records
  <2> QED BY <1>2, <2>1
<1>4. /\ ViewOf(old, base[old]) /\ base[old] \in Records
      /\ tk[old] \in Records
      /\ tk[old].session = task[old].session /\ tk[old].started = task[old].started
      /\ tk[old].status = base[old].status
  BY <1>2, <1>3 DEF ViewOf, Kept, Records
<1> HIDE DEF tk
<1>5. ~Terminal(tk[old]) => old \in live
  BY <1>2, <1>4 DEF Terminal
<1>6. /\ QueueStep /\ cut' \subseteq aborted' /\ cut' \subseteq Tasks
      /\ asks' = asks /\ asking' \in [Tasks -> Nat]
      /\ task' = IF Terminal(tk[old]) THEN tk
                 ELSE [tk EXCEPT ![old].status = "cancelling", ![old].cancelRequested = TRUE]
      /\ ~Terminal(tk[old]) => old \in aborted'
      /\ \A u \in Tasks : CallStep(u)
  <2>1. \A u \in live : todo'[u] = todo[u]
    BY DEF DInv, Typed, Blank
  <2> QED BY <1>1, <1>3, <1>4, <1>5, <2>1, CancelEffect
<1>7. \A u \in Tasks \ {old} : RecordStep(u)
  <2>1. \A u \in Tasks \ {old} : task'[u] = base[u]
    BY <1>3, <1>6
  <2>2. ASSUME NEW u \in Tasks \ {old}, ViewOf(u, base[u]), u \in live' <=> u \in live
        PROVE  RecordStep(u)
    BY <2>1, <2>2
       DEF RecordStep, Changed, ViewOf, DInv, Promises, Terminal, Final, Exists, Blank, Kept
  <2>3. CASE Exists(new)
    BY <2>2, <2>3
  <2>4. CASE ~Exists(new)
    <3>1. \A u \in Tasks \ {old, new} : RecordStep(u)
      BY <2>2, <2>4
    <3>2. RecordStep(new)
      BY <2>1, <2>4 DEF RecordStep, Fresh, FreshRecord
    <3> QED BY <3>1, <3>2
  <2> QED BY <2>3, <2>4
<1>8. Changed(old) /\ task'[old] \in Records
  <2>1. CASE Terminal(tk[old])
    <3>1. old \notin live
      BY <1>4, <2>1 DEF ViewOf, DInv, Promises, Terminal, Final
    <3>2. task'[old] = tk[old]
      BY <1>6, <2>1
    <3> QED BY <1>1, <1>3, <1>4, <3>1, <3>2
         DEF Changed, ViewOf, Kept, Records, Terminal, Final, Exists
  <2>2. CASE ~Terminal(tk[old])
    <3>1. task'[old] = [tk[old] EXCEPT !.status = "cancelling", !.cancelRequested = TRUE]
      BY <1>3, <1>6, <2>2
    <3>2. Kept(task[old], tk[old]) /\ tk[old].result = task[old].result
      BY <1>3, <1>4 DEF ViewOf, Kept, Records
    <3>3. /\ Kept(tk[old], task'[old]) /\ task'[old] \in Records
          /\ task'[old].status = "cancelling" /\ task'[old].cancelRequested
          /\ task'[old].result = tk[old].result /\ task'[old].started = tk[old].started
      BY <1>4, <3>1 DEF Kept, Records, Statuses
    <3> QED BY <1>1, <1>4, <1>5, <1>6, <2>2, <3>2, <3>3 DEF Changed, Kept, Terminal, Final
  <2> QED BY <2>1, <2>2
<1>9. task' \in [Tasks -> Records]
  BY <1>3, <1>6, <1>8
<1>10. Typed'
  BY <1>1, <1>6, <1>9 DEF DInv, Typed
<1> QED BY <1>1, <1>6, <1>7, <1>8, <1>10 DEF Ordinary, RecordStep

(* delegation.revise, repeated.                                            *)
LEMMA ReviseAgainStep ==
  ASSUME DInv, NEW old \in Tasks, NEW new \in Tasks, old # new, ReviseAgain(old, new)
  PROVE  Ordinary
<1>1. /\ Exists(old) /\ Exists(new) /\ UNCHANGED <<live, todo, runs, crashes>>
      /\ CancelIn(old, [Seen({old, new}) EXCEPT ![old].superseded = TRUE])
  BY DEF ReviseAgain, Known
<1>2. /\ Seen({old, new}) \in [Tasks -> Records]
      /\ \A u \in Tasks : ViewOf(u, Seen({old, new})[u])
      /\ old \in live \/ Terminal(Seen({old, new})[old])
  BY <1>1, SeenView DEF DInv
<1>3. todo' \in [Tasks -> SUBSET Tasks]
  BY <1>1 DEF DInv, Typed
<1> QED BY <1>1, <1>2, <1>3, RevisedStep

(* delegation.revise.                                                      *)
LEMMA ReviseStep ==
  ASSUME DInv, NEW old \in Tasks, NEW new \in Tasks, old # new, NEW readOnly \in BOOLEAN,
         NEW deps \in SUBSET Tasks, Revise(old, new, readOnly, deps)
  PROVE  Ordinary
<1> DEFINE base == Replacing(old, new, readOnly, deps)
           S == deps \union {old}
<1>1. /\ Exists(old) /\ ~Exists(new) /\ UNCHANGED <<runs, crashes>>
      /\ CancelIn(old, [base EXCEPT ![old].superseded = TRUE])
      /\ live' = live \union {new} /\ todo' = [todo EXCEPT ![new] = deps]
  BY DEF Revise, Known
<1>2. /\ Seen(S) \in [Tasks -> Records]
      /\ \A u \in Tasks : ViewOf(u, Seen(S)[u])
      /\ old \in live \/ Terminal(Seen(S)[old])
  BY <1>1, SeenView DEF DInv
<1>3. /\ Submitted(new, None, old, readOnly, deps, old) \in Records
      /\ FreshRecord(Submitted(new, None, old, readOnly, deps, old), deps, old)
  <2>1. old \in Existing \union {None} /\ old # None
    BY <1>1, DelegationAssumption DEF Existing
  <2> QED BY <2>1, SubmittedFresh
<1>4. /\ base \in [Tasks -> Records]
      /\ base[new] = Submitted(new, None, old, readOnly, deps, old)
      /\ \A u \in Tasks \ {new} : base[u] = Seen(S)[u]
  BY <1>2, <1>3 DEF Replacing
<1>5. todo' \in [Tasks -> SUBSET Tasks] /\ todo'[new] = deps /\ new \notin live
      /\ \A u \in Tasks \ {new} : todo'[u] = todo[u]
  BY <1>1 DEF DInv, Typed, Blank
<1> HIDE DEF base
<1>6. /\ \A u \in Tasks \ {new} : ViewOf(u, base[u])
      /\ old \in live \/ Terminal(base[old])
      /\ live \subseteq live' /\ live' \subseteq live \union {new}
      /\ \A u \in Tasks : (u # new \/ new \in live) => todo'[u] = todo[u]
      /\ FreshRecord(base[new], todo'[new], old) /\ new \in live'
  BY <1>1, <1>2, <1>3, <1>4, <1>5
<1> QED BY <1>1, <1>4, <1>5, <1>6, RevisedStep

-----------------------------------------------------------------------------
(* The promise settles: completed only with a result and no abort.         *)
LEMMA SettleStep ==
  ASSUME DInv, NEW t \in Tasks, t \in live, NEW tk \in [Tasks -> Records], tk[t] = task[t],
         \A u \in Tasks : ViewOf(u, tk[u]),
         NEW status \in {"completed", "failed", "cancelled"}, Settle(t, tk, status),
         UNCHANGED queueVars,
         phase[t] \in {"idle", "resolved", "rejected", "refused"},
         status = "completed" => phase[t] = "resolved",
         status # "cancelled" => t \notin aborted
  PROVE  Ordinary
<1>1. /\ live' = live \ {t} /\ UNCHANGED <<todo, turnVars, runs, crashes, queueVars>>
      /\ task' = [tk EXCEPT ![t].status = status,
                            ![t].result = @ \/ phase[t] = "resolved",
                            ![t].error = @ \/ phase[t] # "resolved"]
  BY DEF Settle
<1>2. /\ Exists(t) /\ task[t] \in Records
      /\ ~task[t].cancelRequested \/ t \in aborted
      /\ ~task[t].superseded \/ t \in aborted
  BY DEF DInv, Blank, Typed, Cancels
<1>3. task'[t] = [task[t] EXCEPT !.status = status,
                                 !.result = @ \/ phase[t] = "resolved",
                                 !.error = @ \/ phase[t] # "resolved"]
  BY <1>1
<1>4. /\ task'[t] \in Records /\ Kept(task[t], task'[t]) /\ task'[t].status = status
      /\ task'[t].result = (task[t].result \/ phase[t] = "resolved")
      /\ task'[t].started = task[t].started /\ task'[t].superseded = task[t].superseded
      /\ task'[t].cancelRequested = task[t].cancelRequested
  BY ZenonT(40), <1>2, <1>3 DEF Kept, Records, Statuses, Final
<1>5. \A u \in Tasks \ {t} : task'[u] = tk[u]
  BY <1>1
<1>6. task' \in [Tasks -> Records]
  BY <1>1, <1>4
<1>7. RecordStep(t)
  BY <1>1, <1>2, <1>4 DEF RecordStep, Changed
<1>8. \A u \in Tasks \ {t} : RecordStep(u)
  <2>1. \A u \in Tasks \ {t} : ViewOf(u, task'[u])
    BY <1>5
  <2> SUFFICES ASSUME NEW u \in Tasks, u # t PROVE RecordStep(u)
    OBVIOUS
  <2>2. live' \subseteq live /\ UNCHANGED turnVars /\ (u \in live' => u \in live)
    BY <1>1
  <2>3. CASE Exists(u)
    <3>1. u \in live => ~Terminal(task[u])
      BY DEF DInv, Promises
    <3>2. /\ Kept(task[u], task'[u]) /\ task'[u].status # "none"
          /\ task'[u].superseded = task[u].superseded /\ task'[u].started = task[u].started
          /\ task'[u].cancelRequested = task[u].cancelRequested
          /\ task'[u].result = task[u].result
      BY <2>1, <2>3 DEF ViewOf, Exists
    <3>3. /\ task'[u].status \in Final => task'[u].status \in {task[u].status, "interrupted"}
          /\ u \in live => task'[u].status \notin Final
      BY <2>1, <2>3, <3>1 DEF ViewOf, Terminal, Final
    <3> QED BY <2>2, <2>3, <3>2, <3>3 DEF RecordStep, Changed, Terminal, Final
  <2>4. CASE ~Exists(u)
    <3>1. u \notin live
      BY <2>4 DEF DInv, Blank
    <3> QED BY <2>1, <2>2, <2>4, <3>1 DEF RecordStep, ViewOf
  <2> QED BY <2>3, <2>4
<1>9. \A u \in Tasks : CallStep(u)
  BY <1>1 DEF CallStep, queueVars
<1>10. Typed'
  BY <1>1, <1>6 DEF DInv, Typed, turnVars
<1> QED BY <1>1, <1>7, <1>8, <1>9, <1>10
     DEF Ordinary, QueueStep, DInv, Turns, queueVars, turnVars

(* A record that is not looked up is a view of itself.                     *)
LEMMA OwnRecordsView ==
  ASSUME DInv PROVE task \in [Tasks -> Records] /\ \A u \in Tasks : ViewOf(u, task[u])
BY DEF DInv, Typed, ViewOf, Kept

(* A prerequisite without a usable result fails the task, if it was not    *)
(* aborted.                                                                *)
LEMMA FailDependencyStep ==
  ASSUME DInv, NEW t \in Tasks, NEW d \in Tasks, FailDependency(t, d) PROVE Ordinary
<1>1. /\ t \in live /\ phase[t] = "idle" /\ t \notin aborted /\ d # t
      /\ Settle(t, Seen({d}), "failed") /\ UNCHANGED queueVars
  BY DEF FailDependency, Ready
<1>2. Seen({d}) \in [Tasks -> Records] /\ \A u \in Tasks : ViewOf(u, Seen({d})[u])
  BY SeenView DEF DInv
<1>3. Seen({d})[t] = task[t]
  BY <1>1 DEF Seen
<1> QED BY <1>1, <1>2, <1>3, SettleStep

(* The wait for a prerequisite is abandoned.                               *)
LEMMA GiveUpStep == ASSUME DInv, NEW t \in Tasks, GiveUp(t) PROVE Ordinary
BY OwnRecordsView, SettleStep DEF GiveUp

(* The final status of a task: cancelled before anything else, completed   *)
(* only with a result.                                                     *)
LEMMA ConcludeStep == ASSUME DInv, NEW t \in Tasks, Conclude(t) PROVE Ordinary
<1> DEFINE status == IF t \in aborted THEN "cancelled"
                     ELSE IF phase[t] = "resolved" /\ ~task[t].error THEN "completed"
                     ELSE "failed"
<1>1. /\ t \in live /\ phase[t] \in {"resolved", "rejected", "refused"}
      /\ Settle(t, task, status) /\ UNCHANGED queueVars
  BY DEF Conclude
<1>2. /\ status \in {"completed", "failed", "cancelled"}
      /\ status = "completed" => phase[t] = "resolved"
      /\ status # "cancelled" => t \notin aborted
  OBVIOUS
<1> HIDE DEF status
<1> QED BY <1>1, <1>2, OwnRecordsView, SettleStep

-----------------------------------------------------------------------------
(* Only the task that asks enters the queue, with nothing left to wait for.*)
LEMMA EnterEffect ==
  ASSUME DInv, NEW t \in Tasks, Ready(t), Queue!Run(t, task[t].session, task[t].readOnly),
         live' = live, runs' = runs, todo'[t] = {},
         \A u \in Tasks \ {t} : todo'[u] = todo[u],
         \A d \in todo[t] : task[d].result
  PROVE  QueueStep /\ aborted' = aborted /\ \A u \in Tasks : CallStep(u)
<1>1. t \in live /\ t \notin aborted /\ Exists(t) /\ task[t] \in Records
  BY DEF Ready, DInv, Blank, Typed
<1>2. task[t].session \in Tasks /\ task[t].readOnly \in BOOLEAN
  BY <1>1 DEF Records, DInv, Conversations
<1>3. /\ aborted' = aborted
      /\ job' = [job EXCEPT ![t] = [key |-> task[t].session, readOnly |-> task[t].readOnly]]
      /\ phase[t] = "idle" /\ phase'[t] \in {"waiting", "starting"}
      /\ \A u \in Tasks \ {t} : Goes(phase[u], phase'[u])
  BY <1>1, RunGoes DEF DInv
<1>4. /\ job'[t] = [key |-> task[t].session, readOnly |-> task[t].readOnly]
      /\ \A u \in Tasks \ {t} : job'[u] = job[u]
  <2>1. job \in [Tasks -> Queue!Jobs]
    BY QueueState DEF DInv
  <2> QED BY <1>3, <2>1
<1>5. CallStep(t)
  BY <1>1, <1>3, <1>4 DEF CallStep
<1>6. \A u \in Tasks \ {t} : CallStep(u)
  BY <1>3, <1>4 DEF CallStep, Goes
<1> QED BY <1>2, <1>3, <1>5, <1>6 DEF QueueStep

(* A task without prerequisites goes to the queue.                         *)
LEMMA EnterQueueStep == ASSUME DInv, NEW t \in Tasks, EnterQueue(t) PROVE Ordinary
<1>1. /\ UNCHANGED <<task, live, todo, turnVars, runs, crashes>>
      /\ Ready(t) /\ todo[t] = {} /\ Queue!Run(t, task[t].session, task[t].readOnly)
  BY DEF EnterQueue
<1>2. QueueStep /\ aborted' = aborted /\ \A u \in Tasks : CallStep(u)
  BY <1>1, EnterEffect
<1>3. \A u \in Tasks : RecordStep(u)
  BY <1>1, <1>2 DEF RecordStep, Changed, Kept, DInv, Promises, Blank, Exists
<1>4. Typed'
  BY <1>1 DEF DInv, Typed, turnVars
<1> QED BY <1>1, <1>2, <1>3, <1>4 DEF Ordinary, DInv, Turns, turnVars

(* The result of a completed prerequisite is taken.                        *)
LEMMA TakeDependencyStep ==
  ASSUME DInv, NEW t \in Tasks, NEW d \in Tasks, TakeDependency(t, d) PROVE Ordinary
<1>1. /\ UNCHANGED <<live, turnVars, runs, crashes>>
      /\ Ready(t) /\ d \in todo[t] /\ Usable(Recovered(d))
      /\ task' = Seen({d}) /\ todo' = [todo EXCEPT ![t] = @ \ {d}]
      /\ IF todo[t] = {d} THEN Queue!Run(t, task[t].session, task[t].readOnly)
         ELSE UNCHANGED queueVars
  BY DEF TakeDependency
<1>2. task[d].result
  BY <1>1, RecoveredView DEF Usable, DInv, Results
<1>3. task' \in [Tasks -> Records] /\ \A u \in Tasks : ViewOf(u, task'[u])
  BY <1>1, SeenView DEF DInv
<1>4. /\ todo' \in [Tasks -> SUBSET Tasks] /\ todo'[t] = todo[t] \ {d}
      /\ \A u \in Tasks \ {t} : todo'[u] = todo[u]
  BY <1>1 DEF DInv, Typed
<1>5. QueueStep /\ aborted' = aborted /\ \A u \in Tasks : CallStep(u)
  <2>1. CASE todo[t] = {d}
    BY <1>1, <1>2, <1>4, <2>1, EnterEffect
  <2>2. CASE todo[t] # {d}
    BY <1>1, <1>2, <1>4, <2>2 DEF CallStep, queueVars, QueueStep
  <2> QED BY <2>1, <2>2
<1>6. \A u \in Tasks : RecordStep(u)
  <2>1. live' = live /\ aborted' = aborted
    BY <1>1, <1>5
  <2> QED BY <1>3, <2>1
     DEF RecordStep, Changed, ViewOf, DInv, Promises, Terminal, Final, Exists, Blank, Kept
<1>7. Typed'
  BY <1>1, <1>3, <1>4 DEF DInv, Typed, turnVars
<1> QED BY <1>1, <1>5, <1>6, <1>7 DEF Ordinary, DInv, Turns, turnVars

(* The key is released after the promise has settled.                      *)
LEMMA ReleaseStep == ASSUME DInv, NEW t \in Tasks, Release(t) PROVE Ordinary
<1>1. /\ UNCHANGED <<task, live, todo, turnVars, runs, crashes>>
      /\ t \notin live /\ Queue!Finally(t)
  BY DEF Release
<1>2. /\ aborted' = aborted /\ job' = job
      /\ phase[t] \in {"resolved", "rejected"} /\ phase'[t] = "released"
      /\ \A u \in Tasks \ {t} : Goes(phase[u], phase'[u])
  BY <1>1, FinallyGoes DEF DInv
<1>3. \A u \in Tasks : CallStep(u)
  BY <1>1, <1>2 DEF CallStep, Goes
<1>4. \A u \in Tasks : RecordStep(u)
  BY <1>1, <1>2 DEF RecordStep, Changed, Kept, DInv, Promises, Blank, Exists
<1>5. Typed'
  BY <1>1 DEF DInv, Typed, turnVars
<1> QED BY <1>1, <1>2, <1>3, <1>4, <1>5 DEF Ordinary, QueueStep, DInv, Turns, turnVars

(* The work begins, once, and ends.                                        *)
LEMMA WorkStep ==
  ASSUME DInv, NEW t \in Tasks,
         Begin(t) \/ \E outcome \in {"resolved", "rejected"} : EndWork(t, outcome)
  PROVE  Ordinary
<1>1. /\ UNCHANGED <<task, live, todo, turnVars, crashes, job, aborted>>
      /\ Queue!Begin(t) \/ \E outcome \in {"resolved", "rejected"} : Queue!Finish(t, outcome)
  BY DEF Begin, EndWork, Queue!Begin, Queue!Finish
<1>2. phase \in [Tasks -> Queue!Phases] /\ runs \in [Tasks -> Nat]
  BY QueueState DEF DInv, Typed
<1>3. \A u \in Tasks \ {t} : phase'[u] = phase[u] /\ runs'[u] = runs[u]
  BY <1>2 DEF Begin, EndWork, Queue!Begin, Queue!Finish
<1>4. \A u \in Tasks \ {t} : CallStep(u)
  BY <1>1, <1>3 DEF CallStep
<1>5. CallStep(t) /\ runs' \in [Tasks -> Nat]
  <2>1. CASE Begin(t)
    <3>1. /\ phase[t] = "starting" /\ t \in live
          /\ IF t \in aborted THEN phase'[t] = "rejected" /\ runs'[t] = runs[t]
             ELSE phase'[t] = "working" /\ runs'[t] = runs[t] + 1
          /\ runs' \in [Tasks -> Nat]
      BY <1>2, <2>1 DEF Begin, Queue!Begin, DInv, Promises
    <3> QED BY <1>1, <3>1 DEF CallStep
  <2>2. CASE \E outcome \in {"resolved", "rejected"} : EndWork(t, outcome)
    <3>1. phase[t] = "working" /\ phase'[t] \in {"resolved", "rejected"} /\ runs' = runs
      BY <1>2, <2>2 DEF EndWork, Queue!Finish
    <3> QED BY <1>1, <1>2, <3>1 DEF CallStep
  <2> QED BY <2>1, <2>2
<1>6. \A u \in Tasks : RecordStep(u)
  BY <1>1 DEF RecordStep, Changed, Kept, DInv, Promises, Blank, Exists
<1>7. Typed'
  BY <1>1, <1>5 DEF DInv, Typed, turnVars
<1> QED BY <1>1, <1>4, <1>5, <1>6, <1>7 DEF Ordinary, QueueStep, DInv, Turns, turnVars

-----------------------------------------------------------------------------
(* The prerequisites that a request may name exist.                        *)
LEMMA OfTasks == Existing \subseteq Tasks /\ Prerequisites \subseteq SUBSET Existing
BY DEF Existing, Prerequisites

(* Every step but a restart is ordinary.                                   *)
LEMMA StepKinds == ASSUME DInv, Next PROVE Ordinary \/ Gateway
<1>1. CASE Client
  <2>1. CASE Look
    BY <2>1, LookStep
  <2>2. ASSUME NEW t \in Tasks, NEW runtime \in Runtimes, NEW cont \in Existing \union {None},
               NEW readOnly \in BOOLEAN, NEW deps \in SUBSET Existing,
               Submit(t, runtime, cont, readOnly, deps)
        PROVE  Ordinary
    BY <2>2, SubmitStep
  <2>3. ASSUME NEW t \in Tasks, Cancel(t) PROVE Ordinary
    BY <2>3, ClientCancelStep
  <2>4. ASSUME NEW t \in Tasks, NEW new \in Tasks \ {t},
               \/ ReviseAgain(t, new)
               \/ \E readOnly \in BOOLEAN, deps \in SUBSET Tasks : Revise(t, new, readOnly, deps)
        PROVE  Ordinary
    BY <2>4, ReviseStep, ReviseAgainStep
  <2>5. ASSUME NEW t \in Tasks, Respond(t) PROVE Ordinary
    BY <2>5, RespondStep
  <2>6. ASSUME NEW t \in Tasks, NEW state \in Deliveries, NEW response \in Responses,
               Deliver(t, state, response)
        PROVE  Ordinary
    BY <2>6, DeliverStep
  <2>7. ASSUME NEW t \in Tasks, Answer(t) PROVE Ordinary
    BY <2>7, AnswerStep
  <2> QED BY <1>1, <2>1, <2>2, <2>3, <2>4, <2>5, <2>6, <2>7, OfTasks DEF Client
<1>2. ASSUME NEW t \in Tasks, TaskPromise(t) PROVE Ordinary
  BY <1>2, DeadlineStep, EnterQueueStep, TakeDependencyStep, FailDependencyStep, GiveUpStep,
     ConcludeStep, ReleaseStep
     DEF TaskPromise
<1>3. ASSUME NEW t \in Tasks, Executor(t) PROVE Ordinary
  BY <1>3, WorkStep, CallbackStep DEF Executor
<1> QED BY <1>1, <1>2, <1>3 DEF Next

(* An ordinary step keeps each part of the invariant but the lineage.      *)
LEMMA BlankKept == ASSUME DInv, Ordinary PROVE Blank'
<1> SUFFICES ASSUME NEW t \in Tasks, ~Exists(t)'
             PROVE  /\ task'[t] = NoTask /\ t \notin live' /\ phase'[t] = "idle"
                    /\ runs'[t] = 0
  BY DEF Blank
<1>1. RecordStep(t) /\ CallStep(t)
  BY DEF Ordinary
<1>2. ~Exists(t) /\ task'[t] = task[t] /\ t \notin live'
  BY <1>1 DEF RecordStep, Changed, Fresh, Exists
<1> QED BY <1>1, <1>2 DEF CallStep, DInv, Blank

(* The backend session and the mode of a task are those it was made with.  *)
LEMMA ConversationsKept == ASSUME DInv, Ordinary PROVE Conversations'
<1> SUFFICES ASSUME NEW t \in Tasks, Exists(t)'
             PROVE  /\ task'[t].session \in Tasks
                    /\ task'[t].runtime = "claude" => ~task'[t].readOnly
  BY DEF Conversations
<1>1. RecordStep(t)
  BY DEF Ordinary
<1> QED BY <1>1 DEF RecordStep, Changed, Kept, Fresh, Exists, DInv, Conversations

(* Each phase of the queue belongs to one part of the life of a promise,   *)
(* and only the microtask of start() begins the work.                      *)
LEMMA PromisesKept == ASSUME DInv, Ordinary PROVE Promises'
<1> SUFFICES ASSUME NEW t \in Tasks
             PROVE  /\ t \in live' => ~Terminal(task'[t])
                    /\ phase'[t] \in {"waiting", "starting", "working"} => t \in live'
                    /\ t \in live' /\ phase'[t] = "idle" => runs'[t] = 0
                    /\ phase'[t] \in {"waiting", "starting"} => runs'[t] = 0
                    /\ phase'[t] \in {"working", "resolved"} => runs'[t] = 1
                    /\ runs'[t] <= 1
  BY DEF Promises
<1>1. RecordStep(t) /\ CallStep(t) /\ runs[t] \in Nat
  BY DEF Ordinary, DInv, Typed
<1>2. t \in live' => ~Terminal(task'[t])
  BY <1>1 DEF RecordStep, Changed, Fresh, Terminal, Final
<1>3. t \in live' => t \in live \/ (phase[t] = "idle" /\ runs[t] = 0)
  BY <1>1 DEF RecordStep, Changed, DInv, Blank
<1> QED BY <1>1, <1>2, <1>3 DEF CallStep, DInv, Promises

(* Only what cancel() did, with the abort, can make a live task a          *)
(* cancelled or a replaced one.                                            *)
LEMMA CancelsKept == ASSUME DInv, Ordinary PROVE Cancels'
<1> SUFFICES ASSUME NEW t \in Tasks
             PROVE  /\ t \in live' /\ task'[t].cancelRequested => t \in aborted'
                    /\ t \in live' /\ task'[t].superseded => task'[t].cancelRequested
                    /\ task'[t].cancelRequested =>
                         task'[t].status \notin {"completed", "failed"}
  BY DEF Cancels
<1>1. RecordStep(t) /\ CallStep(t)
  BY DEF Ordinary
<1>2. CASE Exists(t)
  BY <1>1, <1>2 DEF RecordStep, Changed, CallStep, DInv, Cancels
<1>3. CASE ~Exists(t)
  BY <1>1, <1>3 DEF RecordStep, Fresh, DInv, Blank, NoTask, NewTask
<1> QED BY <1>2, <1>3

(* A result is never taken back, and a prerequisite leaves todo only with  *)
(* one.                                                                    *)
LEMMA ResultsKept == ASSUME DInv, Ordinary PROVE Results'
<1>1. \A d \in Tasks : task[d].result => task'[d].result
  BY DEF Ordinary, RecordStep, Changed, DInv, Blank, NoTask, NewTask
<1> SUFFICES ASSUME NEW t \in Tasks
             PROVE  /\ task'[t].status = "completed" => task'[t].result
                    /\ task'[t].result => runs'[t] = 1
                    /\ t \in live' => \A d \in task'[t].dependsOn \ todo'[t] : task'[d].result
                    /\ t \in live' /\ phase'[t] # "idle" => todo'[t] = {}
                    /\ runs'[t] > 0 => \A d \in task'[t].dependsOn : task'[d].result
  BY DEF Results
<1>2. /\ RecordStep(t) /\ CallStep(t) /\ runs[t] \in Nat
      /\ task[t].dependsOn \subseteq Tasks /\ todo[t] \subseteq Tasks
  BY DEF Ordinary, DInv, Typed, Records
<1>3. CASE Exists(t)
  <2>1. task'[t].dependsOn = task[t].dependsOn
    BY <1>2, <1>3 DEF RecordStep, Changed, Kept
  <2>2. task'[t].status = "completed" => task'[t].result
    BY <1>2, <1>3 DEF RecordStep, Changed, DInv, Results
  <2>3. task'[t].result => runs'[t] = 1
    BY <1>2, <1>3 DEF RecordStep, Changed, CallStep, DInv, Results, Promises
  <2>4. t \in live' => t \in live
    BY <1>2, <1>3 DEF RecordStep, Changed
  <2>5. t \in live' => \A d \in task[t].dependsOn \ todo'[t] : task'[d].result
    BY <1>1, <1>2, <2>4 DEF CallStep, DInv, Results
  <2>6. t \in live' /\ phase'[t] # "idle" => todo'[t] = {}
    BY <1>2, <2>4 DEF CallStep, DInv, Results
  <2>7. runs'[t] > 0 => \A d \in task[t].dependsOn : task'[d].result
    <3>1. CASE runs'[t] = runs[t]
      BY <1>1, <1>2, <3>1 DEF DInv, Results
    <3>2. CASE phase[t] = "starting"
      <4>1. t \in live /\ todo[t] = {}
        BY <3>2 DEF DInv, Promises, Results
      <4> QED BY <1>1, <1>2, <4>1 DEF DInv, Results
    <3> QED BY <1>2, <3>1, <3>2 DEF CallStep
  <2> QED BY <2>1, <2>2, <2>3, <2>5, <2>6, <2>7
<1>4. CASE ~Exists(t)
  <2>1. /\ task[t] = NoTask /\ phase[t] = "idle" /\ runs[t] = 0 /\ t \notin live
    BY <1>4 DEF DInv, Blank
  <2>2. phase'[t] = "idle" /\ runs'[t] = 0
    BY <1>2, <2>1 DEF CallStep
  <2>3. CASE Fresh(t)
    BY <2>2, <2>3 DEF Fresh
  <2>4. CASE task'[t] = task[t] /\ t \notin live'
    BY <2>1, <2>2, <2>4 DEF NoTask, NewTask
  <2> QED BY <1>2, <1>4, <2>3, <2>4 DEF RecordStep
<1> QED BY <1>3, <1>4

(* The key of a call is the conversation of its task as long as the call   *)
(* exists.                                                                 *)
LEMMA TurnsKept == ASSUME DInv, Ordinary PROVE Turns'
<1> SUFFICES ASSUME NEW t \in Tasks
             PROVE  /\ phase'[t] # "idle" =>
                         job'[t] = [key |-> task'[t].session, readOnly |-> task'[t].readOnly]
                    /\ t \in live' /\ task'[t].started =>
                         phase'[t] \in {"working", "resolved", "rejected"}
  BY DEF Turns, Ordinary
<1>1. RecordStep(t) /\ CallStep(t)
  BY DEF Ordinary
<1>2. CASE Exists(t)
  BY <1>1, <1>2 DEF RecordStep, Changed, Kept, CallStep, DInv, Turns, Working
<1>3. CASE ~Exists(t)
  BY <1>1, <1>3 DEF RecordStep, Fresh, CallStep, DInv, Blank
<1> QED BY <1>2, <1>3

-----------------------------------------------------------------------------
(* The lineage changes only in a revision, which a task already replaced   *)
(* refuses, or which is the same again.                                    *)
LineageStep ==
  \A t \in Tasks : /\ task'[t].supersedes = task[t].supersedes
                   /\ task'[t].superseded = task[t].superseded

(* The lineage once new replaces old.                                      *)
Replaces(old, new) ==
  /\ old \in Tasks /\ new \in Tasks /\ ~Exists(new) /\ ~task[old].superseded
  /\ task'[new].supersedes = old /\ ~task'[new].superseded
  /\ \A t \in Tasks \ {new} : task'[t].supersedes = task[t].supersedes
  /\ \A t \in Tasks \ {old, new} : task'[t].superseded = task[t].superseded
  /\ task'[old].superseded \/ crashes' # 0

ReplacedAgain(old, new) ==
  /\ old \in Tasks /\ new \in Tasks /\ task[new].supersedes = old
  /\ \A t \in Tasks : task'[t].supersedes = task[t].supersedes
  /\ \A t \in Tasks \ {old} : task'[t].superseded = task[t].superseded
  /\ task'[old].superseded

(* A replacement is added only to a task that has none, unless the gateway *)
(* died in between.                                                        *)
LEMMA LineageKept ==
  ASSUME DInv, crashes' = 0 => crashes = 0,
         \/ LineageStep
         \/ \E old, new : Replaces(old, new) \/ ReplacedAgain(old, new)
  PROVE  Lineage'
<1>0. \A t \in Tasks : ~Exists(t) => task[t].supersedes = None /\ ~task[t].superseded
  BY DEF DInv, Blank, NoTask, NewTask
<1>1. CASE LineageStep
  <2>1. \A old : Replacements(old)' = Replacements(old)
    BY <1>1 DEF LineageStep, Replacements
  <2> QED BY <1>1, <2>1 DEF LineageStep, DInv, Lineage
<1>2. ASSUME NEW old, NEW new, Replaces(old, new) PROVE Lineage'
  <2>1. /\ Replacements(old)' = Replacements(old) \union {new}
        /\ \A o \in Tasks \ {old} : Replacements(o)' = Replacements(o)
    BY <1>0, <1>2, DelegationAssumption DEF Replaces, Replacements
  <2>2. crashes' = 0 => Replacements(old)' = {new} /\ task'[old].superseded
    BY <1>2, <2>1 DEF Replaces, DInv, Lineage
  <2>3. \A o \in Tasks \ {old} :
          /\ task'[o].superseded => Replacements(o)' # {}
          /\ crashes' = 0 => /\ \A t, u \in Replacements(o)' : t = u
                             /\ Replacements(o)' # {} => task'[o].superseded
    BY <1>0, <1>2, <2>1 DEF Replaces, DInv, Lineage
  <2>4. Replacements(old)' # {}
    BY <2>1
  <2> QED BY <2>2, <2>3, <2>4 DEF Lineage
<1>3. ASSUME NEW old, NEW new, ReplacedAgain(old, new) PROVE Lineage'
  <2>1. \A o : Replacements(o)' = Replacements(o)
    BY <1>3 DEF ReplacedAgain, Replacements
  <2>2. new \in Replacements(old)
    BY <1>3 DEF ReplacedAgain, Replacements
  <2> QED BY <1>3, <2>1, <2>2 DEF ReplacedAgain, DInv, Lineage
<1> QED BY <1>1, <1>2, <1>3

SameLineage(r, q) == q.supersedes = r.supersedes /\ q.superseded = r.superseded

(* Lookups leave the lineage alone,                                        *)
LEMMA SeenLineage ==
  ASSUME DInv, NEW S
  PROVE  /\ Seen(S) \in [Tasks -> Records]
         /\ \A u \in Tasks : SameLineage(task[u], Seen(S)[u]) /\ SameLineage(task[u], Recovered(u))
BY SeenView, RecoveredView DEF DInv, ViewOf, Kept, SameLineage

(* A handler that edits no lineage.                                        *)
LEMMA EditLineage ==
  ASSUME NEW tk \in [Tasks -> Records], NEW t \in Tasks, NEW q,
         \A u \in Tasks : SameLineage(task[u], tk[u]),
         SameLineage(tk[t], q), task' = [tk EXCEPT ![t] = q]
  PROVE  LineageStep
<1>1. task'[t] = q /\ \A u \in Tasks \ {t} : task'[u] = tk[u]
  OBVIOUS
<1> QED BY <1>1 DEF SameLineage, LineageStep

(* and so does cancel(),                                                   *)
LEMMA CancelLineage ==
  ASSUME NEW tk \in [Tasks -> Records], NEW t \in Tasks,
         CancelIn(t, tk)
  PROVE  \A u \in Tasks : SameLineage(tk[u], task'[u])
<1> DEFINE q == [tk[t] EXCEPT !.status = "cancelling", !.cancelRequested = TRUE]
<1>1. tk[t] \in Records
  OBVIOUS
<1>2. SameLineage(tk[t], q)
  BY <1>1 DEF SameLineage, Records
<1>3. task' = tk \/ task' = [tk EXCEPT ![t] = q]
  BY DEF CancelIn
<1> HIDE DEF q
<1>4. \A u \in Tasks : task'[u] = tk[u] \/ (u = t /\ task'[u] = q)
  BY <1>3
<1> QED BY <1>2, <1>4 DEF SameLineage

(* the handlers that are no revision,                                      *)
LEMMA ClientLineage ==
  ASSUME DInv, NEW t \in Tasks,
         \/ Look \/ Cancel(t) \/ Respond(t) \/ Answer(t)
         \/ \E state, response : Deliver(t, state, response)
         \/ \E runtime \in Runtimes, cont \in Existing \union {None}, readOnly \in BOOLEAN,
               deps \in SUBSET Existing : Submit(t, runtime, cont, readOnly, deps)
  PROVE  LineageStep
<1>0. task \in [Tasks -> Records] /\ \A u \in Tasks : SameLineage(task[u], task[u])
  BY DEF DInv, Typed, SameLineage
<1>1. CASE Look
  <2>1. PICK S : task' = Seen(S)
    BY <1>1 DEF Look
  <2> QED BY <2>1, SeenLineage DEF LineageStep, SameLineage
<1>2. CASE Cancel(t)
  <2>1. \A u \in Tasks : SameLineage(Seen({t})[u], task'[u])
    BY <1>2, SeenLineage, CancelLineage DEF Cancel
  <2> QED BY <2>1, SeenLineage DEF LineageStep, SameLineage
<1>3. CASE Respond(t)
  <2>1. SameLineage(task[t], [Recovered(t) EXCEPT !.input = 0, !.status = "running"])
    <3>1. ViewOf(t, Recovered(t))
      BY RecoveredView DEF DInv
    <3> QED BY <3>1 DEF ViewOf, Kept, SameLineage, Records
  <2>2. task' = [task EXCEPT ![t] = [Recovered(t) EXCEPT !.input = 0, !.status = "running"]]
    BY <1>3 DEF Respond
  <2> QED BY <1>0, <2>1, <2>2, EditLineage
<1>4. CASE Answer(t)
  BY <1>4 DEF Answer, LineageStep
<1>5. ASSUME NEW state, NEW response, Deliver(t, state, response) PROVE LineageStep
  <2>1. ViewOf(t, Recovered(t))
    BY RecoveredView DEF DInv
  <2>2. /\ SameLineage(task[t], Recovered(t))
        /\ SameLineage(task[t], [Recovered(t) EXCEPT !.delivery = state, !.response = response])
    BY <2>1 DEF ViewOf, Kept, SameLineage, Records
  <2>3. \/ task' = [task EXCEPT ![t] = Recovered(t)]
        \/ task' = [task EXCEPT ![t] =
                      [Recovered(t) EXCEPT !.delivery = state, !.response = response]]
    BY <1>5 DEF Deliver
  <2> QED BY <1>0, <2>2, <2>3, EditLineage
<1>6. ASSUME NEW runtime \in Runtimes, NEW cont \in Existing \union {None},
             NEW readOnly \in BOOLEAN, NEW deps \in SUBSET Existing,
             Submit(t, runtime, cont, readOnly, deps)
      PROVE  LineageStep
  <2> DEFINE q == Submitted(t, runtime, cont, readOnly, deps, None)
             S == deps \union ({cont} \ {None})
  <2>1. FreshRecord(q, deps, None)
    <3>1. deps \in SUBSET Tasks
      BY DEF Existing
    <3> QED BY <3>1, SubmittedFresh
  <2>2. task' = [Seen(S) EXCEPT ![t] = q] /\ task[t] = NoTask
    BY <1>6 DEF Submit, Known, DInv, Blank
  <2> HIDE DEF q, S
  <2>3. /\ \A u \in Tasks \ {t} : task'[u] = Seen(S)[u]
        /\ task'[t] = q
    BY <2>2, SeenLineage
  <2>4. q.superseded = FALSE
    BY DEF q, Submitted, NewTask
  <2>5. SameLineage(task[t], task'[t])
    <3>1. NoTask.supersedes = None /\ NoTask.superseded = FALSE
      BY DEF NoTask, NewTask
    <3>2. q.supersedes = None
      BY <2>1 DEF FreshRecord
    <3> QED BY <2>2, <2>3, <2>4, <3>1, <3>2 DEF SameLineage
  <2> QED BY <2>3, <2>5, SeenLineage DEF LineageStep, SameLineage
<1> QED BY <1>1, <1>2, <1>3, <1>4, <1>5, <1>6

(* and what promises and the executor do.                                  *)
LEMMA PromiseLineage ==
  ASSUME DInv, NEW t \in Tasks, TaskPromise(t) \/ Executor(t)
  PROVE  LineageStep
<1>0. task \in [Tasks -> Records] /\ \A u \in Tasks : SameLineage(task[u], task[u])
  BY DEF DInv, Typed, SameLineage
<1>1. CASE Deadline(t)
  <2> DEFINE tk == [task EXCEPT ![t].error = TRUE]
  <2>1. tk \in [Tasks -> Records] /\ \A u \in Tasks : SameLineage(task[u], tk[u])
    <3>1. task[t] \in Records
      BY <1>0
    <3>2. /\ [task[t] EXCEPT !.error = TRUE] \in Records
          /\ SameLineage(task[t], [task[t] EXCEPT !.error = TRUE])
      BY <3>1 DEF Records, SameLineage
    <3> QED BY <1>0, <3>2
  <2>2. CancelIn(t, tk)
    BY <1>1 DEF Deadline
  <2> HIDE DEF tk
  <2>3. \A u \in Tasks : SameLineage(tk[u], task'[u])
    BY <2>1, <2>2, CancelLineage
  <2> QED BY <2>1, <2>3 DEF SameLineage, LineageStep
<1>2. ASSUME NEW d \in Tasks, TakeDependency(t, d) PROVE LineageStep
  BY <1>2, SeenLineage DEF TakeDependency, SameLineage, LineageStep
<1>3. ASSUME NEW tk \in [Tasks -> Records], NEW status, Settle(t, tk, status),
             \A u \in Tasks : SameLineage(task[u], tk[u])
      PROVE  LineageStep
  <2> DEFINE q == [tk[t] EXCEPT !.status = status, !.result = @ \/ phase[t] = "resolved",
                                !.error = @ \/ phase[t] # "resolved"]
  <2>1. tk[t] \in Records
    OBVIOUS
  <2>2. SameLineage(tk[t], q)
    BY <2>1 DEF SameLineage, Records
  <2>3. task' = [tk EXCEPT ![t] = q]
    BY <1>3 DEF Settle
  <2> HIDE DEF q
  <2> QED BY <1>3, <2>2, <2>3, EditLineage
<1>4. CASE GiveUp(t) \/ Conclude(t) \/ \E d \in Tasks : FailDependency(t, d)
  BY <1>0, <1>3, <1>4, SeenLineage DEF GiveUp, Conclude, FailDependency
<1>5. CASE Started(t) \/ Ask(t) \/ Resume(t) \/ ErrorEvent(t)
  <2>1. task[t] \in Records
    BY <1>0
  <2>2. \E q : SameLineage(task[t], q) /\ task' = [task EXCEPT ![t] = q]
    <3>1. \A st : /\ SameLineage(task[t], [task[t] EXCEPT !.status = st])
                  /\ SameLineage(task[t], [task[t] EXCEPT !.started = TRUE, !.status = st])
                  /\ SameLineage(task[t], [task[t] EXCEPT !.error = TRUE])
      BY <2>1 DEF SameLineage, Records
    <3> QED BY ZenonT(40), <1>5, <3>1 DEF Started, Ask, Resume, ErrorEvent
  <2> QED BY <1>0, <2>2, EditLineage
<1>6. CASE UNCHANGED task
  BY <1>6 DEF LineageStep
<1> QED BY <1>1, <1>2, <1>4, <1>5, <1>6
     DEF TaskPromise, Executor, EnterQueue, Release, Begin, EndWork

(* The records of a revision: those of Replacing are new for new only.     *)
LEMMA ReplacingRecords ==
  ASSUME DInv, NEW old \in Tasks, NEW new \in Tasks, old # new, NEW readOnly \in BOOLEAN,
         NEW deps \in SUBSET Tasks, Exists(old), ~Exists(new),
         NEW base, base = Replacing(old, new, readOnly, deps)
  PROVE  /\ base \in [Tasks -> Records] /\ FreshRecord(base[new], deps, old)
         /\ \A u \in Tasks \ {new} :
              ViewOf(u, base[u]) /\ SameLineage(task[u], base[u])
<1> DEFINE q == Submitted(new, None, old, readOnly, deps, old)
           S == deps \union {old}
<1>1. q \in Records /\ FreshRecord(q, deps, old)
  <2>1. old \in Existing \union {None} /\ old # None
    BY DelegationAssumption DEF Existing
  <2> QED BY <2>1, SubmittedFresh
<1>2. base = [Seen(S) EXCEPT ![new] = q]
  BY DEF Replacing
<1> HIDE DEF q, S
<1>3. Seen(S) \in [Tasks -> Records] /\ \A u \in Tasks : ViewOf(u, Seen(S)[u])
  BY SeenView DEF DInv
<1>4. /\ base \in [Tasks -> Records] /\ base[new] = q
      /\ \A u \in Tasks \ {new} : base[u] = Seen(S)[u]
  BY <1>1, <1>2, <1>3
<1> QED BY <1>1, <1>3, <1>4, SeenLineage

(* A revision gives a current task its replacement.                        *)
LEMMA ReviseLineage ==
  ASSUME DInv, NEW old \in Tasks, NEW new \in Tasks, old # new, NEW readOnly \in BOOLEAN,
         NEW deps \in SUBSET Tasks, Revise(old, new, readOnly, deps)
  PROVE  Replaces(old, new)
<1> DEFINE base == Replacing(old, new, readOnly, deps)
           tk == [base EXCEPT ![old].superseded = TRUE]
<1>1. /\ Exists(old) /\ ~Exists(new) /\ CancelIn(old, tk) /\ ~task[old].superseded
  BY DelegationAssumption DEF Revise, Known, MayContinue
<1>2. /\ base \in [Tasks -> Records] /\ FreshRecord(base[new], deps, old)
      /\ \A u \in Tasks \ {new} : SameLineage(task[u], base[u])
  BY <1>1, ReplacingRecords
<1> HIDE DEF base
<1>3. /\ tk \in [Tasks -> Records] /\ tk[old].superseded
      /\ tk[old].supersedes = base[old].supersedes
      /\ \A u \in Tasks \ {old} : tk[u] = base[u]
  <2>1. base[old] \in Records /\ tk[old] = [base[old] EXCEPT !.superseded = TRUE]
    BY <1>2
  <2>2. tk[old] \in Records
    <3> DEFINE q == [base[old] EXCEPT !.superseded = TRUE]
    <3>1. q \in Records
      BY <2>1 DEF Records
    <3> HIDE DEF q
    <3> QED BY <2>1, <3>1 DEF q
  <2>3. tk[old].superseded = TRUE /\ tk[old].supersedes = base[old].supersedes
    BY <2>1 DEF Records
  <2> QED BY <1>2, <2>2, <2>3
<1> HIDE DEF tk
<1>4. \A u \in Tasks : SameLineage(tk[u], task'[u])
  BY <1>1, <1>3, CancelLineage
<1> QED BY <1>1, <1>2, <1>3, <1>4 DEF Replaces, FreshRecord, SameLineage

(* Repeated, it marks the task it has replaced already.                    *)
LEMMA ReviseAgainLineage ==
  ASSUME DInv, NEW old \in Tasks, NEW new \in Tasks, old # new, ReviseAgain(old, new)
  PROVE  ReplacedAgain(old, new)
<1> DEFINE base == Seen({old, new})
           tk == [base EXCEPT ![old].superseded = TRUE]
<1>1. CancelIn(old, tk) /\ task[new].supersedes = old
  BY DEF ReviseAgain
<1>2. base \in [Tasks -> Records] /\ \A u \in Tasks : SameLineage(task[u], base[u])
  BY SeenLineage
<1> HIDE DEF base
<1>3. /\ tk \in [Tasks -> Records] /\ tk[old].superseded
      /\ tk[old].supersedes = base[old].supersedes
      /\ \A u \in Tasks \ {old} : tk[u] = base[u]
  <2>1. base[old] \in Records /\ tk[old] = [base[old] EXCEPT !.superseded = TRUE]
    BY <1>2
  <2>2. tk[old] \in Records
    <3> DEFINE q == [base[old] EXCEPT !.superseded = TRUE]
    <3>1. q \in Records
      BY <2>1 DEF Records
    <3> HIDE DEF q
    <3> QED BY <2>1, <3>1 DEF q
  <2>3. tk[old].superseded = TRUE /\ tk[old].supersedes = base[old].supersedes
    BY <2>1 DEF Records
  <2> QED BY <1>2, <2>2, <2>3
<1> HIDE DEF tk
<1>4. \A u \in Tasks : SameLineage(tk[u], task'[u])
  BY <1>1, <1>3, CancelLineage
<1> QED BY <1>1, <1>2, <1>3, <1>4 DEF ReplacedAgain, SameLineage

-----------------------------------------------------------------------------
(* A restart empties the memory: no promise, no queue, no signal.          *)
LEMMA QueueEmptied == ASSUME Restart PROVE QP!IInv'
<1>1. Queue!Init'
  BY DEF Restart, Queue!Init
<1>2. (Queue!Init => QP!IInv)'
  BY QueueInit, PTL
<1> QED BY <1>1, <1>2

(* What is left of a task: all that a lookup shows, but for its mark.      *)
Left(t, q) ==
  /\ Kept(task[t], q)
  /\ q.cancelRequested = task[t].cancelRequested /\ q.result = task[t].result
  /\ q.status \in {"completed", "failed"} => q.status = task[t].status
  /\ Exists(t) => q.status # "none"

(* A restart keeps the invariant: the tasks keep what they are, nothing in *)
(* memory speaks of them, and an unfinished revision leaves a replacement  *)
(* of a task that may not be marked.                                       *)
LEMMA RestartStep ==
  ASSUME DInv, Gateway
  PROVE  /\ QP!IInv' /\ Typed' /\ Blank' /\ Conversations' /\ Promises'
         /\ Cancels' /\ Results' /\ Turns' /\ Lineage'
         /\ \A t \in Tasks : task'[t].status = "completed" => task[t].status = "completed"
<1>1. Restart
  BY DEF Gateway, Crash, CrashInRevise
<1>2. /\ live' = {} /\ runs' = runs /\ phase' = [t \in Tasks |-> "idle"]
      /\ crashes' = crashes + 1 /\ crashes' # 0 /\ crashes' \in Nat /\ cut' = {} /\ aborted' = {}
  BY <1>1 DEF Restart, DInv, Typed
<1>3. /\ task' \in [Tasks -> Records]
      /\ \A t \in Tasks :
           \/ Left(t, task'[t]) /\ (Exists(t) \/ task'[t] = task[t])
           \/ ~Exists(t) /\ \E deps, old : FreshRecord(task'[t], deps, old)
      /\ LineageStep \/ \E old, new : Replaces(old, new)
  <2>1. CASE Crash
    BY <2>1 DEF Crash, LineageStep, Left, Kept, Exists, DInv, Typed
  <2>2. ASSUME NEW old \in Tasks, NEW new \in Tasks \ {old}, NEW readOnly \in BOOLEAN,
               NEW deps \in SUBSET Tasks, CrashInRevise(old, new, readOnly, deps)
        PROVE  <1>3!1 /\ <1>3!2 /\ Replaces(old, new)
    <3> DEFINE base == Replacing(old, new, readOnly, deps)
    <3>1. PICK marked \in BOOLEAN : task' = [base EXCEPT ![old].superseded = marked]
      BY <2>2 DEF CrashInRevise
    <3>2. Exists(old) /\ ~Exists(new) /\ ~task[old].superseded
      BY <2>2, DelegationAssumption DEF CrashInRevise, Known, MayContinue
    <3>3. /\ base \in [Tasks -> Records] /\ FreshRecord(base[new], deps, old)
          /\ \A u \in Tasks \ {new} : ViewOf(u, base[u]) /\ SameLineage(task[u], base[u])
      BY <3>2, ReplacingRecords
    <3> HIDE DEF base
    <3>4. /\ base[old] \in Records /\ ViewOf(old, base[old])
          /\ SameLineage(task[old], base[old])
      BY <3>3
    <3>5. /\ task' \in [Tasks -> Records] /\ \A u \in Tasks \ {old} : task'[u] = base[u]
          /\ task'[old] = [base[old] EXCEPT !.superseded = marked]
      <4>1. [base[old] EXCEPT !.superseded = marked] \in Records
        BY <3>4 DEF Records
      <4> QED BY <3>1, <3>3, <4>1
    <3>6. Left(old, task'[old]) /\ task'[old].supersedes = task[old].supersedes
      BY <3>2, <3>4, <3>5 DEF ViewOf, Left, Kept, Records, Exists, Terminal, Final
    <3>7. \A u \in Tasks \ {old, new} : Left(u, task'[u]) /\ (Exists(u) \/ task'[u] = task[u])
      BY <3>3, <3>5 DEF ViewOf, Left, Kept, Exists, Terminal, Final
    <3>8. Replaces(old, new)
      BY <1>2, <3>2, <3>3, <3>5, <3>6 DEF Replaces, FreshRecord, SameLineage
    <3> QED BY <3>2, <3>3, <3>5, <3>6, <3>7, <3>8
  <2> QED BY <2>1, <2>2, OfTasks DEF Gateway
<1>4. Typed'
  BY <1>1, <1>2, <1>3 DEF Restart, DInv, Typed
<1>5. \A t \in Tasks : \/ Exists(t) /\ Left(t, task'[t])
                       \/ ~Exists(t) /\ task'[t] = task[t]
                       \/ ~Exists(t) /\ \E deps, old : FreshRecord(task'[t], deps, old)
  BY <1>3
<1>6. Blank'
  BY <1>2, <1>5 DEF Blank, DInv, Left, FreshRecord, Exists
<1>7. Conversations'
  BY <1>2, <1>5 DEF Conversations, DInv, Left, Kept, FreshRecord, Exists
<1>8. Promises'
  BY <1>2 DEF DInv, Promises
<1>9. Cancels'
  BY <1>2, <1>5 DEF Cancels, DInv, Left, FreshRecord, Blank, NoTask, NewTask
<1>10. Results'
  <2>1. \A d \in Tasks : task'[d].result = task[d].result \/ ~Exists(d)
    BY <1>5 DEF Left
  <2> SUFFICES ASSUME NEW t \in Tasks
               PROVE  /\ task'[t].status = "completed" => task'[t].result
                      /\ task'[t].result => runs'[t] = 1
                      /\ runs'[t] > 0 => \A d \in task'[t].dependsOn : task'[d].result
    BY <1>2 DEF Results
  <2>2. \A d \in Tasks : task[d].result => task'[d].result
    BY <2>1 DEF DInv, Blank, NoTask, NewTask
  <2>3. task[t].dependsOn \subseteq Tasks
    BY DEF DInv, Typed, Records
  <2>4. CASE Exists(t) /\ Left(t, task'[t])
    BY <1>2, <2>2, <2>3, <2>4 DEF Left, Kept, DInv, Results
  <2>5. CASE ~Exists(t)
    BY <1>2, <1>5, <2>5 DEF FreshRecord, DInv, Blank, NoTask, NewTask
  <2> QED BY <1>5, <2>4, <2>5
<1>11. Turns'
  BY <1>2 DEF DInv, Turns
<1>12. Lineage'
  BY <1>2, <1>3, LineageKept
<1>13. \A t \in Tasks : task'[t].status = "completed" => task[t].status = "completed"
  BY <1>5 DEF Left, FreshRecord, DInv, Blank, NoTask, NewTask
<1> QED BY <1>1, <1>4, <1>6, <1>7, <1>8, <1>9, <1>10, <1>11, <1>12, <1>13, QueueEmptied

-----------------------------------------------------------------------------
(* Before a restart, what a lookup shows as running has a promise and has  *)
(* started, if that was so of the records it found.                        *)
ShownAs(u, q) == q.status = "running" => u \in live /\ q.started

Sincere ==
  /\ DInv /\ crashes = 0
  /\ \A u \in Tasks : ShownAs(u, task[u])

LEMMA RecoveredShown ==
  ASSUME Sincere, NEW u \in Tasks
  PROVE  ShownAs(u, Recovered(u))
<1>1. task[u] \in Records /\ ShownAs(u, task[u])
  BY DEF Sincere, DInv, Typed
<1>2. CASE ~Exists(u) \/ Terminal(task[u])
  BY <1>1, <1>2 DEF Recovered
<1>3. CASE Exists(u) /\ ~Terminal(task[u]) /\ u \notin live
  <2>1. Recovered(u) = [task[u] EXCEPT !.status = "interrupted", !.error = TRUE]
    BY <1>3 DEF Recovered
  <2> QED BY <1>1, <2>1 DEF ShownAs, Records
<1>4. CASE Exists(u) /\ ~Terminal(task[u]) /\ u \in live
  <2> DEFINE i == asking[task[u].session]
             s == IF i # 0 THEN "needs_input" ELSE IF task[u].started THEN "running" ELSE "queued"
  <2>1. \/ Recovered(u) = task[u]
        \/ Recovered(u) = [task[u] EXCEPT !.input = i, !.status = s]
    BY <1>4 DEF Recovered
  <2>2. s = "running" => task[u].started
    OBVIOUS
  <2> HIDE DEF i, s
  <2>3. CASE Recovered(u) = [task[u] EXCEPT !.input = i, !.status = s]
    <3>1. Recovered(u).status = s /\ Recovered(u).started = task[u].started
      BY <1>1, <2>3 DEF Records
    <3> QED BY <1>4, <2>2, <3>1 DEF ShownAs
  <2> QED BY <1>1, <2>1, <2>3
<1> QED BY <1>2, <1>3, <1>4

LEMMA SeenShown ==
  ASSUME Sincere, NEW S
  PROVE  /\ Seen(S) \in [Tasks -> Records]
         /\ \A u \in Tasks : ShownAs(u, Seen(S)[u])
<1>1. \A u \in Tasks : ShownAs(u, Seen(S)[u])
  BY RecoveredShown DEF Seen, Sincere
<1> QED BY <1>1, SeenView DEF Sincere, DInv

(* A handler that edits one record, and forgets no promise.                *)
LEMMA EditShown ==
  ASSUME NEW t \in Tasks, NEW tk \in [Tasks -> Records], NEW q,
         \A u \in Tasks \ {t} : ShownAs(u, tk[u]), ShownAs(t, q),
         task' = [tk EXCEPT ![t] = q]
  PROVE  \A u \in Tasks : ShownAs(u, task'[u])
BY DEF ShownAs

LEMMA CancelShown ==
  ASSUME NEW t \in Tasks, NEW tk \in [Tasks -> Records], CancelIn(t, tk),
         \A u \in Tasks : ShownAs(u, tk[u])
  PROVE  \A u \in Tasks : ShownAs(u, task'[u])
<1>1. CASE Terminal(tk[t])
  BY <1>1 DEF CancelIn
<1>2. CASE ~Terminal(tk[t])
  <2> DEFINE q == [tk[t] EXCEPT !.status = "cancelling", !.cancelRequested = TRUE]
  <2>1. task' = [tk EXCEPT ![t] = q]
    BY <1>2 DEF CancelIn
  <2>2. ShownAs(t, q)
    BY DEF ShownAs, Records
  <2> HIDE DEF q
  <2> QED BY <2>1, <2>2, EditShown
<1> QED BY <1>1, <1>2

(* Marking a task as superseded shows no other status.                     *)
LEMMA MarkedShown ==
  ASSUME NEW old \in Tasks, NEW base \in [Tasks -> Records],
         \A u \in Tasks : ShownAs(u, base[u])
  PROVE  /\ [base EXCEPT ![old].superseded = TRUE] \in [Tasks -> Records]
         /\ \A u \in Tasks : ShownAs(u, [base EXCEPT ![old].superseded = TRUE][u])
<1> DEFINE q == [base[old] EXCEPT !.superseded = TRUE]
<1>1. base[old] \in Records /\ ShownAs(old, base[old])
  OBVIOUS
<1>2. q \in Records
  BY <1>1 DEF Records
<1>3. ShownAs(old, q)
  BY <1>1 DEF Records, ShownAs
<1>4. [base EXCEPT ![old].superseded = TRUE] = [base EXCEPT ![old] = q]
  OBVIOUS
<1> HIDE DEF q
<1> QED BY <1>2, <1>3, <1>4

(* The handlers of a client, respond apart.                                *)
LEMMA ClientShown ==
  ASSUME Sincere, Client, ~\E t \in Tasks : Respond(t)
  PROVE  live \subseteq live' /\ \A u \in Tasks : ShownAs(u, task'[u])
<1>0. task \in [Tasks -> Records] /\ \A u \in Tasks : ShownAs(u, task[u])
  BY DEF Sincere, DInv, Typed
<1>1. CASE Look
  <2>1. PICK S : task' = Seen(S) /\ live' = live
    BY <1>1 DEF Look
  <2> QED BY <2>1, SeenShown
<1>2. ASSUME NEW t \in Tasks, NEW runtime \in Runtimes, NEW cont \in Existing \union {None},
             NEW readOnly \in BOOLEAN, NEW deps \in SUBSET Existing,
             Submit(t, runtime, cont, readOnly, deps)
      PROVE  live \subseteq live' /\ \A u \in Tasks : ShownAs(u, task'[u])
  <2> DEFINE S == deps \union ({cont} \ {None})
             q == Submitted(t, runtime, cont, readOnly, deps, None)
  <2>1. task' = [Seen(S) EXCEPT ![t] = q] /\ live' = live \union {t}
    BY <1>2 DEF Submit
  <2>2. ShownAs(t, q)
    BY DEF Submitted, NewTask, ShownAs
  <2> HIDE DEF S, q
  <2> QED BY <2>1, <2>2, SeenShown, EditShown
<1>3. ASSUME NEW t \in Tasks, Cancel(t)
      PROVE  live \subseteq live' /\ \A u \in Tasks : ShownAs(u, task'[u])
  BY <1>3, SeenShown, CancelShown DEF Cancel
<1>4. ASSUME NEW old \in Tasks, NEW new \in Tasks \ {old}, NEW readOnly \in BOOLEAN,
             NEW deps \in SUBSET Tasks, Revise(old, new, readOnly, deps)
      PROVE  live \subseteq live' /\ \A u \in Tasks : ShownAs(u, task'[u])
  <2> DEFINE base == Replacing(old, new, readOnly, deps)
             tk == [base EXCEPT ![old].superseded = TRUE]
  <2>1. CancelIn(old, tk) /\ live' = live \union {new} /\ Exists(old) /\ ~Exists(new)
    BY <1>4 DEF Revise, Known
  <2>2. base \in [Tasks -> Records]
    BY <2>1, ReplacingRecords DEF Sincere
  <2>3. \A u \in Tasks : ShownAs(u, base[u])
    <3> DEFINE q == Submitted(new, None, old, readOnly, deps, old)
               S == deps \union {old}
    <3>1. base = [Seen(S) EXCEPT ![new] = q]
      BY DEF Replacing
    <3>2. q.status # "running"
      BY DEF Submitted, NewTask
    <3> HIDE DEF q, S, base
    <3> QED BY <3>1, <3>2, SeenShown DEF ShownAs
  <2> HIDE DEF base
  <2>4. tk \in [Tasks -> Records] /\ \A u \in Tasks : ShownAs(u, tk[u])
    BY <2>2, <2>3, MarkedShown
  <2> HIDE DEF tk
  <2> QED BY <2>1, <2>4, CancelShown
<1>5. ASSUME NEW old \in Tasks, NEW new \in Tasks \ {old}, ReviseAgain(old, new)
      PROVE  live \subseteq live' /\ \A u \in Tasks : ShownAs(u, task'[u])
  <2> DEFINE base == Seen({old, new})
             tk == [base EXCEPT ![old].superseded = TRUE]
  <2>1. CancelIn(old, tk) /\ live' = live
    BY <1>5 DEF ReviseAgain
  <2>2. base \in [Tasks -> Records] /\ \A u \in Tasks : ShownAs(u, base[u])
    BY SeenShown
  <2> HIDE DEF base
  <2>3. tk \in [Tasks -> Records] /\ \A u \in Tasks : ShownAs(u, tk[u])
    BY <2>2, MarkedShown
  <2> HIDE DEF tk
  <2> QED BY <2>1, <2>3, CancelShown
<1>6. ASSUME NEW t \in Tasks, NEW state, NEW response, Deliver(t, state, response)
      PROVE  live \subseteq live' /\ \A u \in Tasks : ShownAs(u, task'[u])
  <2> DEFINE r == Recovered(t)
             q == IF r.superseded \/ (r.delivery \in SettledDelivery /\ r.response = response)
                  THEN r ELSE [r EXCEPT !.delivery = state, !.response = response]
  <2>1. task' = [task EXCEPT ![t] = q] /\ live' = live
    BY <1>6 DEF Deliver
  <2>2. ShownAs(t, r) /\ r \in Records
    BY RecoveredShown, RecoveredView DEF Sincere, DInv, ViewOf
  <2>3. ShownAs(t, q)
    <3>1. q = r \/ q = [r EXCEPT !.delivery = state, !.response = response]
      OBVIOUS
    <3> HIDE DEF q, r
    <3> QED BY <2>2, <3>1 DEF ShownAs, Records
  <2> HIDE DEF q
  <2> QED BY <1>0, <2>1, <2>3, EditShown
<1>7. ASSUME NEW t \in Tasks, Answer(t)
      PROVE  live \subseteq live' /\ \A u \in Tasks : ShownAs(u, task'[u])
  BY <1>0, <1>7 DEF Answer
<1> QED BY <1>1, <1>2, <1>3, <1>4, <1>5, <1>6, <1>7, OfTasks DEF Client

(* A promise that settles leaves a final status; the other steps of a      *)
(* promise, and the executor of a task that works, forget none.            *)
LEMMA PromiseShown ==
  ASSUME Sincere, NEW t \in Tasks, TaskPromise(t) \/ Executor(t)
  PROVE  \A u \in Tasks : task'[u].status = "running" => u \in live' /\ task'[u].started
<1>0. task \in [Tasks -> Records] /\ \A u \in Tasks : ShownAs(u, task[u])
  BY DEF Sincere, DInv, Typed
<1>1. ASSUME NEW tk \in [Tasks -> Records], NEW status \in Final, Settle(t, tk, status),
             \A u \in Tasks : ShownAs(u, tk[u])
      PROVE  \A u \in Tasks : task'[u].status = "running" => u \in live' /\ task'[u].started
  <2>1. live' = live \ {t} /\ task'[t].status = status /\ status # "running"
    BY <1>1 DEF Settle, Final, Records
  <2>2. \A u \in Tasks \ {t} : task'[u] = tk[u]
    BY <1>1 DEF Settle
  <2> QED BY <1>1, <2>1, <2>2 DEF ShownAs
<1>2. ASSUME live' = live, \A u \in Tasks : ShownAs(u, task'[u])
      PROVE  \A u \in Tasks : task'[u].status = "running" => u \in live' /\ task'[u].started
  BY <1>2 DEF ShownAs
<1>3. CASE MayStop(t) /\ Deadline(t)
  <2> DEFINE tk == [task EXCEPT ![t].error = TRUE]
  <2>1. CancelIn(t, tk) /\ live' = live
    BY <1>3 DEF Deadline
  <2>2. tk \in [Tasks -> Records] /\ \A u \in Tasks : ShownAs(u, tk[u])
    <3>1. task[t] \in Records /\ tk[t] = [task[t] EXCEPT !.error = TRUE]
      BY <1>0
    <3>2. tk[t] \in Records /\ ShownAs(t, tk[t])
      BY <1>0, <3>1 DEF Records, ShownAs
    <3> QED BY <1>0, <3>2
  <2> HIDE DEF tk
  <2> QED BY <1>2, <2>1, <2>2, CancelShown
<1>4. CASE EnterQueue(t) \/ Release(t) \/ Begin(t) \/ \E o : EndWork(t, o)
  BY <1>0, <1>2, <1>4 DEF EnterQueue, Release, Begin, EndWork
<1>5. ASSUME NEW d \in Tasks, TakeDependency(t, d)
      PROVE  \A u \in Tasks : task'[u].status = "running" => u \in live' /\ task'[u].started
  BY <1>2, <1>5, SeenShown DEF TakeDependency
<1>6. ASSUME NEW d \in Tasks, FailDependency(t, d)
      PROVE  \A u \in Tasks : task'[u].status = "running" => u \in live' /\ task'[u].started
  BY <1>1, <1>6, SeenShown DEF FailDependency, Final
<1>7. CASE GiveUp(t) \/ Conclude(t)
  BY <1>0, <1>1, <1>7 DEF GiveUp, Conclude, Final
<1>8. CASE Started(t) \/ Ask(t) \/ Resume(t) \/ ErrorEvent(t)
  <2> DEFINE q == task'[t]
  <2>1. live' = live /\ task' = [task EXCEPT ![t] = q] /\ Working(t)
    BY <1>0, <1>8 DEF Started, Ask, Resume, ErrorEvent
  <2>2. t \in live
    BY <2>1 DEF Sincere, DInv, Promises, Working
  <2>3. task[t] \in Records /\ ShownAs(t, task[t])
    BY <1>0
  <2>4. ShownAs(t, q)
    <3>1. \/ \E st : q = [task[t] EXCEPT !.started = TRUE, !.status = st]
          \/ task[t].started /\ \E st : q = [task[t] EXCEPT !.status = st]
          \/ q = [task[t] EXCEPT !.error = TRUE]
      BY <1>0, <1>8 DEF Started, Ask, Resume, ErrorEvent
    <3> HIDE DEF q
    <3>2. q.started \/ (q.status = task[t].status /\ q.started = task[t].started)
      BY <2>3, <3>1 DEF Records
    <3> QED BY <2>2, <2>3, <3>2 DEF ShownAs
  <2> HIDE DEF q
  <2> QED BY <1>0, <1>2, <2>1, <2>4, EditShown
<1> QED BY <1>3, <1>4, <1>5, <1>6, <1>7, <1>8 DEF TaskPromise, Executor

-----------------------------------------------------------------------------
(* A gateway with an empty store satisfies the invariant.                  *)
LEMMA InitInvariant == Init => DInv
<1> SUFFICES ASSUME Init PROVE DInv
  OBVIOUS
<1>1. QP!IInv
  BY QueueInit DEF Init
<1>2. \A t \in Tasks : task[t] = NoTask /\ ~Exists(t)
  BY DEF Init, Exists, NoTask, NewTask
<1>3. Typed
  <2>1. NoTask \in Records
    BY DEF NoTask, NewTask, Records, Statuses, Deliveries
  <2> QED BY <2>1 DEF Init, Typed
<1>4. Blank /\ Conversations
  BY <1>2 DEF Init, Queue!Init, Blank, Conversations
<1>5. Promises
  BY <1>2 DEF Init, Queue!Init, Promises
<1>6. Cancels /\ Results /\ Turns
  BY <1>2 DEF Init, Queue!Init, Cancels, Results, Turns, NoTask, NewTask
<1>7. Lineage
  <2>1. NoTask.superseded = FALSE /\ NoTask.supersedes = None
    BY DEF NoTask, NewTask
  <2>2. \A old \in Tasks : Replacements(old) = {} /\ ~task[old].superseded
    BY <1>2, <2>1, DelegationAssumption DEF Replacements
  <2> QED BY <2>2 DEF Lineage
<1> QED BY <1>1, <1>3, <1>4, <1>5, <1>6, <1>7 DEF DInv

(* Each step but a restart keeps the lineage or is a revision.             *)
LEMMA LineageOfSteps ==
  ASSUME DInv, Next
  PROVE  \/ Gateway \/ LineageStep
         \/ \E old, new : Replaces(old, new) \/ ReplacedAgain(old, new)
<1>1. ASSUME NEW t \in Tasks, NEW new \in Tasks \ {t}, NEW readOnly \in BOOLEAN,
             NEW deps \in SUBSET Tasks, Revise(t, new, readOnly, deps)
      PROVE  Replaces(t, new)
  BY <1>1, ReviseLineage
<1>2. ASSUME NEW t \in Tasks, NEW new \in Tasks \ {t}, ReviseAgain(t, new)
      PROVE  ReplacedAgain(t, new)
  BY <1>2, ReviseAgainLineage
<1>3. CASE Look
  <2>1. PICK S : task' = Seen(S)
    BY <1>3 DEF Look
  <2> QED BY <2>1, SeenLineage DEF LineageStep, SameLineage
<1>4. CASE Client
  BY <1>1, <1>2, <1>3, <1>4, ClientLineage, OfTasks DEF Client
<1>5. ASSUME NEW t \in Tasks, TaskPromise(t) \/ Executor(t) PROVE LineageStep
  BY <1>5, PromiseLineage
<1> QED BY <1>4, <1>5 DEF Next

(* The invariant is inductive.                                             *)
LEMMA StepInvariant == DInv /\ [Next]_vars => DInv'
<1> SUFFICES ASSUME DInv, [Next]_vars PROVE DInv'
  OBVIOUS
<1>1. CASE Next /\ Ordinary
  <2>1. QP!IInv' /\ Typed'
    BY <1>1, QueueKept DEF Ordinary, DInv
  <2>2. Lineage'
    <3>1. CASE Gateway
      BY <3>1, RestartStep
    <3>2. CASE ~Gateway
      <4>1. crashes' = crashes
        BY <1>1 DEF Ordinary
      <4> QED BY <1>1, <3>2, <4>1, LineageOfSteps, LineageKept
    <3> QED BY <3>1, <3>2
  <2> QED BY <1>1, <2>1, <2>2, BlankKept, ConversationsKept, PromisesKept, CancelsKept,
             ResultsKept, TurnsKept
          DEF DInv
<1>2. CASE Gateway
  BY <1>2, RestartStep DEF DInv
<1>3. CASE UNCHANGED vars
  <2> USE <1>3 DEF vars, turnVars, queueVars
  <2>1. QP!IInv'
    BY QueueKept DEF QueueStep, DInv
  <2>2. Typed' /\ Blank' /\ Conversations'
    BY DEF DInv, Typed, Blank, Conversations, Exists
  <2>3. Promises' /\ Cancels' /\ Results' /\ Turns'
    BY DEF DInv, Promises, Cancels, Results, Turns, Terminal
  <2>4. Lineage'
    BY LineageKept DEF LineageStep
  <2> QED BY <2>1, <2>2, <2>3, <2>4 DEF DInv
<1> QED BY <1>1, <1>2, <1>3, StepKinds

(* The inductive invariant holds in every state the gateway can reach.     *)
THEOREM Invariant == Spec => []DInv
<1> QED BY InitInvariant, StepInvariant, PTL DEF Spec

(* The records, the queue and the rest of the state have their types.      *)
THEOREM TypeCorrect == Spec => []TypeOK
<1>1. DInv => TypeOK
  BY QueueState DEF DInv, Typed, TypeOK
<1> QED BY <1>1, Invariant, PTL

(* Whatever is submitted or revised again, and whenever the gateway dies,  *)
(* the executor is called at most once for a task: submit() looks into the *)
(* store, and a restart leaves no promise.                                 *)
THEOREM WorkStartsOnce == Spec => []ExecutedOnce
<1>1. DInv => ExecutedOnce
  BY DEF DInv, Promises, ExecutedOnce
<1> QED BY <1>1, Invariant, PTL

(* Tasks execute together only as readers of different conversations, none *)
(* of them by claude, and at most Limit of them: submit() gives the queue  *)
(* the key and the mode that this needs.                                   *)
THEOREM CompatibleTasks == Spec => []ExecutingTasksCompatible
<1>1. DInv => ExecutingTasksCompatible
  <2> SUFFICES ASSUME DInv PROVE ExecutingTasksCompatible
    OBVIOUS
  <2>1. Executing \in SUBSET Queue!Running
    BY DEF Executing, Working, Queue!Running
  <2>2. ASSUME NEW t \in Executing
        PROVE  /\ t \in Tasks /\ Exists(t)
               /\ job[t].key = task[t].session /\ job[t].readOnly = task[t].readOnly
    <3>1. t \in Tasks /\ phase[t] = "working"
      BY DEF Executing, Working
    <3>2. Exists(t)
      BY <3>1 DEF DInv, Blank
    <3>3. job[t] = [key |-> task[t].session, readOnly |-> task[t].readOnly]
      BY <3>1 DEF DInv, Turns
    <3> QED BY <3>1, <3>2, <3>3
  <2>3. ASSUME NEW t \in Executing, NEW u \in Executing, t # u
        PROVE  /\ task[t].readOnly /\ task[u].readOnly
               /\ "claude" \notin {task[t].runtime, task[u].runtime}
               /\ task[t].session # task[u].session
    <3>1. job[t].readOnly /\ job[u].readOnly /\ job[t].key # job[u].key
      BY <2>1, <2>3, QueueState DEF DInv
    <3>2. task[t].readOnly /\ task[u].readOnly /\ task[t].session # task[u].session
      BY <2>2, <3>1
    <3> QED BY <2>2, <3>2 DEF DInv, Conversations
  <2>4. Cardinality(Executing) <= Limit
    <3>1. /\ IsFiniteSet(Executing) /\ IsFiniteSet(Queue!Running)
          /\ Cardinality(Executing) <= Cardinality(Queue!Running)
          /\ Cardinality(Queue!Running) <= Limit
      BY <2>1, QueueState, FS_Subset DEF DInv
    <3>2. Cardinality(Executing) \in Nat /\ Cardinality(Queue!Running) \in Nat
      BY <3>1, FS_CardinalityType
    <3> QED BY <3>1, <3>2, DelegationAssumption
  <2> QED BY <2>3, <2>4 DEF ExecutingTasksCompatible
<1> QED BY <1>1, Invariant, PTL

(* cancel() stops no turn but that of a cancelled task: its test of        *)
(* "started" is enough because the queue gives a conversation to one task  *)
(* at a time.                                                              *)
THEOREM StopsOnlyItsTurn == Spec => []NoCollateralCancel
<1>1. DInv => NoCollateralCancel
  BY DEF DInv, Turns, NoCollateralCancel
<1> QED BY <1>1, Invariant, PTL

(* A task that executes was given, for each of its prerequisites, a result *)
(* that was really computed, also across restarts.                         *)
THEOREM ResultsAreReal == Spec => []DependentsUseRealResults
<1>1. DInv => DependentsUseRealResults
  <2> SUFFICES ASSUME DInv, NEW t \in Tasks, runs[t] > 0, NEW d \in task[t].dependsOn
               PROVE  runs[d] = 1 /\ task[d].result
    BY DEF DependentsUseRealResults
  <2>1. d \in Tasks
    BY DEF DInv, Typed, Records
  <2> QED BY <2>1 DEF DInv, Results
<1> QED BY <1>1, Invariant, PTL

(* A task whose cancellation was requested ends neither completed nor      *)
(* failed: the abort is seen by the promise before its outcome.            *)
THEOREM CancellationWins == Spec => []CancelWins
<1>1. DInv => CancelWins
  BY DEF DInv, Cancels, CancelWins
<1> QED BY <1>1, Invariant, PTL

(* A task is marked as superseded only for a replacement, and without a    *)
(* restart it has exactly one from then on.                                *)
THEOREM LineageIsSound == Spec => []LineageSound
<1>1. DInv => LineageSound
  <2> SUFFICES ASSUME DInv PROVE LineageSound
    OBVIOUS
  <2>1. ASSUME NEW old \in Tasks, crashes = 0 PROVE Cardinality(Replacements(old)) <= 1
    <3>1. CASE Replacements(old) = {}
      BY <3>1, FS_EmptySet
    <3>2. ASSUME NEW t \in Replacements(old) PROVE Cardinality(Replacements(old)) <= 1
      <4>1. Replacements(old) = {t}
        BY <2>1, <3>2 DEF DInv, Lineage
      <4>2. Cardinality({t}) = 1
        BY FS_Singleton
      <4> QED BY <4>1, <4>2
    <3> QED BY <3>1, <3>2
  <2> QED BY <2>1 DEF DInv, Lineage, LineageSound
<1> QED BY <1>1, Invariant, PTL

(* A correction is never overtaken: revise() cancels the task it replaces, *)
(* so that its promise cannot complete it.                                 *)
THEOREM NoSupersededResult == Spec => SupersededNeverCompletes
<1> DEFINE Sound == \A t \in Tasks :
             task'[t].status = "completed" /\ task[t].status # "completed" => ~task[t].superseded
<1>1. DInv /\ [Next]_vars => [Sound]_vars
  <2> SUFFICES ASSUME DInv, Next, NEW t \in Tasks,
                      task'[t].status = "completed", task[t].status # "completed"
               PROVE  ~task[t].superseded
    OBVIOUS
  <2>1. CASE Ordinary
    BY <2>1 DEF Ordinary, RecordStep, Changed, Fresh
  <2>2. CASE Gateway
    BY <2>2, RestartStep
  <2> QED BY <2>1, <2>2, StepKinds
<1> QED BY <1>1, Invariant, PTL DEF Spec, SupersededNeverCompletes

(* Only delegation.respond can show a task as running that is not: it      *)
(* answers the input of the backend session, which the turn of another     *)
(* task may have raised, and sets the status of the task it was sent for.  *)
(* This is how far the run borrowed_input goes: no other handler, timer,   *)
(* callback or promise breaks what tests/test-delegation.ts:105 expects.   *)
Borrows(t) == Respond(t) /\ ~(t \in live /\ task[t].started)

THEOREM OnlyRespondBorrows ==
  Spec => [][RunningIsExecuting => RunningIsExecuting' \/ \E t \in Tasks : Borrows(t)]_vars
<1> DEFINE Sound == RunningIsExecuting => RunningIsExecuting' \/ \E t \in Tasks : Borrows(t)
<1>1. DInv /\ [Next]_vars => [Sound]_vars
  <2> SUFFICES ASSUME DInv, Next, RunningIsExecuting, ~\E t \in Tasks : Borrows(t), crashes' = 0
               PROVE  \A u \in Tasks :
                        task'[u].status = "running" => u \in live' /\ task'[u].started
    BY DEF RunningIsExecuting
  <2>1. ~Gateway /\ crashes = 0
    <3>1. Gateway => crashes' = crashes + 1 /\ crashes \in Nat
      BY DEF Gateway, Crash, CrashInRevise, Restart, DInv, Typed
    <3>2. ~Gateway
      BY <3>1
    <3> QED BY <3>2, StepKinds DEF Ordinary
  <2>2. Sincere
    BY <2>1 DEF Sincere, ShownAs, RunningIsExecuting
  <2>3. ASSUME NEW t \in Tasks, Respond(t)
        PROVE  \A u \in Tasks : task'[u].status = "running" => u \in live' /\ task'[u].started
    <3> DEFINE q == [Recovered(t) EXCEPT !.input = 0, !.status = "running"]
    <3>1. t \in live /\ task[t].started
      BY <2>3 DEF Borrows
    <3>2. task' = [task EXCEPT ![t] = q] /\ live' = live
      BY <2>3 DEF Respond
    <3>3. q.started = task[t].started
      BY RecoveredView DEF DInv, ViewOf, Records
    <3>4. task \in [Tasks -> Records] /\ \A u \in Tasks : ShownAs(u, task[u])
      BY <2>2 DEF Sincere, DInv, Typed
    <3> HIDE DEF q
    <3> QED BY <3>1, <3>2, <3>3, <3>4 DEF ShownAs
  <2>4. CASE Client /\ ~\E t \in Tasks : Respond(t)
    BY <2>2, <2>4, ClientShown DEF ShownAs
  <2> QED BY <2>1, <2>2, <2>3, <2>4, PromiseShown DEF Next, Client
<1> QED BY <1>1, Invariant, PTL DEF Spec
=============================================================================
