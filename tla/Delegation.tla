------------------------------ MODULE Delegation ------------------------------
(***************************************************************************)
(* The life of delegated tasks in the gateway:                             *)
(* src/src/gateway/delegation-methods.ts over its queue and its store.     *)
(*                                                                         *)
(* task is the record of each task id.  The object in memory and the       *)
(* snapshot on disk are one value here: every handler ends by publishing,  *)
(* which saves the snapshot in the same event of the program.  What a      *)
(* restart loses is separate: live (the Map `active` of the handlers), the *)
(* progress of each task's promise, the queue, and the pending permission  *)
(* or question of each backend session.  A backend session is named by the *)
(* task that opened it.  One device owner and one live session are         *)
(* modelled: every lookup is keyed by both, so others never meet.          *)
(*                                                                         *)
(* The executor is sendChat of agent-methods.ts, modelled by what it may   *)
(* call back: started, event, and the outcome of its promise.              *)
(***************************************************************************)
EXTENDS Naturals, FiniteSets

CONSTANTS
  Tasks,       \* task ids clients use
  Runtimes,    \* runtimes clients ask for, among native, codex and claude
  Limit,       \* workers of the queue
  LinuxUser,   \* HAWKY_CODEX_EXECUTION_POLICY is "linux-user"
  Responses,   \* provider responses whose delivery is reported
  None,
  MaxDeps,     \* bound: prerequisites of one task
  MaxStops,    \* bound: tasks cancelled by a client or by their deadline
  MaxAsks,     \* bound: permissions and questions raised between restarts
  MaxCrashes   \* bound: restarts of the gateway

ASSUME DelegationAssumption ==
  /\ IsFiniteSet(Tasks)
  /\ Runtimes \subseteq {"native", "codex", "claude"}
  /\ Limit \in Nat \ {0}
  /\ LinuxUser \in BOOLEAN
  /\ None \notin Tasks \union Responses
  /\ {MaxDeps, MaxStops, MaxAsks, MaxCrashes} \subseteq Nat

VARIABLES
  task,     \* record of each task
  live,     \* the Map `active`: tasks whose promise is pending
  todo,     \* prerequisites each task's promise has still to take
  asking,   \* pending input id of each backend session, 0 for none
  asks,     \* input ids handed out since the last restart
  cut,      \* tasks whose turn was told to stop by options.cancel
  runs,     \* history: how often each task's work was started
  crashes,  \* restarts so far
  phase, job, index, active, aborted  \* the queue

queueVars == <<phase, job, index, active, aborted>>
turnVars == <<asking, asks, cut>>
vars == <<task, live, todo, turnVars, runs, crashes, queueVars>>

Queue == INSTANCE DelegationQueue WITH Calls <- Tasks, Keys <- Tasks

Final == {"completed", "failed", "cancelled", "interrupted"}
Statuses == {"none", "queued", "cancelling", "running", "needs_input"} \union Final
SettledDelivery == {"played", "displayed", "interrupted"}
Deliveries == {"pending", "injected", "generated"} \union SettledDelivery

NewTask(runtime, session, readOnly, deps, old) ==
  [status |-> "queued", runtime |-> runtime, session |-> session,
   readOnly |-> readOnly, dependsOn |-> deps, supersedes |-> old,
   superseded |-> FALSE, started |-> FALSE, cancelRequested |-> FALSE,
   error |-> FALSE, result |-> FALSE, input |-> 0,
   delivery |-> "pending", response |-> None]
NoTask == [NewTask("native", None, FALSE, {}, None) EXCEPT !.status = "none"]

Exists(t) == task[t].status # "none"
Existing == {t \in Tasks : Exists(t)}
Terminal(r) == r.status \in Final
Working(t) == phase[t] = "working"
Executing == {t \in Tasks : Working(t)}
Turn(t) == asking[task[t].session]

Init ==
  /\ task = [t \in Tasks |-> NoTask]
  /\ live = {}
  /\ todo = [t \in Tasks |-> {}]
  /\ asking = [t \in Tasks |-> 0]
  /\ asks = 0
  /\ cut = {}
  /\ runs = [t \in Tasks |-> 0]
  /\ crashes = 0
  /\ Queue!Init

-----------------------------------------------------------------------------
(* recover(), run by every lookup: an unfinished task without a promise    *)
(* was cut by a restart; an unfinished one that is not being cancelled     *)
(* takes the pending input of its backend session.                         *)
Recovered(t) ==
  LET r == task[t]
      input == asking[r.session]
  IN  IF ~Exists(t) \/ Terminal(r) THEN r
      ELSE IF t \notin live THEN [r EXCEPT !.status = "interrupted", !.error = TRUE]
      ELSE IF r.status # "cancelling" /\ r.input # input
           THEN [r EXCEPT !.input = input,
                          !.status = IF input # 0 THEN "needs_input"
                                     ELSE IF r.started THEN "running" ELSE "queued"]
           ELSE r

(* the records after the tasks of S were looked up                         *)
Seen(S) == [t \in Tasks |-> IF t \in S THEN Recovered(t) ELSE task[t]]

(* delegation.get, delegation.list, and a submit or run whose id is known: *)
(* the stored task is returned, its work is not repeated.                  *)
Look ==
  /\ \E S \in {{t} : t \in Existing} \union {Existing} : task' = Seen(S)
  /\ UNCHANGED <<live, todo, turnVars, runs, crashes, queueVars>>

(* Mutant: every external runtime is trusted to read only when asked to.   *)
SubmittedTrusting(t, runtime, cont, readOnly, deps, old) ==
  LET kind == IF cont = None THEN runtime ELSE task[cont].runtime
      mode == IF cont = None \/ kind # "native" THEN readOnly ELSE task[cont].readOnly
  IN  NewTask(kind, IF cont = None THEN t ELSE task[cont].session, mode, deps, old)

(* The record submit() builds; it continues the conversation of cont.      *)
Submitted(t, runtime, cont, readOnly, deps, old) ==
  LET kind == IF cont = None THEN runtime ELSE task[cont].runtime
      mode == CASE kind = "native" -> IF cont = None THEN readOnly ELSE task[cont].readOnly
                [] kind = "codex" -> readOnly /\ ~LinuxUser
                [] kind = "claude" -> FALSE
  IN  NewTask(kind, IF cont = None THEN t ELSE task[cont].session, mode, deps, old)

(* A native conversation opened read-only stays so, and a task already     *)
(* replaced cannot be continued.                                           *)
MayContinue(cont, readOnly) ==
  cont # None =>
    /\ ~task[cont].superseded
    /\ task[cont].runtime = "native" /\ task[cont].readOnly => readOnly

(* Mutant: only the tasks with a pending promise are looked up.            *)
KnownInMemory(t) == t \in live

(* active.get(key) ?? db().get(id) in submit()                             *)
Known(t) == Exists(t)

(* delegation.submit and delegation.run of an id not known                 *)
Submit(t, runtime, cont, readOnly, deps) ==
  /\ ~Known(t)
  /\ MayContinue(cont, readOnly)
  /\ task' = [Seen(deps \union ({cont} \ {None})) EXCEPT
                ![t] = Submitted(t, runtime, cont, readOnly, deps, None)]
  /\ live' = live \union {t}
  /\ todo' = [todo EXCEPT ![t] = deps]
  /\ UNCHANGED <<turnVars, runs, crashes, queueVars>>

(* options.cancel: the turn under way in the backend session s is stopped, *)
(* its pending permission denied and its question rejected.                *)
StopTurn(s) ==
  /\ asking' = [asking EXCEPT ![s] = 0]
  /\ cut' = cut \union {t \in Executing : job[t].key = s}

(* Mutant: the turn of the backend session is stopped whether or not the   *)
(* cancelled task has started.                                             *)
CancelInAnyTurn(t, tk) ==
  /\ IF Terminal(tk[t])
     THEN task' = tk /\ UNCHANGED <<queueVars, asking, cut>>
     ELSE /\ task' = [tk EXCEPT ![t].status = "cancelling", ![t].cancelRequested = TRUE]
          /\ Queue!Abort(t)
          /\ StopTurn(tk[t].session)
  /\ UNCHANGED asks

(* cancel(), on the records tk the handler has made so far                 *)
CancelIn(t, tk) ==
  /\ IF Terminal(tk[t])
     THEN task' = tk /\ UNCHANGED <<queueVars, asking, cut>>
     ELSE /\ task' = [tk EXCEPT ![t].status = "cancelling", ![t].cancelRequested = TRUE]
          /\ Queue!Abort(t)
          /\ IF tk[t].started THEN StopTurn(tk[t].session) ELSE UNCHANGED <<asking, cut>>
  /\ UNCHANGED asks

Cancel(t) ==
  /\ Exists(t)
  /\ CancelIn(t, Seen({t}))
  /\ UNCHANGED <<live, todo, runs, crashes>>

(* Mutant: the timer is armed only when the executor has started.          *)
DeadlineOfStarted(t) ==
  /\ t \in live /\ task[t].started
  /\ CancelIn(t, [task EXCEPT ![t].error = TRUE])
  /\ UNCHANGED <<live, todo, runs, crashes>>

(* The 180 second timer of a pending promise.                              *)
Deadline(t) ==
  /\ t \in live
  /\ CancelIn(t, [task EXCEPT ![t].error = TRUE])
  /\ UNCHANGED <<live, todo, runs, crashes>>

(* The records once revise() has submitted new in place of old.            *)
Replacing(old, new, readOnly, deps) ==
  [Seen(deps \union {old}) EXCEPT ![new] = Submitted(new, None, old, readOnly, deps, old)]

(* delegation.revise: the replacement is submitted, then the old task is   *)
(* marked superseded and cancelled.  Prerequisites that the request names  *)
(* are those of the replacement.                                           *)
Revise(old, new, readOnly, deps) ==
  /\ Exists(old) /\ ~Known(new)
  /\ MayContinue(old, readOnly)
  /\ CancelIn(old, [Replacing(old, new, readOnly, deps) EXCEPT ![old].superseded = TRUE])
  /\ live' = live \union {new}
  /\ todo' = [todo EXCEPT ![new] = deps]
  /\ UNCHANGED <<runs, crashes>>

(* The same revise again, its answer having been lost: submit() returns    *)
(* the replacement it knows.                                               *)
ReviseAgain(old, new) ==
  /\ Exists(old) /\ Known(new) /\ task[new].supersedes = old
  /\ CancelIn(old, [Seen({old, new}) EXCEPT ![old].superseded = TRUE])
  /\ UNCHANGED <<live, todo, runs, crashes>>

(* delegation.respond: the task shows the input being answered.  The       *)
(* answer reaches whatever still waits for that id.                        *)
Respond(t) ==
  LET r == Recovered(t) IN
  /\ Exists(t)
  /\ r.input # 0
  /\ asking' = [s \in Tasks |-> IF asking[s] = r.input THEN 0 ELSE asking[s]]
  /\ task' = [task EXCEPT ![t] = [r EXCEPT !.input = 0, !.status = "running"]]
  /\ UNCHANGED <<live, todo, asks, cut, runs, crashes, queueVars>>

(* delegation.delivery: a replaced task keeps its delivery, and so does one*)
(* whose last reported response has ended.  Only that one is compared.     *)
Deliver(t, state, response) ==
  LET r == Recovered(t) IN
  /\ Exists(t)
  /\ task' = [task EXCEPT ![t] =
       IF r.superseded \/ (r.delivery \in SettledDelivery /\ r.response = response)
       THEN r
       ELSE [r EXCEPT !.delivery = state, !.response = response]]
  /\ UNCHANGED <<live, todo, turnVars, runs, crashes, queueVars>>

-----------------------------------------------------------------------------
(* Mutant: what a replaced task is given as status is its validity.        *)
SettleValidity(t, tk, status) ==
  /\ task' = [tk EXCEPT ![t].status = IF tk[t].superseded THEN "superseded" ELSE status,
                        ![t].result = @ \/ phase[t] = "resolved",
                        ![t].error = @ \/ phase[t] # "resolved"]
  /\ live' = live \ {t}
  /\ UNCHANGED <<todo, turnVars, runs, crashes>>

(* The promise of a task.  Its finally block publishes the final status    *)
(* and forgets the promise.                                                *)
Settle(t, tk, status) ==
  /\ task' = [tk EXCEPT ![t].status = status,
                        ![t].result = @ \/ phase[t] = "resolved",
                        ![t].error = @ \/ phase[t] # "resolved"]
  /\ live' = live \ {t}
  /\ UNCHANGED <<todo, turnVars, runs, crashes>>

Ready(t) == t \in live /\ phase[t] = "idle" /\ t \notin aborted

(* No prerequisite is left: queue.run().                                   *)
EnterQueue(t) ==
  /\ Ready(t) /\ todo[t] = {}
  /\ Queue!Run(t, task[t].session, task[t].readOnly)
  /\ UNCHANGED <<task, live, todo, turnVars, runs, crashes>>

(* Mutant: any finished prerequisite will do.                              *)
UsableWhenFinal(r) == Terminal(r)

(* The outcome of a prerequisite whose promise has settled, or that has    *)
(* none: its result is taken, and the last one leads to the queue.         *)
Usable(r) == r.status = "completed" /\ ~r.superseded

TakeDependency(t, d) ==
  /\ Ready(t) /\ d \in todo[t] /\ d \notin live
  /\ Usable(Recovered(d))
  /\ todo' = [todo EXCEPT ![t] = @ \ {d}]
  /\ task' = Seen({d})
  /\ IF todo[t] = {d}
     THEN Queue!Run(t, task[t].session, task[t].readOnly)
     ELSE UNCHANGED queueVars
  /\ UNCHANGED <<live, turnVars, runs, crashes>>

FailDependency(t, d) ==
  /\ Ready(t) /\ d \in todo[t] /\ d \notin live
  /\ ~Usable(Recovered(d))
  /\ Settle(t, Seen({d}), "failed")
  /\ UNCHANGED queueVars

(* Aborted before the queue: the wait for a prerequisite is abandoned.     *)
GiveUp(t) ==
  /\ t \in live /\ phase[t] = "idle" /\ t \in aborted
  /\ Settle(t, task, "cancelled")
  /\ UNCHANGED queueVars

(* Mutant: a result that arrives after the abort still counts.             *)
ConcludeLateResult(t) ==
  /\ t \in live /\ phase[t] \in {"resolved", "rejected", "refused"}
  /\ Settle(t, task, IF phase[t] = "resolved" /\ ~task[t].error THEN "completed"
                     ELSE IF t \in aborted THEN "cancelled"
                     ELSE "failed")
  /\ UNCHANGED queueVars

(* Mutant: an error is looked at before the abort.                         *)
ConcludeErrorFirst(t) ==
  /\ t \in live /\ phase[t] \in {"resolved", "rejected", "refused"}
  /\ Settle(t, task, IF task[t].error THEN "failed"
                     ELSE IF t \in aborted THEN "cancelled"
                     ELSE IF phase[t] = "resolved" THEN "completed" ELSE "failed")
  /\ UNCHANGED queueVars

(* What queue.run() gave decides the final status; an abort wins over a    *)
(* result that arrives late.                                               *)
Conclude(t) ==
  /\ t \in live /\ phase[t] \in {"resolved", "rejected", "refused"}
  /\ Settle(t, task, IF t \in aborted THEN "cancelled"
                     ELSE IF phase[t] = "resolved" /\ ~task[t].error THEN "completed"
                     ELSE "failed")
  /\ UNCHANGED queueVars

(* The queue's own finally() is queued behind that continuation.           *)
Release(t) ==
  /\ t \notin live
  /\ Queue!Finally(t)
  /\ UNCHANGED <<task, live, todo, turnVars, runs, crashes>>

-----------------------------------------------------------------------------
(* The executor.                                                           *)
Begin(t) ==
  /\ Queue!Begin(t)
  /\ runs' = [runs EXCEPT ![t] = IF t \in aborted THEN @ ELSE @ + 1]
  /\ UNCHANGED <<task, live, todo, turnVars, crashes>>

(* observer.started throws when the task was aborted while it waited for   *)
(* the session's lane; the rejection is an EndWork.                        *)
Started(t) ==
  /\ Working(t) /\ ~task[t].started /\ t \notin aborted
  /\ task' = [task EXCEPT ![t].started = TRUE, ![t].status = "running"]
  /\ UNCHANGED <<live, todo, turnVars, runs, crashes, queueVars>>

(* A permission or a question is raised by the turn, and its event.        *)
Ask(t) ==
  /\ Working(t) /\ task[t].started /\ t \notin cut
  /\ Turn(t) = 0 /\ asks < MaxAsks
  /\ asks' = asks + 1
  /\ asking' = [asking EXCEPT ![task[t].session] = asks']
  /\ task' = [task EXCEPT ![t].status = IF t \in aborted THEN @ ELSE "needs_input"]
  /\ UNCHANGED <<live, todo, cut, runs, crashes, queueVars>>

(* It is answered from a chat window on the backend session.               *)
Answer(s) ==
  /\ asking[s] # 0
  /\ asking' = [asking EXCEPT ![s] = 0]
  /\ UNCHANGED <<task, live, todo, asks, cut, runs, crashes, queueVars>>

(* tool_result and permission_result events of a turn that goes on         *)
Resume(t) ==
  /\ Working(t) /\ task[t].started /\ Turn(t) = 0 /\ t \notin aborted
  /\ task' = [task EXCEPT ![t].status = "running"]
  /\ UNCHANGED <<live, todo, turnVars, runs, crashes, queueVars>>

ErrorEvent(t) ==
  /\ Working(t) /\ task[t].started
  /\ task' = [task EXCEPT ![t].error = TRUE]
  /\ UNCHANGED <<live, todo, turnVars, runs, crashes, queueVars>>

(* The promise of sendChat settles: a turn that waits for input does not   *)
(* end, and one that never started has been refused.                       *)
EndWork(t, outcome) ==
  /\ Working(t) /\ Turn(t) = 0
  /\ outcome = "resolved" => task[t].started
  /\ Queue!Finish(t, outcome)
  /\ UNCHANGED <<task, live, todo, turnVars, runs, crashes>>

-----------------------------------------------------------------------------
(* The gateway process dies, and another one opens the same store.         *)
Restart ==
  /\ crashes < MaxCrashes
  /\ crashes' = crashes + 1
  /\ live' = {}
  /\ todo' = [t \in Tasks |-> {}]
  /\ asking' = [t \in Tasks |-> 0]
  /\ asks' = 0
  /\ cut' = {}
  /\ phase' = [t \in Tasks |-> "idle"]
  /\ job' = [t \in Tasks |-> [key |-> None, readOnly |-> TRUE]]
  /\ index' = [t \in Tasks |-> 0]
  /\ active' = [t \in Tasks |-> "none"]
  /\ aborted' = {}
  /\ UNCHANGED runs

Crash == Restart /\ UNCHANGED task

(* Mutant: the old task is marked before the replacement is saved.         *)
CrashInReviseMarked(old, new, readOnly, deps) ==
  /\ Exists(old) /\ ~Known(new)
  /\ MayContinue(old, readOnly)
  /\ task' = [Seen(deps \union {old}) EXCEPT ![old].superseded = TRUE]
  /\ Restart

(* It dies inside revise(), after the snapshot of the replacement: before  *)
(* the old task is marked, or before it is cancelled.                      *)
CrashInRevise(old, new, readOnly, deps) ==
  /\ Exists(old) /\ ~Known(new)
  /\ MayContinue(old, readOnly)
  /\ \E marked \in BOOLEAN :
       task' = [Replacing(old, new, readOnly, deps) EXCEPT ![old].superseded = marked]
  /\ Restart

MayStop(t) ==
  Cardinality({u \in Tasks \ {t} : task[u].cancelRequested}) < MaxStops

(* The prerequisites a request may name                                    *)
Prerequisites == {S \in SUBSET Existing : Cardinality(S) <= MaxDeps}

Client ==
  \/ Look
  \/ \E t \in Tasks :
       \/ \E runtime \in Runtimes, cont \in Existing \union {None}, readOnly \in BOOLEAN,
             deps \in Prerequisites :
            Submit(t, runtime, cont, readOnly, deps)
       \/ MayStop(t) /\ Cancel(t)
       \/ \E new \in Tasks \ {t}, readOnly \in BOOLEAN, deps \in Prerequisites :
            Revise(t, new, readOnly, deps)
       \/ \E new \in Tasks \ {t} : ReviseAgain(t, new)
       \/ Respond(t)
       \/ \E state \in Deliveries \ {"pending"}, response \in Responses :
            Deliver(t, state, response)
       \/ Answer(t)

TaskPromise(t) ==
  \/ MayStop(t) /\ Deadline(t)
  \/ EnterQueue(t)
  \/ \E d \in Tasks : TakeDependency(t, d) \/ FailDependency(t, d)
  \/ GiveUp(t)
  \/ Conclude(t)
  \/ Release(t)

Executor(t) ==
  \/ Begin(t)
  \/ Started(t)
  \/ Ask(t)
  \/ Resume(t)
  \/ ErrorEvent(t)
  \/ \E outcome \in {"resolved", "rejected"} : EndWork(t, outcome)

Gateway ==
  \/ Crash
  \/ \E old \in Tasks : \E new \in Tasks \ {old}, readOnly \in BOOLEAN, deps \in Prerequisites :
       CrashInRevise(old, new, readOnly, deps)

Next ==
  \/ Client
  \/ \E t \in Tasks : TaskPromise(t) \/ Executor(t)
  \/ Gateway

Spec == Init /\ [][Next]_vars

(* Microtasks and timers run.  A turn is only obliged to end once it was   *)
(* told to: by itself it may wait for ever for a model, a tool or a user.  *)
Fairness ==
  \A t \in Tasks :
    /\ WF_vars(Deadline(t))
    /\ WF_vars(EnterQueue(t))
    /\ WF_vars(\E d \in Tasks : TakeDependency(t, d) \/ FailDependency(t, d))
    /\ WF_vars(GiveUp(t))
    /\ WF_vars(Conclude(t))
    /\ WF_vars(Release(t))
    /\ WF_vars(Begin(t))
    /\ WF_vars(t \in aborted /\ \E outcome \in {"resolved", "rejected"} : EndWork(t, outcome))

FairSpec == Spec /\ Fairness
-----------------------------------------------------------------------------
Records ==
  [status: Statuses, runtime: {"native", "codex", "claude"},
   session: Tasks \union {None}, readOnly: BOOLEAN, dependsOn: SUBSET Tasks,
   supersedes: Tasks \union {None}, superseded: BOOLEAN, started: BOOLEAN,
   cancelRequested: BOOLEAN, error: BOOLEAN, result: BOOLEAN, input: Nat,
   delivery: Deliveries, response: Responses \union {None}]

TypeOK ==
  /\ task \in [Tasks -> Records]
  /\ live \subseteq Tasks
  /\ todo \in [Tasks -> SUBSET Tasks]
  /\ asking \in [Tasks -> Nat]
  /\ asks \in Nat
  /\ cut \subseteq Tasks
  /\ runs \in [Tasks -> Nat]
  /\ crashes \in Nat
  /\ Queue!TypeOK

(* "Retries during execution share one operation", and a restart repeats   *)
(* no side effect: whatever is submitted again, and whenever the gateway   *)
(* dies, the work of a task is started at most once.                       *)
ExecutedOnce == \A t \in Tasks : runs[t] <= 1

(* "Native readers have a tool allowlist; Codex readers enforce a shell    *)
(* sandbox [...].  Claude remains exclusive" (delegation-methods.ts:127),  *)
(* and "Codex readers overlap" (tests/test-delegation.ts:179): two tasks   *)
(* execute together only as such readers, of two conversations, and at     *)
(* most Limit do.  docs/realtime-delegation.md:13 and :27 say more, that   *)
(* external CLI jobs are serialized, which the code does not do for Codex. *)
ExecutingTasksCompatible ==
  /\ \A t, u \in Executing :
       t # u => /\ task[t].readOnly /\ task[u].readOnly
                /\ "claude" \notin {task[t].runtime, task[u].runtime}
                /\ task[t].session # task[u].session
  /\ Cardinality(Executing) <= Limit

(* "Do not cancel a different task already using the same backend session":*)
(* only the turn of a task that was itself cancelled is ever stopped.      *)
NoCollateralCancel == cut \subseteq aborted

(* A dependent task that executes was given the result of every one of its *)
(* prerequisites, each of which really executed.                           *)
DependentsUseRealResults ==
  \A t \in Tasks : runs[t] > 0 =>
    \A d \in task[t].dependsOn : runs[d] = 1 /\ task[d].result

(* A cancellation is never overtaken by a late answer, an error or the     *)
(* deadline: a task it was requested for ends neither completed nor failed.*)
CancelWins ==
  \A t \in Tasks : task[t].cancelRequested => task[t].status \notin {"completed", "failed"}

(* A task is superseded only for a replacement that exists; as long as no  *)
(* restart has interfered, it is then the only one, and the task it        *)
(* replaces is no longer current.                                          *)
Replacements(old) == {t \in Tasks : task[t].supersedes = old}
LineageSound ==
  \A old \in Tasks :
    /\ task[old].superseded => Replacements(old) # {}
    /\ crashes = 0 => /\ Cardinality(Replacements(old)) <= 1
                      /\ Replacements(old) # {} => task[old].superseded

(* The result of a task that was corrected before it finished never        *)
(* becomes a completed result.                                             *)
SupersededNeverCompletes ==
  [][\A t \in Tasks : task'[t].status = "completed" /\ task[t].status # "completed" =>
       ~task[t].superseded]_vars

(* Every promise settles, whatever the executor does before it is told to  *)
(* stop and whatever the task waits for: delegation.run always answers.    *)
EventuallySettles == \A t \in Tasks : t \in live ~> t \notin live

(* A task shown as running is being executed: one that waits for its turn  *)
(* in a conversation is queued (tests/test-delegation.ts:105), and one     *)
(* without a promise was cut by a restart (delegation-methods.ts:55).      *)
RunningIsExecuting ==
  \A t \in Tasks : task[t].status = "running" /\ crashes = 0 =>
    t \in live /\ task[t].started
=============================================================================
