------------------------------ MODULE CronService ------------------------------
(***************************************************************************)
(* The cron service: src/src/gateway/cron.ts over its store cron-store.ts. *)
(*                                                                         *)
(* Every change of a job is saved in the event that makes it, so that the  *)
(* jobs in memory and those on disk are one value, which a restart keeps;  *)
(* the timer, the executions under way and the catch-up list are lost.     *)
(* Time is what it does to a job: its next run is none, later or due, and  *)
(* the timer may ring at any moment (it never sleeps over a minute).  The  *)
(* order of jobs in the store is not modelled: where the code takes the    *)
(* first ones, any are taken.                                              *)
(*                                                                         *)
(* An execution is known by what began it: the timer, the catch-up of      *)
(* missed jobs at startup, or a forced run; one forced run of a job at a   *)
(* time is modelled.  Left out: run logs, deliveries and broadcasts.       *)
(***************************************************************************)
EXTENDS Naturals, FiniteSets

CONSTANTS
  Jobs,
  OneShots,           \* jobs whose schedule is "at" a moment
  DeletedAfterRun,    \* those of them to be deleted after a success
  MaxConcurrentRuns,  \* jobs one ring of the timer executes
  MaxMissed,          \* missed jobs caught up at startup
  MaxRetries          \* DEFAULT_MAX_TRANSIENT_RETRIES

ASSUME CronAssumption ==
  /\ IsFiniteSet(Jobs)
  /\ OneShots \subseteq Jobs /\ DeletedAfterRun \subseteq OneShots
  /\ {MaxConcurrentRuns, MaxMissed} \subseteq Nat \ {0}
  /\ MaxRetries \in Nat

VARIABLES
  job,       \* the store
  timer,     \* a timer is set
  ticking,   \* onTimer() awaits its batch
  stopped,   \* TRUE before start() and after stop()
  exec,      \* executions under way
  missed,    \* missed jobs the catch-up has still to execute
  unarmed,   \* history: jobs given a next run by an execution that set no timer
  late       \* history: jobs the catch-up began although they were executing

cronVars == <<job, timer, ticking, stopped, exec, missed, unarmed, late>>

Kinds == {"tick", "missed", "forced"}
Outcomes == {"ok", "transient", "error"}

NoJob == [there |-> FALSE, enabled |-> FALSE, next |-> "none", running |-> FALSE, errors |-> 0]
Scheduled(next) == [NoJob EXCEPT !.there = TRUE, !.enabled = TRUE, !.next = next]

Waits(r) == r.there /\ r.enabled /\ r.next # "none"
Due(r) == Waits(r) /\ r.next = "due" /\ ~r.running
DueJobs == {j \in Jobs : Due(job[j])}
Executions(j) == {e \in exec : e[2] = j}

(* What slice(0, n) of the jobs of S may be                                *)
Batches(S, n) ==
  {B \in SUBSET S : Cardinality(B) = IF Cardinality(S) < n THEN Cardinality(S) ELSE n}

(* computeNextRunAtMs(): the moment of a one-shot may be past.             *)
NextRuns(j) == IF j \in OneShots THEN {"later", "none"} ELSE {"later"}

(* The store as an earlier process left it; start() comes next.            *)
CronInit ==
  /\ job \in [Jobs -> {NoJob, Scheduled("later"), Scheduled("due")}]
  /\ timer = FALSE /\ ticking = FALSE /\ stopped = TRUE
  /\ exec = {} /\ missed = {} /\ unarmed = {} /\ late = {}

-----------------------------------------------------------------------------
(* Mutant: a timer is set only for a job that is not executing.            *)
ArmTimerForIdle(js, off) == IF off THEN timer ELSE \E j \in Jobs : Waits(js[j]) /\ ~js[j].running

(* armTimer() over the jobs js                                             *)
ArmTimer(js, off) == IF off THEN timer ELSE \E j \in Jobs : Waits(js[j])

(* updateJobState(): the mark of executeJob(), if the job is still stored  *)
Marked(js, B) == [j \in Jobs |-> [js[j] EXCEPT !.running = @ \/ (j \in B /\ js[j].there)]]

(* start(): missing next runs are computed and stale marks cleared; the    *)
(* catch-up executes its first job before the timer is set.                *)
Start ==
  /\ stopped /\ exec = {}
  /\ stopped' = FALSE
  /\ \E next \in [Jobs -> {"later", "none"}] :
       /\ \A j \in Jobs : next[j] \in NextRuns(j)
       /\ LET js == [j \in Jobs |->
                [job[j] EXCEPT !.running = FALSE,
                               !.next = IF job[j].enabled /\ @ = "none" THEN next[j] ELSE @]]
              due == {j \in Jobs : Due(js[j])}
          IN  \E B \in Batches(due, MaxMissed) :
                /\ IF B = {} THEN missed' = {} /\ exec' = exec /\ job' = js
                   ELSE \E j \in B : /\ missed' = B \ {j}
                                     /\ exec' = {<<"missed", j>>}
                                     /\ job' = Marked(js, {j})
                /\ timer' = ArmTimer(js, FALSE)
  /\ unarmed' = {}
  /\ UNCHANGED <<ticking, late>>

(* stop()                                                                  *)
Stop ==
  /\ stopped' = TRUE /\ timer' = FALSE
  /\ UNCHANGED <<job, ticking, exec, missed, unarmed, late>>

AddJob(j) ==
  /\ ~job[j].there /\ Executions(j) = {} /\ j \notin missed
  /\ \E next \in NextRuns(j) : job' = [job EXCEPT ![j] = Scheduled(next)]
  /\ timer' = ArmTimer(job', stopped)
  /\ unarmed' = {}
  /\ UNCHANGED <<ticking, stopped, exec, missed, late>>

(* updateJob() of the schedule, or of enabled                              *)
UpdateJob(j, enabled) ==
  /\ job[j].there
  /\ \E next \in NextRuns(j) :
       job' = [job EXCEPT ![j].enabled = enabled, ![j].next = IF enabled THEN next ELSE "none"]
  /\ timer' = ArmTimer(job', stopped)
  /\ unarmed' = {}
  /\ UNCHANGED <<ticking, stopped, exec, missed, late>>

RemoveJob(j) ==
  /\ job[j].there
  /\ job' = [job EXCEPT ![j] = NoJob]
  /\ timer' = ArmTimer(job', stopped)
  /\ unarmed' = {}
  /\ UNCHANGED <<ticking, stopped, exec, missed, late>>

(* Mutant: a forced run does not look whether the job is running.          *)
ForceRunAnyway(j) ==
  /\ job[j].there /\ <<"forced", j>> \notin exec
  /\ job' = Marked(job, {j})
  /\ exec' = exec \union {<<"forced", j>>}
  /\ UNCHANGED <<timer, ticking, stopped, missed, unarmed, late>>

(* forceRun(), which a job already running refuses                         *)
ForceRun(j) ==
  /\ job[j].there /\ ~job[j].running /\ <<"forced", j>> \notin exec
  /\ job' = Marked(job, {j})
  /\ exec' = exec \union {<<"forced", j>>}
  /\ UNCHANGED <<timer, ticking, stopped, missed, unarmed, late>>

(* The moment of a job comes.                                              *)
TimePasses(j) ==
  /\ job[j].there /\ job[j].next = "later"
  /\ job' = [job EXCEPT ![j].next = "due"]
  /\ UNCHANGED <<timer, ticking, stopped, exec, missed, unarmed, late>>

(* onTimer(): while a batch is awaited, or with nothing due, only the      *)
(* timer is set again.                                                     *)
TimerRings ==
  /\ timer
  /\ IF ticking \/ DueJobs = {}
     THEN timer' = ArmTimer(job, stopped) /\ UNCHANGED <<job, ticking, exec>>
     ELSE \E B \in Batches(DueJobs, MaxConcurrentRuns) :
            /\ ticking' = TRUE /\ timer' = FALSE
            /\ exec' = exec \union ({"tick"} \X B)
            /\ job' = Marked(job, B)
  /\ unarmed' = {}
  /\ UNCHANGED <<stopped, missed, late>>

-----------------------------------------------------------------------------
(* applyJobResult() on the record of a job: a one-shot that succeeds is    *)
(* deleted or disabled, a transient error is retried, any other disables   *)
(* it; a recurring job waits for its next moment, taken as later always: a *)
(* cron expression with no moment left (cron.ts:594-597) is left out.      *)
Retried(r, outcome) == outcome = "transient" /\ r.errors < MaxRetries
Result(j, r, outcome) ==
  LET errors == IF outcome = "ok" THEN 0
                ELSE IF r.errors > MaxRetries THEN r.errors ELSE r.errors + 1
      done == [r EXCEPT !.running = FALSE, !.errors = errors]
  IN  IF ~r.there \/ (outcome = "ok" /\ j \in DeletedAfterRun) THEN NoJob
      ELSE IF j \notin OneShots THEN [done EXCEPT !.next = IF r.enabled THEN "later" ELSE "none"]
      ELSE IF Retried(r, outcome) THEN [done EXCEPT !.next = "later"]
      ELSE [done EXCEPT !.enabled = FALSE, !.next = "none"]

(* The turn of an execution has ended: its result is applied.  The last of *)
(* a batch lets onTimer() set the timer, and the catch-up goes on to its   *)
(* next job, whatever has become of that job meanwhile.                    *)
FinishJob(kind, j, outcome) ==
  /\ <<kind, j>> \in exec
  /\ LET js == [job EXCEPT ![j] = Result(j, @, outcome)]
         left == exec \ {<<kind, j>>}
         batchEnds == kind = "tick" /\ \A e \in left : e[1] # "tick"
     IN  /\ ticking' = (ticking /\ ~batchEnds)
         /\ timer' = IF batchEnds THEN ArmTimer(js, stopped) ELSE timer
         /\ unarmed' = IF batchEnds THEN {}
                       ELSE IF Waits(js[j]) /\ ~timer THEN unarmed \union {j} ELSE unarmed
         /\ IF kind = "missed" /\ missed # {}
            THEN \E n \in missed : /\ missed' = missed \ {n}
                                   /\ exec' = left \union {<<"missed", n>>}
                                   /\ job' = Marked(js, {n})
                                   /\ late' = IF Executions(n) = {} THEN late ELSE late \union {n}
            ELSE missed' = missed /\ exec' = left /\ job' = js /\ late' = late
  /\ UNCHANGED stopped

(* The process ends, however it does.                                      *)
ProcessEnds ==
  /\ stopped' = TRUE /\ timer' = FALSE /\ ticking' = FALSE
  /\ exec' = {} /\ missed' = {} /\ unarmed' = {} /\ late' = {}
  /\ UNCHANGED job

CronClient(j) ==
  \/ AddJob(j)
  \/ \E enabled \in BOOLEAN : UpdateJob(j, enabled)
  \/ RemoveJob(j)
  \/ ForceRun(j)

CronNext ==
  \/ Start \/ Stop \/ TimerRings \/ ProcessEnds
  \/ \E j \in Jobs :
       \/ CronClient(j)
       \/ TimePasses(j)
       \/ \E kind \in Kinds, outcome \in Outcomes : FinishJob(kind, j, outcome)

CronSpec == CronInit /\ [][CronNext]_cronVars
-----------------------------------------------------------------------------
JobRecords == [there : BOOLEAN, enabled : BOOLEAN, next : {"none", "later", "due"},
               running : BOOLEAN, errors : Nat]

CronTypeOK ==
  /\ job \in [Jobs -> JobRecords]
  /\ {timer, ticking, stopped} \subseteq BOOLEAN
  /\ exec \subseteq Kinds \X Jobs
  /\ {missed, unarmed, late} \subseteq SUBSET Jobs
  /\ ticking <=> \E e \in exec : e[1] = "tick"

(* The service has no polling but its timer: while it is started, a job    *)
(* that waits for a run has a timer set, or a batch whose end sets it.     *)
(* The exceptions are the next runs a forced run or the catch-up computes  *)
(* while there is no timer: applyJobResult() sets none.                    *)
TimerArmed ==
  ~stopped => \A j \in Jobs \ unarmed :
                 Waits(job[j]) => timer \/ \E e \in exec : e[1] = "tick"

(* "Skip if this job is already running (prevents duplicate execution ...)"*)
(* cron.ts:302: a job is executed once at a time, unless the catch-up      *)
(* reached it late.                                                        *)
OneExecutionAtATime == \A j \in Jobs \ late : Cardinality(Executions(j)) <= 1

(* collectDueJobs() and forceRun() pass over a job marked as running, and  *)
(* only the end of an execution or a start removes the mark: in a started  *)
(* service each marked job is being executed, or it would never run again. *)
MarkedIsExecuting ==
  ~stopped => \A j \in Jobs : job[j].running => Executions(j) # {}

(* The mark of a job is that of its one execution.                         *)
MarkIsExecution == OneExecutionAtATime /\ MarkedIsExecuting
=============================================================================
