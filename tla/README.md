# TLA+ specifications of Hawky's gateway

Hawky is a personal agent: a gateway process executes the turns of an agent
for chat windows, schedules, reminders, devices and live voice conversations.
The gateway is one event loop, so no two handlers run at once, but every
`await`, timer and microtask is a place where the state one handler has looked
at is changed by another, and the process may die between any two of them.
These modules specify what holds all the same: the delegation of work from a
voice conversation and the return of its results, the lanes turns wait in, the
schedulers, the history and memory drawn from conversations, device nodes,
reminders and volunteered needs.

Paths are relative to the repository root; its `src/gateway/x.ts` is the
gateway's source, `web-ios/` the web client.

## 1. Inventory

| Component | State it keeps | Operations | Interacts with | Modules |
| --- | --- | --- | --- | --- |
| Delegation queue `gateway/delegation-queue.ts` | `active: Map<session, readOnly>`, `waiting` array | `run`, abort listener, `start`, `finally`, `drain` | the promise of each task, the executor | DelegationDrain, -DrainLoop, -Queue, WorkspaceLock |
| Task lifecycle `delegation-methods.ts`, `-store.ts`, `-types.ts` | Map of pending promises, one record per task in memory and on disk | `submit`, `run`, `get`, `list`, `cancel`, `respond`, `delivery`, `revise`, the promise of a task, its deadline | queue, executor, pending input, clients | Delegation |
| Voice response coordinator `web-ios/src/lib/realtime-responses.ts` | pending, requested, owned and playing responses; gates; timer | `request`, `invalidateTask`, `observe`, `flush`, `reset` | provider events, task updates | RealtimeResponses, -Conversation |
| GPT Live coordinator `live/gpt-live-coordinator.ts` | transcript revision, request being interpreted, undelivered results | `observe`, `update`, `typed`, `close` | delegation, provider, router model | GptLiveCoordinator |
| Command lanes `command-queue.ts`, `lanes.ts` | per lane a queue and active ids; draining flag | enqueue, pump, end of a turn | every turn | CommandLanes |
| Cron `cron.ts`, `cron-store.ts` | jobs and their marks on disk, timer, batch | start, ring, forced run, catch-up, result | lanes | CronService |
| Gateway process `index.ts`, `shutdown.ts` | phase | boot, shutdown with its drain, exit | lanes, cron, chat | Gateway |
| Heartbeat `heartbeat-wake.ts`, `heartbeat.ts` | pending wake, timer, beat | request, ring, decide, execute, reload | Main lane | Heartbeat |
| Chat turns and sessions `agent-methods.ts`, `agent/loop.ts`, `agent/compaction.ts`, `memory-flush.ts`, `rewind.ts`, `storage/session.ts` | history in memory and on disk | `chat.send`, `chat.rewind`, `session.compact/flush/clear/appendMessages` | lanes, memory | SessionHistory (and Delegation, Gateway) |
| Memory `memory/session-memory.ts`, `distill.ts`, schedulers | checkpoint, logs of the days, MEMORY.md, mark | update, projection, consolidation | sessions' files | SessionMemory |
| Device nodes `node-registry.ts`, `server.ts` | nodes by id and by connection, pending invocations | register, unregister, invoke, cancel, answer, destroy | tools, WebSocket | NodeRegistry |
| Reminders `ambient/intention-service.ts`, `arming.ts`, `fire.ts`, `arm-when.ts`, `arm-where.ts` | store on disk; timers, regions, satisfied terms in memory | create, arm in two phases, ring, enter, retry, respond, prune, boot | devices, cron scheduler, connections | Intentions |
| Latent needs `ambient/latent-service.ts`, `dedup.ts`, `scan.ts` | transcript windows, store, suppressed keys, reservations | tick, scan, respond, prune, boot | sessions, two models | LatentNeeds |
| Pending input `ws-permission.ts`, `tools/ask_user.ts` | Maps of pending permissions and questions | ask, resolve, cancel | turns, delegation | Delegation, in part |

Not modelled: the WebSocket server and client, channels and their debouncer,
media and streams, the agent's tools, CLI runtimes, the provider gateway and
authentication, identity, ASR consumers, MCP and skills, the user interfaces
(section 6).

What is hard in it:

* **Reading, waiting, writing.**  A compaction, a consolidation, a rewind, an
  interpretation of the user's words, a recognition of needs: each reads a
  state, awaits a model or a lane, and applies its result to another state.
* **Two places at a time.**  A turn waits for its session and then for a
  global lane while it holds the first; a follow-up shares the session of the
  task it continues; a Map keyed by session stands for a set of calls.
* **Failure.**  The process may die at any moment, between two writes as well;
  clients lose answers and ask again; executors hang, throw, or answer after
  they were stopped; connections are replaced before their close event comes.
* **Nobody polls.**  Queues, the coordinator of spoken replies and the cron
  service act only when an event or their timer wakes them: a wake-up that is
  not set is never noticed.
* **Late answers.**  Of a device after the time it was given, of a playback
  after a newer one, of a user after the question is moot, of a node whose
  connection was replaced.

The hazards, each at its line with the properties that would catch it, are in
`PROJECT.json`.

## 2. Modules

```
DelegationDrain          what one drain() starts, as a function of the queue's state
  |-- DelegationDrainLoop     the loop of drain(), compared with it
  |     '-- DelegationDrainLoopProofs    it starts Chosen, for any array
  '-- DelegationQueue         run / abort / start / finally over it
        |-- WorkspaceLock         the lock it implements (INSTANCE ... WITH)
        |-- MCDelegationQueue
        |-- DelegationQueueProofs     invariant, exclusion, order, refinement,
        |                             no drain is missed
        '-- Delegation            tasks over an INSTANCE of the queue
              |-- MCDelegation, MCDelegationTasks
              '-- DelegationProofs      over an INSTANCE of DelegationQueueProofs

RealtimeResponses        the client's coordinator of spoken replies
  '-- RealtimeConversation    with its user and the provider, over two channels
        |-- MCRealtimeConversation
        '-- RealtimeConversationProofs    nothing is lost, said twice or stuck

CommandLanes             session lane around global lane
CronService              jobs and their marks, timer, batch, results
  '-- Gateway                 extends both: chat and cron turns in the lanes,
        |                     shutdown, crash
        |-- GatewayProofs         lanes, cron and the two together
        '-- MCGateway             Gateway and eight parts beside it:
              |   SessionHistory, SessionMemory -------- SessionProofs
              |   NodeRegistry, GptLiveCoordinator, ---- ServiceProofs
              |   Heartbeat, Intentions, LatentNeeds
              |   DelegationDrainLoop
              '-- MCGatewayProofs     what is proved of each holds of them
                                      side by side

MCSchedulers             CommandLanes, Heartbeat, SessionMemory, Intentions with fairness
```

`MCGateway` and `MCSchedulers` check several services in one run.  `Gateway`
is a composition: its actions are steps of both services it extends.  The
others share no state, so the variable `part` says which of them a behaviour
is of, and `Of(name)` keeps the rest as it began; the state space is the sum of
theirs, not the product.

### DelegationDrain, DelegationDrainLoop

`drain()` is a `while` loop that changes the array and the Map it looks at.
`Chosen` says in closed form which items it starts: nothing while a writer is
active; otherwise the readers ahead of the first waiting writer, the first of
each free session key, up to the room left; or the writer at the head when
nothing is active.  `DelegationDrainLoop` has one action per iteration with
the code's `boundary` and `findIndex`, starts from *any* array and *any* Map
the queue can hold, and is checked to start exactly `Chosen`.  The rest of
the project, and the proofs, use the closed form.

### DelegationQueue, WorkspaceLock

One member of `Calls` per call of `run()`.

| Module | `delegation-queue.ts` |
| --- | --- |
| `phase` | where the call is: not made, in the array, `start()` done, `work()` executing, settled, `finally` done, rejected unstarted |
| `index` | place in `waiting` (1 is the head) |
| `active` | the Map; `"none"` for an absent key |
| `aborted` | calls whose `AbortSignal` fired |
| `Run(i, k, ro)` | `run()` 8-24, with the drain it ends in |
| `Abort(i)` | the abort listener 11-14, or an abort of a call that is not in the array |
| `Begin`, `Finish`, `Finally` | the microtasks of `start()` 18-20: `throwIfAborted` then `work()`; the result; key released, drain |
| `Reason(i)` | the text handed to `waiting?.()` 37-41 |

The callback of `start()`, the settling of the promise and `finally()` are
separate microtasks of the program, so they are separate actions: what other
handlers do in between is explored.

`WorkspaceLock` is the promise of the class comment without the array: grants
are given and taken back, at most once per caller, and the grants in force are
compatible.  `ImplementsLock` is the refinement; a call holds its grant from
`start()` to `finally()`.

### Delegation

Tasks over an instance of the queue, whose session keys are the backend
sessions (named by the task that opened them).

| Module | `delegation-methods.ts` |
| --- | --- |
| `task[t]` | the record, in memory and on disk; status `"none"` if there is none |
| `live` | the Map `active` |
| `todo[t]` | prerequisites its promise has not taken yet |
| `asking`, `asks` | the pending permission or question of each backend session, and the id counter |
| `cut` | executing tasks whose turn was told to stop by `options.cancel` |
| `runs` | history: how often the executor was called for the task |
| `Recovered`, `Seen`, `Look` | `recover()`, `lookup()`, `get` / `list` |
| `Submit`, `Cancel`, `Deadline`, `Revise`, `ReviseAgain`, `Respond`, `Deliver` | the methods and the 180 s timer |
| `EnterQueue`, `TakeDependency`, `FailDependency`, `GiveUp`, `Conclude`, `Release` | the promise of a task (155-228) and the queue's `finally` behind it |
| `Begin`, `Started`, `Ask`, `Answer`, `Resume`, `ErrorEvent`, `EndWork` | the executor: what `sendChat` may call back |
| `Crash`, `CrashInRevise` | the process dies between two events, or between the snapshots `revise()` writes |

* *Memory and disk are one record.*  Every handler ends with `publish`, which
  writes the snapshot in the same event.  The places where several snapshots
  are written in one event are `revise` (`CrashInRevise`: the process dies
  before the old task is marked, or before it is cancelled) and a lookup followed by
  the handler's own publish, where the snapshot in between is what `Look`
  alone leaves.
* *Lookups change state.*  `recover()` runs in every lookup, so every action
  that looks a task up applies `Recovered` to it.  A request that fails after
  its lookup leaves what `Look` leaves.
* *Records are abstract.*  Texts, times, models and evidence are gone.
  `error`, `result` and `started` are the truth values of `error`, `result`
  and `startedAt`; `input` is the id of the pending input, 0 for none;
  `superseded` is `validity === "superseded"`.
* *The deadline may fire at any time, also again*, and *prerequisites are
  taken in any order*, where the code takes them in the order given.  Both
  only add behaviours.
* *The wait for a lane* in `sendChat` is the time between `Begin` and
  `Started`, during which the task may be aborted, in which case only a
  rejection can follow.
* *One owner, one live session.*  Every lookup is keyed by both.  Direct chat
  clients on the backend session of a task are outside
  (docs/realtime-delegation.md says the queue is no lock against them), except
  that they may answer its questions (`Answer`).
* *One pending input per backend session*, as a turn waits for the answer.
* `revise` is called with an id that is not the old task's; `supersedes` is
  only set by `revise`.  Prerequisites named in its request are the
  replacement's.

### RealtimeResponses, RealtimeConversation

What happens to a finished task in the client.  `RealtimeResponses` is the
class of that name, one action per method and per kind of event given to
`observe()`; `RealtimeConversation` adds who calls it (`useRealtime.ts`) and
the realtime provider, which is external: modelled from the events the client
sends, and from what it does with those it gets.

| Module | `realtime-responses.ts` |
| --- | --- |
| `pending`, `requested`, `owned` | the same fields; an intent is named by its task |
| `responding` | the Set `active` of responses being generated |
| `invalidTasks`, `invalidResponses` | the same fields |
| `playing` | `playing` with `playingResponse`, 0 for none |
| `userSpeaking`, `awaitingUser`, `holds` | the gates; `holds` has `silent` and `contextUpdating` |
| `timer` | whether a flush is scheduled |
| `up`, `down` | the data channel to and from the provider, in order |
| `Request`, `SetHold`, `UserTurn`, `Invalidate`, `Flush`, `Reset` | the methods, and the timer's callback |
| `SpeechStarted` ... `Refused` | the branches of `observe()` |
| `asked`, `restored` | tasks announced on this connection, and on earlier ones |
| `generating`, `played`, `audible`, `cut`, `speech` | the provider: what it generates and plays, and the user's voice |
| `origin`, `speaks` | history: which request a response answers and which tasks it reports |

The provider generates one response at a time and plays the audio of one at a
time, begins replies of its own, and refuses a request while it generates.
Playback may begin before or after the end of the generation.  A lost
connection loses both channels; the next one restores finished tasks as
context and does not announce them, which is why the properties speak of the
tasks asked for on this connection.  Of time only the timer is left:
`retryUntil` delays a flush, and `schedule()` waits at least as long.
Responses are numbered as they are created, and event ids are fresh (the code
draws random ones): a new one is of no request that anything still refers to,
and there is always such a one (`ConversationAssumption`).  The guard
`created' \in Responses` is a bound.  `Current`, the `filter()` of the code,
gives each place of the result by rank instead of recursion, so that it can be
proved about.

### GptLiveCoordinator

One connection of the other voice client, whose coordinator is in the gateway.

| Module | `gpt-live-coordinator.ts` |
| --- | --- |
| `said`, `heard` | `userRevision`, `heardUser` |
| `requests`, `alarm`, `route` | what waits for its interpretation; the timer; `routing` with the revision it was made of and the attempts |
| `submitted` | fingerprints of the actions taken |
| `news`, `delivered` | `pending` and `delivered` |
| `Speak`, `Delegate`, `Typed`, `AlarmRings` | `observe()`, `typed()`, the timer |
| `RouteAgain`, `RouteReturns`, `RouteFails` | what `routeNext()` does when the model has answered |
| `Update`, `TaskEnds`, `TaskPublished`, `TaskSubmitted` | `update()`, for every change of a task that the delegation methods publish |

The model that interprets is a choice among all plans of the allowed length.
A plan is a set: no action sees what another does.  An action may throw, and
those before it stand.

### CommandLanes, CronService, Gateway

| Module | code |
| --- | --- |
| `lane` | `LaneState`: the queue and `activeTaskIds` of each lane |
| `promise` | what the promise handed to the caller of each turn has come to |
| `ExecuteInSession` | `executeInSession()`: the session lane's entry enqueues in the global lane when it starts |
| `FinishTurn`, `ReleaseSession` | the turn's own promise settles, and in a later microtask the session's entry |
| `MarkGatewayDraining`, `Drained` | `markGatewayDraining()`, the check of `waitForActiveTasks()` |
| `job` | the store of the cron service: enabled, next run (none, later, due), mark, consecutive errors |
| `timer`, `ticking`, `exec`, `missed` | its timer, the batch `onTimer()` awaits, executions under way, the list of the catch-up |
| `Start`, `TimerRings`, `FinishJob`, `ForceRun` | `start()` with its catch-up, `onTimer()`, `applyJobResult()` with backoff, deletion and disabling, `forceRun()` |
| `phase`, `ShutDown`, `DrainEnds`, `Exit`, `Crash` | `gracefulShutdown()`, and the death of the process |

A cron execution asks for its turn in the event that begins it, and its result
is applied when the turn's promise settles: both are microtasks, which come
before the next timer or message.  `Gateway` says so with the guard `Quiet`.
In `CronService` on its own, executions end when they like, which is more than
the composition does; the theorems about it therefore hold in both.

### Heartbeat

Requests of the interval and of `heartbeat.trigger`, merged into one pending
request (`wanted`) that a short timer (`ring`) turns into a `beat`: a decision
of the model and perhaps a turn.  A beat that finds the Main lane busy puts
request and timer back, which is no step.  `Reload` is `updateConfig()` with
the `stop()` it begins with.

### SessionHistory

One session; `memory` is the loop's history, `disk` the file, `holder` what
holds the session's lane.  Turns with a round of tools, flushes, compactions on
request and rewinds run in the lane; what is said aloud
(`session.appendMessages`), `session.clear` and the compaction after a turn do
not wait for it.  A message is its kind and its turn.  `Summarized` is
`splitHistory()` with its search for a boundary that separates no results from
their call, `Repaired` is `repairOrphanedToolUses()`.  `disturbed` marks that
the messages were changed beside the lane: properties of the histories that
the lane protects exclude these, and the run `lost_turn` shows what happens in
one of them.

### SessionMemory

A message is its number and its day, and two units of text, so that a chunk may
end within it.  A text drawn from messages *is* the sequence of units it was
drawn from, and a hash is what it is taken of: "drawn once and in order" is
then an equation, and what the checkpoint says of its day is the last stretch
of its summary that is of that day without a break.  An update is four events
(`BeginUpdate`, `CheckSource`, `Commit`, or `CommitUnprojected` when the
process dies between the checkpoint and its projection), between which the
conversation goes on, is rewound or compacted.  Consolidations (`BeginMerge`, `EndMerge`) of the scheduler and of
`memory.distill` may overlap, as in the code.

### NodeRegistry

`connOf` and `nodeOf` are the two Maps of the registry.  A node that connects
again replaces its connection (`Register`), and the close event of the old one
comes later (`Close`).  `device` is the node's side: the connection over which
it was asked for what it executes.  A send may fail, or be reported as failed
under backpressure although it arrives.

### Intentions

Reminders for a time, for a place, or both.  `intention` is the store;
`mem` holds what the process remembers and a restart forgets: timers, retries,
prepared times, the device's pending answers, the regions pending and armed,
entries that came too early, and the terms a composite reminder has met.  Its
field `untimed` is history: reminders of a time that a late answer armed.

| Module | code |
| --- | --- |
| `Create` | `intention.create`, `prepare()` of both adapters |
| `Answered`, `AckTimeout`, `AnsweredLate` | `armIntention()`: the device answers in time; it is not waited for longer; `region.armed` after that |
| `Fire` | `fireIntention()`, `deliverAndMark()`, with the caller's retry |
| `WhenRings`, `RetryRings`, `RegionEntered` | what makes it fire |
| `LocationDenied`, `Respond`, `Prune` | `location.auth`, `intention.respond`, `tick()` |
| `Reboot`, `Rehydrated` | the next process schedules the times it finds in the store |

There is no await in firing, so a firing is one step, and the in-flight claim
of `fire.ts` is never met.

### LatentNeeds

Needs the user lets slip.  A tick sweeps what the user has said is met or no
longer wanted, asks a model what is new in each session that spoke, and asks a
second one what to volunteer; a scan asks it for a session.  `pass` is the
tick: what it read before the model was asked (`rows`, `time`), what it minted
since (`fresh`) and what it offers.  Both models are choices among the answers
the code accepts.  A row's `twin` is history: a session minted the same
content in the same tick.

## 3. Runs

| Run | Question | Bounds | Distinct states |
| --- | --- | --- | --- |
| `queue` | Is the queue exclusive, truthful, orderly and fair, and an implementation of the lock? | 3 calls, 3 keys, limit 2 | 133 thousand |
| `tasks` | Interleavings of tasks; who executes beside whom | 3 native tasks, 1 prerequisite each, 1 cancelled; or 2 of Codex and Claude, 1 of them with its delivery reported | 491 thousand, up to symmetry |
| `restart` | Crashes, retries and questions; does every promise settle? | 2 tasks, 1 crash, 1 question per life, 2 cancelled | 266 thousand |
| `replies` | Races between client, user and provider | 2 results, 1 reply of the provider, 2 events under way | 1.2 million, up to symmetry |
| `offered` | Is every current result kept, and offered in the end? | the same, 1 event under way, no errors but "busy" | 390 thousand |
| `gateway` | Safety of nine parts, each on its own: `Gateway`, the drain loop, history, memory, nodes, live conversation, heartbeat, reminders, needs | 1 chat and 2 jobs (one shares its session with the chat), 2 processes; 3 keys, limit 2, arrays up to 4; 2 turns and 2 other requests; 3 messages, 2 days, 2 mishaps; 2 nodes, 3 connections, 2 invocations; 2 tasks, 2 things said; 2 reminders, 2 processes; 2 sessions, 1 content, 2 rows | 579 thousand, up to symmetry |
| `schedulers` | Liveness of lanes, heartbeat, memory and reminders | 3 turns, 2 of one session, in 2 lanes; 1 mishap | 24 thousand |
| `borrowed_input`, `refused_reply`, `heartbeat_reload`, `lost_turn`, `half_armed` | violations, see section 5 | 2 tasks; 2 results; none; 3 turns; 1 reminder, 1 process | |

What the properties say, and where they would break:

* `MutualExclusion`, `WaitsOnlyForItsReason`, `NoOvertaking`, `EveryCallEnds`,
  `ImplementsLock`: a Map keyed by *session* stands for a set of *calls*, and
  `finally()` deletes by key; a missed `drain()` leaves a call waiting beside
  idle workers, and the reason shown to the user would be a lie; readers pass
  a follow-up that waits for its own conversation, but nobody passes a writer.
* `LoopStartsChosen`: the loop neither stops too early nor starts too much.
* `ExecutingTasksCompatible`: the same exclusion, seen by the tasks, with what
  counts as a reader for each runtime and continued conversation.  It says what
  the code (delegation-methods.ts:127-133) and its tests
  (tests/test-delegation.ts:179, "Codex readers overlap") do, which is less
  than docs/realtime-delegation.md:13 and :27 say; see section 5.
* `NoCollateralCancel`: a turn is stopped by its session; cancelling a queued
  follow-up must not stop the turn of the task it continues.
* `DependentsUseRealResults`, `SupersededNeverCompletes`, `CancelWins`,
  `LineageSound`: results, corrections and cancellations that cross.
* `ExecutedOnce`: retries and restarts never repeat work.
* `EventuallySettles`: the answer of `delegation.run` always comes, also when
  a prerequisite, a question or the agent hangs.
* `SupersededIsSilenced`: a correction that arrives while its announcement is
  requested, generated or played; the coordinator does not own a response
  before it is acknowledged.
* `NoResultLost`, `AnnouncedOnce`, `AcknowledgedBeforeNext`,
  `EventuallyOffered`: two results share a response, and one of them is
  superseded, or the request is refused; events of unrelated responses come
  while a request is unanswered; nothing polls, so whatever opens the last
  gate must arm the timer.
* `ResultsAnnounced`, `PlansAreCurrent`: publications, corrections, questions
  about a task and the user's first words fall together; a plan that comes
  back after the user said more is not executed.  It speaks of the user's words
  only: the tasks a plan names may have changed meanwhile, which the
  coordinator does not look at, and the delegation methods then decide.
* `TurnsSerialized`, `NoIdlePlace`, `TurnsSettle`: turns wait for a second
  place while they hold the first.
* `TimerArmed`, `MarkIsExecution`: the cron service acts only when its timer
  rings, and a job marked as running is passed over: a timer not set or a mark
  not removed would never be noticed.
* `DrainedIsClean`: a drain that found every lane empty has cut nothing off,
  results not yet applied included.  It is silent on turns that were queued:
  command-queue.ts:217 says that they "execute and complete", and one in a
  global lane does, but one that waits in its session's lane is refused by the
  global lane once its turn comes, since that lane is draining.
* `HistoryKept`, `ToolsArePaired`: flushes set the history aside and put it
  back, compactions and rewinds cut it, restarts repair it.  Both except
  histories that were changed beside the lane, so what a message spoken during
  a round of tools does to the calls and results is not covered.
* `MemoryFaithful`, `MemoryCatchesUp`: chunks that end within a message,
  conversations rewound under the model's call, a crash between checkpoint and
  projection.
* `InvokesReachable`: what is waited for from a device can still come, though
  it connected again under its name and the old connection closes later.  A
  late *result* is found by the id of its invocation and changes nothing; no
  property repeats that.
* `RequestServed`: a request that meets a beat has no timer of its own.
* `RemindersAreHeld`, `RemindersAreSpoken`: an obligation is not dropped when
  its time finds nobody connected, after restarts, with a second term open.
  `RemindersAreHeld` asks a timer or a retry for the time, being prepared is
  not enough; it excepts times of reminders that a late answer armed (finding
  5) and places after a restart.
* `DeclinedStaysQuiet`: a declined need is not minted again by a recognizer
  that was asked before.

Each property is also run against a mutant of a definition it depends on, a
plausible mistake in that code (some mutants stand beside what they replace in
the modules); TLC finds each violated.

**Bounds** are constants in the guards, so liveness is checked without a state
constraint, but for `restart`, whose constraint `FirstIsT1` only picks one of
two renamed behaviours.  Of the runs of safety `gateway` has one:
`RestartsAreSparse` explores a second process where at most one chat, cron
method or moment of a job has come in all, since a crash leaves only the store;
within one process they come in any combination.  Three tasks are enough for a prerequisite, its
replacement and a dependent, and for a reader, a writer and a follow-up; two
are enough for a crash, since what survives it is per task.  Two results are
enough to share a response and to be in different ones, and a reply of the
provider to collide with them.  With one event under way the provider still
acts while an event travels the other way.  `MaxStops` bounds cancelled tasks,
not cancellations.  One place per lane makes turns wait for both of theirs.
Two turns and `KeepTurns = 1` are enough for a compaction to have something to
summarise and something to keep; `lost_turn` needs a third.  A chunk of three
units ends within a message of two.  Three connections are a replacement and
another node.  Two processes are one restart, after which what is forgotten is
forgotten.  Four items and two workers are needed in the drain loop for a
follow-up behind its own key, a reader that passes it, a writer behind both,
and a limit hit within the loop.

**Symmetry** is used on ids that nothing orders, in runs of safety properties
only.  **Deadlock** is not checked in runs where everything may have ended.

**Fairness.**  In `DelegationQueue`: microtasks run, and `work()` ends,
because a delegated turn is aborted by its deadline.  In `Delegation` that is
derived: microtasks run, the timer of a pending promise fires, and a turn ends
*once it was aborted* (`loop.cancel()`, denial of its pending permission, or
the kill of the CLI process); nothing is assumed of a turn that was not
aborted, of users or of clients.  In `RealtimeConversation` the channels
deliver, the timer fires, and what the provider generates and plays ends;
every event re-arms the timer of 80 ms, so fairness of `FlushTimer` says that
events do not come closer than that for ever.  In `MCSchedulers`: turns end
(the loop has a limit of iterations and the provider a timeout) and the event
loop runs what follows; timers ring; a retried beat meets the Main lane free
at some time; calls of the model end or fail.  Fairness is strong in two
places: the scheduler of memory proceeds infinitely often when it can, because
its ticks do not stop though each may find an update under way; and a reminder
that nobody hears is retried for as long as that lasts, and the user, who
comes back each time, is there at one of the retries.  Failures, crashes and
manual calls are bounded (`MaxMishaps`, `MaxBoots`), which is what "once the
conversation rests" means.

## 4. Proofs

All hold for every value of the constants under the assumptions each module
names (`ASSUME`), which TLC evaluates on the instances.

| Theorem | Statement | Property of run |
| --- | --- | --- |
| `DelegationQueueProofs!Invariant`, `TypeCorrect`, `MapMatchesCalls` | `Spec => []IInv`; the type; the Map holds the keys of the running calls and no other | |
| `MutuallyExclusive`, `NoneOvertakes`, `QueueImplementsLock` | exclusion, order, and the refinement of the lock | `queue` |
| `WaitsForItsReason` | `WaitsOnlyForItsReason` | `queue` |
| `DelegationProofs!Invariant`, `TypeCorrect` | `Spec => []DInv`; the type | `tasks` |
| `ResultsAreReal`, `NoSupersededResult` | `DependentsUseRealResults`, `SupersededNeverCompletes` | `tasks` |
| `WorkStartsOnce`, `StopsOnlyItsTurn`, `CancellationWins`, `LineageIsSound` | `ExecutedOnce`, `NoCollateralCancel`, `CancelWins`, `LineageSound` | `restart` |
| `CompatibleTasks` | `ExecutingTasksCompatible` | `tasks` |
| `OnlyRespondBorrows` | no step but a `Respond` to an input that is not the task's own breaks `RunningIsExecuting`, which `borrowed_input` violates | |
| `DelegationDrainLoopProofs!LoopInvariant`, `LoopIsChosen` | `DrainSpec => []LoopInv`; `LoopStartsChosen` | `gateway` |
| `LoopEndsChosen` | what the loop has started when it ends is `Chosen`, in the order of the array | |
| `GatewayProofs!LanesInvariant`, `TurnsAreSerialized`, `PlacesAreTaken` | `TurnsSerialized`, `NoIdlePlace` | `gateway` |
| `CronInvariant`, `TimerIsArmed`, `MarksAreExecutions` | `TimerArmed`, `MarkIsExecution` | `gateway` |
| `GatewayInvariant`, `GatewayKeeps` | `GatewaySpec => []GatewayInv`; the four properties above in the composition | |
| `DrainsClean` | `DrainedIsClean` | `gateway` |
| `GatewayImplementsCron` | `GatewaySpec => CronSpec`: sharing the lanes with the user and dying adds nothing to what the cron service does | |
| `SessionProofs!MemoryIsFaithful` | `MemoryFaithful` | `gateway` |
| `HistoryIsKept`, `HistoryIsPaired` | `HistoryKept`, `ToolsArePaired` | `gateway` |
| `OnlyOvertakenLoses` | `TurnsAreKept`, which `lost_turn` violates, where no compaction is `Overtaken` by the lane | |
| `HistoryIsTyped`, `MemoryIsTyped` | the types of history and memory | |
| `ServiceProofs!NodesInvariant`, `NodesReachable` | `InvokesReachable` | `gateway` |
| `ResultsAreAnnounced`, `PlansStayCurrent` | `ResultsAnnounced`, `PlansAreCurrent` | `gateway` |
| `RealtimeConversationProofs!ReplyInvariant`, `TypeCorrect` | `Spec => []ReplyInv`; the type, an intent in one place | `replies` |
| `SupersededAreSilenced`, `AnnouncedAtMostOnce`, `RequestsAcknowledged` | `SupersededIsSilenced`, `AnnouncedOnce`, `AcknowledgedBeforeNext` | `replies` |
| `NoResultIsLost` | `NoResultLost`, where `~OtherErrors` | `offered` |
| `FlushFollows` | `FlushIsScheduled`, where `~OtherErrors`; `refused_reply` violates it otherwise | |
| `ServiceProofs!IntentionsInvariant`, `ArmedAreHeld` | `RemindersAreHeld` | `gateway` |
| `NeedsInvariant`, `DeclinedIsQuiet` | `DeclinedStaysQuiet` | `gateway` |
| `HeartbeatInvariant`, `HeartbeatSleepsForGood` | the invariant of the heartbeat; once stopped by a reload it takes no request and begins no beat (what `heartbeat_reload` shows once) | |
| `LiveTyped`, `NeedsAreTyped` | the types of the live conversation and of the needs | |
| `MCGatewayProofs!PartsAreTyped` | `PartsTypeOK` | `gateway` |
| `PartsImplementEach`, `PartsKeep` | the parts side by side are each of them, and keep the other fourteen properties of the run | |

*The queue.*  Mutual exclusion is not inductive: `drain()` trusts the Map, so
the Map must be known to match the running calls, no two of which may share a
key, or else `finally()` would release another call's key.  `Good` states this
as a predicate of the four inputs of `drain()`, not of the variables: each
action proves `Good` of what it hands over (an item pushed, spliced out, or
released), and one lemma (`DrainKeeps`) says that `drain()` keeps it.
`Placed` says that places run from 1 to the length of the array.  `IInv` is
both.  `StepKinds` shows that every step is a `DrainStep` from a good state,
or moves no call in or out of the array or the Map.  Missed drains need one
fact more, `Quiet`: `drain()` called now would start nothing.  It is inductive
because `drain()` is idempotent (`DrainQuiet`); the hard case is a candidate
behind the room that was left, where the ranks of what is left over must be
counted (`RanksFill`).

*The loop of `drain()`.*  `LoopInv` says between two iterations: what is left
is in its old order, the Map holds no more than the limit and what it held,
and what was started together with what `Chosen` would start *now* is what it
would have started at first.  So the proof is one lemma on `Chosen`
(`ChosenNext`): splicing out the first item that may start and entering its
key removes that item from `Chosen` and no other.  Every place behind the
spliced one moves up, and a reader behind it has one candidate less ahead and
one place less to go into (`CandidatesLeft`, `OneMoreHeld`).

*Tasks.*  `DInv` relates the four things a task consists of: its record, its
promise, its call of the queue and its work.  `Promises` says which of them go
together (work is executed for a pending promise only, and once), `Cancels`
that an abort is requested and seen by the promise before its outcome,
`Results` that a prerequisite a promise no longer waits for has a result,
`Turns` that a stopped turn is that of an aborted task, `Lineage` how
corrections refer to each other; `QP!IInv` is the invariant of the queue, taken
over from its proofs by INSTANCE.  The turn of a session is stopped without
naming the task, so `Turns` needs the queue's exclusion: two tasks that run
never share a session.  Instead of each part for each action, every step is
shown to be a restart or `Ordinary` (`StepKinds`): what it may do to a record
(`RecordStep`) and to a call (`CallStep`); each part follows from these.
That a task shown as running executes is not an invariant (finding 1).  What
is proved instead is how far the finding goes: `Borrows` is the only step that
breaks it.

*The lanes.*  `Fit` says of one lane what it looks like between two events; a
lane that got an entry or gave back a place is `Loose` until it is pumped.
`Nested` ties the two lanes of a turn and its promise: a turn in a global lane
holds the place of its session.

*Cron.*  That a mark is the mark of an execution needs the converse too: a
stored job that is executing is marked (`ExecutingIsMarked`), and executions
of a job are one (`OnceOnly`), or the end of one would unmark the other.

*The gateway.*  `GatewayInv` joins the two invariants by what neither service
knows of the other: while a process is up every mark is of an execution of
this process (`MarksAreCurrent`, a mark of a dead one being cleared by boot),
and when the drain has ended without cutting anything off the lanes are empty
and stay so (`DrainingStays`, `EmptyLanes`), as a draining lane takes no turn.
`DrainedIsClean` then follows through the executions: one that is in no lane
has no turn left that could end it.  The refinement `GatewayImplementsCron`
needs no invariant: each step of the gateway is a step of the cron service or
leaves it alone.

*Memory.*  `Drawn` says of a checkpoint what `MemoryFaithful` says of the
current one; `MemoryInv` says it of the update under way as well.
`ExtendedDrawn` shows that a chunk keeps it, wherever in a message it ends:
the text of a prefix of a conversation is a prefix of its text
(`UnitsOfPrefix`), the chunk ends where `done` says (`ChunkEnds`), and the
stretch of the last day either grows or begins anew.  Nothing need be known of
the file between the steps of an update: what was rewound under the model's
call is seen by the check, and the update fails.

*History.*  `Good` says that each call is followed by its result and each
result follows its call; `TurnUnderWay` what memory and disk
look like at each stage of a turn, `Undisturbed` what they look like while
nobody wrote beside the lane.  A boundary accepted by `splitHistory()` leaves
both parts `Good` (`SplitIsClean`), which is what the search for it is for;
so does the cut of a rewind (`RewindKeeps`), and the repair after a restart
finds nothing to repair (`GoodRepaired`).  Histories changed beside the lane
are excluded by the flag `disturbed`, as in the properties.

`OnlyOvertakenLoses` does without this flag.  `Spared` says where a turn that
must not be lost is to be found: in the file, and in the messages the loop
goes on with, which during a flush or a compaction are those set aside.  A
compaction after a turn keeps this when the lane is free and memory is still
the snapshot it read; then what it drops is what it summarised.  That covers
every history, also broken ones, which the repair at a load only adds to.
`Repaired` inserts with `FlattenSeq`, a recursive function of the library that
has its equation only if it exists; `Flattened` shows that it does, by a least
length at which the sequences so far could not be joined, and that the result
holds what it was made of.

*Types of memory.*  `MemoryTyped` says more than `MemoryTypeOK` where the code
computes: messages are numbered among those written, on days that have begun
(`Conversed`), and the times of the daily logs have a latest one, which no mark
and no consolidation under way exceeds (`Rising`).

*Heartbeat.*  What is wanted was asked for and a timer is for something
wanted; a scheduler that sleeps wants nothing, which is why a later reload
finds nothing to put back.

*Nodes.*  The two Maps of the registry are inverse to each other
(`ConnsAreNodes`, `NodesHaveConns`), so that replacing a connection disturbs
the invocations of no other node.

*Live conversation.*  A task told of is a delivered one, and an order is known
by its fingerprint.

*Spoken replies.*  None of the properties is inductive, because each depends on
events that are still in a channel when the other side acts.  `ReplyInv`
therefore says what an event under way means.  `Truthful`: it is true of the
provider (a `done` that is not kept is of a response that was cut short, an
`ended` of one that is no longer played).  `InOrder`: nothing about a response
comes before its creation, and what is played either started last among the
events under way or is what the client believes to be played.  `OneRequest`: in
both channels together one request or answer is open at most, it carries the
id and the intents the coordinator waits for, and no response the client knows
of answers that id, so neither a refusal nor a `response.done` takes it for
another.  `OnePlace`: an intent is queued, requested or owned by one response,
and in one response that is valid, counting those the client has not heard of
(`Seen`).  `Silencing`: a valid response is owned as long as it may be played,
so that superseding one of its tasks finds it; a cancelled one that is played
has its clear under way.  `NoneLost` is `NoResultLost` itself.  Each part uses
others: that the intents of a cancelled response may be put back needs
`OnePlace`, which at an acknowledgement needs that the response reports what
was requested (`OneRequest`), which needs the order of the channels.  TLC
checked the parts one by one before they were proved.  `FlushIsScheduled` is
inductive given `ReplyInv`; it fails where the provider refuses for other
reasons (finding 2), and the theorem says that this is the only way.

*Reminders.*  `Arming` says how a reminder comes to be armed: nothing of it
has come before, one whose device is asked is pending, and the time of one that
is pending stays prepared until an answer in time sets its timer, or a late one
leaves it `untimed`.  `Sent` is what the device was told.

*Needs.*  Declining silences one row, so a content must have at most one that
is pending.  The recognizer mints no second one although the rows it was given
may be old: a row pending now was pending then or was minted in the same tick
(`Snapshot`), which makes the new one a twin.  Assumed: `Wants` is finite,
and the bounds `MaxUtterances` and `MaxRows` are numbers.

*Side by side.*  A step of `PartsNext` is one of one part and leaves the
variables of the others alone, so a behaviour of `PartsSpec` is one of each
specification (`PartsImplementEach`); the rest is temporal.

*Model-checked only.*  Liveness (fairness and ENABLED are out of the prover's
reach): `EveryCallEnds`, `EventuallySettles`, `EventuallyOffered`,
`TurnsSettle`, `RequestServed`, `MemoryCatchesUp`, `RemindersAreSpoken`.

## 5. Findings

Five runs end in a violation of what a comment, document or test says.  Of
each, a theorem of section 4 says how far it goes: what else cannot cause it
(`OnlyRespondBorrows`, `FlushFollows`, `OnlyOvertakenLoses`, `ArmedAreHeld`), or
that it has no end (`HeartbeatSleepsForGood`).

1. `borrowed_input`: **a task is `running` although nothing executes it.**  A
   follow-up in the queue shows the question of the task whose session it
   shares, and answering it there marks it running; a question answered after
   its task ended brings the task back, and the next lookup reports "Gateway
   restarted before this task finished" without any restart.
2. `refused_reply`: **a refused request silences what waits behind it.**  After
   an error other than "already has an active response" the coordinator
   forgets the request without scheduling a flush.
3. `heartbeat_reload`: **after a reload of its configuration the heartbeat
   never beats again.**  `updateConfig()` stops the wake scheduler, which
   nothing restarts, and arms an interval that rings in vain.
4. `lost_turn`: **a turn is lost to the compaction of the one before.**  That
   compaction awaits its summary outside the session's lane and then replaces
   memory and file by a snapshot.
5. `half_armed`: **a reminder is armed without its time.**  The device is asked
   to watch the place of a reminder that is for a time too, and answers after
   the time it was given: the reminder is marked armed and only its place is
   activated (agent-methods.ts:407), while arming.ts:105-106 says never to leave
   a half-activated reminder marked so.  Until a restart its time does not
   ring.

The documents say of one thing more than the code does: "CLI jobs are
serialized" (docs/realtime-delegation.md:13), "external CLI jobs [...] are
serialized among delegated jobs" (:27).  That holds of Claude; two Codex
readers of different conversations execute together, as
delegation-methods.ts:127-133 and tests/test-delegation.ts:179 want it.
`ExecutingTasksCompatible` follows the code and the test.

Met while modelling, stated in the modules, and excepted by the properties
named; no document or test says which is meant, or a finding above says it
already:

* Of the reports on a task's responses only the response stored last is
  compared (delegation-methods.ts:105): after a second response was reported, a
  late report on the first overwrites its delivery (`Deliver`; no property).
* After a restart the regions of armed reminders are not sent again
  (index.ts:835), and terms met before are forgotten (`Rehydrated`).
* Two sessions may mint the same need in one tick (latent-service.ts:331), and
  the second row outlives what is said of the first (`DeclinedStaysQuiet`).
* The catch-up of missed jobs does not look whether a job is executing by the
  time it reaches it (cron.ts:669), and runs computed by a forced run or the
  catch-up set no timer where there is none (`late`, `unarmed`).
* After a compaction the message that stands for the summarised part has the
  time of the compaction, and the messages behind it keep theirs
  (agent/compaction.ts:296), so days may go back within a file; the log of a
  day is kept by an update only if the checkpoint's day is the chunk's
  (session-memory.ts:175), so what was said of that day before the break is no
  longer in its log, and `MemoryFaithful` speaks of the last stretch only.
* A consolidation on request may overwrite that of the scheduler
  (`overlapped`).
* A rewind waits for the lane with an index resolved before (agent-methods.ts:1269);
  what it then finds there is cut all the same (`disturbed`).

## 6. Not modelled

* *Transport and I/O*: the WebSocket server and client (reconnection,
  broadcast, subscriptions), channel adapters, media and streams, ASR
  consumers.  Their failures reach the models as lost connections, failed
  sends and late events.
* *Data and model calls*: identity, embeddings and search, confidence and
  deduplication of texts, the loop's tools, MCP and skills.  Where a model
  decides, the modules choose.
* *Processes and credentials*: CLI runtimes, the provider gateway.
* *User interfaces*, but for the coordinator of spoken replies.
* Within the modelled components: failures of the file system other than a
  crash between two writes; ids that repeat after a restart; evidence capture;
  several owners; a `delegation.submit` with a `supersedes` of its own;
  a cron expression with no moment left (cron.ts:594-597); what follows two
  turns of one session overlapping (agent-methods.ts:1025-1111); replies that
  report no task, a `send()` that fails while the channel closes
  and the compaction of the voice conversation; audio of a response that ended
  incomplete; swaps of the provider, eviction of idle sessions, subagents;
  `resetAllLanes()` and `clearCommandLane()`, which nothing calls; priorities
  of the heartbeat, which only name its reason.

## 7. Left to do

* The inbound debouncer, subscriptions and reconnection, and the registry of
  pending permissions with several in one session.
