--------------------------- MODULE GptLiveCoordinator ---------------------------
(***************************************************************************)
(* One connection of the GPT-Live voice client:                            *)
(* src/src/live/gpt-live-coordinator.ts, over the tasks of                 *)
(* gateway/delegation-methods.ts.                                          *)
(*                                                                         *)
(* What the user says and asks for is interpreted by a model, one request  *)
(* at a time, while the user goes on talking and tasks go on changing; the *)
(* plan that comes back is executed.  Each change of a task is published   *)
(* to the connection, which tells the voice of results once the user has   *)
(* been heard.                                                             *)
(*                                                                         *)
(* A plan is the set of its actions: what each does is seen by no other.   *)
(* Left out: what the voice is told without being made to speak, the       *)
(* transcript (its revision counts the things said), acknowledgements, the *)
(* bridge turned off, and sends that fail on a socket that is closing.     *)
(***************************************************************************)
EXTENDS Naturals, FiniteSets

CONSTANTS
  LiveTasks,    \* tasks
  Wishes,       \* what a request may ask for
  MaxSaid,      \* bound: things the user says
  MaxRequests,  \* bound: requests
  MaxPlan       \* bound: actions of a plan

ASSUME LiveAssumption == {MaxSaid, MaxRequests, MaxPlan} \subseteq Nat

VARIABLES
  shut,        \* closed
  heard,       \* heardUser
  said,        \* userRevision
  delegated,   \* requests so far
  requests,    \* how many wait for their interpretation
  alarm,       \* timer
  route,       \* the interpretation under way: routing, revision, attempt
  submitted,   \* fingerprints of the actions taken
  status,      \* of each task, as far as the connection looks at it
  superseded,  \* tasks whose validity that is
  news,        \* pending: tasks that ended before the user was heard
  delivered,
  told,        \* history: how often the end of each task was told unasked
  arrived,     \* history: tasks that ended during the connection
  orders       \* history: each task submitted, and for what

tasksVars == <<status, superseded, arrived, orders>>
liveVars == <<shut, heard, said, delegated, requests, alarm, route, submitted, status, superseded,
              news, delivered, told, arrived, orders>>

Idle == [on |-> FALSE, said |-> 0, tries |-> 0]
Existing == {t \in LiveTasks : status[t] # "none"}
Ended == {t \in LiveTasks : status[t] = "finished"}
Unused == LiveTasks \ Existing

(* The connection is made when the owner may have tasks already, which     *)
(* restore() tells of without a word aloud.                                *)
LiveInit ==
  /\ shut = FALSE /\ heard = FALSE /\ alarm = FALSE
  /\ said = 0 /\ delegated = 0 /\ requests = 0
  /\ route = Idle /\ submitted = {}
  /\ status \in [LiveTasks -> {"none", "running", "finished"}]
  /\ superseded = {} /\ news = {} /\ delivered = {} /\ arrived = {} /\ orders = {}
  /\ told = [t \in LiveTasks |-> 0]

-----------------------------------------------------------------------------
(* deliver(task, true) of each task of S that is not superseded            *)
Deliver(S) ==
  /\ delivered' = delivered \union (S \ superseded)
  /\ told' = [t \in LiveTasks |->
                told[t] + IF t \in S \ (superseded \union delivered) THEN 1 ELSE 0]

(* schedule(): set is whether it is armed before, n how many requests wait.*)
Schedule(set, n, routing) == alarm' = (set \/ (n > 0 /\ ~routing))

(* routeNext() with n requests waiting                                     *)
RouteNext(set, n, now) ==
  IF shut \/ route.on \/ n = 0
  THEN requests' = n /\ alarm' = set /\ UNCHANGED route
  ELSE /\ requests' = n - 1
       /\ \/ route' = [on |-> TRUE, said |-> now, tries |-> 1] /\ alarm' = set
          \/ now = 0 /\ UNCHANGED route /\ Schedule(set, n - 1, FALSE)

(* A fragment of what the user says, observe()                             *)
Speak ==
  /\ ~shut /\ said < MaxSaid
  /\ said' = said + 1
  /\ heard' = TRUE
  /\ Schedule(alarm, requests, route.on)
  /\ Deliver(news) /\ news' = {}
  /\ UNCHANGED <<shut, delegated, requests, route, submitted, tasksVars>>

(* The voice delegates, observe() of session.delegation.created.           *)
Delegate ==
  /\ ~shut /\ delegated < MaxRequests
  /\ delegated' = delegated + 1
  /\ requests' = requests + 1
  /\ Schedule(alarm, requests', route.on)
  /\ UNCHANGED <<shut, heard, said, route, submitted, news, delivered, told, tasksVars>>

(* typed()                                                                 *)
Typed ==
  /\ ~shut /\ said < MaxSaid /\ delegated < MaxRequests
  /\ said' = said + 1 /\ delegated' = delegated + 1
  /\ heard' = TRUE
  /\ Deliver(news) /\ news' = {}
  /\ RouteNext(alarm, requests + 1, said')
  /\ UNCHANGED <<shut, submitted, tasksVars>>

AlarmRings ==
  /\ alarm
  /\ RouteNext(FALSE, requests, said)
  /\ UNCHANGED <<shut, heard, said, delegated, submitted, news, delivered, told, tasksVars>>

RouteEnds == route' = Idle /\ Schedule(alarm, requests, FALSE)

(* Mutant: a plan is executed whatever the user said meanwhile.            *)
PlanHoldsAlways == route.on

(* The interpretation was made of all that the user has said.              *)
PlanHolds == route.on /\ route.said = said

(* The model has failed, or asks back, or names what does not exist; or    *)
(* the connection was closed; or the user said more for the third time.    *)
RouteFails ==
  /\ route.on
  /\ RouteEnds
  /\ UNCHANGED <<shut, heard, said, delegated, requests, submitted, news, delivered, told, tasksVars>>

(* The user said more meanwhile: the request is interpreted again.         *)
RouteAgain ==
  /\ route.on /\ ~shut /\ route.said # said /\ route.tries < 3
  /\ route' = [route EXCEPT !.said = said, !.tries = @ + 1]
  /\ UNCHANGED <<shut, heard, said, delegated, requests, alarm, submitted, news, delivered, told,
                 tasksVars>>

Actions == ({"submit"} \X Wishes) \union ({"cancel", "revise", "status"} \X Existing)
Plans == {plan \in SUBSET Actions : Cardinality(plan) <= MaxPlan}
Submits(a) == a[1] \in {"submit", "revise"}

(* The plan comes back and is executed up to its end, or to the action     *)
(* broken, which throws.  A revision replaces its task by the new one.     *)
RouteReturns(plan, broken) ==
  /\ LET fresh == {a \in plan : <<said, a>> \notin submitted}
         taken == fresh \ broken
         creating == {a \in taken : Submits(a)}
         revised == {t \in Existing : <<"revise", t>> \in taken}
         shown == {t \in Ended : <<"status", t>> \in taken}
     IN  /\ broken \subseteq fresh
         /\ submitted' = submitted \union {<<said, a>> : a \in fresh}
         /\ Cardinality(creating) <= Cardinality(Unused)
         /\ \E new \in [creating -> Unused] :
              /\ \A a, b \in creating : a # b => new[a] # new[b]
              /\ status' = [t \in LiveTasks |->
                              IF \E a \in creating : new[a] = t THEN "running" ELSE status[t]]
              /\ orders' = orders \union
                   {[task |-> new[a], heard |-> route.said, said |-> said, action |-> a] :
                      a \in creating}
         /\ superseded' = superseded \union revised
         /\ news' = news \ revised
         /\ delivered' = delivered \union (shown \ superseded)
  /\ RouteEnds
  /\ UNCHANGED <<shut, heard, said, delegated, requests, told, arrived>>

-----------------------------------------------------------------------------
(* Mutant: a task that ends before the user is heard is not kept.          *)
UpdateForgets(t, ended) ==
  IF ~shut /\ heard /\ ended /\ t \notin superseded
  THEN Deliver({t}) /\ UNCHANGED news ELSE UNCHANGED <<news, delivered, told>>

(* Mutant: whether the task has ended is not looked at.                    *)
UpdateUnended(t, ended) ==
  IF shut \/ t \in superseded \union delivered THEN UNCHANGED <<news, delivered, told>>
  ELSE IF heard THEN Deliver({t}) /\ UNCHANGED news
  ELSE news' = news \union {t} /\ UNCHANGED <<delivered, told>>

(* update(): the connection hears of a task.                               *)
Update(t, ended) ==
  CASE shut \/ (t \notin superseded /\ (~ended \/ t \in delivered)) ->
         UNCHANGED <<news, delivered, told>>
    [] ~shut /\ t \in superseded -> news' = news \ {t} /\ UNCHANGED <<delivered, told>>
    [] OTHER -> IF heard THEN Deliver({t}) /\ UNCHANGED news
                ELSE news' = news \union {t} /\ UNCHANGED <<delivered, told>>

TaskEnds(t) ==
  /\ status[t] = "running"
  /\ status' = [status EXCEPT ![t] = "finished"]
  /\ arrived' = IF shut THEN arrived ELSE arrived \union {t}
  /\ Update(t, TRUE)
  /\ UNCHANGED <<shut, heard, said, delegated, requests, alarm, route, submitted, superseded, orders>>

(* A task is published again, as when it is looked at, or when a client    *)
(* reports what became of its result.                                      *)
TaskPublished(t) ==
  /\ t \in Existing
  /\ Update(t, t \in Ended)
  /\ UNCHANGED <<shut, heard, said, delegated, requests, alarm, route, submitted, tasksVars>>

(* Another client of the owner has a task run, or corrects one.            *)
TaskSubmitted(t) ==
  /\ t \in Unused
  /\ status' = [status EXCEPT ![t] = "running"]
  /\ \/ UNCHANGED <<superseded, news>>
     \/ \E old \in Existing :
          /\ superseded' = superseded \union {old}
          /\ news' = IF shut THEN news ELSE news \ {old}
  /\ UNCHANGED <<shut, heard, said, delegated, requests, alarm, route, submitted, delivered, told,
                 arrived, orders>>

(* close()                                                                 *)
CloseLive ==
  /\ ~shut /\ shut' = TRUE /\ alarm' = FALSE
  /\ UNCHANGED <<heard, said, delegated, requests, route, submitted, news, delivered, told, tasksVars>>

LiveNext ==
  \/ Speak \/ Delegate \/ Typed
  \/ AlarmRings \/ RouteFails \/ RouteAgain
  \/ /\ PlanHolds /\ ~shut
     /\ \E plan \in Plans : \E broken \in {{}} \union {{a} : a \in plan} : RouteReturns(plan, broken)
  \/ \E t \in LiveTasks : TaskEnds(t) \/ TaskPublished(t) \/ TaskSubmitted(t)
  \/ CloseLive

LiveSpec == LiveInit /\ [][LiveNext]_liveVars
-----------------------------------------------------------------------------
LiveTypeOK ==
  /\ {shut, heard, alarm} \subseteq BOOLEAN
  /\ said \in Nat /\ delegated \in Nat /\ requests \in Nat
  /\ route \in [on : BOOLEAN, said : Nat, tries : 0..3]
  /\ status \in [LiveTasks -> {"none", "running", "finished"}]
  /\ superseded \subseteq LiveTasks /\ arrived \subseteq Ended
  /\ news \subseteq Ended /\ delivered \subseteq Ended
  /\ told \in [LiveTasks -> Nat]

(* Each task that ends during a connection is told of aloud, once: not     *)
(* before the user was heard, not when it was corrected meanwhile, and not *)
(* again, however publications, corrections, questions about it and the    *)
(* user's first words fall together.                                       *)
ResultsAnnounced ==
  /\ \A t \in LiveTasks : told[t] <= 1
  /\ ~shut => \A t \in arrived \ superseded : IF heard THEN t \in delivered
                                              ELSE t \in news \union delivered

(* "A correction arrived while interpreting; never execute the stale       *)
(* plan", gpt-live-coordinator.ts:134: each task was submitted for what    *)
(* the user had said by then, and once for the same words.                 *)
PlansAreCurrent ==
  \A o, p \in orders :
    /\ o.heard = o.said
    /\ o.said = p.said /\ o.action = p.action => o = p
=============================================================================
