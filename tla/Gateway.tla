-------------------------------- MODULE Gateway --------------------------------
(***************************************************************************)
(* The gateway process: the chat turns of src/src/gateway/agent-methods.ts *)
(* and the executions of the cron service in the command lanes, and the    *)
(* shutdown of shutdown.ts, with the crash or restart that follows.        *)
(*                                                                         *)
(* An execution of a job asks for its turn in the event that begins it,    *)
(* and its result is applied when the promise of the turn settles.  Both   *)
(* are microtasks: they come before the next timer or message, which the   *)
(* guard Quiet says.  A session that a chat and a job share, as a job with *)
(* sessionTarget "current" does, is one lane.                              *)
(***************************************************************************)
EXTENDS CommandLanes, CronService

CONSTANTS
  Chats,      \* turns of chat.send
  MaxChats,   \* bound: how often the turns of Chats are asked for
  MaxEdits,   \* bound: calls of the cron methods
  MaxMoments, \* bound: moments of jobs that come
  MaxStarts   \* bound: processes

ASSUME GatewayAssumption ==
  /\ Turns = Chats \union (Kinds \X Jobs)
  /\ Chats \intersect (Kinds \X Jobs) = {}
  /\ {MaxChats, MaxEdits, MaxMoments, MaxStarts} \subseteq Nat

VARIABLES
  phase,  \* "down", "up", "draining", "closing"
  cut,    \* the drain timed out
  spent   \* what is used of the bounds

gatewayVars == <<lanesVars, cronVars, phase, cut, spent>>

Spend(what, bound) == spent[what] < bound /\ spent' = [spent EXCEPT ![what] = @ + 1]

GatewayInit ==
  /\ LanesInit /\ CronInit
  /\ phase = "down" /\ cut = FALSE
  /\ spent = [chats |-> 0, edits |-> 0, moments |-> 0, starts |-> 0]

(* An execution that has begun, and not asked for its turn.                *)
Asking == {e \in exec : promise[e] = "none"}

(* Nothing is left to the microtasks of the last event.                    *)
Quiet ==
  /\ Asking = {}
  /\ \A e \in exec : ~Settled(e)
  /\ \A t \in Turns : ~Returned(t)

-----------------------------------------------------------------------------
(* The start of the process, of its cron service among the rest            *)
Boot ==
  /\ phase = "down"
  /\ Spend("starts", MaxStarts)
  /\ phase' = "up" /\ cut' = FALSE
  /\ Start
  /\ UNCHANGED lanesVars

(* chat.send: executeInSession() of a turn in the Main lane                *)
ChatSend(t) ==
  /\ phase # "down"
  /\ Spend("chats", MaxChats)
  /\ Quiet
  /\ ExecuteInSession(t)
  /\ UNCHANGED <<cronVars, phase, cut>>

ChatAnswered(t) ==
  /\ t \in Chats /\ Taken(t)
  /\ UNCHANGED <<cronVars, phase, cut, spent>>

(* triggerAgentTurn() of executeJob()                                      *)
AskTurn(e) ==
  /\ e \in Asking
  /\ ExecuteInSession(e)
  /\ UNCHANGED <<cronVars, phase, cut, spent>>

(* The agent loop ends a turn.                                             *)
TurnEnds(t) ==
  /\ Executes(t) /\ Quiet
  /\ Ends(t)
  /\ UNCHANGED <<cronVars, phase, cut, spent>>

SessionFreed(t) ==
  /\ ReleaseSession(t)
  /\ UNCHANGED <<cronVars, phase, cut, spent>>

(* The promise of its turn settles, and executeJob() applies the result:   *)
(* the message of GatewayDrainingError is no transient error.              *)
JobEnds(kind, j) ==
  /\ Asking = {}
  /\ Taken(<<kind, j>>)
  /\ \E outcome \in Outcomes :
       /\ (outcome = "ok") <=> (promise[<<kind, j>>] = "resolved")
       /\ promise[<<kind, j>>] = "rejected" => outcome = "error"
       /\ FinishJob(kind, j, outcome)
  /\ UNCHANGED <<phase, cut, spent>>

(* Methods and timers of the cron service                                  *)
CronMethod(j) ==
  /\ phase # "down"
  /\ Spend("edits", MaxEdits)
  /\ Quiet
  /\ CronClient(j)
  /\ UNCHANGED <<lanesVars, phase, cut>>

CronTimer ==
  /\ timer /\ Quiet
  /\ TimerRings
  /\ UNCHANGED <<lanesVars, phase, cut, spent>>

Moment(j) ==
  /\ Spend("moments", MaxMoments)
  /\ Quiet
  /\ TimePasses(j)
  /\ UNCHANGED <<lanesVars, phase, cut>>

-----------------------------------------------------------------------------
(* gracefulShutdown(), phase 1                                             *)
ShutDown ==
  /\ phase = "up" /\ Quiet
  /\ phase' = "draining"
  /\ MarkGatewayDraining /\ Stop
  /\ UNCHANGED <<cut, spent>>

(* Phase 2: a check finds every lane empty, or the time is up.  Until the  *)
(* process has exited its sockets and timers still work.                   *)
DrainEnds ==
  /\ phase = "draining" /\ Quiet
  /\ phase' = "closing"
  /\ cut' = ~Drained
  /\ UNCHANGED <<lanesVars, cronVars, spent>>

Gone ==
  /\ phase' = "down"
  /\ ProcessEnds
  /\ lane' = [l \in Lanes |-> [queue |-> <<>>, active |-> {}]]
  /\ draining' = FALSE
  /\ promise' = [t \in Turns |-> "none"]
  /\ UNCHANGED <<cut, spent>>

Exit == phase = "closing" /\ Quiet /\ Gone
Crash == phase \in {"up", "draining"} /\ Gone

GatewayNext ==
  \/ Boot \/ CronTimer \/ ShutDown \/ DrainEnds \/ Exit \/ Crash
  \/ \E t \in Chats : ChatSend(t) \/ ChatAnswered(t)
  \/ \E t \in Turns : AskTurn(t) \/ TurnEnds(t) \/ SessionFreed(t)
  \/ \E j \in Jobs : CronMethod(j) \/ Moment(j) \/ \E kind \in Kinds : JobEnds(kind, j)

GatewaySpec == GatewayInit /\ [][GatewayNext]_gatewayVars
-----------------------------------------------------------------------------
GatewayTypeOK ==
  /\ LanesTypeOK /\ CronTypeOK
  /\ phase \in {"down", "up", "draining", "closing"} /\ cut \in BOOLEAN
  /\ DOMAIN spent = {"chats", "edits", "moments", "starts"}

(* A drain that did not time out cuts nothing off (shutdown.ts:110): when  *)
(* the process exits no turn is under way and, with every result applied,  *)
(* no job is left marked as running in the store.                          *)
DrainedIsClean ==
  phase = "closing" /\ ~cut /\ Quiet =>
    /\ Executing = {} /\ exec = {}
    /\ \A j \in Jobs : ~job[j].running
=============================================================================
