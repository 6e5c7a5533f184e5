------------------------------- MODULE MCGateway -------------------------------
(***************************************************************************)
(* Small instances of the gateway's services.  Those of Gateway are        *)
(* composed; the others share no state with them nor with each other, and  *)
(* are checked beside them: part says which of them a behaviour is of, and *)
(* the others stay as they began.                                          *)
(***************************************************************************)
EXTENDS Gateway, DelegationDrainLoop, SessionHistory, SessionMemory, NodeRegistry,
        GptLiveCoordinator, Heartbeat, Intentions, LatentNeeds

CONSTANTS chat, once, recurring, n1, n2, c1, c2, c3

VARIABLE part

(* A chat and two jobs.  The one-shot job runs in the session of the chat; *)
(* the global lanes hold one turn each, so that turns wait both for their  *)
(* session and for their global lane.                                      *)
MCChats == {chat}
MCTurns == MCChats \union (Kinds \X {once, recurring})
MCSessions == {"talk", "apart"}
MCGlobals == {"Main", "Cron"}
MCSessionOf == [t \in MCTurns |-> IF t \in MCChats \union (Kinds \X {once})
                                  THEN "talk" ELSE "apart"]
MCGlobalOf == [t \in MCTurns |-> IF t \in MCChats THEN "Main" ELSE "Cron"]
MCLaneLimit == [l \in MCGlobals |-> 1]

(* One node that connects twice and one that connects once                 *)
MCHostOf == (c1 :> n1) @@ (c2 :> n1) @@ (c3 :> n2)

PartNames == {"gateway", "drain", "history", "memory", "nodes", "live", "heartbeat",
              "intentions", "needs"}
partsVars == <<part, gatewayVars, vars, historyVars, memoryVars, nodesVars, liveVars,
               heartbeatVars, intentionsVars, needsVars>>

(* The sessions of LatentNeeds: it tells them apart by nothing.            *)
Alike == Permutations(Talks)

PartsInit ==
  /\ part \in PartNames
  /\ GatewayInit /\ (part # "gateway" => job = [j \in Jobs |-> NoJob])
  /\ Init /\ (part # "drain" => jobs = <<>> /\ active = [k \in Keys |-> "none"])
  /\ HistoryInit /\ MemoryInit /\ NodesInit
  /\ LiveInit /\ (part # "live" => Existing = {})
  /\ HeartbeatInit /\ (part # "heartbeat" => enabled)
  /\ IntentionsInit /\ NeedsInit

(* A step of the part called name                                          *)
Of(name) ==
  /\ part = name /\ UNCHANGED part
  /\ name # "gateway" => UNCHANGED gatewayVars
  /\ name # "drain" => UNCHANGED vars
  /\ name # "history" => UNCHANGED historyVars
  /\ name # "memory" => UNCHANGED memoryVars
  /\ name # "nodes" => UNCHANGED nodesVars
  /\ name # "live" => UNCHANGED liveVars
  /\ name # "heartbeat" => UNCHANGED heartbeatVars
  /\ name # "intentions" => UNCHANGED intentionsVars
  /\ name # "needs" => UNCHANGED needsVars

PartsNext ==
  \/ Of("gateway") /\ GatewayNext
  \/ Of("drain") /\ Iterate
  \/ Of("history") /\ HistoryNext
  \/ Of("memory") /\ MemoryNext
  \/ Of("nodes") /\ NodesNext
  \/ Of("live") /\ LiveNext
  \/ Of("heartbeat") /\ HeartbeatNext
  \/ Of("intentions") /\ IntentionsNext
  \/ Of("needs") /\ NeedsNext

PartsSpec == PartsInit /\ [][PartsNext]_partsVars

(* Bound of the second process: it is explored where at most one chat,     *)
(* method or moment has come in all, since a crash leaves nothing but the  *)
(* store; one process meets them in any combination.                       *)
RestartsAreSparse == spent.starts = 2 => spent.chats + spent.edits + spent.moments <= 1

-----------------------------------------------------------------------------
PartsTypeOK ==
  /\ GatewayTypeOK
  /\ HistoryTypeOK /\ MemoryTypeOK /\ NodesTypeOK /\ LiveTypeOK /\ HeartbeatTypeOK
  /\ IntentionsTypeOK /\ NeedsTypeOK
=============================================================================
