---------------------------- MODULE MCGatewayProofs -----------------------------
(***************************************************************************)
(* What is proved of the gateway's services one by one holds of them side  *)
(* by side, as the run gateway checks them: a behaviour of PartsSpec is a  *)
(* behaviour of the specification of each part.                            *)
(***************************************************************************)
EXTENDS MCGateway, SessionProofs, GatewayProofs, ServiceProofs, DelegationDrainLoopProofs

LEMMA PartsBegin ==
  PartsInit => /\ GatewayInit /\ Init /\ HistoryInit /\ MemoryInit /\ NodesInit
               /\ LiveInit /\ HeartbeatInit /\ IntentionsInit /\ NeedsInit
  BY DEF PartsInit

(* A step is of one part, and the others stay as they are.                 *)
LEMMA PartsStep ==
  [PartsNext]_partsVars =>
    /\ [GatewayNext]_gatewayVars /\ [Iterate]_vars
    /\ [HistoryNext]_historyVars /\ [MemoryNext]_memoryVars
    /\ [NodesNext]_nodesVars /\ [LiveNext]_liveVars
    /\ [HeartbeatNext]_heartbeatVars /\ [IntentionsNext]_intentionsVars
    /\ [NeedsNext]_needsVars
<1> SUFFICES ASSUME [PartsNext]_partsVars
             PROVE  /\ [GatewayNext]_gatewayVars /\ [Iterate]_vars
                    /\ [HistoryNext]_historyVars /\ [MemoryNext]_memoryVars
                    /\ [NodesNext]_nodesVars /\ [LiveNext]_liveVars
                    /\ [HeartbeatNext]_heartbeatVars /\ [IntentionsNext]_intentionsVars
                    /\ [NeedsNext]_needsVars
  OBVIOUS
<1>1. CASE UNCHANGED partsVars
  BY <1>1, Zenon DEF partsVars
<1>2. CASE Of("gateway") /\ GatewayNext
  BY <1>2, Zenon DEF Of
<1>3. CASE Of("drain") /\ Iterate
  BY <1>3, Zenon DEF Of
<1>4. CASE Of("history") /\ HistoryNext
  BY <1>4, Zenon DEF Of
<1>5. CASE Of("memory") /\ MemoryNext
  BY <1>5, Zenon DEF Of
<1>6. CASE Of("nodes") /\ NodesNext
  BY <1>6, Zenon DEF Of
<1>7. CASE Of("live") /\ LiveNext
  BY <1>7, Zenon DEF Of
<1>8. CASE Of("heartbeat") /\ HeartbeatNext
  BY <1>8, Zenon DEF Of
<1>9. CASE Of("intentions") /\ IntentionsNext
  BY <1>9, Zenon DEF Of
<1>10. CASE Of("needs") /\ NeedsNext
  BY <1>10, Zenon DEF Of
<1> QED BY <1>1, <1>2, <1>3, <1>4, <1>5, <1>6, <1>7, <1>8, <1>9, <1>10, Zenon DEF PartsNext

(* The services side by side are each of them.                             *)
THEOREM PartsImplementEach ==
  PartsSpec => /\ GatewaySpec /\ DrainSpec /\ HistorySpec /\ MemorySpec /\ NodesSpec
               /\ LiveSpec /\ HeartbeatSpec /\ IntentionsSpec /\ NeedsSpec
  BY PartsBegin, PartsStep, PTL
     DEF PartsSpec, GatewaySpec, DrainSpec, HistorySpec, MemorySpec, NodesSpec, LiveSpec,
         HeartbeatSpec, IntentionsSpec, NeedsSpec

(* The state of each of the services has its type.                         *)
THEOREM PartsAreTyped == PartsSpec => []PartsTypeOK
<1>1. NodesInv => NodesTypeOK
  BY DEF NodesInv
<1>2. HeartbeatInv => HeartbeatTypeOK
  BY DEF HeartbeatInv
<1>3. HeldInv => IntentionsTypeOK
  BY DEF HeldInv
<1>4. GatewayTypeOK /\ HistoryTypeOK /\ MemoryTypeOK /\ NodesTypeOK /\ LiveTypeOK /\ HeartbeatTypeOK
      /\ IntentionsTypeOK /\ NeedsTypeOK => PartsTypeOK
  BY DEF PartsTypeOK
<1> QED BY <1>1, <1>2, <1>3, <1>4, PartsImplementEach, GatewayKeeps, HistoryIsTyped,
           MemoryIsTyped, NodesInvariant, LiveTyped, HeartbeatInvariant, IntentionsInvariant,
           NeedsAreTyped, PTL

(* What each service keeps by itself it keeps beside the others.           *)
THEOREM PartsKeep ==
  PartsSpec => []/\ TurnsSerialized /\ NoIdlePlace /\ TimerArmed /\ MarkIsExecution
                 /\ DrainedIsClean /\ LoopStartsChosen /\ HistoryKept /\ ToolsArePaired
                 /\ MemoryFaithful /\ InvokesReachable /\ ResultsAnnounced /\ PlansAreCurrent
                 /\ RemindersAreHeld /\ DeclinedStaysQuiet
  BY PartsImplementEach, GatewayKeeps, DrainsClean, LoopIsChosen, HistoryIsKept, HistoryIsPaired,
     MemoryIsFaithful, NodesReachable, ResultsAreAnnounced, PlansStayCurrent, ArmedAreHeld,
     DeclinedIsQuiet, PTL
===========================================================================
