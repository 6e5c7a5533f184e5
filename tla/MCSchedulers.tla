------------------------------ MODULE MCSchedulers ------------------------------
(***************************************************************************)
(* Small instances of what must go on by itself: the command lanes, the    *)
(* heartbeat, the schedulers of memory and reminders.  They share no state *)
(* with each other: part says which of them a behaviour is of, and the     *)
(* others stay as they began.                                              *)
(***************************************************************************)
EXTENDS CommandLanes, Heartbeat, SessionMemory, Intentions

CONSTANTS t1, t2, t3

VARIABLE part

partsVars == <<part, lanesVars, heartbeatVars, memoryVars, intentionsVars>>

(* Two turns of one session and one of another, in two global lanes        *)
MCSessionOf == (t1 :> "a") @@ (t2 :> "a") @@ (t3 :> "b")
MCGlobalOf == (t1 :> "Main") @@ (t2 :> "Cron") @@ (t3 :> "Main")
MCLaneLimit == [l \in {"Main", "Cron"} |-> 1]

PartsInit ==
  /\ part \in {"lanes", "heartbeat", "memory", "intentions"}
  /\ LanesInit /\ MemoryInit /\ IntentionsInit
  /\ HeartbeatInit /\ (part # "heartbeat" => enabled)

(* A step of the part called name                                          *)
Of(name, A) ==
  /\ part = name /\ A /\ UNCHANGED part
  /\ name # "lanes" => UNCHANGED lanesVars
  /\ name # "heartbeat" => UNCHANGED heartbeatVars
  /\ name # "memory" => UNCHANGED memoryVars
  /\ name # "intentions" => UNCHANGED intentionsVars

PartsNext ==
  \/ Of("lanes", LanesNext)
  \/ Of("heartbeat", HeartbeatNext)
  \/ Of("memory", MemoryNext)
  \/ Of("intentions", IntentionsNext)

(* A turn that executes ends, and the event loop runs what then follows.   *)
FairLanes == \A t \in Turns : /\ WF_partsVars(Of("lanes", Ends(t)))
                              /\ WF_partsVars(Of("lanes", ReleaseSession(t)))

(* Timers ring, a retry meets the Main lane free, and beats end.           *)
FairHeartbeat == /\ WF_partsVars(Of("heartbeat", IntervalRings))
                 /\ WF_partsVars(Of("heartbeat", RingInVain))
                 /\ WF_partsVars(Of("heartbeat", BeginBeat))
                 /\ WF_partsVars(Of("heartbeat", Decided))
                 /\ WF_partsVars(Of("heartbeat", Executed))

(* The schedulers tick, and calls of the model end.                        *)
FairMemory == /\ SF_partsVars(Of("memory", BeginUpdate(TRUE)))
              /\ WF_partsVars(Of("memory", CheckSource))
              /\ WF_partsVars(Of("memory", Commit))
              /\ WF_partsVars(Of("memory", BeginMerge("scheduler")))
              /\ \A by \in {"scheduler", "client"} : WF_partsVars(Of("memory", EndMerge(by)))

(* Timers ring, the user comes back, and is there at some of the retries,  *)
(* which go on for as long as nobody is.                                   *)
FairReminders == /\ WF_partsVars(Of("intentions", Connects))
                 /\ \A i \in Reminders :
                      /\ WF_partsVars(Of("intentions", WhenRings(i)))
                      /\ SF_partsVars(Of("intentions", connected /\ RetryRings(i)))

SchedulersSpec ==
  /\ PartsInit /\ [][PartsNext]_partsVars
  /\ FairLanes /\ FairHeartbeat /\ FairMemory /\ FairReminders
=============================================================================
