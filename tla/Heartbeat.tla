------------------------------- MODULE Heartbeat -------------------------------
(***************************************************************************)
(* The heartbeat: src/src/gateway/heartbeat.ts and its scheduler,          *)
(* heartbeat-wake.ts.                                                      *)
(*                                                                         *)
(* Requests, of the interval or of heartbeat.trigger, are merged into one  *)
(* pending request, which a short timer turns into a beat: a decision of   *)
(* the model and, if it says so, a turn.  A beat does not begin while the  *)
(* Main lane is busy.                                                      *)
(*                                                                         *)
(* Left out: priorities, which decide nothing but the reason logged; what  *)
(* a beat says; and the memory phases after a beat, which the gateway      *)
(* turns off (index.ts:973) in favour of the schedulers of SessionMemory.  *)
(***************************************************************************)
VARIABLES
  enabled,   \* config.enabled
  interval,  \* the interval is armed
  asleep,    \* HeartbeatWake.stopped
  wanted,    \* HeartbeatWake.pending
  ring,      \* HeartbeatWake.timer
  beat,      \* "none", "deciding", "executing": HeartbeatWake.running but for "none"
  asked      \* history: a request was taken, and no beat began since

heartbeatVars == <<enabled, interval, asleep, wanted, ring, beat, asked>>

(* After start()                                                           *)
HeartbeatInit ==
  /\ enabled \in BOOLEAN /\ interval = enabled
  /\ asleep = FALSE /\ wanted = FALSE /\ ring = FALSE /\ asked = FALSE
  /\ beat = "none"

(* requestNow()                                                            *)
Request ==
  /\ IF asleep THEN UNCHANGED <<wanted, ring, asked>>
               ELSE wanted' = TRUE /\ ring' = TRUE /\ asked' = TRUE
  /\ UNCHANGED <<enabled, interval, asleep, beat>>

(* heartbeat.trigger                                                       *)
Trigger == Request

IntervalRings == interval /\ Request

(* fire(): the timer is gone; a request that finds a beat under way stays  *)
(* pending.                                                                *)
RingInVain ==
  /\ ring
  /\ asleep \/ beat # "none" \/ ~wanted
  /\ ring' = FALSE
  /\ UNCHANGED <<enabled, interval, asleep, wanted, beat, asked>>

(* fire() with no beat under way.  While the Main lane is busy it puts the *)
(* request and the timer back as they were, which is no step.              *)
BeginBeat ==
  /\ ring /\ ~asleep /\ beat = "none" /\ wanted
  /\ ring' = FALSE /\ wanted' = FALSE /\ asked' = FALSE
  /\ beat' = "deciding"
  /\ UNCHANGED <<enabled, interval, asleep>>

(* runOnce(): the decision may call for a turn; else, or when it fails,    *)
(* the beat is over.                                                       *)
Decided ==
  /\ beat = "deciding"
  /\ beat' \in {"executing", "none"}
  /\ UNCHANGED <<enabled, interval, asleep, wanted, ring, asked>>

(* Mutant: a turn that fails leaves the scheduler running.                 *)
ExecutedOrStuck ==
  /\ beat = "executing"
  /\ beat' \in {"none", "stuck"}
  /\ UNCHANGED <<enabled, interval, asleep, wanted, ring, asked>>

(* The turn has ended, or failed.                                          *)
Executed ==
  /\ beat = "executing"
  /\ beat' = "none"
  /\ UNCHANGED <<enabled, interval, asleep, wanted, ring, asked>>

(* updateConfig(): stop() in the first and the last case; start(), or what *)
(* it repeats of it, in the second and the last.                           *)
Reload(now) ==
  /\ enabled' = now
  /\ IF enabled
     THEN /\ interval' = now
          /\ asleep' = TRUE /\ wanted' = FALSE /\ ring' = FALSE /\ asked' = FALSE
     ELSE /\ interval' = (interval \/ now)
          /\ UNCHANGED <<asleep, wanted, ring, asked>>
  /\ UNCHANGED beat

HeartbeatNext ==
  \/ Trigger \/ IntervalRings
  \/ RingInVain \/ BeginBeat
  \/ Decided \/ Executed
  \/ \E now \in BOOLEAN : Reload(now)

HeartbeatSpec == HeartbeatInit /\ [][HeartbeatNext]_heartbeatVars
-----------------------------------------------------------------------------
HeartbeatTypeOK ==
  /\ {enabled, interval, asleep, wanted, ring, asked} \subseteq BOOLEAN
  /\ beat \in {"none", "deciding", "executing"}
  /\ interval => enabled

(* A request that was taken leads to a beat, or is withdrawn by a stop,    *)
(* whatever beat or turn of the Main lane it met, as long as the interval  *)
(* is armed: a request that meets a beat has no timer of its own.          *)
RequestServed == asked /\ interval ~> ~asked

(* "Live-reload heartbeat if its config changed", config-methods.ts:289,   *)
(* "Re-arm with new interval", heartbeat.ts:304: after a reload an armed   *)
(* interval still leads to beats.                                          *)
ReloadKeepsWake == interval => ~asleep
=============================================================================
