------------------------------- MODULE Intentions -------------------------------
(***************************************************************************)
(* Reminders of the user ("obvious" intentions): src/src/ambient, with the *)
(* methods of agent-methods.ts that devices call and the boot of index.ts. *)
(*                                                                         *)
(* A reminder is for a time, for a place, or for both.  Its trigger is     *)
(* armed in two phases, the second when the store says "armed": a timer    *)
(* for the time, a region of the user's device for the place.  Delivering  *)
(* is a broadcast to the connections of the session.  The store is on      *)
(* disk, everything else in memory.                                        *)
(*                                                                         *)
(* The only await in arming is for the device's answer, and there is none  *)
(* in firing: what follows runs in one event, so that the in-flight claim  *)
(* of fire.ts is never met.  One session; who may report for which session *)
(* is left out, as are texts, the attempt counter, which is only logged,   *)
(* and the notification that the device shows of its own.                  *)
(***************************************************************************)
EXTENDS Naturals, FiniteSets

CONSTANTS
  Reminders,
  MaxBoots    \* bound: processes

VARIABLES
  intention,  \* the store: state and trigger terms of each reminder
  mem,        \* what the process remembers, see Memories
  connected,  \* a connection of the session is open
  regions,    \* the regions the device was told to watch
  unheard,    \* history: the device may not have the set last sent to it
  boots

intentionsVars == <<intention, mem, connected, regions, unheard, boots>>

Memories ==
  [timers : SUBSET Reminders,    \* whenCron: jobs when:<id>
   retries : SUBSET Reminders,   \* whenCron: jobs retry:<id>
   prepared : SUBSET Reminders,  \* WhenAdapter.prepared
   waiting : SUBSET Reminders,   \* WhereAdapter.pendingAcks
   pending : SUBSET Reminders,   \* pendingBySession
   armed : SUBSET Reminders,     \* armedBySession
   latched : SUBSET Reminders,   \* pendingEntries
   untimed : SUBSET Reminders,   \* history: armed for a time by a late answer
   satisfied : [Reminders -> SUBSET {"when", "where"}]]  \* _satisfiedTerms of fire.ts

Forgotten == [timers |-> {}, retries |-> {}, prepared |-> {}, waiting |-> {}, pending |-> {},
              armed |-> {}, latched |-> {}, untimed |-> {}, satisfied |-> [i \in Reminders |-> {}]]

IntentionsInit ==
  /\ intention = [i \in Reminders |-> [state |-> "none", terms |-> {}]]
  /\ mem = Forgotten
  /\ connected = FALSE /\ regions = {} /\ unheard = FALSE
  /\ boots = 1

State(i) == intention[i].state
Terms(i) == intention[i].terms
Only(i, S) == IF i \in S THEN {i} ELSE {}
Timed == {i \in Reminders : "when" \in Terms(i)}
Placed == {i \in Reminders : "where" \in Terms(i)}

To(i, state) == [intention EXCEPT ![i].state = state]

(* _fullSetFor()                                                           *)
RegionsOf(m) == m.pending \union m.armed

(* emitRegions(): a broadcast that nobody hears is lost.                   *)
Emit(m) == /\ regions' = IF connected THEN RegionsOf(m) ELSE regions
           /\ unheard' = ~connected

EmitIf(changed, m) == IF changed THEN Emit(m) ELSE UNCHANGED <<regions, unheard>>

(* WhenAdapter.disarm(), WhereAdapter.disarm() without its emission        *)
DisarmWhen(m, S) == [m EXCEPT !.timers = @ \ S, !.prepared = @ \ S]
DisarmWhere(m, S) == [m EXCEPT !.latched = @ \ S, !.waiting = @ \ S,
                               !.pending = @ \ S, !.armed = @ \ S]

-----------------------------------------------------------------------------
(* Mutant: a time that comes while nobody listens is not tried again.      *)
NotRetried(m, i, ofTimer) == m

(* Nobody was connected: handleFire() tries again, the others do not.      *)
RetryLater(m, i, ofTimer) == IF ofTimer THEN [m EXCEPT !.retries = @ \union {i}] ELSE m

(* fireIntention() of a term, from the store rows and the memory m.        *)
(* handleFire(), for a timer, also disarms it.                             *)
Fire(rows, m, i, term, ofTimer) ==
  LET row == rows[i]
      satisfied == m.satisfied[i] \union {term}
      noted == IF Cardinality(row.terms) > 1 THEN [m EXCEPT !.satisfied[i] = satisfied] ELSE m
      ready == row.state = "armed" /\ row.terms \subseteq satisfied
      told == [DisarmWhere(m, {i}) EXCEPT !.satisfied[i] = {}]
  IN  \/ /\ row.state # "armed"
         /\ mem' = [m EXCEPT !.satisfied[i] = {}]
         /\ intention' = rows /\ UNCHANGED <<regions, unheard>>
      \/ /\ row.state = "armed" /\ ~ready
         /\ mem' = noted
         /\ intention' = rows /\ UNCHANGED <<regions, unheard>>
      \/ /\ ready /\ connected
         /\ intention' = [rows EXCEPT ![i].state = "surfaced"]
         /\ mem' = IF ofTimer THEN DisarmWhen(told, {i}) ELSE told
         /\ EmitIf(i \in RegionsOf(m), told)
      \/ /\ ready /\ ~connected
         /\ mem' = RetryLater(noted, i, ofTimer)
         /\ intention' = rows /\ UNCHANGED <<regions, unheard>>

-----------------------------------------------------------------------------
(* intention.create and handleCreateIntention(): a time is armed at once,  *)
(* a place when the device has answered.                                   *)
Create(i, terms) ==
  /\ connected /\ State(i) = "none"
  /\ LET asked == [mem EXCEPT !.prepared = IF "when" \in terms THEN @ \union {i} ELSE @,
                              !.pending = @ \union {i}, !.waiting = @ \union {i}]
         timed == [mem EXCEPT !.timers = @ \union {i}]
     IN  IF "where" \in terms
         THEN /\ intention' = [intention EXCEPT ![i] = [state |-> "pending_arm", terms |-> terms]]
              /\ mem' = asked /\ Emit(asked)
         ELSE /\ intention' = [intention EXCEPT ![i] = [state |-> "armed", terms |-> terms]]
              /\ mem' = timed /\ UNCHANGED <<regions, unheard>>
  /\ UNCHANGED <<connected, boots>>

(* activate() of the place: an entry reported too early is replayed.       *)
Activate(rows, m, i) ==
  LET live == [m EXCEPT !.pending = @ \ {i}, !.armed = @ \union {i}, !.latched = @ \ {i}]
  IN  IF i \in mem.latched THEN Fire(rows, live, i, "where", FALSE)
      ELSE intention' = rows /\ mem' = live /\ UNCHANGED <<regions, unheard>>

(* Mutant: only the place is activated.                                    *)
AnsweredForPlace(i, ok) ==
  /\ i \in mem.waiting
  /\ LET m == [mem EXCEPT !.waiting = @ \ {i}]
         dropped == DisarmWhen([m EXCEPT !.pending = @ \ {i}], {i})
     IN  IF ok THEN Activate(To(i, "armed"), m, i)
         ELSE intention' = To(i, "arm_failed") /\ mem' = dropped /\ Emit(dropped)

(* region.armed in time: prepare() of the place returns, and armIntention()*)
(* activates every term, the time if it is prepared, or rolls back.        *)
Answered(i, ok) ==
  /\ i \in mem.waiting
  /\ LET m == [mem EXCEPT !.waiting = @ \ {i}, !.prepared = @ \ {i},
                          !.timers = @ \union (IF ok THEN Only(i, mem.prepared) ELSE {})]
         dropped == DisarmWhen([m EXCEPT !.pending = @ \ {i}], {i})
     IN  IF ok THEN Activate(To(i, "armed"), m, i)
         ELSE intention' = To(i, "arm_failed") /\ mem' = dropped /\ Emit(dropped)

(* The device is given no more time: "deferred", nothing is rolled back.   *)
AckTimeout(i) ==
  /\ i \in mem.waiting
  /\ mem' = [mem EXCEPT !.waiting = @ \ {i}]
  /\ UNCHANGED <<intention, connected, regions, unheard, boots>>

(* region.armed after that: armFromLateAck(), and activate() of the place  *)
(* alone: a time stays prepared.                                           *)
AnsweredLate(i, ok) ==
  /\ i \in mem.pending \ mem.waiting /\ State(i) = "pending_arm"
  /\ LET m == [mem EXCEPT !.untimed = @ \union Only(i, Timed)]
         dropped == [mem EXCEPT !.pending = @ \ {i}]
     IN  IF ok THEN Activate(To(i, "armed"), m, i)
         ELSE intention' = To(i, "arm_failed") /\ mem' = dropped /\ Emit(dropped)

RegionArmed(i, ok) ==
  /\ connected /\ i \in regions
  /\ Answered(i, ok) \/ AnsweredLate(i, ok)
  /\ UNCHANGED <<connected, boots>>

(* region.entered                                                          *)
RegionEntered(i) ==
  /\ connected /\ i \in regions
  /\ \/ /\ State(i) = "pending_arm"
        /\ mem' = [mem EXCEPT !.latched = @ \union {i}]
        /\ UNCHANGED <<intention, regions, unheard>>
     \/ State(i) = "armed" /\ Fire(intention, mem, i, "where", FALSE)
  /\ UNCHANGED <<connected, boots>>

(* The timer of the time, and that of a retry: handleFire()                *)
WhenRings(i) ==
  /\ i \in mem.timers
  /\ Fire(intention, [mem EXCEPT !.timers = @ \ {i}], i, "when", TRUE)
  /\ UNCHANGED <<connected, boots>>

RetryRings(i) ==
  /\ i \in mem.retries
  /\ Fire(intention, [mem EXCEPT !.retries = @ \ {i}], i, "when", TRUE)
  /\ UNCHANGED <<connected, boots>>

(* location.auth: the user denied the device its location.  Arming that    *)
(* waits for an answer is rolled back.                                     *)
LocationDenied ==
  LET S == {i \in Placed : State(i) \in {"pending_arm", "armed"}}
      m == DisarmWhen(DisarmWhere(mem, S), S \intersect mem.waiting)
  IN  /\ connected /\ S # {}
      /\ intention' = [i \in Reminders |-> IF i \in S THEN [intention[i] EXCEPT !.state = "arm_failed"]
                                           ELSE intention[i]]
      /\ mem' = m /\ EmitIf(S \intersect RegionsOf(mem) # {}, m)
      /\ UNCHANGED <<connected, boots>>

(* intention.respond, with terminalDisarm()                                *)
Respond(i, state) ==
  /\ connected /\ State(i) = "surfaced"
  /\ intention' = To(i, state)
  /\ mem' = DisarmWhere(mem, {i}) /\ EmitIf(i \in RegionsOf(mem), mem')
  /\ UNCHANGED <<connected, boots>>

(* tick(): rows of what is done are deleted.                               *)
Prune ==
  LET done == {i \in Reminders : State(i) \in {"resolved", "suppressed"}}
  IN  /\ done # {}
      /\ intention' = [i \in Reminders |-> IF i \in done THEN [intention[i] EXCEPT !.state = "pruned"]
                                           ELSE intention[i]]
      /\ UNCHANGED <<mem, connected, regions, unheard, boots>>

Connects == ~connected /\ connected' = TRUE /\ UNCHANGED <<intention, mem, regions, unheard, boots>>
Disconnects == connected /\ connected' = FALSE /\ UNCHANGED <<intention, mem, regions, unheard, boots>>

(* The process ends, and the next one schedules the times of the store.    *)
Rehydrated == [Forgotten EXCEPT !.timers = {i \in Timed : State(i) = "armed"}]

Reboot ==
  /\ boots < MaxBoots /\ boots' = boots + 1
  /\ mem' = Rehydrated
  /\ connected' = FALSE /\ unheard' = TRUE
  /\ UNCHANGED <<intention, regions>>

IntentionsNext ==
  \/ \E i \in Reminders :
       \/ \E terms \in (SUBSET {"when", "where"}) \ {{}} : Create(i, terms)
       \/ \E ok \in BOOLEAN : RegionArmed(i, ok)
       \/ AckTimeout(i) \/ RegionEntered(i) \/ WhenRings(i) \/ RetryRings(i)
       \/ \E state \in {"resolved", "suppressed"} : Respond(i, state)
  \/ LocationDenied \/ Prune \/ Connects \/ Disconnects \/ Reboot

IntentionsSpec == IntentionsInit /\ [][IntentionsNext]_intentionsVars
-----------------------------------------------------------------------------
IntentionsTypeOK ==
  /\ intention \in [Reminders ->
       [state : {"none", "pending_arm", "armed", "arm_failed", "surfaced", "resolved",
                 "suppressed", "pruned"},
        terms : SUBSET {"when", "where"}]]
  /\ mem \in Memories
  /\ connected \in BOOLEAN /\ unheard \in BOOLEAN /\ regions \subseteq Reminders
  /\ boots \in Nat \ {0}

(* "Never drops a hard/obvious obligation", intention-service.ts:187: what *)
(* an armed reminder still waits for will come.  Its time has a timer or a *)
(* retry, through restarts; once all it waited for has come it is being    *)
(* retried; its place is among the regions the process sends, and these    *)
(* are what the device watches unless it was not told.  Two cases are not  *)
(* covered: a place after a restart, which is not sent again, and the time *)
(* of a reminder that a late answer armed in this process.                 *)
RemindersAreHeld ==
  /\ \A i \in Reminders : State(i) = "armed" =>
       LET open == Terms(i) \ mem.satisfied[i]
       IN  /\ "when" \in open => i \in mem.timers \union mem.retries \union mem.untimed
           /\ open = {} => i \in mem.retries
           /\ "where" \in open /\ boots = 1 => i \in mem.armed
  /\ ~unheard => regions = RegionsOf(mem)

(* Arming "never leave[s] a half-activated intention marked "armed"",      *)
(* arming.ts:105: the time an armed reminder waits for has a timer, or is  *)
(* being retried.                                                          *)
NeverHalfArmed ==
  \A i \in Reminders : State(i) = "armed" /\ "when" \in Terms(i) \ mem.satisfied[i] =>
    i \in mem.timers \union mem.retries

(* A reminder for a time is spoken, or no longer wanted, however often its *)
(* time finds nobody connected and the process restarts.                   *)
RemindersAreSpoken ==
  \A i \in Reminders : State(i) = "armed" /\ Terms(i) = {"when"} ~> State(i) # "armed"
=============================================================================
