------------------------------ MODULE LatentNeeds ------------------------------
(***************************************************************************)
(* Needs that the user lets slip ("latent" intentions):                    *)
(* src/src/ambient/latent-service.ts with dedup.ts, scan.ts and the answer *)
(* of the user in agent-methods.ts.                                        *)
(*                                                                         *)
(* A tick of the service first recognizes needs in the sessions that spoke *)
(* since the last one, then volunteers armed ones in the live sessions.    *)
(* Both ask a model, and so does a scan, by which a session asks for needs *)
(* of its own accord: what they read before the model is asked may have    *)
(* changed when it answers.  Needs are the user's, not a session's.        *)
(*                                                                         *)
(* The model is a choice.  It also stands for a session that is quiet when *)
(* its needs would be volunteered, or has no connection: nothing is        *)
(* delivered in it.  Between two answers of the model everything is one    *)
(* event: the sweeps of a tick are one step, and the in-flight claim of    *)
(* fire.ts is never met.  Rows and suppressed wants are on disk.           *)
(***************************************************************************)
EXTENDS Naturals, Sequences, FiniteSets, SequencesExt

CONSTANTS
  Talks,          \* sessions
  Wants,          \* contents of needs
  MaxUtterances,  \* bound: what the user says
  MaxRows         \* bound: rows of the store

ASSUME NeedsAssumption == IsFiniteSet(Wants) /\ {MaxUtterances, MaxRows} \subseteq Nat

VARIABLES
  uttered,     \* how much was said, which is also the time
  window,      \* the turns of each session's TranscriptWindow
  dirty,       \* sessions that spoke since the last tick
  latent,      \* the rows of the store, in the order of their creation
  suppressed,  \* suppressedKeys
  reserved,    \* scanReservations that have not expired
  pass,        \* the tick, see Idling
  scan         \* the rows a scan read; bound: one scan at a time

needsVars == <<uttered, window, dirty, latent, suppressed, reserved, pass, scan>>

Active == {"armed", "surfaced"}
Ids(rows) == DOMAIN rows
InState(rows, states) == {i \in Ids(rows) : rows[i].state \in states}
Become(rows, S, state) == [i \in Ids(rows) |-> IF i \in S THEN [rows[i] EXCEPT !.state = state] ELSE rows[i]]

(* A tick: the sessions whose answer it awaits, the time it began and the  *)
(* rows it read, the ids it minted and those it offers to the gate.        *)
Idling == [stage |-> "idle", asking |-> {}, time |-> 0, rows |-> <<>>, fresh |-> {}, offered |-> {}]

NeedsInit ==
  /\ uttered = 0 /\ window = [s \in Talks |-> {}] /\ dirty = {}
  /\ latent = <<>> /\ suppressed = {} /\ reserved = {}
  /\ pass = Idling
  /\ scan = <<>>

(* transcript.append, onTranscript(): something is missing, is there, or   *)
(* is no longer wanted.                                                    *)
Utter(s, want, kind) ==
  /\ uttered < MaxUtterances /\ uttered' = uttered + 1
  /\ window' = [window EXCEPT ![s] = @ \union {[at |-> uttered', want |-> want, kind |-> kind]}]
  /\ dirty' = dirty \union {s}
  /\ UNCHANGED <<latent, suppressed, reserved, pass, scan>>

-----------------------------------------------------------------------------
(* What classifySatisfaction() finds first in the turns of s about row     *)
(* since it was minted: "has", "drops", or nothing                         *)
Verdicts(row, s) ==
  LET later == {t \in window[s] : t.want = row.want /\ t.at >= row.at /\ t.kind # "lacks"}
  IN  {t.kind : t \in {u \in later : \A v \in later : u.at <= v.at}}

(* _sweepSatisfied() of the sessions D, whose lists are all read before    *)
(* the first of them writes.                                               *)
Sweep(D, rows) ==
  LET found == [i \in Ids(rows) |-> IF rows[i].state = "armed"
                                    THEN UNION {Verdicts(rows[i], s) : s \in D} ELSE {}]
  IN  /\ suppressed' = suppressed \union {rows[i].want : i \in {j \in Ids(rows) : "drops" \in found[j]}}
      /\ \E has \in SUBSET {i \in Ids(rows) : "has" \in found[i]} :
           /\ \A i \in Ids(rows) : found[i] = {"has"} => i \in has
           /\ latent' = Become(Become(rows, {i \in Ids(rows) : found[i] # {}} \ has, "suppressed"),
                               has, "resolved")

(* _surfacingPass() up to its call of the gate                             *)
Offer(rows, fresh) ==
  \E live \in SUBSET Talks :
    LET offered == InState(rows, {"armed"}) \ (fresh \union reserved)
    IN  pass' = IF live = {} \/ offered = {} THEN Idling
                ELSE [Idling EXCEPT !.stage = "surfacing", !.asking = live, !.offered = offered]

(* executeTick() when none is in flight, and tick() up to the recognizer:  *)
(* sessions that are quiet are passed over, and no longer dirty.           *)
TickBegins ==
  /\ pass = Idling
  /\ dirty' = {}
  /\ \E awake \in SUBSET dirty :
       /\ Sweep(awake, latent)
       /\ IF awake = {} THEN Offer(latent', {})
          ELSE pass' = [Idling EXCEPT !.stage = "recognizing", !.asking = awake,
                                      !.time = uttered, !.rows = latent']
  /\ UNCHANGED <<uttered, window, reserved, scan>>

(* What the recognizer may return for s: what is missing, is not active in *)
(* the rows it was given and was not had or dropped later in the window    *)
Recognizable(s) ==
  LET turns == {t \in window[s] : t.at <= pass.time}
  IN  {w \in Wants :
        /\ \E t \in turns : /\ t.want = w /\ t.kind = "lacks"
                            /\ ~\E u \in turns : u.want = w /\ u.at > t.at /\ u.kind # "lacks"
        /\ \A i \in InState(pass.rows, Active) : pass.rows[i].want # w}

LastTurn(s) == CHOOSE n \in {t.at : t \in window[s]} :
                 n <= pass.time /\ \A t \in window[s] : t.at <= pass.time => t.at <= n

(* Mutant: wants suppressed after the tick began are not seen.             *)
NewSinceTick(w, s) ==
  /\ \A i \in InState(pass.rows, {"suppressed"}) : pass.rows[i].want # w
  /\ LET old == {i \in InState(pass.rows, {"resolved"}) : pass.rows[i].want = w}
     IN  old # {} => LastTurn(s) > pass.rows[CHOOSE i \in old : \A j \in old : i <= j].at

(* dedupAndSupersede(): not suppressed, and later evidence than that of    *)
(* the first row that is done.  That row stays as it is, since no          *)
(* transition leads from "resolved" to "superseded".                       *)
New(w, s) == w \notin suppressed /\ NewSinceTick(w, s)

(* The recognizer answers, and what is new is created and armed.  The last *)
(* answer begins the second half of the tick.                              *)
Recognized(s, found) ==
  /\ pass.stage = "recognizing" /\ s \in pass.asking
  /\ found \subseteq Recognizable(s)
  /\ LET new == SetToSeq({w \in found : New(w, s)})
         twin(w) == \E i \in pass.fresh : latent[i].want = w
         minted == [n \in DOMAIN new |-> [want |-> new[n], state |-> "armed", at |-> LastTurn(s),
                                          twin |-> twin(new[n])]]
         fresh == pass.fresh \union (Len(latent) + 1 .. Len(latent) + Len(new))
     IN  /\ Len(latent) + Len(new) <= MaxRows
         /\ latent' = latent \o minted
         /\ IF pass.asking = {s} THEN Offer(latent', fresh)
            ELSE pass' = [pass EXCEPT !.asking = @ \ {s}, !.fresh = fresh]
  /\ UNCHANGED <<uttered, window, dirty, suppressed, reserved, scan>>

(* The gate answers.  Before each delivery the reservation and the state   *)
(* are read again.                                                         *)
StillOffered(i) == i \notin reserved /\ latent[i].state = "armed"

Volunteer(s, apt) ==
  /\ pass.stage = "surfacing" /\ s \in pass.asking
  /\ apt \subseteq pass.offered
  /\ latent' = Become(latent, {i \in apt : StillOffered(i)}, "surfaced")
  /\ pass' = IF pass.asking = {s} THEN Idling ELSE [pass EXCEPT !.asking = @ \ {s}]
  /\ UNCHANGED <<uttered, window, dirty, suppressed, reserved, scan>>

-----------------------------------------------------------------------------
(* intention.scan: scanLatent() up to the gate, and its answer             *)
BeginScan ==
  /\ scan = <<>> /\ InState(latent, Active) # {}
  /\ scan' = latent
  /\ UNCHANGED <<uttered, window, dirty, latent, suppressed, reserved, pass>>

EndScan(apt) ==
  /\ scan # <<>> /\ apt \subseteq InState(scan, Active)
  /\ reserved' = reserved \union {i \in apt : latent[i].state = scan[i].state}
  /\ scan' = <<>>
  /\ UNCHANGED <<uttered, window, dirty, latent, suppressed, pass>>

ReservationExpires(i) ==
  /\ i \in reserved /\ reserved' = reserved \ {i}
  /\ UNCHANGED <<uttered, window, dirty, latent, suppressed, pass, scan>>

(* intention.respond: for what was volunteered, or was just scanned        *)
RespondToNeed(i, declined) ==
  /\ latent[i].state \in (IF i \in reserved THEN Active ELSE {"surfaced"})
  /\ suppressed' = IF declined THEN suppressed \union {latent[i].want} ELSE suppressed
  /\ latent' = Become(latent, {i}, IF declined THEN "suppressed" ELSE "resolved")
  /\ UNCHANGED <<uttered, window, dirty, reserved, pass, scan>>

(* IntentionService.tick(): rows of what is done are deleted.              *)
PruneNeeds ==
  /\ InState(latent, {"resolved", "suppressed"}) # {}
  /\ latent' = Become(latent, InState(latent, {"resolved", "suppressed"}), "pruned")
  /\ UNCHANGED <<uttered, window, dirty, suppressed, reserved, pass, scan>>

(* Another process: the constructor reads what was suppressed.             *)
NeedsReboot ==
  /\ window' = [s \in Talks |-> {}] /\ dirty' = {} /\ reserved' = {}
  /\ pass' = Idling /\ scan' = <<>>
  /\ UNCHANGED <<uttered, latent, suppressed>>

NeedsNext ==
  \/ \E s \in Talks :
       \/ \E want \in Wants, kind \in {"lacks", "has", "drops"} : Utter(s, want, kind)
       \/ \E found \in SUBSET Wants : Recognized(s, found)
       \/ \E apt \in SUBSET pass.offered : Volunteer(s, apt)
  \/ TickBegins
  \/ BeginScan \/ \E apt \in SUBSET Ids(scan) : EndScan(apt)
  \/ \E i \in Ids(latent) : ReservationExpires(i) \/ \E declined \in BOOLEAN : RespondToNeed(i, declined)
  \/ PruneNeeds \/ NeedsReboot

NeedsSpec == NeedsInit /\ [][NeedsNext]_needsVars
-----------------------------------------------------------------------------
NeedsTypeOK ==
  /\ uttered \in 0..MaxUtterances
  /\ window \in [Talks -> SUBSET [at : 1..MaxUtterances, want : Wants, kind : {"lacks", "has", "drops"}]]
  /\ latent \in Seq([want : Wants, at : 1..MaxUtterances, twin : BOOLEAN,
                     state : Active \union {"resolved", "suppressed", "pruned"}])
  /\ suppressed \subseteq Wants /\ dirty \subseteq Talks
  /\ reserved \union pass.fresh \union pass.offered \subseteq Ids(latent)

(* "never re-minted": what the user declined or dropped is not pending any *)
(* more, in whatever order recognitions, answers and deletions come, nor   *)
(* after a restart.  The exception is a need that two sessions let slip in *)
(* the same tick: neither sees the row of the other, and the second row    *)
(* outlives what is said of the first.                                     *)
DeclinedStaysQuiet ==
  \A i \in InState(latent, Active) :
    latent[i].want \in suppressed => \E j \in Ids(latent) : latent[j].want = latent[i].want /\ latent[j].twin
=============================================================================
