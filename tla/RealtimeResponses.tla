--------------------------- MODULE RealtimeResponses ---------------------------
(***************************************************************************)
(* The coordinator of spoken replies in the web client, class              *)
(* RealtimeResponses of src/web-ios/src/lib/realtime-responses.ts, one     *)
(* action per method and per kind of event it observes.                    *)
(*                                                                         *)
(* An intent is the announcement of one task, and is named by it.  Of the  *)
(* times only the timer is left: retryUntil is over when it fires, since   *)
(* schedule() waits at least as long.  The Map `owned` is a function whose *)
(* value <<>> stands for an absent key; response and event id 0 for none.  *)
(* What is sent goes to the end of `up`.                                   *)
(***************************************************************************)
EXTENDS Naturals, FiniteSets, SequencesExt

CONSTANTS
  Intents,    \* tasks whose completion is announced
  Responses,  \* ids of the provider's responses
  EventIds,   \* ids of response.create events
  Holds,      \* among "silent" and "context": setSilent, setContextUpdating
  Batch       \* most intents of one response: 3 in the code

ASSUME ResponsesAssumption ==
  /\ IsFiniteSet(Responses) /\ Responses \subseteq Nat \ {0}
  /\ EventIds \subseteq Nat \ {0}
  /\ Holds \subseteq {"silent", "context"}
  /\ Batch \in Nat \ {0}

VARIABLES
  pending,           \* intents to announce, in order
  requested,         \* the response asked for and not acknowledged yet
  responding,        \* the set `active` of responses being generated
  owned,             \* intents of the responses created on request
  invalidTasks,
  invalidResponses,
  playing,           \* playingResponse, 0 when nothing is played
  userSpeaking,
  awaitingUser,
  holds,             \* which of silent and contextUpdating are set
  timer,             \* a flush is scheduled
  up                 \* events sent to the provider and not taken by it

queueVars == <<pending, requested, owned>>
gateVars == <<userSpeaking, awaitingUser, holds>>
client == <<queueVars, responding, invalidTasks, invalidResponses, playing, gateVars, timer, up>>

NoRequest == [event |-> 0, intents |-> <<>>]

(* filter(): the intents that are not bad, in their order                  *)
Current(intents, bad) ==
  LET left == {k \in DOMAIN intents : intents[k] \notin bad}
      Place(n) == CHOOSE k \in left : Cardinality({j \in left : j < k}) = n - 1
  IN  [n \in 1..Cardinality(left) |-> intents[Place(n)]]

CreateEvent(e, intents) == [type |-> "create", event |-> e, intents |-> intents, response |-> 0]
CancelEvent(r) == [type |-> "cancel", event |-> 0, intents |-> <<>>, response |-> r]
ClearEvent == [type |-> "clear", event |-> 0, intents |-> <<>>, response |-> 0]

(* start() of useRealtime.ts calls waitForUser() and setSilent()           *)
ClientInit ==
  /\ pending = <<>> /\ requested = NoRequest
  /\ responding = {} /\ owned = [r \in Responses |-> <<>>]
  /\ invalidTasks = {} /\ invalidResponses = {}
  /\ playing = 0 /\ userSpeaking = FALSE
  /\ awaitingUser = TRUE
  /\ holds \in SUBSET (Holds \cap {"silent"}) /\ timer = TRUE /\ up = <<>>

(* isBusy(), and the gates of flush()                                      *)
Busy == userSpeaking \/ playing # 0 \/ responding # {} \/ requested # NoRequest
Gated == holds # {} \/ awaitingUser \/ Busy

-----------------------------------------------------------------------------
Request(i) ==
  /\ pending' = Append(pending, i)
  /\ timer' = TRUE
  /\ UNCHANGED <<requested, owned, responding, invalidTasks, invalidResponses, playing, gateVars, up>>

SetHold(h, value) ==
  /\ holds' = IF value THEN holds \union {h} ELSE holds \ {h}
  /\ timer' = TRUE
  /\ UNCHANGED <<queueVars, responding, invalidTasks, invalidResponses, playing,
                 userSpeaking, awaitingUser, up>>

UserTurn ==
  /\ awaitingUser' = FALSE
  /\ timer' = TRUE
  /\ UNCHANGED <<queueVars, responding, invalidTasks, invalidResponses, playing,
                 userSpeaking, holds, up>>

(* Mutant: the other intents of the response are dropped with it.          *)
CancelSupersededAll(r, intents, bad, queue, still) ==
  /\ invalidResponses' = invalidResponses \union {r}
  /\ up' = up \o (IF r \in still THEN <<CancelEvent(r)>> ELSE <<>>)
              \o (IF playing = r THEN <<ClearEvent>> ELSE <<>>)
  /\ pending' = queue
  /\ owned' = [owned EXCEPT ![r] = <<>>]
  /\ timer' = TRUE

(* Mutant: a response that is no longer generated is left alone.           *)
CancelGenerating(r, intents, bad, queue, still) ==
  /\ invalidResponses' = invalidResponses \union {r}
  /\ up' = up \o (IF r \in still THEN <<CancelEvent(r)>> ELSE <<>>)
              \o (IF playing = r /\ r \in still THEN <<ClearEvent>> ELSE <<>>)
  /\ pending' = Current(intents, bad) \o queue
  /\ owned' = [owned EXCEPT ![r] = <<>>]
  /\ timer' = TRUE

(* Mutant: the response keeps its intents.                                 *)
CancelKeepsOwned(r, intents, bad, queue, still) ==
  /\ invalidResponses' = invalidResponses \union {r}
  /\ up' = up \o (IF r \in still THEN <<CancelEvent(r)>> ELSE <<>>)
              \o (IF playing = r THEN <<ClearEvent>> ELSE <<>>)
  /\ pending' = Current(intents, bad) \o queue
  /\ owned' = [owned EXCEPT ![r] = intents]
  /\ timer' = TRUE

(* cancelSuperseded(): still is `active`, bad `invalidTasks` and queue     *)
(* `pending` at that point of the caller.                                  *)
CancelSuperseded(r, intents, bad, queue, still) ==
  /\ invalidResponses' = invalidResponses \union {r}
  /\ up' = up \o (IF r \in still THEN <<CancelEvent(r)>> ELSE <<>>)
              \o (IF playing = r THEN <<ClearEvent>> ELSE <<>>)
  /\ pending' = Current(intents, bad) \o queue
  /\ owned' = [owned EXCEPT ![r] = <<>>]
  /\ timer' = TRUE

(* invalidateTask(): an intent is in one response at most.                 *)
Invalidate(i) ==
  LET bad == invalidTasks \union {i}
      queue == Current(pending, {i})
      hit == {r \in Responses : i \in ToSet(owned[r])}
  IN  /\ invalidTasks' = bad
      /\ \/ /\ hit = {}
            /\ pending' = queue
            /\ UNCHANGED <<owned, invalidResponses, timer, up>>
         \/ \E r \in hit : CancelSuperseded(r, owned[r], bad, queue, responding)
      /\ UNCHANGED <<requested, responding, playing, gateVars>>

(* The timer fires: flush().  send() succeeds: the channel is open as long *)
(* as the connection has not been reset.                                   *)
Flush(e) ==
  /\ timer
  /\ timer' = FALSE
  /\ IF Gated \/ pending = <<>>
     THEN UNCHANGED <<pending, requested, up>>
     ELSE LET n == IF Len(pending) < Batch THEN Len(pending) ELSE Batch
              intents == SubSeq(pending, 1, n)
          IN  /\ pending' = SubSeq(pending, n + 1, Len(pending))
              /\ requested' = [event |-> e, intents |-> intents]
              /\ up' = Append(up, CreateEvent(e, intents))
  /\ UNCHANGED <<owned, responding, invalidTasks, invalidResponses, playing, gateVars>>

(* reset(), then waitForUser() and setSilent() for the next connection     *)
Reset ==
  /\ pending' = <<>> /\ requested' = NoRequest
  /\ responding' = {} /\ owned' = [r \in Responses |-> <<>>]
  /\ invalidTasks' = {} /\ invalidResponses' = {}
  /\ playing' = 0 /\ userSpeaking' = FALSE /\ awaitingUser' = TRUE
  /\ holds' \in SUBSET (Holds \cap {"silent"}) /\ timer' = TRUE /\ up' = <<>>

-----------------------------------------------------------------------------
(* observe(), by the type of the event                                     *)
SpeechStarted ==
  /\ userSpeaking' = TRUE /\ awaitingUser' = FALSE
  /\ timer' = TRUE
  /\ UNCHANGED <<queueVars, responding, invalidTasks, invalidResponses, playing, holds, up>>

SpeechStopped ==
  /\ userSpeaking' = FALSE
  /\ timer' = TRUE
  /\ UNCHANGED <<queueVars, responding, invalidTasks, invalidResponses, playing,
                 awaitingUser, holds, up>>

AudioStarted(r) ==
  /\ playing' = r
  /\ up' = IF r \in invalidResponses THEN Append(up, ClearEvent) ELSE up
  /\ timer' = TRUE
  /\ UNCHANGED <<queueVars, responding, invalidTasks, invalidResponses, gateVars>>

(* output_audio_buffer.stopped and .cleared                                *)
AudioEnded(r) ==
  /\ playing' = 0
  /\ owned' = [owned EXCEPT ![r] = <<>>]
  /\ timer' = TRUE
  /\ UNCHANGED <<pending, requested, responding, invalidTasks, invalidResponses, gateVars, up>>

(* Mutant: a task superseded before the acknowledgement goes unnoticed.    *)
CreatedTrusting(r, e) ==
  LET mine == e # 0 /\ requested.event = e IN
  /\ responding' = responding \union {r}
  /\ requested' = IF mine THEN NoRequest ELSE requested
  /\ owned' = [owned EXCEPT ![r] = IF mine THEN requested.intents ELSE @]
  /\ timer' = TRUE
  /\ UNCHANGED <<pending, invalidResponses, up, invalidTasks, playing, gateVars>>

(* response.created: the response asked for is acknowledged, and cancelled *)
(* at once if a task it reports was superseded meanwhile.                  *)
Created(r, e) ==
  LET mine == e # 0 /\ requested.event = e IN
  /\ responding' = responding \union {r}
  /\ requested' = IF mine THEN NoRequest ELSE requested
  /\ IF mine /\ ToSet(requested.intents) \cap invalidTasks # {}
     THEN CancelSuperseded(r, requested.intents, invalidTasks, pending, responding')
     ELSE /\ owned' = [owned EXCEPT ![r] = IF mine THEN requested.intents ELSE @]
          /\ timer' = TRUE
          /\ UNCHANGED <<pending, invalidResponses, up>>
  /\ UNCHANGED <<invalidTasks, playing, gateVars>>

(* Mutant: any response that ends acknowledges the request.                *)
DoneClearsRequest(r, e, kept) ==
  /\ responding' = responding \ {r}
  /\ owned' = [owned EXCEPT ![r] = IF kept THEN @ ELSE <<>>]
  /\ requested' = NoRequest
  /\ timer' = TRUE
  /\ UNCHANGED <<pending, invalidTasks, invalidResponses, playing, gateVars, up>>

(* Mutant: the intents of a response that was cut short are said again.    *)
DoneRetries(r, e, kept) ==
  /\ responding' = responding \ {r}
  /\ owned' = [owned EXCEPT ![r] = IF kept THEN @ ELSE <<>>]
  /\ pending' = IF kept THEN pending ELSE owned[r] \o pending
  /\ requested' = IF e = requested.event THEN NoRequest ELSE requested
  /\ timer' = TRUE
  /\ UNCHANGED <<invalidTasks, invalidResponses, playing, gateVars, up>>

(* response.done: kept when it completed and its audio is still to end.    *)
Done(r, e, kept) ==
  /\ responding' = responding \ {r}
  /\ owned' = [owned EXCEPT ![r] = IF kept THEN @ ELSE <<>>]
  /\ requested' = IF e = requested.event THEN NoRequest ELSE requested
  /\ timer' = TRUE
  /\ UNCHANGED <<pending, invalidTasks, invalidResponses, playing, gateVars, up>>

(* Mutant: the refused intents are not put back.                           *)
RefusedForgotten(e, busy) ==
  /\ requested' = IF requested.event = e THEN NoRequest ELSE requested
  /\ timer' = (timer \/ (requested.event = e /\ busy))
  /\ UNCHANGED <<pending, owned, responding, invalidTasks, invalidResponses, playing, gateVars, up>>

(* error: the intents go back when another response was under way; any     *)
(* other error loses them.                                                 *)
Refused(e, busy) ==
  /\ IF requested.event # e
     THEN UNCHANGED <<pending, requested, timer>>
     ELSE /\ requested' = NoRequest
          /\ IF busy
             THEN /\ pending' = Current(requested.intents, invalidTasks) \o pending
                  /\ timer' = TRUE
             ELSE UNCHANGED <<pending, timer>>
  /\ UNCHANGED <<owned, responding, invalidTasks, invalidResponses, playing, gateVars, up>>

=============================================================================
