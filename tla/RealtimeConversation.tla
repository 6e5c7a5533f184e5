------------------------- MODULE RealtimeConversation -------------------------
(***************************************************************************)
(* RealtimeResponses in a live conversation: the client that asks it to    *)
(* announce finished tasks (web-ios/src/lib/useRealtime.ts), and the       *)
(* realtime provider as the client sees it.                                *)
(*                                                                         *)
(* The provider is external.  It starts replies of its own when the user   *)
(* has spoken, generates one response at a time, plays the audio of one at *)
(* a time, which may last longer than its generation, and refuses a        *)
(* request while it is generating.  Events go through an ordered channel   *)
(* in each direction.                                                      *)
(***************************************************************************)
EXTENDS RealtimeResponses

CONSTANTS
  OtherErrors,  \* the provider also refuses requests when it is not busy
  MaxReplies,   \* bound: replies the provider starts by itself
  MaxInFlight   \* bound: events on their way to the client

ASSUME ConversationAssumption ==
  /\ OtherErrors \in BOOLEAN
  /\ {MaxReplies, MaxInFlight} \subseteq Nat
  /\ Responses = 1..Cardinality(Responses)
  /\ IsFiniteSet(EventIds) => Cardinality(EventIds) > Cardinality(Responses)

VARIABLES
  asked,       \* tasks whose announcement was asked for on this connection
  restored,    \* tasks an earlier connection was asked to announce
  down,        \* events on their way to the client
  generating,  \* response being generated, 0 for none
  played,      \* response whose audio is being played, 0 for none
  audible,     \* responses whose audio has begun
  cut,         \* responses that did not complete, or were text
  origin,      \* history: the request each response answers, 0 for none
  speaks,      \* history: the intents each response announces
  created,     \* responses created
  speech       \* the user is speaking

provider == <<down, generating, played, audible, cut, origin, speaks, created, speech>>
vars == <<client, provider, asked, restored>>

ProviderInit ==
  /\ down = <<>> /\ generating = 0 /\ played = 0 /\ audible = {} /\ cut = {}
  /\ origin = [r \in Responses |-> 0]
  /\ speaks = [r \in Responses |-> {}]
  /\ created = 0 /\ speech = FALSE

Init == ClientInit /\ ProviderInit /\ asked = {} /\ restored = {}

-----------------------------------------------------------------------------
(* The provider                                                            *)
Event(type, r, e, flag) == [type |-> type, response |-> r, event |-> e, flag |-> flag]
Emit(ev) == Len(down) < MaxInFlight /\ down' = Append(down, ev)

StartResponse(e, intents) ==
  /\ created' = created + 1 /\ created' \in Responses
  /\ generating' = created'
  /\ origin' = [origin EXCEPT ![created'] = e]
  /\ speaks' = [speaks EXCEPT ![created'] = intents]
  /\ Emit(Event("created", created', e, TRUE))
  /\ UNCHANGED <<played, audible, cut, speech>>

(* A reply to the user's turn, without a request                           *)
Reply ==
  /\ generating = 0
  /\ Cardinality({r \in 1..created : origin[r] = 0}) < MaxReplies
  /\ StartResponse(0, {})
  /\ UNCHANGED <<client, asked, restored>>

Taken(type) == up # <<>> /\ Head(up).type = type /\ up' = Tail(up)
Others == <<queueVars, responding, invalidTasks, invalidResponses, playing, gateVars, timer, asked, restored>>

TakeCreate ==
  /\ Taken("create")
  /\ LET m == Head(up) IN
     \/ generating = 0 /\ StartResponse(m.event, ToSet(m.intents))
     \/ /\ generating # 0
        /\ Emit(Event("refused", 0, m.event, TRUE))
        /\ UNCHANGED <<generating, played, audible, cut, origin, speaks, created, speech>>
     \/ /\ OtherErrors
        /\ Emit(Event("refused", 0, m.event, FALSE))
        /\ UNCHANGED <<generating, played, audible, cut, origin, speaks, created, speech>>
  /\ UNCHANGED Others

(* The generation ends; a response that is not kept may leave audio behind *)
(* that is already being played, but begins no more.                       *)
EndGenerating(kept) ==
  /\ generating # 0
  /\ generating' = 0
  /\ cut' = IF kept THEN cut ELSE cut \union {generating}
  /\ Emit(Event("done", generating, origin[generating], kept))
  /\ UNCHANGED <<played, audible, origin, speaks, created, speech>>

TakeCancel ==
  /\ Taken("cancel")
  /\ \/ Head(up).response = generating /\ EndGenerating(FALSE)
     \/ Head(up).response # generating /\ UNCHANGED provider
  /\ UNCHANGED Others

EndPlaying ==
  /\ played # 0
  /\ played' = 0
  /\ Emit(Event("ended", played, 0, TRUE))
  /\ UNCHANGED <<generating, audible, cut, origin, speaks, created, speech>>

TakeClear ==
  /\ Taken("clear")
  /\ EndPlaying \/ (played = 0 /\ UNCHANGED provider)
  /\ UNCHANGED Others

StartPlaying(r) ==
  /\ r <= created /\ r \notin audible \union cut
  /\ played = 0
  /\ played' = r
  /\ audible' = audible \union {r}
  /\ Emit(Event("started", r, 0, TRUE))
  /\ UNCHANGED <<generating, cut, origin, speaks, created, speech>>

UserSpeaks(value) ==
  /\ speech # value
  /\ speech' = value
  /\ Emit(Event(IF value THEN "speech started" ELSE "speech stopped", 0, 0, TRUE))
  /\ UNCHANGED <<generating, played, audible, cut, origin, speaks, created>>

Provider ==
  \/ Reply \/ TakeCreate \/ TakeCancel \/ TakeClear
  \/ /\ \/ \E kept \in BOOLEAN : EndGenerating(kept)
        \/ EndPlaying
        \/ \E r \in Responses : StartPlaying(r)
        \/ \E value \in BOOLEAN : UserSpeaks(value)
     /\ UNCHANGED <<client, asked, restored>>

-----------------------------------------------------------------------------
(* The client                                                              *)
Observe ==
  /\ down # <<>>
  /\ down' = Tail(down)
  /\ LET ev == Head(down) IN
     \/ ev.type = "speech started" /\ SpeechStarted
     \/ ev.type = "speech stopped" /\ SpeechStopped
     \/ ev.type = "started" /\ AudioStarted(ev.response)
     \/ ev.type = "ended" /\ AudioEnded(ev.response)
     \/ ev.type = "created" /\ Created(ev.response, ev.event)
     \/ ev.type = "done" /\ Done(ev.response, ev.event, ev.flag)
     \/ ev.type = "refused" /\ Refused(ev.event, ev.flag)
  /\ UNCHANGED <<generating, played, audible, cut, origin, speaks, created, speech, asked, restored>>

(* A task that has finished is announced once, unless it was superseded.   *)
Announce(i) ==
  /\ i \notin asked \union restored \union invalidTasks
  /\ Request(i)
  /\ asked' = asked \union {i}
  /\ UNCHANGED <<provider, restored>>

Supersede(i) ==
  /\ i \in (asked \union restored) \ invalidTasks
  /\ Invalidate(i)
  /\ UNCHANGED <<provider, asked, restored>>

(* Event ids are new: here, of no request that is still of interest.       *)
NewEvent ==
  Min(EventIds \ ({origin[r] : r \in Responses} \union {ev.event : ev \in ToSet(down \o up)}))

FlushTimer == Flush(NewEvent) /\ UNCHANGED <<provider, asked, restored>>

(* The connection is lost or stopped, and another one is opened: finished  *)
(* tasks are then restored as context, without an announcement.            *)
Reconnect ==
  /\ Reset
  /\ down' = <<>> /\ generating' = 0 /\ played' = 0 /\ audible' = {} /\ cut' = {}
  /\ origin' = [r \in Responses |-> 0]
  /\ speaks' = [r \in Responses |-> {}]
  /\ created' = 0 /\ speech' = FALSE
  /\ restored' = restored \union asked /\ asked' = {}

User ==
  /\ \/ UserTurn
     \/ \E h \in Holds, value \in BOOLEAN : SetHold(h, value)
  /\ UNCHANGED <<provider, asked, restored>>

Next ==
  \/ Observe \/ FlushTimer \/ User
  \/ \E i \in Intents : Announce(i) \/ Supersede(i)
  \/ Reconnect
  \/ Provider

Spec == Init /\ [][Next]_vars

(* The channel delivers, the timer fires, and what the provider generates  *)
(* and plays comes to an end.  Nobody need speak, announce or reconnect.   *)
FairSpec ==
  /\ Spec
  /\ WF_vars(Observe) /\ WF_vars(FlushTimer)
  /\ WF_vars(TakeCreate \/ TakeCancel \/ TakeClear)
  /\ WF_vars((\E kept \in BOOLEAN : EndGenerating(kept)) /\ UNCHANGED <<client, asked, restored>>)
  /\ WF_vars(EndPlaying /\ UNCHANGED <<client, asked, restored>>)

-----------------------------------------------------------------------------
(* Properties                                                              *)

(* The values of the variables, with an intent in at most one place of     *)
(* the coordinator: queued, requested, or owned by one response.           *)
TypeOK ==
  LET End == Cardinality(Responses) + 1
      Place(n) == IF n = 0 THEN pending ELSE IF n = End THEN requested.intents ELSE owned[n] IN
  /\ \A n \in 0..End : IsInjective(Place(n)) /\ ToSet(Place(n)) \subseteq asked
  /\ \A n, k \in 0..End : n # k => ToSet(Place(n)) \cap ToSet(Place(k)) = {}
  /\ requested.event \in EventIds \union {0}
  /\ requested = NoRequest <=> requested.intents = <<>>
  /\ asked \union restored \union invalidTasks \subseteq Intents
  /\ {playing, generating, played} \subseteq Responses \union {0}
  /\ responding \union invalidResponses \union audible \union cut \subseteq 1..created
  /\ holds \subseteq Holds
  /\ {userSpeaking, awaitingUser, timer, speech} \subseteq BOOLEAN

(* Events of the provider about response r on their way to the client      *)
Underway(type, r) == \E ev \in ToSet(down) : ev.type = type /\ ev.response = r

(* Once every gate is open a flush is scheduled for what is pending: every *)
(* handler that opens the last gate, or puts intents back while all are    *)
(* open, calls schedule().                                                 *)
FlushIsScheduled == pending # <<>> /\ ~Gated => timer

(* A response that reports a superseded task does not go on being played   *)
(* unnoticed: the clear is on its way, or the event that will make         *)
(* observe() send it.  (A response cut short is given up by response.done  *)
(* even though what it had said may still be played.)                      *)
SupersededIsSilenced ==
  \A r \in Responses \ cut :
    played = r /\ speaks[r] \cap invalidTasks # {} =>
      \/ ClearEvent \in ToSet(up)
      \/ Underway("started", r)

(* Neither a refusal, a race with the user's turn nor the cancellation of  *)
(* another result coalesced with it loses the announcement of a current    *)
(* result: it is queued, requested, or in a response not cancelled by us.  *)
NoResultLost ==
  \A i \in asked \ invalidTasks :
    \/ i \in ToSet(pending) \union ToSet(requested.intents)
    \/ \E r \in Responses \ invalidResponses : i \in speaks[r]

(* No result is announced by two responses, unless the coordinator         *)
(* cancelled one of them.                                                  *)
AnnouncedOnce ==
  \A r, s \in Responses \ invalidResponses :
    r # s => speaks[r] \cap speaks[s] \cap asked = {}

(* A request awaits its acknowledgement before the next one is sent, so a  *)
(* refusal always finds the request it refuses.                            *)
AcknowledgedBeforeNext ==
  LET sent == down \o up
      open == {n \in DOMAIN sent : sent[n].type \in {"create", "created", "refused"} /\ sent[n].event # 0}
  IN  \A n \in open : open = {n} /\ sent[n].event = requested.event

(* A conversation that stays quiet, with no hold set, hears every result   *)
(* that is still current, whatever was refused or cancelled before.        *)
Offered(i) == \E r \in Responses \ invalidResponses : i \in speaks[r]
EventuallyOffered ==
  <>[](~speech /\ ~awaitingUser /\ holds = {}) =>
    \A i \in Intents : i \in asked ~> i \notin asked \ invalidTasks \/ Offered(i)
=============================================================================
