----------------------------- MODULE SessionHistory -----------------------------
(***************************************************************************)
(* The history of one session, in the agent loop and in its file:          *)
(* chat.send and what follows a turn, session.compact, session.flush,      *)
(* session.clear, session.appendMessages and chat.rewind of                *)
(* src/src/gateway/agent-methods.ts, over agent/loop.ts, agent/            *)
(* compaction.ts, gateway/memory-flush.ts, gateway/rewind.ts and           *)
(* storage/session.ts.                                                     *)
(*                                                                         *)
(* The session's lane is one place (CommandLanes has its queue): what      *)
(* holds it is the variable holder.  Turns, flushes, compactions on        *)
(* request and rewinds run in the lane; what is said aloud, a clear and    *)
(* the compaction that follows a turn do not wait for it.                  *)
(*                                                                         *)
(* A message is its kind and the turn it belongs to.  Left out: external   *)
(* runtimes, attachments, the cap of the loop on very long histories, and  *)
(* the messages of the flush turn after its first.  What follows a turn is *)
(* done for one turn at a time, while agent-methods.ts:1025-1111 lets that *)
(* of two turns overlap.                                                   *)
(***************************************************************************)
EXTENDS Naturals, Sequences, SequencesExt

CONSTANTS
  KeepTurns,   \* keep_recent_turns of the compaction
  MaxTurns,    \* bound: turns begun
  MaxOthers    \* bound: requests of other kinds, and restarts

ASSUME HistoryAssumption ==
  KeepTurns \in Nat \ {0} /\ MaxTurns \in Nat /\ MaxOthers \in Nat

VARIABLES
  memory,     \* AgentLoop.history
  disk,       \* the messages of the session's file
  holder,     \* what holds the place of the lane
  after,      \* what a turn, or a flush on request, has still to do
  rewind,     \* a rewind waiting for the lane
  flushed,    \* the session is in flushedSessions
  begun,      \* turns begun
  ended,      \* turns whose messages were written
  given,      \* turns summarised, rewound or cleared
  disturbed,  \* history: the messages were changed beside the lane, or a rewind
              \* found another message than the one it was asked for
  others      \* what is used of MaxOthers

historyVars == <<memory, disk, holder, after, rewind, flushed, begun, ended, given,
                 disturbed, others>>

Free == [op |-> "free", turn |-> 0, stage |-> "", from |-> 0, kept |-> <<>>]
Nothing == [stage |-> "", snap |-> <<>>, then |-> FALSE]
NoRewind == [at |-> 0, message |-> <<>>]

Kind(m) == m[1]
TurnsIn(ms) == {ms[i][2] : i \in DOMAIN ms} \ {0}

HistoryInit ==
  /\ memory = <<>> /\ disk = <<>>
  /\ holder = Free /\ after = Nothing /\ rewind = NoRewind
  /\ flushed = FALSE /\ begun = 0 /\ ended = {} /\ given = {}
  /\ disturbed = FALSE /\ others = 0

Other == others < MaxOthers /\ others' = others + 1
Says(kind) == memory' = Append(memory, <<kind, holder.turn>>)

-----------------------------------------------------------------------------
(* A turn: the loop adds the message, the calls of tools, their results    *)
(* and the reply; bound: one round of tools.                               *)
ChatTurn(stages) == holder.op = "chat" /\ holder.stage \in stages
MovesTo(stage) == holder' = [holder EXCEPT !.stage = stage]

BeginTurn ==
  /\ holder = Free /\ begun < MaxTurns
  /\ begun' = begun + 1
  /\ holder' = [Free EXCEPT !.op = "chat", !.turn = begun', !.stage = "asked",
                            !.from = Len(memory)]
  /\ memory' = Append(memory, <<"user", begun'>>)
  /\ UNCHANGED <<disk, after, rewind, flushed, ended, given, disturbed, others>>

CallTools ==
  /\ ChatTurn({"asked"}) /\ MovesTo("tools") /\ Says("call")
  /\ UNCHANGED <<disk, after, rewind, flushed, begun, ended, given, disturbed, others>>

ToolsReturn ==
  /\ ChatTurn({"tools"}) /\ MovesTo("again") /\ Says("result")
  /\ UNCHANGED <<disk, after, rewind, flushed, begun, ended, given, disturbed, others>>

Reply ==
  /\ ChatTurn({"asked", "again"}) /\ MovesTo("done")
  /\ Says("reply") \/ UNCHANGED memory
  /\ UNCHANGED <<disk, after, rewind, flushed, begun, ended, given, disturbed, others>>

(* Mutant: only the last two messages of the turn are written.             *)
WrittenLastTwo(ms, from) ==
  SubSeq(ms, IF Len(ms) - 1 > from + 1 THEN Len(ms) - 1 ELSE from + 1, Len(ms))

(* history.slice(prevLength)                                               *)
Written(ms, from) == SubSeq(ms, from + 1, Len(ms))

(* The turn is written and leaves the lane; what the pressure on the       *)
(* context calls for follows beside the lane: a flush, a compaction.       *)
EndTurn ==
  /\ ChatTurn({"done"})
  /\ disk' = disk \o Written(memory, holder.from)
  /\ ended' = ended \union {holder.turn}
  /\ holder' = Free
  /\ \/ UNCHANGED after
     \/ after = Nothing /\ ~flushed
        /\ \E then \in BOOLEAN :
             after' = [stage |-> "flush", snap |-> memory, then |-> then]
     \/ after = Nothing /\ after' = [Nothing EXCEPT !.stage = "compact"]
  /\ UNCHANGED <<memory, rewind, flushed, begun, given, disturbed, others>>

-----------------------------------------------------------------------------
(* runMemoryFlush(): in the lane, a turn over the snapshot, after which    *)
(* the history is what it was.                                             *)
RequestFlush ==
  /\ Other
  /\ after = Nothing /\ ~flushed /\ Len(memory) >= 4
  /\ after' = [stage |-> "flush", snap |-> memory, then |-> FALSE]
  /\ UNCHANGED <<memory, disk, holder, rewind, flushed, begun, ended, given, disturbed>>

BeginFlush ==
  /\ holder = Free /\ after.stage = "flush"
  /\ holder' = [Free EXCEPT !.op = "flush", !.kept = memory]
  /\ memory' = Append(after.snap, <<"user", 0>>)
  /\ after' = [after EXCEPT !.stage = "flushing"]
  /\ UNCHANGED <<disk, rewind, flushed, begun, ended, given, disturbed, others>>

EndFlush ==
  /\ holder.op = "flush"
  /\ memory' = holder.kept
  /\ flushed' = TRUE
  /\ holder' = Free
  /\ after' = IF after.then THEN [Nothing EXCEPT !.stage = "compact"] ELSE Nothing
  /\ UNCHANGED <<disk, rewind, begun, ended, given, disturbed, others>>

-----------------------------------------------------------------------------
(* splitHistory(): how many messages are summarised.  A message that       *)
(* carries the results of tools is not a boundary.                         *)
ByUser(m) == Kind(m) \in {"user", "result", "summary", "spoken"}
KeepFrom(ms) == IF Len(ms) > 2 * KeepTurns THEN Len(ms) - 2 * KeepTurns ELSE 0

(* Mutant: the boundary is taken where it falls.                           *)
SummarizedAnywhere(ms) == IF KeepFrom(ms) < 4 THEN 0 ELSE KeepFrom(ms)

Summarized(ms) ==
  LET clean == {i \in 1..KeepFrom(ms) : ByUser(ms[i + 1]) /\ Kind(ms[i + 1]) # "result"}
      split == CHOOSE i \in clean \union {0} : \A k \in clean : k <= i
  IN  IF split < 4 THEN 0 ELSE split

(* compactConversation()                                                   *)
Compacted(ms) == <<<<"summary", 0>>>> \o SubSeq(ms, Summarized(ms) + 1, Len(ms))

(* setHistory() and rewriteMessages()                                      *)
Replace(ms) == memory' = ms /\ disk' = ms

(* session.compact, in the lane.  A call that fails changes nothing.       *)
BeginCompact ==
  /\ Other
  /\ holder = Free /\ Len(memory) >= 6 /\ Summarized(memory) > 0
  /\ holder' = [Free EXCEPT !.op = "compact", !.kept = memory]
  /\ UNCHANGED <<memory, disk, after, rewind, flushed, begun, ended, given, disturbed>>

EndCompact ==
  /\ holder.op = "compact"
  /\ holder' = Free
  /\ \/ Replace(Compacted(holder.kept))
        /\ given' = given \union TurnsIn(SubSeq(holder.kept, 1, Summarized(holder.kept)))
     \/ UNCHANGED <<memory, disk, given>>
  /\ UNCHANGED <<after, rewind, flushed, begun, ended, disturbed, others>>

(* The compaction after a turn: it is not in the lane.                     *)
BeginAutoCompact ==
  /\ after.stage = "compact"
  /\ after' = IF Summarized(memory) = 0 THEN Nothing
              ELSE [after EXCEPT !.stage = "summarizing", !.snap = memory]
  /\ UNCHANGED <<memory, disk, holder, rewind, flushed, begun, ended, given, disturbed, others>>

EndAutoCompact ==
  /\ after.stage = "summarizing"
  /\ after' = Nothing
  /\ \/ /\ Replace(Compacted(after.snap))
        /\ given' = given \union TurnsIn(SubSeq(after.snap, 1, Summarized(after.snap)))
        /\ disturbed' = (disturbed \/ holder # Free \/ memory # after.snap)
     \/ UNCHANGED <<memory, disk, given, disturbed>>
  /\ UNCHANGED <<holder, rewind, flushed, begun, ended, others>>

-----------------------------------------------------------------------------
(* chat.rewind: the index is resolved at once, in whatever the loop holds  *)
(* then; the rewind waits its turn.                                        *)
RequestRewind(i) ==
  /\ Other
  /\ rewind = NoRewind
  /\ i \in DOMAIN memory /\ Kind(memory[i]) = "user"
  /\ rewind' = [at |-> i, message |-> memory[i]]
  /\ UNCHANGED <<memory, disk, holder, after, flushed, begun, ended, given, disturbed>>

(* rewindSession()                                                         *)
Rewind ==
  /\ holder = Free /\ rewind # NoRewind
  /\ rewind' = NoRewind
  /\ IF rewind.at \in DOMAIN memory /\ ByUser(memory[rewind.at])
     THEN /\ Replace(SubSeq(memory, 1, rewind.at - 1))
          /\ given' = given \union TurnsIn(SubSeq(memory, rewind.at, Len(memory)))
     ELSE UNCHANGED <<memory, disk, given>>
  /\ disturbed' = (disturbed \/ rewind.at \notin DOMAIN memory
                              \/ memory[rewind.at] # rewind.message)
  /\ UNCHANGED <<holder, after, flushed, begun, ended, others>>

(* session.appendMessages, and what live conversations and deliveries add  *)
AppendSpoken ==
  /\ Other
  /\ memory' = Append(memory, <<"spoken", 0>>)
  /\ disk' = Append(disk, <<"spoken", 0>>)
  /\ disturbed' = (disturbed \/ holder # Free)
  /\ UNCHANGED <<holder, after, rewind, flushed, begun, ended, given>>

(* session.clear                                                           *)
Clear ==
  /\ Other
  /\ Replace(<<>>)
  /\ flushed' = FALSE
  /\ given' = 1..begun
  /\ disturbed' = (disturbed \/ holder # Free)
  /\ UNCHANGED <<holder, after, rewind, begun, ended>>

-----------------------------------------------------------------------------
(* repairOrphanedToolUses(): a call that lacks its results gets them, and  *)
(* messages where none does are returned as they are.                      *)
Paired(ms, i) == i < Len(ms) /\ ms[i + 1] = <<"result", ms[i][2]>>
Orphan(ms, i) == Kind(ms[i]) = "call" /\ ~Paired(ms, i)
Repaired(ms) ==
  IF \A i \in DOMAIN ms : ~Orphan(ms, i) THEN ms
  ELSE FlattenSeq([i \in DOMAIN ms |-> IF Orphan(ms, i) THEN <<ms[i], <<"result", ms[i][2]>>>>
                                       ELSE <<ms[i]>>])

(* The process ends, and its successor loads the file.                     *)
Restart ==
  /\ Other
  /\ memory' = Repaired(disk)
  /\ holder' = Free /\ after' = Nothing /\ rewind' = NoRewind /\ flushed' = FALSE
  /\ UNCHANGED <<disk, begun, ended, given, disturbed>>

HistoryNext ==
  \/ BeginTurn \/ CallTools \/ ToolsReturn \/ Reply \/ EndTurn
  \/ RequestFlush \/ BeginFlush \/ EndFlush
  \/ BeginCompact \/ EndCompact \/ BeginAutoCompact \/ EndAutoCompact
  \/ \E i \in DOMAIN memory : RequestRewind(i)
  \/ Rewind \/ AppendSpoken \/ Clear \/ Restart

HistorySpec == HistoryInit /\ [][HistoryNext]_historyVars
-----------------------------------------------------------------------------
Messages == {"user", "call", "result", "reply", "spoken", "summary"} \X (0..MaxTurns)

HistoryTypeOK ==
  /\ {memory, disk, holder.kept, after.snap} \subseteq Seq(Messages)
  /\ holder.op \in {"free", "chat", "flush", "compact"}
  /\ holder.stage \in {"", "asked", "tools", "again", "done"}
  /\ after.stage \in {"", "flush", "flushing", "compact", "summarizing"}
  /\ {ended, given} \subseteq SUBSET (1..begun)

(* When the lane is free the file and the memory of the loop hold the same *)
(* messages, whatever turns, flushes, compactions, rewinds and restarts    *)
(* came before, as long as nothing changed them beside the lane.           *)
FileIsMemory == holder = Free /\ ~disturbed => disk = memory

(* "Every tool_use in the assistant message above MUST be followed by a    *)
(* matching tool_result", loop.ts:667: in each history the model is sent.  *)
ToolsArePaired ==
  ChatTurn({"asked", "again"}) /\ ~disturbed =>
    \A i \in DOMAIN memory :
      /\ Kind(memory[i]) = "call" => Paired(memory, i)
      /\ Kind(memory[i]) = "result" => i > 1 /\ memory[i - 1] = <<"call", memory[i][2]>>

(* A turn that was written is lost only to a summary, a rewind or a clear. *)
TurnsAreKept == ended \ given \subseteq TurnsIn(disk)
HistoryKept == FileIsMemory /\ (disturbed \/ TurnsAreKept)
=============================================================================
