----------------------------- MODULE SessionMemory ------------------------------
(***************************************************************************)
(* The memory drawn from one conversation: src/src/memory/session-memory.ts*)
(* and distill.ts, under session-memory-scheduler.ts, scheduler.ts and     *)
(* the memory.distill method.                                              *)
(*                                                                         *)
(* An update summarises the next chunk of the session's file into its      *)
(* checkpoint, which it then projects into the log of the chunk's day.  A  *)
(* consolidation summarises the recent logs into MEMORY.md.  Both wait for *)
(* a model, while the conversation goes on, is rewound or compacted.       *)
(*                                                                         *)
(* A message is its number and its day, and two units of text, so that a   *)
(* chunk may end within it.  A text drawn from messages is the sequence of *)
(* the units it was drawn from, a hash is what it is taken of, and the two *)
(* offsets of a cursor are the number of units consumed.  Left out:        *)
(* messages without text, mock mode and the sweep of all sessions.         *)
(***************************************************************************)
EXTENDS Integers, Sequences, FiniteSets, SequencesExt, FiniteSetsExt

CONSTANTS
  MaxChunk,     \* units of one chunk: MAX_CHARS
  RecentLogs,   \* logs a consolidation reads
  MaxMessages,  \* bound: messages
  MaxDays,      \* bound: days
  MaxMishaps    \* bound: rewinds, compactions, failures, manual calls and crashes

ASSUME MemoryAssumption ==
  {MaxChunk, RecentLogs, MaxMessages, MaxDays, MaxMishaps} \subseteq Nat \ {0}

VARIABLES
  file,        \* messages of the session's file
  written,     \* messages numbered so far
  today,
  checkpoint,  \* memory/.sessions/<hash>.json
  update,      \* the update that holds the lock of the session
  daily,       \* the session's block in the log of each day
  mtime,       \* when each log was written, in order; 0: there is none
  global,      \* MEMORY.md: what of each day it was drawn from
  mark,        \* lastConsolidatedMtimeMs
  merging,     \* consolidations under way
  overlapped,  \* history: MEMORY.md changed during another consolidation
  mishaps      \* what is used of MaxMishaps

memoryVars == <<file, written, today, checkpoint, update, daily, mtime, global, mark,
                merging, overlapped, mishaps>>

Days == 1..MaxDays
Units(ms) == [k \in 1..2 * Len(ms) |-> ms[(k + 1) \div 2] \o <<k % 2>>]

NoCheckpoint == [covered |-> <<>>, done |-> 0, summary |-> <<>>, day |-> 1, text |-> <<>>]
NoUpdate == [stage |-> "none", source |-> <<>>, next |-> NoCheckpoint]
NoMerge == [on |-> FALSE, latest |-> 0, result |-> [d \in Days |-> <<>>]]

MemoryInit ==
  /\ file = <<>> /\ written = 0 /\ today = 1
  /\ checkpoint = NoCheckpoint /\ update = NoUpdate
  /\ daily = [d \in Days |-> <<>>] /\ mtime = [d \in Days |-> 0]
  /\ global = [d \in Days |-> <<>>] /\ mark = 0
  /\ merging = [by \in {"scheduler", "client"} |-> NoMerge]
  /\ overlapped = FALSE /\ mishaps = 0

Mishap == mishaps < MaxMishaps /\ mishaps' = mishaps + 1

-----------------------------------------------------------------------------
(* The conversation, in its file                                           *)
NewMessage == <<written + 1, today>>

Converse ==
  /\ written < MaxMessages
  /\ written' = written + 1
  /\ file' = Append(file, NewMessage)
  /\ UNCHANGED <<today, checkpoint, update, daily, mtime, global, mark, merging, overlapped,
                 mishaps>>

Midnight ==
  /\ today < MaxDays
  /\ today' = today + 1
  /\ UNCHANGED <<file, written, checkpoint, update, daily, mtime, global, mark, merging,
                 overlapped, mishaps>>

(* rewriteMessages(): a rewind, or a compaction                            *)
Rewrite ==
  /\ Mishap
  /\ \/ /\ \E n \in 1..Len(file) : file' = SubSeq(file, 1, n - 1)
        /\ UNCHANGED written
     \/ /\ written < MaxMessages
        /\ written' = written + 1
        /\ \E n \in 1..Len(file) : file' = <<NewMessage>> \o SubSeq(file, n + 1, Len(file))
  /\ UNCHANGED <<today, checkpoint, update, daily, mtime, global, mark, merging, overlapped>>

-----------------------------------------------------------------------------
(* readMemoryChunk(): the next units, all of one day                       *)
ChunkEnd(us, done) ==
  Max({n \in done..Len(us) : /\ n - done <= MaxChunk
                             /\ \A i \in done + 1..n : us[i][2] = us[done + 1][2]})

(* The checkpoint that follows c when the next chunk of ms is summarised   *)
Extended(c, ms) ==
  LET us == Units(ms)
      end == ChunkEnd(us, c.done)
      chunk == SubSeq(us, c.done + 1, end)
      day == chunk[1][2]
  IN  [covered |-> SubSeq(ms, 1, (end + 1) \div 2), done |-> end, summary |-> c.summary \o chunk,
       day |-> day, text |-> (IF c.day = day THEN c.text ELSE <<>>) \o chunk]

(* projectDaily(), which leaves a log alone that it would not change       *)
Project(c) ==
  IF c.done = 0 \/ daily[c.day] = c.text THEN UNCHANGED <<daily, mtime>>
  ELSE /\ daily' = [daily EXCEPT ![c.day] = c.text]
       /\ mtime' = [mtime EXCEPT ![c.day] = 1 + Max({mtime[d] : d \in Days})]

(* Mutant: the hash of the source is not compared.                         *)
MatchesAlways(c, ms) == Len(c.covered) <= Len(ms)

(* matchesSource()                                                         *)
Matches(c, ms) == IsPrefix(c.covered, ms)

(* Mutant: an update begins without repairing the log.                     *)
BeginUpdateUnrepaired(proceeds) ==
  LET prior == IF Matches(checkpoint, file) THEN checkpoint ELSE NoCheckpoint
  IN  /\ update = NoUpdate
      /\ update' = IF proceeds /\ prior.done < Len(Units(file))
                   THEN [stage |-> "asked", source |-> file, next |-> Extended(prior, file)]
                   ELSE NoUpdate
      /\ UNCHANGED <<file, written, today, checkpoint, daily, mtime, global, mark, merging,
                     overlapped, mishaps>>

(* updateSessionMemory() to its model call.  An automatic update may wait  *)
(* for more messages instead, and one without text has nothing to ask.     *)
BeginUpdate(proceeds) ==
  LET prior == IF Matches(checkpoint, file) THEN checkpoint ELSE NoCheckpoint
  IN  /\ update = NoUpdate
      /\ Project(prior)
      /\ update' = IF proceeds /\ prior.done < Len(Units(file))
                   THEN [stage |-> "asked", source |-> file, next |-> Extended(prior, file)]
                   ELSE NoUpdate
      /\ UNCHANGED <<file, written, today, checkpoint, global, mark, merging, overlapped, mishaps>>

(* The summary has come; the file is read again, and an update of messages *)
(* that are no longer there is given up.                                   *)
CheckSource ==
  /\ update.stage = "asked"
  /\ update' = IF Matches(update.next, file) THEN [update EXCEPT !.stage = "checked"]
               ELSE NoUpdate
  /\ UNCHANGED <<file, written, today, checkpoint, daily, mtime, global, mark, merging,
                 overlapped, mishaps>>

SummaryFails ==
  /\ update.stage = "asked"
  /\ Mishap
  /\ update' = NoUpdate
  /\ UNCHANGED <<file, written, today, checkpoint, daily, mtime, global, mark, merging,
                 overlapped>>

(* The checkpoint is written, then projected.                              *)
Commit ==
  /\ update.stage = "checked"
  /\ checkpoint' = update.next
  /\ update' = NoUpdate
  /\ Project(update.next)
  /\ UNCHANGED <<file, written, today, global, mark, merging, overlapped, mishaps>>

(* The projection fails, or the process ends before it.                    *)
CommitUnprojected ==
  /\ update.stage = "checked"
  /\ Mishap
  /\ checkpoint' = update.next
  /\ update' = NoUpdate
  /\ UNCHANGED <<file, written, today, daily, mtime, global, mark, merging, overlapped>>

-----------------------------------------------------------------------------
(* distillGlobal(): the recent logs, over what MEMORY.md holds             *)
Logs == {d \in Days : mtime[d] # 0}
Recent == {d \in Logs : Cardinality({e \in Logs : e > d}) < RecentLogs}
Latest == Max({mtime[d] : d \in Days})

BeginMerge(by) ==
  /\ ~merging[by].on /\ Logs # {}
  /\ IF by = "scheduler" THEN Latest > mark /\ UNCHANGED mishaps ELSE Mishap
  /\ merging' = [merging EXCEPT ![by] =
       [on |-> TRUE, latest |-> Latest,
        result |-> [d \in Days |-> IF d \in Recent THEN daily[d] ELSE global[d]]]]
  /\ UNCHANGED <<file, written, today, checkpoint, update, daily, mtime, global, mark, overlapped>>

(* MEMORY.md is written, and by tick() the mark.                           *)
EndMerge(by) ==
  /\ merging[by].on
  /\ global' = merging[by].result
  /\ mark' = IF by = "scheduler" THEN merging[by].latest ELSE mark
  /\ overlapped' = (overlapped \/ \E other \in DOMAIN merging \ {by} : merging[other].on)
  /\ merging' = [merging EXCEPT ![by] = NoMerge]
  /\ UNCHANGED <<file, written, today, checkpoint, update, daily, mtime, mishaps>>

MergeFails(by) ==
  /\ merging[by].on
  /\ Mishap
  /\ merging' = [merging EXCEPT ![by] = NoMerge]
  /\ UNCHANGED <<file, written, today, checkpoint, update, daily, mtime, global, mark, overlapped>>

(* The process ends; the schedulers of its successor start over.           *)
MemoryCrash ==
  /\ Mishap
  /\ update' = NoUpdate
  /\ merging' = [by \in DOMAIN merging |-> NoMerge]
  /\ UNCHANGED <<file, written, today, checkpoint, daily, mtime, global, mark, overlapped>>

MemoryNext ==
  \/ Converse \/ Midnight \/ Rewrite
  \/ \E proceeds \in BOOLEAN : BeginUpdate(proceeds)
  \/ CheckSource \/ SummaryFails \/ Commit \/ CommitUnprojected
  \/ \E by \in {"scheduler", "client"} : BeginMerge(by) \/ EndMerge(by) \/ MergeFails(by)
  \/ MemoryCrash

MemorySpec == MemoryInit /\ [][MemoryNext]_memoryVars
-----------------------------------------------------------------------------
Texts == Seq((1..MaxMessages) \X Days \X {0, 1})
Checkpoints == [covered : Seq((1..MaxMessages) \X Days), done : Nat, summary : Texts,
                day : Days, text : Texts]

MemoryTypeOK ==
  /\ file \in Seq((1..written) \X (1..today))
  /\ {checkpoint, update.next} \subseteq Checkpoints
  /\ update.stage \in {"none", "asked", "checked"}
  /\ {daily, global} \subseteq [Days -> Texts]
  /\ mtime \in [Days -> Nat] /\ mark <= Latest

(* However chunks, rewinds, compactions, failures and crashes follow each  *)
(* other, the summary was drawn from each piece of the text it covers      *)
(* once and in order, and what it says of its day is drawn from the last   *)
(* of them, as many as are of that day without a break.                    *)
MemoryFaithful ==
  LET c == checkpoint
      n == Len(c.summary) - Len(c.text)
  IN  /\ c.summary = SubSeq(Units(c.covered), 1, c.done)
      /\ n >= 0 /\ c.text = SubSeq(c.summary, n + 1, Len(c.summary))
      /\ \A i \in n + 1..Len(c.summary) : c.summary[i][2] = c.day
      /\ n > 0 => c.summary[n][2] # c.day

(* "The checkpoint is authoritative; daily Markdown is an idempotent       *)
(* projection that can be repaired after a crash", session-memory.ts:1:    *)
(* once the conversation rests, its whole text is in the checkpoint, the   *)
(* checkpoint in its log, and the recent logs in MEMORY.md, unless a       *)
(* consolidation on request overwrote what another had written.            *)
InLogs == file # <<>> => /\ checkpoint.covered = file
                         /\ checkpoint.done = Len(Units(file))
                         /\ daily[checkpoint.day] = checkpoint.text
InMemory == \A d \in Recent : global[d] = daily[d]
MemoryCatchesUp == <>[](InLogs /\ (InMemory \/ overlapped))
=============================================================================
