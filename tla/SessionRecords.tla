--------------------------- MODULE SessionRecords ---------------------------
(***************************************************************************)
(* The record of one conversation: the JSONL transcript with its index     *)
(* file (session/SessionTranscript.ts), the compression of old messages    *)
(* into a summary, the close of idle sessions and the compaction of large  *)
(* files (session/SessionManager.ts, session/SessionAutoCleaner.ts), and a *)
(* process that may stop at any point.                                     *)
(*                                                                         *)
(* A message is its number; recording it is a call that goes through the   *)
(* phases of op[m].pc.  A line takes one unit of the file, so an offset is *)
(* the number of lines before it.  One step is what runs between two       *)
(* awaits that really wait (for the disk or for a model): a promise that   *)
(* is already resolved lets no timer and no I/O callback in.  The mutex    *)
(* (module SessionMutex) is held by whoever is "inside" or compacts.       *)
(***************************************************************************)
EXTENDS Integers, FiniteSets, Sequences

CONSTANTS MaxMessages,
          Writers,         \* messages that are being recorded at once
          SaveEvery,       \* entries between two writes of the index (10)
          MaxUncompressed, \* messages that trigger a compression (10)
          MaxContext,      \* messages a compression leaves out (6)
          MaxCrashes, MaxCloses, MaxCompactions,  \* bounds of a run
          Windows          \* the short windows that a run leaves open, of:
                           \*   "lateWrite"  an append between end() and its completion
                           \*   "staleRead"  a read across a compaction
                           \*   "unflushed"  a compaction reads before a write is out
                           \*   "torn"       a crash between the new file and the
                           \*                removal of the old index
                           \*   "ahead"      a crash that leaves a saved index which
                           \*                counts lines that are not in the file

ASSUME RecordsAssumption ==
    /\ MaxMessages \in Nat /\ Writers \in Nat
    /\ SaveEvery \in Nat \ {0}
    /\ MaxUncompressed \in Nat /\ MaxContext \in Nat
    /\ MaxCrashes \in Nat /\ MaxCloses \in Nat /\ MaxCompactions \in Nat
    /\ Windows \subseteq {"lateWrite", "staleRead", "unflushed", "torn", "ahead"}

VARIABLES
    file,        \* lines given to the file, in order
    durable,     \* how many of them have left the process
    indexFile,   \* the saved index, or NoIndex
    row,         \* table session_checkpoints: the seq of the last summary, or 0
    session,     \* sessions.get(sid): [status, index], or NoSession
    checkpoint,  \* compressionCheckpoints.get(sid): its seq, or 0
    op,          \* [Messages -> the recording call]
    compact,     \* compactSession: its phase, its transcript's index, what it will write
    summarised,  \* history: messages that an applied summary was made of
    acked,       \* history: messages whose recording call returned
    crashes, closes, compactions

disk == <<file, durable, indexFile, row>>
history == <<summarised, acked>>
bounds == <<crashes, closes, compactions>>
vars == <<disk, session, checkpoint, op, compact, history, bounds>>

Messages == 1..MaxMessages
NoIndex == [lastSeq |-> -1]
NoSession == [status |-> "none"]

EmptyIndex == [lastOffset |-> 0, lastSeq |-> 0, checkpoints |-> <<>>]
Call(pc) == [pc |-> pc, from |-> 1, start |-> 0, seen |-> 0, upTo |-> 0, picked |-> {}]
NoCompaction == [phase |-> "idle", index |-> EmptyIndex, lines |-> <<>>]

Init ==
    /\ file = <<>> /\ durable = 0 /\ indexFile = NoIndex /\ row = 0
    /\ session = NoSession
    /\ checkpoint = 0
    /\ op = [m \in Messages |-> Call("none")]
    /\ compact = NoCompaction
    /\ summarised = {} /\ acked = {}
    /\ crashes = 0 /\ closes = 0 /\ compactions = 0

-----------------------------------------------------------------------------
(* The index and what is read through it.                                  *)

Entry(m, seq) == [msg |-> m, seq |-> seq, upTo |-> 0]
CheckpointEntry(seq, upTo) == [msg |-> 0, seq |-> seq, upTo |-> upTo]

(* rebuildIndex over the first n lines.                                    *)
CheckpointsOf(n) ==
    LET at == {i \in 1..n : file[i].msg = 0}
        nth(k) == CHOOSE i \in at : Cardinality({j \in at : j <= i}) = k
    IN  [k \in 1..Cardinality(at) |->
            [offset |-> nth(k) - 1, seq |-> file[nth(k)].seq, upTo |-> file[nth(k)].upTo]]

Highest(S) == CHOOSE x \in S : \A y \in S : y <= x

\* Mistake: numbers are not read but counted.
RebuiltCounting(n) == [lastOffset |-> n, lastSeq |-> n, checkpoints |-> CheckpointsOf(n)]

Rebuilt(n) == [lastOffset |-> n,
               lastSeq |-> Highest({0} \union {file[i].seq : i \in 1..n}),
               checkpoints |-> CheckpointsOf(n)]

(* init: a saved index is trusted; a file without one is read whole, which *)
(* is awaited.                                                             *)
MustRebuild == indexFile = NoIndex /\ file # <<>>
IndexAtOpen == IF indexFile # NoIndex THEN indexFile ELSE EmptyIndex

(* getSinceCheckpoint: where the replay begins.                            *)
\* Mistake: the replay begins after the checkpoint entry itself.
ReplayFromEntry(index) ==
    IF index.checkpoints = <<>> THEN 1
    ELSE index.checkpoints[Len(index.checkpoints)].seq + 1

ReplayFrom(index) ==
    IF index.checkpoints = <<>> THEN 1
    ELSE LET last == index.checkpoints[Len(index.checkpoints)]
         IN  (IF last.upTo > last.seq THEN last.seq ELSE last.upTo) + 1

(* replay: the offset of the latest checkpoint entry before that.          *)
ReplayStart(index, from) ==
    LET before == {k \in DOMAIN index.checkpoints : index.checkpoints[k].seq < from}
    IN  IF from > 1 /\ before # {} THEN index.checkpoints[Highest(before)].offset ELSE 0

(* replay: the positions of the entries it returns, of the first n lines,  *)
(* and the order in which it returns them.                                 *)
Replay(from, start, n) == {i \in 1..n : i > start /\ file[i].seq >= from}
Precedes(i, j) == \/ file[i].seq < file[j].seq
                  \/ file[i].seq = file[j].seq /\ i < j
Sorted(S) == [k \in 1..Cardinality(S) |->
                CHOOSE i \in S : Cardinality({j \in S : Precedes(j, i)}) = k - 1]

-----------------------------------------------------------------------------
(* appendSync: the entries get the next numbers, and the index is saved    *)
(* whenever a number is a multiple of SaveEvery.                           *)

Indexed(index, entry) ==
    [lastOffset |-> index.lastOffset + 1,
     lastSeq |-> entry.seq,
     checkpoints |->
        IF entry.msg # 0 THEN index.checkpoints
        ELSE Append(index.checkpoints,
                    [offset |-> index.lastOffset, seq |-> entry.seq, upTo |-> entry.upTo])]

SavedBy(index, saved) == IF index.lastSeq % SaveEvery = 0 THEN index ELSE saved

NumberOf(index) == index.lastSeq + 1

(* applyCheckpoint, unless a summary that reaches as far is there.         *)
Applies(call) == call.upTo > 0 /\ ~(checkpoint # 0 /\ checkpoint >= call.upTo)

(* The body of recordUserMessage in the mutex, with the transcript at      *)
(* hand and the saved index as it is: the checkpoint if one was prepared   *)
(* and applies, then the message.  What is written to a stream that is     *)
(* ending is lost, and breaks it.                                          *)
Record(m, transcript, saved) ==
    LET call == op[m]
        applies == Applies(call)
        first == CheckpointEntry(NumberOf(transcript.index), call.upTo)
        index1 == IF applies THEN Indexed(transcript.index, first) ELSE transcript.index
        saved1 == IF applies THEN SavedBy(index1, saved) ELSE saved
        second == Entry(m, NumberOf(index1))
        index2 == Indexed(index1, second)
        lost == transcript.status \in {"ending", "breaking", "broken"}
    IN  /\ transcript.status = "ending" => "lateWrite" \in Windows
        /\ file' = IF lost THEN file
                   ELSE Append(IF applies THEN Append(file, first) ELSE file, second)
        /\ session' = [status |-> IF transcript.status = "ending" THEN "breaking"
                                  ELSE transcript.status,
                       index |-> index2]
        /\ indexFile' = SavedBy(index2, saved1)
        /\ checkpoint' = IF applies THEN call.upTo ELSE checkpoint
        /\ row' = IF applies THEN call.upTo ELSE row
        /\ summarised' = IF applies THEN summarised \union call.picked ELSE summarised
        /\ acked' = acked \union {m}
        /\ op' = [op EXCEPT ![m] = Call("done")]
        /\ UNCHANGED <<durable, compact, bounds>>

-----------------------------------------------------------------------------
(* Recording a message.                                                    *)

Recording == {m \in Messages : op[m].pc \notin {"none", "done"}}
MutexFree == compact.phase = "idle" /\ \A m \in Messages : op[m].pc # "inside"
IsNext(m) == op[m].pc = "none" /\ \A k \in 1..(m - 1) : op[k].pc # "none"

(* prepareCompression up to its read, through the index at hand.           *)
Reading(index) ==
    LET from == ReplayFrom(index)
    IN  [Call("reading") EXCEPT !.from = from, !.start = ReplayStart(index, from)]

(* A transcript stays at hand while a compaction replaces its file.        *)
AtHand == /\ session # NoSession
          /\ compact.phase \in {"writing", "written", "rebuilding"} => "staleRead" \in Windows

(* recordUserMessage: prepareCompression comes before the mutex.           *)
StartUser(m) ==
    /\ IsNext(m)
    /\ Cardinality(Recording) < Writers
    /\ \/ /\ AtHand
          /\ op' = [op EXCEPT ![m] = Reading(session.index)]
          /\ UNCHANGED session
       \/ /\ session = NoSession /\ ~MustRebuild
          /\ session' = [status |-> "open", index |-> IndexAtOpen]
          /\ op' = [op EXCEPT ![m] = Reading(IndexAtOpen)]
       \/ /\ session = NoSession /\ MustRebuild
          /\ op' = [op EXCEPT ![m] = [Call("opening") EXCEPT !.seen = durable]]
          /\ UNCHANGED session
    /\ UNCHANGED <<disk, checkpoint, compact, history, bounds>>

(* recordAssistantMessage and the other roles only take the mutex.         *)
StartOther(m) ==
    /\ IsNext(m)
    /\ Cardinality(Recording) < Writers
    /\ op' = [op EXCEPT ![m] = Call("waiting")]
    /\ UNCHANGED <<disk, session, checkpoint, compact, history, bounds>>

(* A rebuild ends: the index covers some of what was written meanwhile (or *)
(* what a compaction left), and is saved.  The new transcript takes the    *)
(* place of any other.                                                     *)
Opened(m) ==
    /\ op[m].pc = "opening"
    /\ \E n \in (IF op[m].seen <= durable THEN op[m].seen ELSE durable)..durable :
          /\ session' = [status |-> "open", index |-> Rebuilt(n)]
          /\ indexFile' = Rebuilt(n)
          /\ op' = [op EXCEPT ![m] = Reading(Rebuilt(n))]
    /\ UNCHANGED <<file, durable, row, checkpoint, compact, history, bounds>>

(* The rest of prepareCompression: the oldest messages, all but the last   *)
(* MaxContext, are summed up, and the call waits for the mutex.            *)
ReadSince(m) ==
    /\ op[m].pc = "reading"
    /\ LET talk == {i \in Replay(op[m].from, op[m].start, durable) : file[i].msg # 0}
           count == Cardinality(talk) - MaxContext
           older == {i \in talk : Cardinality({j \in talk : Precedes(j, i)}) < count}
       IN  IF Cardinality(talk) >= MaxUncompressed /\ count > 0
           THEN \E last \in older :
                  /\ \A i \in older : file[i].seq <= file[last].seq
                  /\ op' = [op EXCEPT ![m] = [Call("waiting") EXCEPT
                                                !.upTo = file[last].seq,
                                                !.picked = {file[i].msg : i \in older}]]
           ELSE op' = [op EXCEPT ![m] = Call("waiting")]
    /\ UNCHANGED <<disk, session, checkpoint, compact, history, bounds>>

(* The mutex is taken, and getOrCreateSession finds or opens a transcript. *)
Enter(m) ==
    /\ op[m].pc = "waiting"
    /\ MutexFree
    /\ \/ session # NoSession /\ Record(m, session, indexFile)
       \/ /\ session = NoSession /\ ~MustRebuild
          /\ Record(m, [status |-> "open", index |-> IndexAtOpen], indexFile)
       \/ /\ session = NoSession /\ MustRebuild
          /\ op' = [op EXCEPT ![m].pc = "inside", ![m].seen = durable]
          /\ UNCHANGED <<disk, session, checkpoint, compact, history, bounds>>

OpenedInside(m) ==
    /\ op[m].pc = "inside"
    /\ \E n \in op[m].seen..durable :
          Record(m, [status |-> "open", index |-> Rebuilt(n)], Rebuilt(n))

(* The stream hands its buffer to the disk.                                *)
WriteOut ==
    /\ durable < Len(file)
    /\ durable' = Len(file)
    /\ UNCHANGED <<file, indexFile, row, session, checkpoint, op, compact, history, bounds>>

-----------------------------------------------------------------------------
(* close, by cleanupInactiveSessions or closeSession (/clear): it begins   *)
(* when the conversation is idle, and does not hold the mutex.             *)

Close ==
    /\ session # NoSession /\ session.status = "open"
    /\ Recording = {} /\ compact.phase = "idle"
    /\ closes < MaxCloses
    /\ closes' = closes + 1
    /\ session' = [session EXCEPT !.status = "flushing"]
    /\ UNCHANGED <<disk, checkpoint, op, compact, history, crashes, compactions>>

(* flush returns, and the stream is told to end.                           *)
Flushed ==
    /\ session # NoSession /\ session.status = "flushing"
    /\ durable' = Len(file)
    /\ indexFile' = session.index
    /\ session' = [session EXCEPT !.status = "ending"]
    /\ UNCHANGED <<file, row, checkpoint, op, compact, history, bounds>>

(* The stream has ended; a write after end() may make the close reject,    *)
(* and then the session stays, with a stream that stores nothing.          *)
Ended ==
    /\ session # NoSession /\ session.status \in {"ending", "breaking"}
    /\ durable' = Len(file)
    /\ indexFile' = session.index
    /\ \E fails \in IF session.status = "breaking" THEN BOOLEAN ELSE {FALSE} :
          IF fails THEN /\ session' = [session EXCEPT !.status = "broken"]
                        /\ UNCHANGED checkpoint
                   ELSE /\ session' = NoSession
                        /\ checkpoint' = 0
    /\ UNCHANGED <<file, row, op, compact, history, bounds>>

-----------------------------------------------------------------------------
(* compactSession.                                                         *)

CompactTo(phase) == compact' = [compact EXCEPT !.phase = phase]

CompactBegin ==
    /\ MutexFree
    /\ compactions < MaxCompactions
    /\ IF session = NoSession THEN ~MustRebuild ELSE session.status = "open"
    /\ session' = IF session = NoSession THEN [status |-> "open", index |-> IndexAtOpen]
                                         ELSE session
    /\ compact' = [NoCompaction EXCEPT !.phase = "reading", !.index = session'.index]
    /\ compactions' = compactions + 1
    /\ UNCHANGED <<disk, checkpoint, op, history, crashes, closes>>

(* The entries since the checkpoint, in the order of their numbers, behind *)
(* one checkpoint entry numbered just before them.                         *)
\* Mistake: the checkpoint entry is numbered one too low.
LimitTooLow(order, index) ==
    (IF order = <<>> THEN index.lastSeq + 1 ELSE file[order[1]].seq) - 2

Limit(order, index) ==
    (IF order = <<>> THEN index.lastSeq + 1 ELSE file[order[1]].seq) - 1

CompactRead ==
    /\ compact.phase = "reading"
    /\ "unflushed" \in Windows \/ durable = Len(file)
    /\ LET from == ReplayFrom(compact.index)
           kept == Replay(from, ReplayStart(compact.index, from), durable)
           order == Sorted(kept)
           limit == Limit(order, compact.index)
       IN  compact' =
             IF checkpoint = 0 /\ kept = {} THEN NoCompaction
             ELSE [compact EXCEPT
                     !.phase = "closing",
                     !.lines = (IF checkpoint = 0 THEN <<>>
                                ELSE <<CheckpointEntry(limit, limit)>>)
                               \o [i \in DOMAIN order |-> file[order[i]]]]
    /\ UNCHANGED <<disk, session, checkpoint, op, history, bounds>>

(* Its transcript is closed, and another may have taken its place.         *)
CompactClosed ==
    /\ compact.phase = "closing"
    /\ durable' = Len(file)
    /\ indexFile' = compact.index
    /\ CompactTo("writing")
    /\ UNCHANGED <<file, row, session, checkpoint, op, history, bounds>>

CompactWrite ==
    /\ compact.phase = "writing"
    /\ "staleRead" \in Windows \/ \A m \in Messages : op[m].pc \notin {"opening", "reading"}
    /\ file' = compact.lines
    /\ durable' = Len(compact.lines)
    /\ CompactTo("written")
    /\ UNCHANGED <<indexFile, row, session, checkpoint, op, history, bounds>>

\* Mistake: the index of the old file stays.
CompactUnlinkNothing ==
    /\ compact.phase = "written"
    /\ CompactTo("rebuilding")
    /\ UNCHANGED <<disk, session, checkpoint, op, history, bounds>>

CompactUnlink ==
    /\ compact.phase = "written"
    /\ indexFile' = NoIndex
    /\ CompactTo("rebuilding")
    /\ UNCHANGED <<file, durable, row, session, checkpoint, op, history, bounds>>

CompactDone ==
    /\ compact.phase = "rebuilding"
    /\ LET index == IF indexFile = NoIndex THEN Rebuilt(durable) ELSE indexFile
       IN  /\ session' = [status |-> "open", index |-> index]
           /\ indexFile' = index
    /\ compact' = NoCompaction
    /\ UNCHANGED <<file, durable, row, checkpoint, op, history, bounds>>

-----------------------------------------------------------------------------
(* The process stops: what has not left it is lost, and a write of the     *)
(* index that was cut leaves a file that does not parse.  The next one     *)
(* loads the summaries (loadCheckpoints).                                  *)
Crash ==
    /\ crashes < MaxCrashes
    /\ compact.phase = "written" => "torn" \in Windows
    /\ crashes' = crashes + 1
    /\ \E n \in durable..Len(file) : file' = SubSeq(file, 1, n) /\ durable' = n
    /\ indexFile' \in {indexFile, NoIndex}
    /\ compact.phase # "written" /\ indexFile' # NoIndex /\ indexFile.lastOffset > durable'
          => "ahead" \in Windows
    /\ session' = NoSession
    /\ checkpoint' = row
    /\ op' = [m \in Messages |-> IF op[m].pc = "none" THEN op[m] ELSE Call("done")]
    /\ compact' = NoCompaction
    /\ UNCHANGED <<row, history, closes, compactions>>

Next ==
    \/ \E m \in Messages : \/ StartUser(m) \/ StartOther(m) \/ Opened(m) \/ ReadSince(m)
                           \/ Enter(m) \/ OpenedInside(m)
    \/ WriteOut \/ Close \/ Flushed \/ Ended
    \/ CompactBegin \/ CompactRead \/ CompactClosed \/ CompactWrite \/ CompactUnlink
    \/ CompactDone \/ Crash

Spec == Init /\ [][Next]_vars

-----------------------------------------------------------------------------
(* Properties                                                              *)

Entries == [msg : 0..MaxMessages, seq : Nat, upTo : Nat]
Indexes == [lastOffset : Nat, lastSeq : Nat,
            checkpoints : Seq([offset : Nat, seq : Nat, upTo : Nat])]

TypeOK ==
    /\ file \in Seq(Entries)
    /\ durable \in 0..Len(file)
    /\ indexFile \in Indexes \union {NoIndex}
    /\ row \in Nat /\ checkpoint \in Nat
    /\ \/ session = NoSession
       \/ session \in [status : {"open", "flushing", "ending", "breaking", "broken"},
                       index : Indexes]
    /\ op \in [Messages -> [pc : {"none", "opening", "reading", "waiting", "inside", "done"},
                            from : Nat, start : Nat, seen : Nat, upTo : Nat,
                            picked : SUBSET (0..MaxMessages)]]
    /\ compact \in [phase : {"idle", "reading", "closing", "writing", "written", "rebuilding"},
                    index : Indexes, lines : Seq(Entries)]
    /\ summarised \subseteq 0..MaxMessages /\ acked \subseteq Messages
    /\ crashes \in 0..MaxCrashes
    /\ closes \in 0..MaxCloses
    /\ compactions \in 0..MaxCompactions

Increasing(lines) == \A i, j \in DOMAIN lines : i < j => lines[i].seq < lines[j].seq

(* Until the process crashes, the numbers in the file grow from line to    *)
(* line, through closes, re-opens and compactions: limits and replays      *)
(* compare entries by them alone.                                          *)
NumbersGrow == crashes = 0 => Increasing(file)

(* A message that is stored is summed up or read back: while the numbers   *)
(* grow, and whoever opens the record next, a crash included, nothing is   *)
(* hidden from the model that no summary was made of (what S92 and S468    *)
(* were about).                                                            *)
NothingHidden ==
    Increasing(file) /\ compact.phase \in {"idle", "reading", "closing"} =>
        LET index == CASE session # NoSession -> session.index
                       [] session = NoSession /\ MustRebuild -> Rebuilt(durable)
                       [] OTHER -> IndexAtOpen
            from == ReplayFrom(index)
            read == Replay(from, ReplayStart(index, from), Len(file))
        IN  \A i \in DOMAIN file :
                file[i].msg \notin summarised \union {0} => i \in read

(* Until the process crashes, a message whose recording returned is in the *)
(* file or in a summary.                                                   *)
RecordedIsKept ==
    crashes = 0 =>
        \A m \in acked : m \in summarised \/ \E i \in DOMAIN file : file[i].msg = m
=============================================================================
