------------------------------ MODULE EventLog ------------------------------
(***************************************************************************)
(* events.jsonl of a session: the goroutine of executeRun that writes what *)
(* its subscription brings (server/internal/service/run.go), the Persister *)
(* behind it and LoadAll (core/event/persist.go).                          *)
(*                                                                         *)
(* A line is three pieces, of which a file, or what is left of a buffer,   *)
(* may hold the first one or two: half of the JSON, the rest, the newline. *)
(* The buffer has room for a line at least; a longer line, which goes to   *)
(* the file in one write, is left out.                                     *)
(***************************************************************************)
EXTENDS Integers, Sequences, SequencesExt

CONSTANTS
    LogRuns,   \* runs of the session
    LogRoom,   \* stream.Subscribe(256)
    BufferRoom,\* the pieces that fit into the bufio.Writer
    MaxLogged  \* bound: events

ASSUME LogAssumption == LogRoom \in Nat \ {0} /\ BufferRoom \in Nat /\ BufferRoom >= 3 /\ MaxLogged \in Nat

VARIABLES
    questions, \* of each event, whether it is a clarify_requested
    logStage,  \* of a run: "new", "open", "closing", "left", "over"
    queue,     \* its subscription's channel
    pen,       \* its goroutine: "idle", "question" before the Sync, "synced" after it
    buffer,    \* its bufio.Writer
    jammed,    \* whose write failed, or whose file is closed: it writes no more
    file,
    due,       \* history: the events written for good or to the buffer of a run
    promised,  \* history: due at the last Sync
    spoiled    \* history: a write failed, a line was torn for good, or two runs wrote

logVars == <<questions, logStage, queue, pen, buffer, jammed, file, due, promised, spoiled>>

Pieces(e) == << <<e, "head">>, <<e, "tail">>, <<e, "newline">> >>

LogInit ==
    /\ questions = <<>> /\ file = <<>> /\ due = <<>> /\ promised = <<>> /\ spoiled = FALSE
    /\ logStage = [r \in LogRuns |-> "new"]
    /\ queue = [r \in LogRuns |-> <<>>]
    /\ pen = [r \in LogRuns |-> "idle"]
    /\ buffer = [r \in LogRuns |-> <<>>]
    /\ jammed = {}

(* LoadAll reads line by line, the last with or without its newline.       *)
EndLine(acc) ==
    IF \E e \in DOMAIN questions : acc.line = SubSeq(Pieces(e), 1, 2)
    THEN [acc EXCEPT !.events = Append(@, acc.line[1][1]), !.line = <<>>]
    ELSE [acc EXCEPT !.ok = FALSE, !.line = <<>>]

ReadPiece(acc, piece) ==
    IF piece[2] = "newline" THEN EndLine(acc) ELSE [acc EXCEPT !.line = Append(@, piece)]

LoadAll ==
    LET read == FoldLeft(ReadPiece, [ok |-> TRUE, events |-> <<>>, line |-> <<>>], file)
    IN  IF read.line = <<>> THEN read ELSE EndLine(read)

Torn == file # <<>> /\ Last(file)[2] # "newline"

(* NewPersister appends to what there is; stream.Subscribe.                *)
OpenLog(r) ==
    /\ logStage[r] = "new"
    /\ logStage' = [logStage EXCEPT ![r] = "open"]
    /\ spoiled' = (spoiled \/ \E q \in LogRuns : logStage[q] \in {"open", "closing"})
    /\ UNCHANGED <<questions, queue, pen, buffer, jammed, file, due, promised>>

(* An Append to the session's stream, by the run or a chat turn: a full    *)
(* channel misses it.                                                      *)
LogEvent(question) ==
    /\ Len(questions) < MaxLogged
    /\ questions' = Append(questions, question)
    /\ queue' = [r \in LogRuns |-> IF logStage[r] \in {"open", "left"} /\ Len(queue[r]) < LogRoom
                                   THEN Append(queue[r], Len(questions) + 1) ELSE queue[r]]
    /\ UNCHANGED <<logStage, pen, buffer, jammed, file, due, promised, spoiled>>

(* What goes to the file, all or a part, and what stays in the buffer.     *)
Flush(r, out, rest, fails) ==
    /\ \E n \in IF fails THEN 0..Len(out) - 1 ELSE {Len(out)} : file' = file \o SubSeq(out, 1, n)
    /\ jammed' = IF fails THEN jammed \cup {r} ELSE jammed
    /\ spoiled' = (spoiled \/ fails)
    /\ buffer' = [buffer EXCEPT ![r] = rest]

(* One turn of the goroutine: Write, which flushes a buffer that is full.  *)
TakeEvent(r, fails) ==
    LET e == Head(queue[r])
        text == buffer[r] \o Pieces(e)
        sent == IF Len(text) > BufferRoom THEN BufferRoom ELSE 0
    IN  /\ queue[r] # <<>> /\ pen[r] # "question"
        /\ queue' = [queue EXCEPT ![r] = Tail(@)]
        /\ pen' = [pen EXCEPT ![r] = IF questions[e] THEN "question" ELSE "idle"]
        /\ IF r \in jammed THEN ~fails /\ UNCHANGED <<buffer, jammed, file, due, spoiled>>
           ELSE /\ fails => sent > 0
                /\ Flush(r, SubSeq(text, 1, sent), SubSeq(text, sent + 1, Len(text)), fails)
                /\ due' = Append(due, e)
        /\ UNCHANGED <<questions, logStage, promised>>

(* A faulty variant: questions stay in the buffer as other events do.      *)
SyncQuestion_Buffered(r, fails) ==
    /\ pen[r] = "question" /\ ~fails
    /\ pen' = [pen EXCEPT ![r] = "synced"]
    /\ UNCHANGED <<questions, logStage, queue, buffer, jammed, file, due, promised, spoiled>>

(* persister.Sync after a question.                                        *)
SyncQuestion(r, fails) ==
    /\ pen[r] = "question"
    /\ IF r \in jammed
       THEN /\ ~fails /\ pen' = [pen EXCEPT ![r] = "idle"]
            /\ UNCHANGED <<buffer, jammed, file, promised, spoiled>>
       ELSE /\ pen' = [pen EXCEPT ![r] = "synced"]
            /\ fails => buffer[r] # <<>>
            /\ Flush(r, buffer[r], <<>>, fails)
            /\ promised' = due
    /\ UNCHANGED <<questions, logStage, queue, due>>

(* persistSub.Close; the goroutine goes on with what the channel holds.    *)
CloseSub(r) ==
    /\ logStage[r] = "open"
    /\ logStage' = [logStage EXCEPT ![r] = "closing"]
    /\ UNCHANGED <<questions, queue, pen, buffer, jammed, file, due, promised, spoiled>>

(* persistDone, then Sync and, deferred, Close.                            *)
EndLog(r, fails) ==
    /\ logStage[r] = "closing" /\ queue[r] = <<>> /\ pen[r] # "question"
    /\ logStage' = [logStage EXCEPT ![r] = "over"]
    /\ fails => buffer[r] # <<>> /\ r \notin jammed
    /\ IF r \in jammed THEN UNCHANGED <<buffer, jammed, file, spoiled>> ELSE Flush(r, buffer[r], <<>>, fails)
    /\ promised' = due
    /\ UNCHANGED <<questions, queue, pen, due>>

(* A return between the subscription and the loop: the file is closed, the *)
(* subscription is not, and its goroutine goes on for nothing.             *)
LeaveLog(r, part) ==
    /\ logStage[r] = "open"
    /\ logStage' = [logStage EXCEPT ![r] = "left"]
    /\ part \in IF r \in jammed THEN {0} ELSE 0..Len(buffer[r])
    /\ file' = file \o SubSeq(buffer[r], 1, part)
    /\ spoiled' = (spoiled \/ (r \notin jammed /\ part < Len(buffer[r])))
    /\ buffer' = [buffer EXCEPT ![r] = <<>>]
    /\ jammed' = jammed \cup {r}
    /\ UNCHANGED <<questions, queue, pen, due, promised>>

(* The daemon ends and starts anew: what is in the file is all there is.   *)
Crash ==
    /\ \E r \in LogRuns : logStage[r] \in {"open", "closing", "left"}
    /\ logStage' = [r \in LogRuns |-> IF logStage[r] = "new" THEN "new" ELSE "over"]
    /\ queue' = [r \in LogRuns |-> <<>>]
    /\ pen' = [r \in LogRuns |-> "idle"]
    /\ buffer' = [r \in LogRuns |-> <<>>]
    /\ due' = LoadAll.events /\ spoiled' = (spoiled \/ Torn)
    /\ UNCHANGED <<questions, jammed, file, promised>>

LogNext ==
    \/ \E question \in BOOLEAN : LogEvent(question)
    \/ \E r \in LogRuns :
         \/ OpenLog(r) \/ CloseSub(r) \/ \E part \in 0..BufferRoom : LeaveLog(r, part)
         \/ \E fails \in BOOLEAN : TakeEvent(r, fails) \/ SyncQuestion(r, fails) \/ EndLog(r, fails)
    \/ Crash

LogSpec == LogInit /\ [][LogNext]_logVars

LogTypeOK ==
    /\ questions \in Seq(BOOLEAN) /\ Len(questions) <= MaxLogged
    /\ logStage \in [LogRuns -> {"new", "open", "closing", "left", "over"}]
    /\ pen \in [LogRuns -> {"idle", "question", "synced"}]
    /\ \A r \in LogRuns : Len(queue[r]) <= LogRoom /\ Len(buffer[r]) <= BufferRoom
    /\ jammed \subseteq LogRuns /\ spoiled \in BOOLEAN

-----------------------------------------------------------------------------

Active == {r \in LogRuns : logStage[r] \in {"open", "closing"}}
Buffered == IF Active = {} THEN <<>> ELSE buffer[CHOOSE r \in Active : TRUE]

WithLine(text, e) == text \o Pieces(e)
Lines(events) == FoldLeft(WithLine, <<>>, events)

(* Until a write fails, a crash tears a line or two runs write, the file   *)
(* and the buffer hold what the goroutine wrote, once and in order; a      *)
(* reader that is given events is given those up to the last Sync at       *)
(* least; and it is given all of them after a question and when no run is  *)
(* on, also behind a crash (run.go:1023-1040, 1542-1550,                   *)
(* persist.go:50-98).                                                      *)
LogTellsTruth ==
    /\ LogTypeOK
    /\ ~spoiled =>
         /\ file \o Buffered = Lines(due)
         /\ LoadAll.ok => IsPrefix(promised, LoadAll.events)
         /\ Active = {} \/ (\E r \in Active : pen[r] = "synced") => LoadAll.ok /\ LoadAll.events = due

=============================================================================
