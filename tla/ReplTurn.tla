------------------------------ MODULE ReplTurn ------------------------------
(***************************************************************************)
(* The turns of gil chat: the loop that reads a line, sends it and shows   *)
(* the reply (cli/internal/chat/repl/loop.go), and the goroutine that      *)
(* drains the stream of SessionService.Prompt for it (grpc_client.go).     *)
(*                                                                         *)
(* Text goes from the one to the other by a channel that each turn has     *)
(* anew, what tools do by one that all turns share, of Room places both.   *)
(* The loop takes from the second between turns only.  What the daemon     *)
(* sends is arbitrary, but for the session it allocates.  What a tool does,*)
(* the session and the numbers of the turn are notes alike, though the     *)
(* strip alone shows the numbers; the phase of the strip is left out, and  *)
(* SendPrompt's context, which nobody cancels.                             *)
(***************************************************************************)
EXTENDS Integers, Sequences, FiniteSets

CONSTANTS
    ReplRoom,    \* make(chan string, 64), make(chan TrackerInput, 64)
    MaxLines,    \* bound: lines the user types
    MaxReplParts \* bound: parts of one reply

ASSUME ReplAssumption == ReplRoom \in Nat \ {0} /\ MaxLines \in Nat /\ MaxReplParts \in Nat

VARIABLES
    repl,       \* where the loop is: "drain", "read", "pull", "over"
    chunkCh, eventCh,
    chunkDone,  \* chunkDone is closed
    streamErr,
    inHand,       \* what drainPromptStream has received and not passed on
    replStream, \* the stream of the turn: "none", "open", "ended", "failed"
    activeSess, \* the daemon has allocated a session
    lineNo,       \* the prompts sent
    received,        \* how many parts came: text and others of the turn, others in all
    screen       \* what is on the screen: the turn's text, its error note, all notes

replVars == <<repl, chunkCh, eventCh, chunkDone, streamErr, inHand, replStream, activeSess, lineNo, received, screen>>

HandEmpty == <<>>

ReplInit ==
    /\ repl = "read" /\ chunkCh = <<>> /\ eventCh = <<>> /\ chunkDone = FALSE
    /\ streamErr = FALSE /\ inHand = HandEmpty /\ replStream = "none" /\ activeSess = FALSE
    /\ lineNo = 0
    /\ received = [text |-> 0, others |-> 0, notes |-> 0]
    /\ screen = [text |-> <<>>, notes |-> <<>>, error |-> "none"]

(* drainEvents, between two turns: NextEvent and its note.                 *)
ShowNote ==
    /\ repl = "drain" /\ eventCh # <<>>
    /\ eventCh' = Tail(eventCh)
    /\ screen' = [screen EXCEPT !.notes = Append(@, Head(eventCh))]
    /\ UNCHANGED <<repl, chunkCh, chunkDone, streamErr, inHand, replStream, activeSess, lineNo, received>>

(* The queue is empty: the cue, and the next line.                         *)
Cue ==
    /\ repl = "drain" /\ eventCh = <<>>
    /\ repl' = "read"
    /\ UNCHANGED <<chunkCh, eventCh, chunkDone, streamErr, inHand, replStream, activeSess, lineNo, received, screen>>

(* An empty line, or one of the words that leave.                          *)
ReadNothing(leaves) ==
    /\ repl = "read" /\ repl' = IF leaves THEN "over" ELSE "drain"
    /\ UNCHANGED <<chunkCh, eventCh, chunkDone, streamErr, inHand, replStream, activeSess, lineNo, received, screen>>

(* SendPrompt: channels of its own for the turn; the RPC may be refused.   *)
SendPrompt(refused) ==
    /\ repl = "read" /\ lineNo < MaxLines
    /\ lineNo' = lineNo + 1
    /\ chunkCh' = <<>> /\ chunkDone' = FALSE
    /\ received' = [received EXCEPT !.text = 0, !.others = 0]
    /\ screen' = [screen EXCEPT !.text = <<>>, !.error = IF refused THEN "send failed" ELSE "none"]
    /\ replStream' = IF refused THEN "none" ELSE "open"
    /\ repl' = IF refused THEN "drain" ELSE "pull"
    /\ UNCHANGED <<eventCh, streamErr, inHand, activeSess>>

Arrives ==
    /\ replStream = "open" /\ inHand = HandEmpty
    /\ received.text + received.others < MaxReplParts

(* Recv of drainPromptStream.  A prompt without a session gets one first.  *)
RecvText ==
    /\ Arrives /\ activeSess
    /\ received' = [received EXCEPT !.text = @ + 1]
    /\ inHand' = <<"text", received.text + 1>>
    /\ UNCHANGED <<repl, chunkCh, eventCh, chunkDone, streamErr, replStream, activeSess, lineNo, screen>>

RecvOther ==
    /\ Arrives
    /\ activeSess' = TRUE
    /\ received' = [received EXCEPT !.others = @ + 1, !.notes = @ + 1]
    /\ inHand' = <<"note", received.notes + 1>>
    /\ UNCHANGED <<repl, chunkCh, eventCh, chunkDone, streamErr, replStream, lineNo, screen>>

(* The send to a channel, which waits for a place.                         *)
PassText ==
    /\ inHand # HandEmpty /\ inHand[1] = "text" /\ Len(chunkCh) < ReplRoom
    /\ chunkCh' = Append(chunkCh, inHand[2]) /\ inHand' = HandEmpty
    /\ UNCHANGED <<repl, eventCh, chunkDone, streamErr, replStream, activeSess, lineNo, received, screen>>

PassNote ==
    /\ inHand # HandEmpty /\ inHand[1] = "note" /\ Len(eventCh) < ReplRoom
    /\ eventCh' = Append(eventCh, inHand[2]) /\ inHand' = HandEmpty
    /\ UNCHANGED <<repl, chunkCh, chunkDone, streamErr, replStream, activeSess, lineNo, received, screen>>

(* A faulty variant: an error leaves chunkDone open.                       *)
EndStream_ForgetsDone(failed) ==
    /\ replStream = "open" /\ inHand = HandEmpty
    /\ replStream' = IF failed THEN "failed" ELSE "ended"
    /\ streamErr' = (failed \/ streamErr)
    /\ chunkDone' = ~failed
    /\ UNCHANGED <<repl, chunkCh, eventCh, inHand, activeSess, lineNo, received, screen>>

(* EOF or a Done part; an error of the stream or of the Done part is kept  *)
(* before chunkDone is closed.                                             *)
EndStream(failed) ==
    /\ replStream = "open" /\ inHand = HandEmpty
    /\ replStream' = IF failed THEN "failed" ELSE "ended"
    /\ streamErr' = (failed \/ streamErr)
    /\ chunkDone' = TRUE
    /\ UNCHANGED <<repl, chunkCh, eventCh, inHand, activeSess, lineNo, received, screen>>

(* NextAssistantChunk: a chunk, whichever case the select takes.           *)
ShowChunk ==
    /\ repl = "pull" /\ chunkCh # <<>>
    /\ chunkCh' = Tail(chunkCh)
    /\ screen' = [screen EXCEPT !.text = Append(@, Head(chunkCh))]
    /\ UNCHANGED <<repl, eventCh, chunkDone, streamErr, inHand, replStream, activeSess, lineNo, received>>

(* A faulty variant: the chunks that are left are not shown.               *)
EndTurn_NoDrain ==
    /\ repl = "pull" /\ chunkDone
    /\ repl' = "drain" /\ streamErr' = FALSE
    /\ screen' = [screen EXCEPT !.error = IF streamErr THEN "stream error"
                                        ELSE IF screen.text = <<>> THEN "empty stream" ELSE "none"]
    /\ UNCHANGED <<chunkCh, eventCh, chunkDone, inHand, replStream, activeSess, lineNo, received>>

(* chunkDone and no chunk left: the error, or the note that nothing came.  *)
EndTurn ==
    /\ repl = "pull" /\ chunkDone /\ chunkCh = <<>>
    /\ repl' = "drain" /\ streamErr' = FALSE
    /\ screen' = [screen EXCEPT !.error = IF streamErr THEN "stream error"
                                        ELSE IF screen.text = <<>> THEN "empty stream" ELSE "none"]
    /\ UNCHANGED <<chunkCh, eventCh, chunkDone, inHand, replStream, activeSess, lineNo, received>>

ReplLoop == ShowNote \/ Cue \/ ShowChunk \/ EndTurn
Drainer == PassText \/ PassNote \/ RecvText \/ RecvOther \/ \E failed \in BOOLEAN : EndStream(failed)

ReplNext ==
    \/ ReplLoop \/ Drainer
    \/ \E yes \in BOOLEAN : SendPrompt(yes) \/ ReadNothing(yes)

(* The loop and the drainer go on while they can, and every stream of the  *)
(* daemon comes to an end.                                                 *)
ReplFairness == WF_replVars(ReplLoop) /\ WF_replVars(Drainer)

ReplTypeOK ==
    /\ repl \in {"drain", "read", "pull", "over"}
    /\ replStream \in {"none", "open", "ended", "failed"}
    /\ chunkDone \in BOOLEAN /\ streamErr \in BOOLEAN /\ activeSess \in BOOLEAN
    /\ lineNo \in 0..MaxLines
    /\ Len(chunkCh) <= ReplRoom /\ Len(eventCh) <= ReplRoom
    /\ screen.error \in {"none", "send failed", "stream error", "empty stream"}

-----------------------------------------------------------------------------

Handed(what) == IF inHand # HandEmpty /\ inHand[1] = what THEN <<inHand[2]>> ELSE <<>>

(* What drainPromptStream received is on the screen, in a channel or in    *)
(* its hand, once and in order: text of the turn, notes of all turns.      *)
(* When a turn is over its text is all on the screen, an error was told,   *)
(* and a turn that showed nothing said so (loop.go:132-179).               *)
ReplShowsTheTurn ==
    /\ ReplTypeOK
    /\ screen.text \o chunkCh \o Handed("text") = [n \in 1..received.text |-> n]
    /\ screen.notes \o eventCh \o Handed("note") = [n \in 1..received.notes |-> n]
    /\ repl # "pull" /\ lineNo > 0 =>
         /\ Len(screen.text) = received.text
         /\ replStream = "failed" => screen.error = "stream error"
         /\ screen.text = <<>> => screen.error # "none"
         /\ screen.error = "stream error" => replStream = "failed"

(* A turn comes to its end, unless what the tools do in it fills eventCh,  *)
(* which the loop empties only after the turn (grpc_client.go:197-266).    *)
ReplTurnEnds == repl = "pull" ~> (repl # "pull" \/ Len(eventCh) = ReplRoom)

=============================================================================
