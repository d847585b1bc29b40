------------------------------ MODULE ChatPump ------------------------------
(***************************************************************************)
(* The chat window of the TUI: chatModel.Update and the commands that read *)
(* the reply of a prompt (tui/internal/app/chat_model.go, chat_stream.go,  *)
(* agent_tree.go).                                                         *)
(*                                                                         *)
(* A command runs in a goroutine of its own and ends with a message, which *)
(* Update takes, one at a time and in any order.  A command that reads one *)
(* part of a reply is followed by another on promptStream, whatever stream *)
(* the part was of.  Of a part the model keeps whether it is a call of a   *)
(* tool, for the tree of turns, and of a message the stream and its place, *)
(* which tell messages apart and are not looked at, but for the transcript.*)
(***************************************************************************)
EXTENDS Integers, Sequences, FiniteSets

CONSTANTS
    MaxSubmits,   \* bound: prompts
    MaxChatParts  \* bound: parts of one reply

ASSUME PumpAssumption == MaxSubmits \in Nat /\ MaxChatParts \in Nat

VARIABLES
    submits,      \* prompts submitted; a stream has the number of its prompt
    reply,        \* of each prompt's stream: "none", "opening", "open", "cancelled", "ended"
    promptStream, promptCancel, \* 0, or a stream
    activeID,     \* 0, or the session: the prompt it was allocated for
    askedOf,      \* the session each prompt was sent to
    pumps,        \* how many commands read from each stream
    taken,        \* how often each stream was read
    inbox,        \* the messages on their way to Update
    transcript,   \* <<prompt, 0>> for its line, then <<prompt, place>> of parts
    agentTurns,   \* AgentTree: its turns, with the calls in them
    overlapped    \* a prompt was submitted before all was quiet

pumpVars == <<submits, reply, promptStream, promptCancel, activeID, askedOf, pumps, taken, inbox, transcript, agentTurns, overlapped>>

Submitted == 1..MaxSubmits

PumpInit ==
    /\ submits = 0 /\ promptStream = 0 /\ promptCancel = 0 /\ activeID = 0
    /\ reply = [n \in Submitted |-> "none"]
    /\ askedOf = [n \in Submitted |-> 0]
    /\ pumps = [n \in Submitted |-> 0]
    /\ taken = [n \in Submitted |-> 0]
    /\ inbox = {} /\ transcript = <<>> /\ agentTurns = <<>> /\ overlapped = FALSE

Quiet == inbox = {} /\ \A n \in Submitted : pumps[n] = 0 /\ reply[n] # "opening"

(* Enter: the reply that is still read is cancelled.                       *)
Submit ==
    LET n == submits + 1
    IN  /\ submits < MaxSubmits
        /\ submits' = n
        /\ transcript' = Append(transcript, <<n, 0>>)
        /\ reply' = [s \in Submitted |-> IF s = n THEN "opening"
                                         ELSE IF s = promptCancel /\ reply[s] = "open" THEN "cancelled"
                                         ELSE reply[s]]
        /\ promptStream' = IF promptCancel = 0 THEN promptStream ELSE 0
        /\ promptCancel' = 0
        /\ askedOf' = [askedOf EXCEPT ![n] = activeID]
        /\ overlapped' = (overlapped \/ ~Quiet)
        /\ UNCHANGED <<activeID, pumps, taken, inbox, agentTurns>>

Post(msg) == inbox' = inbox \cup {msg}

(* startChatPromptCmd *)
OpenPrompt(n, opened) ==
    /\ reply[n] = "opening"
    /\ reply' = [reply EXCEPT ![n] = IF opened THEN "open" ELSE "ended"]
    /\ Post(<<IF opened THEN "started" ELSE "err", n, 0>>)
    /\ UNCHANGED <<submits, promptStream, promptCancel, activeID, askedOf, pumps, taken, transcript, agentTurns, overlapped>>

(* What Recv may return: a first prompt allocates a session, a cancelled   *)
(* stream may still give a part, an ended one gives none.                  *)
Received(n) ==
    LET place == taken[n] + 1
        parts == IF place = 1 /\ askedOf[n] = 0 THEN {"session"} ELSE {"text", "call"}
    IN  (IF reply[n] \in {"open", "cancelled"} /\ place <= MaxChatParts
         THEN {<<kind, n, place>> : kind \in parts} ELSE {})
        \cup {<<"err", n, place>>}
        \cup (IF reply[n] = "cancelled" THEN {} ELSE {<<"done", n, place>>})

(* nextChatPromptEventCmd *)
ReadPart(n) ==
    /\ pumps[n] > 0
    /\ \E msg \in Received(n) :
         /\ Post(msg)
         /\ reply' = [reply EXCEPT ![n] = IF msg[1] \in {"done", "err"} THEN "ended" ELSE @]
    /\ pumps' = [pumps EXCEPT ![n] = @ - 1]
    /\ taken' = [taken EXCEPT ![n] = @ + 1]
    /\ UNCHANGED <<submits, promptStream, promptCancel, activeID, askedOf, transcript, agentTurns, overlapped>>

(* A faulty variant: reads on only once.                                   *)
Pumped_NeverTwice(stream) == IF stream = 0 \/ \E n \in Submitted : taken[n] > 1 THEN pumps ELSE [pumps EXCEPT ![stream] = @ + 1]

Pumped(stream) == IF stream = 0 THEN pumps ELSE [pumps EXCEPT ![stream] = @ + 1]

Opened(turns) == Append(turns, [closed |-> FALSE, calls |-> {}])

(* OnToolCall: to the last turn, or to a new one when it is closed.        *)
WithCall(turns, call) ==
    LET ts == IF turns = <<>> \/ turns[Len(turns)].closed THEN Opened(turns) ELSE turns
    IN  [ts EXCEPT ![Len(ts)].calls = @ \cup {call}]

OnStarted(n) ==
    /\ <<"started", n, 0>> \in inbox
    /\ inbox' = inbox \ {<<"started", n, 0>>}
    /\ promptStream' = n /\ promptCancel' = n
    /\ pumps' = Pumped(n)
    /\ agentTurns' = Opened(agentTurns)
    /\ UNCHANGED <<submits, reply, activeID, askedOf, taken, transcript, overlapped>>

(* The handlers of the parts, each of which reads on.                      *)
OnPart(msg) ==
    /\ msg \in inbox /\ msg[1] \in {"session", "text", "call"}
    /\ inbox' = inbox \ {msg}
    /\ activeID' = IF msg[1] = "session" THEN msg[2] ELSE activeID
    /\ transcript' = IF msg[1] = "session" THEN transcript ELSE Append(transcript, <<msg[2], msg[3]>>)
    /\ agentTurns' = IF msg[1] = "call" THEN WithCall(agentTurns, <<msg[2], msg[3]>>) ELSE agentTurns
    /\ pumps' = Pumped(promptStream)
    /\ UNCHANGED <<submits, reply, promptStream, promptCancel, askedOf, taken, overlapped>>

(* chatStreamDoneMsg and chatStreamErrMsg say nothing of their stream; an  *)
(* error leaves the turn of the tree open.                                 *)
OnEnd(msg) ==
    /\ msg \in inbox /\ msg[1] \in {"done", "err"}
    /\ inbox' = inbox \ {msg}
    /\ promptStream' = 0
    /\ agentTurns' = IF msg[1] = "done" /\ agentTurns # <<>>
                     THEN [agentTurns EXCEPT ![Len(agentTurns)].closed = TRUE] ELSE agentTurns
    /\ UNCHANGED <<submits, reply, promptCancel, activeID, askedOf, pumps, taken, transcript, overlapped>>

PumpNext ==
    \/ Submit
    \/ \E n \in Submitted :
         \/ \E opened \in BOOLEAN : OpenPrompt(n, opened)
         \/ ReadPart(n)
         \/ OnStarted(n)
    \/ \E msg \in inbox : OnPart(msg) \/ OnEnd(msg)

PumpSpec == PumpInit /\ [][PumpNext]_pumpVars

PumpTypeOK ==
    /\ submits \in 0..MaxSubmits
    /\ reply \in [Submitted -> {"none", "opening", "open", "cancelled", "ended"}]
    /\ {promptStream, promptCancel, activeID} \subseteq 0..MaxSubmits
    /\ askedOf \in [Submitted -> 0..MaxSubmits]
    /\ pumps \in [Submitted -> Nat] /\ taken \in [Submitted -> Nat]
    /\ inbox \subseteq {"started", "session", "text", "call", "done", "err"} \X Submitted \X Nat

-----------------------------------------------------------------------------

(* While no prompt was submitted before the last reply was over, a reply   *)
(* is shown in its order, under its line and in a turn of its own, one     *)
(* command at most reads it, and when all is quiet it has been read to its *)
(* end; a prompt that follows one that was told its session is sent there  *)
(* (chat_model.go:128-271).                                                *)
ChatShowsTheTurn ==
    /\ PumpTypeOK
    /\ ~overlapped =>
         /\ \A i, j \in 1..Len(transcript) :
               i < j => \/ transcript[i][1] < transcript[j][1]
                        \/ transcript[i][1] = transcript[j][1] /\ transcript[i][2] < transcript[j][2]
         /\ \A t \in 1..Len(agentTurns) : \A c, d \in agentTurns[t].calls : c[1] = d[1]
         /\ Cardinality(inbox) <= 1
         /\ Quiet /\ submits > 0 => reply[submits] = "ended"
         /\ \A n \in activeID+1..submits : activeID > 0 => askedOf[n] = activeID

(* "Cancel any in-flight prompt stream from a previous turn so the new     *)
(* submit takes priority" (chat_model.go:148-149): when all is quiet the   *)
(* reply to the newest prompt has been read to its end.                    *)
NewestIsRead == Quiet /\ submits > 0 => reply[submits] = "ended"

=============================================================================
