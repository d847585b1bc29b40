------------------------------ MODULE ChatTurn ------------------------------
(***************************************************************************)
(* SessionService.Prompt and the message log of a session                  *)
(* (server/internal/service/session_prompt.go): what the prompts of one    *)
(* session put into the log, and what they send to the provider.           *)
(*                                                                         *)
(* A message is told apart by its kind, its prompt, and how many tool      *)
(* calls it makes or answers.  The tools are those that leave the log      *)
(* alone, and reset_session (agent_tools_verbs.go).                        *)
(***************************************************************************)
EXTENDS Integers, Sequences

CONSTANTS
    Callers,   \* Prompt calls
    MaxTurns,  \* maxAgentTurns
    MaxAsks    \* bound: tool calls of one response

ASSUME ChatAssumption == MaxTurns \in Nat \ {0} /\ MaxAsks \in Nat \ {0}

VARIABLES
    history,  \* chatHistory.all of the session
    caller,   \* a Prompt call: its step, its messages, turns, open calls and results
    broken,   \* history: a call left the log with tool calls that have no results
    cleared,  \* history: a tool cleared the log under a call
    mixed     \* history: two calls were in the log together

chatVars == <<history, caller, broken, cleared, mixed>>

User(c) == [kind |-> "user", by |-> c, n |-> 0]
Reply(c, n) == [kind |-> "assistant", by |-> c, n |-> n]
Results(c, n) == [kind |-> "results", by |-> c, n |-> n]

At(step) == [step |-> step, msgs |-> <<>>, turn |-> 0, asked |-> 0, done |-> 0]

ChatInit ==
    /\ history = <<>>
    /\ caller = [c \in Callers |-> At("new")]
    /\ broken = FALSE
    /\ cleared = FALSE
    /\ mixed = FALSE

Step(c, from, to) == caller[c].step = from /\ caller' = [caller EXCEPT ![c].step = to]

(* The handler returns; its copy of the messages goes with it. *)
Return(c, from, how) == caller[c].step = from /\ caller' = [caller EXCEPT ![c] = At(how)]

(* Calls that have read the log and may still write to it. *)
InLog(c) == caller[c].step \in {"read", "asking", "calling"}

(* The session is created or looked up and the provider resolved; a call   *)
(* with no text is refused once it has read the log.                       *)
Resolve(c) ==
    /\ Step(c, "new", "resolved")
    /\ UNCHANGED <<history, broken, cleared, mixed>>

Refuse(c) ==
    /\ Return(c, "new", "error")
    /\ UNCHANGED <<history, broken, cleared, mixed>>

(* The log is copied in one critical section and the user's message       *)
(* appended in another.                                                    *)
ReadLog(c) ==
    /\ caller[c].step = "resolved"
    /\ caller' = [caller EXCEPT ![c].step = "read", ![c].msgs = Append(history, User(c))]
    /\ mixed' = (mixed \/ \E d \in Callers : InLog(d))
    /\ UNCHANGED <<history, broken, cleared>>

(* A faulty variant: a prompt waits for the others before it logs.         *)
LogUser_Waits(c) ==
    /\ Step(c, "read", "asking")
    /\ \A d \in Callers \ {c} : ~InLog(d)
    /\ history' = Append(history, User(c))
    /\ UNCHANGED <<broken, cleared, mixed>>

LogUser(c) ==
    /\ Step(c, "read", "asking")
    /\ history' = Append(history, User(c))
    /\ UNCHANGED <<broken, cleared, mixed>>

(* An unknown agent, a failing provider or a client that is gone before   *)
(* the text is sent: the log keeps what is there.                          *)
GiveUpAsking(c) ==
    /\ Return(c, "asking", "error")
    /\ UNCHANGED <<history, broken, cleared, mixed>>

(* A response without tool calls ends the loop. *)
Conclude(c) ==
    /\ Return(c, "asking", "done")
    /\ history' = Append(history, Reply(c, 0))
    /\ UNCHANGED <<broken, cleared, mixed>>

Call(c, n) ==
    /\ caller[c].step = "asking"
    /\ caller' = [caller EXCEPT ![c].step = "calling", ![c].asked = n, ![c].done = 0,
                                ![c].msgs = Append(@, Reply(c, n))]
    /\ history' = Append(history, Reply(c, n))
    /\ UNCHANGED <<broken, cleared, mixed>>

(* One tool call: its part is sent, the tool runs, its result is sent.    *)
RunTool(c) ==
    /\ caller[c].step = "calling" /\ caller[c].done < caller[c].asked
    /\ caller' = [caller EXCEPT ![c].done = @ + 1]
    /\ UNCHANGED <<history, broken, cleared, mixed>>

RunReset(c) ==
    /\ caller[c].step = "calling" /\ caller[c].done < caller[c].asked
    /\ caller' = [caller EXCEPT ![c].done = @ + 1]
    /\ history' = <<>>
    /\ cleared' = TRUE
    /\ UNCHANGED <<broken, mixed>>

(* stream.Send fails before or after a tool ran: the client is gone.      *)
LoseClient(c) ==
    /\ Return(c, "calling", "error")
    /\ broken' = TRUE
    /\ UNCHANGED <<history, cleared, mixed>>

(* Faulty variants: one turn too many; results that only the log gets.     *)
Feedback_OneMore(c) ==
    LET results == Results(c, caller[c].asked)
    IN  /\ caller[c].step = "calling" /\ caller[c].done = caller[c].asked
        /\ caller' = [caller EXCEPT ![c] =
             IF caller[c].turn = MaxTurns + 1 THEN At("done")
             ELSE [At("asking") EXCEPT !.msgs = Append(caller[c].msgs, results), !.turn = caller[c].turn + 1]]
        /\ history' = Append(history, results)
        /\ UNCHANGED <<broken, cleared, mixed>>

Feedback_OnlyLogs(c) ==
    LET results == Results(c, caller[c].asked)
    IN  /\ caller[c].step = "calling" /\ caller[c].done = caller[c].asked
        /\ caller' = [caller EXCEPT ![c] =
             IF caller[c].turn + 1 = MaxTurns THEN At("done")
             ELSE [At("asking") EXCEPT !.msgs = caller[c].msgs, !.turn = caller[c].turn + 1]]
        /\ history' = Append(history, results)
        /\ UNCHANGED <<broken, cleared, mixed>>

(* All results are in: one message for them, and the next turn, if any.   *)
Feedback(c) ==
    LET results == Results(c, caller[c].asked)
    IN  /\ caller[c].step = "calling" /\ caller[c].done = caller[c].asked
        /\ caller' = [caller EXCEPT ![c] =
             IF caller[c].turn + 1 = MaxTurns THEN At("done")
             ELSE [At("asking") EXCEPT !.msgs = Append(caller[c].msgs, results), !.turn = caller[c].turn + 1]]
        /\ history' = Append(history, results)
        /\ UNCHANGED <<broken, cleared, mixed>>

(* The log lives in memory only. *)
RestartDaemon ==
    /\ \E c \in Callers : caller[c].step # "new"
    /\ history' = <<>>
    /\ caller' = [c \in Callers |->
         IF caller[c].step \in {"new", "done", "error"} THEN caller[c]
         ELSE At("error")]
    /\ broken' = FALSE /\ cleared' = FALSE /\ mixed' = FALSE

Progress(c) ==
    \/ Resolve(c) \/ Refuse(c) \/ ReadLog(c) \/ LogUser(c) \/ GiveUpAsking(c) \/ Conclude(c)
    \/ \E n \in 1..MaxAsks : Call(c, n)
    \/ RunTool(c) \/ RunReset(c) \/ LoseClient(c) \/ Feedback(c)

ChatNext == RestartDaemon \/ \E c \in Callers : Progress(c)

(* A prompt that has begun goes on: every send fails or succeeds, the     *)
(* provider and the tools have timeouts or the client's context.           *)
ChatFairness == \A c \in Callers : WF_chatVars(caller[c].step # "new" /\ Progress(c))

ChatSpec == ChatInit /\ [][ChatNext]_chatVars /\ ChatFairness

-----------------------------------------------------------------------------

Messages == {User(c) : c \in Callers}
            \cup {Reply(c, n) : c \in Callers, n \in 0..MaxAsks}
            \cup {Results(c, n) : c \in Callers, n \in 1..MaxAsks}

ChatTypeOK ==
    /\ broken \in BOOLEAN /\ cleared \in BOOLEAN /\ mixed \in BOOLEAN
    /\ history \in Seq(Messages)
    /\ caller \in [Callers -> [step : {"new", "resolved", "read", "asking", "calling", "done", "error"},
                               msgs : Seq(Messages), turn : 0..MaxTurns,
                               asked : 0..MaxAsks, done : 0..MaxAsks]]

(* What a provider accepts: each message with tool calls is followed by    *)
(* the results of just these calls, and results follow nothing else.       *)
Answered(log) ==
    \A i \in DOMAIN log :
        /\ log[i].kind = "assistant" /\ log[i].n > 0 =>
             i < Len(log) /\ log[i + 1] = Results(log[i].by, log[i].n)
        /\ log[i].kind = "results" => i > 1 /\ log[i - 1] = Reply(log[i].by, log[i].n)

(* What a prompt sends is well formed, and each tool call in it has its    *)
(* results, unless a client went away in the middle of a turn, a tool      *)
(* cleared the log, or two prompts shared it.  What one prompt adds to its *)
(* own copy can never spoil it, whatever happens to the log meanwhile.     *)
SendsWhatItMay ==
    \A c \in Callers :
        caller[c].step = "asking" /\ ~broken /\ ~cleared /\ ~mixed => Answered(caller[c].msgs)

(* Every Prompt call that has been let in returns, after at most MaxTurns  *)
(* turns of the loop.                                                      *)
PromptReturns ==
    \A c \in Callers : caller[c].step = "resolved" ~> caller[c].step \in {"done", "error"}

=============================================================================
