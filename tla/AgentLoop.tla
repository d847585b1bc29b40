----------------------------- MODULE AgentLoop -----------------------------
(***************************************************************************)
(* One run of the agent loop: AgentLoop.Run in core/runner/runner.go, with *)
(* its budget, stuck counter, verification and grace call (grace.go), the  *)
(* compaction of its history (core/compact/compactor.go), and PostHint     *)
(* (server/internal/service/run_extras.go), which reaches into it while it *)
(* runs: it writes a note that the loop reads and clears without a lock,   *)
(* so the read and the clear are a step each.                              *)
(*                                                                         *)
(* RequestCompact makes a compaction due that a full window, which is left *)
(* to chance here, may make due at any time; it is not modelled.           *)
(*                                                                         *)
(* A message is what it is and whose turn it belongs to; an assistant's    *)
(* has a number of tool calls, a user's a number of tool results.  Whether *)
(* a tool is allowed is AskGate's matter: allowed or not, a call has one   *)
(* result.  The service wires no recovery strategy, so a stuck signal is   *)
(* never recovered from, and strategies are left out.                      *)
(***************************************************************************)
EXTENDS Integers, Sequences

CONSTANTS
    MaxIter,      \* spec.budget.max_iterations
    Cap,          \* the budget in each, 0 for none
    SpecReserve,  \* spec.budget.reserve_tokens
    DefaultReserve, \* defaultBudgetReserveTokens
    Charges,      \* what a response may cost in each
    Threshold,    \* unrecovered stuck signals that end a run
    MaxSignals,   \* bound: the signals of one check
    MaxCalls,     \* bound: the tool calls of one response
    HeadKeep, TailKeep, MinMiddle, \* Compactor's fields
    HasChecks,    \* whether the spec has verification checks
    NoGrace,
    Hints         \* bound: the hints ever posted, each once

NoNote == "no note"

\* What is budgeted.
Dims == {"tokens", "cost"}

ASSUME LoopAssumption ==
    /\ MaxIter \in Nat \ {0}
    /\ Cap \in [Dims -> Nat]
    /\ SpecReserve \in Int
    /\ DefaultReserve \in Nat
    /\ Charges \subseteq [Dims -> Nat]
    /\ Threshold \in Nat \ {0}
    /\ MaxCalls \in Nat
    /\ MaxSignals \in Nat
    /\ HeadKeep \in Nat \ {0} /\ TailKeep \in Nat \ {0} /\ MinMiddle \in Nat \ {0}
    /\ HasChecks \in BOOLEAN /\ NoGrace \in BOOLEAN
    /\ NoNote \notin Hints

VARIABLES
    pc,         \* where Run has got to
    iter,       \* its iteration
    msgs,       \* the conversation
    used,       \* totalTokens and totalCostUSD
    missed,     \* unrecovered
    note,       \* extraSystemNote
    taken,      \* the note in this iteration's system prompt
    calls,      \* the tool calls of the last response
    results,    \* how many of them have a result
    verified,   \* the last verification passed, and no tool has run since
    reason,     \* why the loop was left
    result,     \* Result.Status
    posted,     \* history: the hints in the order they were posted
    heard       \* history: the notes that went into a system prompt

loopVars == <<pc, iter, msgs, used, missed, taken, calls, results, verified, reason, result, heard>>
sharedVars == <<note, posted>>
vars == <<loopVars, sharedVars>>

Seed == [kind |-> "seed", turn |-> 0, n |-> 0]
Summary == [kind |-> "summary", turn |-> 0, n |-> 0]
Reply(i, n) == [kind |-> "reply", turn |-> i, n |-> n]
Results(i, n) == [kind |-> "results", turn |-> i, n |-> n]
Feedback(i) == [kind |-> "feedback", turn |-> i, n |-> 0]

Init ==
    /\ pc = "next"
    /\ iter = 0
    /\ msgs = <<Seed>>
    /\ used = [d \in Dims |-> 0]
    /\ missed = 0
    /\ note = NoNote
    /\ taken = NoNote
    /\ calls = 0
    /\ results = 0
    /\ verified = FALSE
    /\ reason = "none"
    /\ result = "none"
    /\ posted = <<>>
    /\ heard = <<>>

-----------------------------------------------------------------------------
(* The budget. *)

\* What is held back of the token budget: what the spec says, a negative
\* number for nothing, or else a tenth of the budget up to a default.
Reserve ==
    IF SpecReserve < 0 THEN 0
    ELSE IF SpecReserve > 0 THEN SpecReserve
    ELSE IF Cap["tokens"] > 0 /\ Cap["tokens"] \div 10 < DefaultReserve
         THEN Cap["tokens"] \div 10
         ELSE DefaultReserve

\* The use at which the loop stops.
Limit(d) ==
    IF d = "cost" THEN Cap[d]
    ELSE IF Cap[d] - Reserve > 0 THEN Cap[d] - Reserve ELSE 1

Spent(u, d) == Cap[d] > 0 /\ u[d] >= Limit(d)

Charge(u, c) == [d \in Dims |-> u[d] + c[d]]

-----------------------------------------------------------------------------
(* The top of an iteration. *)

NextIteration ==
    /\ pc = "next"
    /\ iter < MaxIter
    /\ iter' = iter + 1
    /\ pc' = "compacting"
    /\ UNCHANGED <<msgs, used, missed, taken, calls, results, verified, reason, result, heard, sharedVars>>

OutOfIterations ==
    /\ pc = "next"
    /\ iter = MaxIter
    /\ reason' = "max_iter"
    /\ pc' = "exiting"
    /\ UNCHANGED <<iter, msgs, used, missed, taken, calls, results, verified, result, heard, sharedVars>>

\* A faulty variant: one message too few kept at the end.
Compacted_ShortTail(m) ==
    SubSeq(m, 1, HeadKeep) \o <<Summary>> \o SubSeq(m, Len(m) - TailKeep + 2, Len(m))

\* The middle becomes one message of the user's.
Compacted(m) ==
    SubSeq(m, 1, HeadKeep) \o <<Summary>> \o SubSeq(m, Len(m) - TailKeep + 1, Len(m))

\* The window is nearly full, or compaction was asked for.
Compact ==
    /\ pc = "compacting"
    /\ Len(msgs) - HeadKeep - TailKeep >= MinMiddle
    /\ msgs' = Compacted(msgs)
    /\ pc' = "reading note"
    /\ UNCHANGED <<iter, used, missed, taken, calls, results, verified, reason, result, heard, sharedVars>>

\* There is room, the history is too short, the last compactions saved too
\* little, or the summary could not be had.
DontCompact ==
    /\ pc = "compacting"
    /\ pc' = "reading note"
    /\ UNCHANGED <<iter, msgs, used, missed, taken, calls, results, verified, reason, result, heard, sharedVars>>

\* The system prompt is assembled.
ReadNote ==
    /\ pc = "reading note"
    /\ taken' = note
    /\ IF note = NoNote
       THEN pc' = "asking" /\ UNCHANGED heard
       ELSE pc' = "clearing note" /\ heard' = Append(heard, note)
    /\ UNCHANGED <<iter, msgs, used, missed, calls, results, verified, reason, result, sharedVars>>

\* A faulty variant: a note that stays.
ClearNote_Not ==
    /\ pc = "clearing note"
    /\ pc' = "asking"
    /\ UNCHANGED <<iter, msgs, used, missed, taken, calls, results, verified, reason, result, heard, sharedVars>>

ClearNote ==
    /\ pc = "clearing note"
    /\ note' = NoNote
    /\ pc' = "asking"
    /\ UNCHANGED <<iter, msgs, used, missed, taken, calls, results, verified, reason, result, heard, posted>>

-----------------------------------------------------------------------------
(* The response. *)

\* Provider.Complete fails: Run returns at once.
ProviderFails ==
    /\ pc = "asking"
    /\ result' = "error"
    /\ pc' = "over"
    /\ UNCHANGED <<iter, msgs, used, missed, taken, calls, results, verified, reason, heard, sharedVars>>

\* A faulty variant: the budget checked before the response is paid for.
Respond_ChecksFirst(n, c) ==
    /\ pc = "asking"
    /\ used' = Charge(used, c)
    /\ calls' = n
    /\ results' = 0
    /\ IF \E d \in Dims : Spent(used, d)
       THEN pc' = "exiting" /\ reason' = IF Spent(used, "tokens") THEN "tokens" ELSE "cost"
       ELSE pc' = "checking" /\ UNCHANGED reason
    /\ UNCHANGED <<iter, msgs, missed, taken, verified, result, heard, sharedVars>>

\* A response with n tool calls is paid for; the loop is left if that is more
\* than the budget less its reserve.
Respond(n, c) ==
    /\ pc = "asking"
    /\ used' = Charge(used, c)
    /\ calls' = n
    /\ results' = 0
    /\ IF \E d \in Dims : Spent(used', d)
       THEN pc' = "exiting" /\ reason' = IF Spent(used', "tokens") THEN "tokens" ELSE "cost"
       ELSE pc' = "checking" /\ UNCHANGED reason
    /\ UNCHANGED <<iter, msgs, missed, taken, verified, result, heard, sharedVars>>

\* The detector finds k patterns in the recent events.
CheckStuck(k) ==
    /\ pc = "checking"
    /\ missed' = missed + k
    /\ IF missed' >= Threshold
       THEN pc' = "exiting" /\ reason' = "stuck"
       ELSE pc' = "answering" /\ UNCHANGED reason
    /\ UNCHANGED <<iter, msgs, used, taken, calls, results, verified, result, heard, sharedVars>>

\* A faulty variant: a reply without tool calls is asked for again.
Answer_AsksAgain ==
    /\ pc = "answering"
    /\ IF calls = 0
       THEN pc' = "asking" /\ UNCHANGED msgs
       ELSE pc' = "calling" /\ msgs' = Append(msgs, Reply(iter, calls))
    /\ UNCHANGED <<iter, used, missed, taken, calls, results, verified, reason, result, heard, sharedVars>>

\* The assistant's turn is appended; one without tool calls means it is done.
Answer ==
    /\ pc = "answering"
    /\ msgs' = Append(msgs, Reply(iter, calls))
    /\ pc' = IF calls = 0 THEN "verifying" ELSE "calling"
    /\ UNCHANGED <<iter, used, missed, taken, calls, results, verified, reason, result, heard, sharedVars>>

\* All checks pass.  The memory milestone may cost one more response, and a
\* last checkpoint is made.
VerifyPasses ==
    /\ pc = "verifying"
    /\ verified' = TRUE
    /\ \/ UNCHANGED used
       \/ \E c \in Charges : used' = Charge(used, c)
    /\ result' = "done"
    /\ pc' = "over"
    /\ UNCHANGED <<iter, msgs, missed, taken, calls, results, reason, heard, sharedVars>>

\* A check fails, and the agent is told.
VerifyFails ==
    /\ pc = "verifying"
    /\ HasChecks
    /\ verified' = FALSE
    /\ msgs' = Append(msgs, Feedback(iter))
    /\ pc' = "next"
    /\ UNCHANGED <<iter, used, missed, taken, calls, results, reason, result, heard, sharedVars>>

\* One tool call is refused, is of no known tool, fails or runs: it has one
\* result in any case, and may have changed the workspace if it ran.
CallTool ==
    /\ pc = "calling"
    /\ results < calls
    /\ results' = results + 1
    /\ verified' \in {verified, FALSE}
    /\ UNCHANGED <<pc, iter, msgs, used, missed, taken, calls, reason, result, heard, sharedVars>>

\* The results are appended, and a checkpoint is made.
Conclude ==
    /\ pc = "calling"
    /\ results = calls
    /\ msgs' = Append(msgs, Results(iter, results))
    /\ pc' = "next"
    /\ UNCHANGED <<iter, used, missed, taken, calls, results, verified, reason, result, heard, sharedVars>>

-----------------------------------------------------------------------------
(* The end. *)

\* runFinalVerify; without checks it says nothing.
FinalVerify ==
    /\ pc = "exiting"
    /\ verified' \in IF HasChecks THEN BOOLEAN ELSE {verified}
    /\ pc' = "classifying"
    /\ UNCHANGED <<iter, msgs, used, missed, taken, calls, results, reason, result, heard, sharedVars>>

\* checkBudgetAndMaybeGrace: past the budget itself, reserve and all, the
\* agent is asked once more, for a hand-off.
Grace == ~NoGrace /\ \E d \in Dims : Cap[d] > 0 /\ used[d] >= Cap[d]

\* A faulty variant: the grace call made whatever is left.
Status_GraceAlways ==
    IF reason = "stuck" THEN "stuck"
    ELSE IF reason = "max_iter" THEN "max_iterations"
    ELSE "budget_exhausted_with_handoff"

Status ==
    IF reason = "stuck" THEN "stuck"
    ELSE IF reason = "max_iter" THEN "max_iterations"
    ELSE IF Grace THEN "budget_exhausted_with_handoff"
    ELSE IF ~HasChecks THEN "budget_exhausted"
    ELSE IF verified THEN "budget_exhausted_verify_passed"
    ELSE "budget_exhausted_verify_failed"

Classify ==
    /\ pc = "classifying"
    /\ result' = Status
    /\ pc' = "over"
    /\ UNCHANGED <<iter, msgs, used, missed, taken, calls, results, verified, reason, heard, sharedVars>>

-----------------------------------------------------------------------------

\* QueueSystemNote, while the loop is registered.
PostHint(h) ==
    /\ pc # "over"
    /\ \A i \in 1..Len(posted) : posted[i] # h
    /\ note' = h
    /\ posted' = Append(posted, h)
    /\ UNCHANGED loopVars

Step ==
    \/ NextIteration \/ OutOfIterations \/ Compact \/ DontCompact \/ ReadNote \/ ClearNote
    \/ ProviderFails \/ Answer \/ VerifyPasses \/ VerifyFails \/ CallTool \/ Conclude
    \/ FinalVerify \/ Classify
    \/ \E n \in 0..MaxCalls, c \in Charges : Respond(n, c)
    \/ \E k \in 0..MaxSignals : CheckStuck(k)

Next == Step \/ \E h \in Hints : PostHint(h)

Safety == Init /\ [][Next]_vars

\* The loop runs on: a provider answers or fails (its client has a timeout),
\* and tools and checks end.
Spec == Safety /\ WF_vars(Step)

-----------------------------------------------------------------------------
(* Properties. *)

MessageType ==
    [kind : {"seed", "summary", "reply", "results", "feedback"}, turn : 0..MaxIter, n : 0..MaxCalls]

\* Every variable has its type; a turn has no more results than calls.
TypeOK ==
    /\ pc \in {"next", "compacting", "reading note", "clearing note", "asking", "checking",
               "answering", "verifying", "calling", "exiting", "classifying", "over"}
    /\ iter \in 0..MaxIter
    /\ msgs \in Seq(MessageType)
    /\ used \in [Dims -> Nat]
    /\ missed \in Nat
    /\ note \in Hints \cup {NoNote}
    /\ taken \in Hints \cup {NoNote}
    /\ calls \in 0..MaxCalls
    /\ results \in 0..calls
    /\ verified \in BOOLEAN
    /\ reason \in {"none", "tokens", "cost", "stuck", "max_iter"}
    /\ result \in {"none", "done", "error", "stuck", "max_iterations", "budget_exhausted",
                   "budget_exhausted_with_handoff", "budget_exhausted_verify_passed",
                   "budget_exhausted_verify_failed"}
    /\ posted \in Seq(Hints)
    /\ heard \in Seq(Hints)

ByAgent(m) == m.kind = "reply"

\* The two sides take turns in what is sent to the provider, which begins and
\* ends with the user's, and tool results follow the calls they answer: no
\* compaction tears them off.
TurnsAlternate ==
    pc = "asking" =>
        /\ ~ByAgent(msgs[1]) /\ ~ByAgent(msgs[Len(msgs)])
        /\ \A i \in 1..(Len(msgs) - 1) :
            /\ ByAgent(msgs[i]) # ByAgent(msgs[i + 1])
            /\ msgs[i + 1].kind = "results" => msgs[i] = Reply(msgs[i + 1].turn, msgs[i + 1].n)

\* Every tool call sent to the provider is followed by its results.
CallsAreAnswered ==
    pc = "asking" => \A i \in 1..Len(msgs) :
        msgs[i].kind = "reply" /\ msgs[i].n > 0 =>
            i < Len(msgs) /\ msgs[i + 1] = Results(msgs[i].turn, msgs[i].n)

\* The status says what happened: a hand-off is reported for an overrun of the
\* budget itself, any other exhaustion for one that ate into the reserve only
\* or had no grace, being stuck or out of iterations for a run within its
\* budget, and verified work only if no tool has run since its checks passed.
StatusFitsUse ==
    /\ result \in {"done", "budget_exhausted_verify_passed"} => verified
    /\ result \notin {"none", "done", "error"} =>
        LET over == \E d \in Dims : Spent(used, d)
        IN  /\ result = "budget_exhausted_with_handoff" <=> Grace /\ over
            /\ result = "stuck" <=> ~over /\ missed >= Threshold
            /\ result = "max_iterations" <=> ~over /\ missed < Threshold

\* No further turn is asked of the provider once a budget is spent or the
\* loop is stuck, and none beyond the iterations.
NoTurnTooMany ==
    [][pc' = "asking" /\ pc # "asking" =>
        /\ \A d \in Dims : ~Spent(used, d)
        /\ missed < Threshold
        /\ iter <= MaxIter]_vars

\* A hint goes into one system prompt at most, and hints in the order in which
\* they were posted, whenever they come.
HintsComeOnce ==
    /\ \A i, j \in 1..Len(heard) : heard[i] = heard[j] => i = j
    /\ \A i, j \in 1..Len(heard) : i < j =>
        \E p, q \in 1..Len(posted) : p < q /\ posted[p] = heard[i] /\ posted[q] = heard[j]

=============================================================================
