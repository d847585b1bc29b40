------------------------------ MODULE Clarify ------------------------------
(***************************************************************************)
(* The questions a run asks its user (makeClarifyCallback and              *)
(* AnswerClarification of run.go): a table of channels per session, from   *)
(* which callbacks, answers and the end of a run take what they need in    *)
(* critical sections, and on which they act outside them.                  *)
(***************************************************************************)
CONSTANTS
    Sessions,   \* the runs of one session
    Questions,  \* the clarify calls, each with its ask_id
    Answers,    \* AnswerClarification calls
    Nobody      \* no run, no answer

ASSUME ClarifyAssumption == Nobody \notin Answers

VARIABLES
    going,      \* the runs in flight
    ran,        \* the runs that have begun
    asker,      \* the run that asks a question
    state,      \* how far a question's callback is
    table,      \* pendingClarifications: the questions in it
    chan,       \* the channel of a question: the answers in it, or closed
    closed,     \* the questions whose channel is closed
    answer,     \* an answer: its step and the question it is for
    reply,      \* the answer a callback returned with
    panicked,   \* a send on a closed channel
    crossed     \* history: two runs of the session were in flight

clarifyVars == <<going, ran, asker, state, table, chan, closed, answer, reply, panicked, crossed>>

ClarifyInit ==
    /\ going = {} /\ ran = {}
    /\ asker = [q \in Questions |-> Nobody]
    /\ state = [q \in Questions |-> "new"]
    /\ table = {} /\ closed = {}
    /\ chan = [q \in Questions |-> Nobody]
    /\ answer = [w \in Answers |-> [step |-> "new", to |-> Nobody]]
    /\ reply = [q \in Questions |-> Nobody]
    /\ panicked = FALSE /\ crossed = FALSE

BeginRun(r) ==
    /\ r \notin ran
    /\ ran' = ran \cup {r} /\ going' = going \cup {r}
    /\ crossed' = (crossed \/ going # {})
    /\ UNCHANGED <<asker, state, table, chan, closed, answer, reply, panicked>>

Advance(q, from, to) == state[q] = from /\ state' = [state EXCEPT ![q] = to]
Busy(r) == \E q \in Questions : asker[q] = r /\ state[q] \notin {"new", "over"}

(* The channel is in the table before the event tells its ask_id.          *)
RegisterQuestion(q, r) ==
    /\ r \in going /\ ~Busy(r)
    /\ Advance(q, "new", "registered")
    /\ asker' = [asker EXCEPT ![q] = r]
    /\ table' = table \cup {q}
    /\ UNCHANGED <<going, ran, chan, closed, answer, reply, panicked, crossed>>

PostQuestion(q) ==
    /\ Advance(q, "registered", "waiting")
    /\ UNCHANGED <<going, ran, asker, table, chan, closed, answer, reply, panicked, crossed>>

(* The select: an answer or the closing, a stop of the run or the timer.   *)
HearAnswer(q) ==
    /\ chan[q] # Nobody
    /\ Advance(q, "waiting", "leaving")
    /\ reply' = [reply EXCEPT ![q] = chan[q]]
    /\ chan' = [chan EXCEPT ![q] = Nobody]
    /\ UNCHANGED <<going, ran, asker, table, closed, answer, panicked, crossed>>

HearClosing(q) ==
    /\ q \in closed /\ chan[q] = Nobody
    /\ Advance(q, "waiting", "leaving")
    /\ UNCHANGED <<going, ran, asker, table, chan, closed, answer, reply, panicked, crossed>>

StopWaiting(q) ==
    /\ Advance(q, "waiting", "leaving")
    /\ UNCHANGED <<going, ran, asker, table, chan, closed, answer, reply, panicked, crossed>>

(* A faulty variant: a callback that has its answer leaves its entry.      *)
LeaveTable_OnlyUnheard(q) ==
    /\ Advance(q, "leaving", "over")
    /\ table' = IF reply[q] = Nobody THEN table \ {q} ELSE table
    /\ UNCHANGED <<going, ran, asker, chan, closed, answer, reply, panicked, crossed>>

LeaveTable(q) ==
    /\ Advance(q, "leaving", "over")
    /\ table' = table \ {q}
    /\ UNCHANGED <<going, ran, asker, chan, closed, answer, reply, panicked, crossed>>

(* AnswerClarification: the lookup, and the send behind it. *)
FindQuestion(w, q) ==
    /\ answer[w].step = "new" /\ state[q] \notin {"new", "registered"}
    /\ answer' = [answer EXCEPT ![w] = [step |-> IF q \in table THEN "found" ELSE "refused", to |-> q]]
    /\ UNCHANGED <<going, ran, asker, state, table, chan, closed, reply, panicked, crossed>>

SendAnswer(w) ==
    LET q == answer[w].to
    IN  /\ answer[w].step = "found" /\ ~panicked
        /\ IF q \in closed
           THEN panicked' = TRUE /\ UNCHANGED <<answer, chan>>
           ELSE IF chan[q] = Nobody
           THEN /\ chan' = [chan EXCEPT ![q] = w]
                /\ answer' = [answer EXCEPT ![w].step = "delivered"]
                /\ UNCHANGED panicked
           ELSE /\ answer' = [answer EXCEPT ![w].step = "refused"]
                /\ UNCHANGED <<chan, panicked>>
        /\ UNCHANGED <<going, ran, asker, state, table, closed, reply, crossed>>

(* The deferred cleanup of executeRun: it closes whatever the session's    *)
(* table holds.                                                            *)
EndRunOf(r) ==
    /\ r \in going /\ ~Busy(r)
    /\ going' = going \ {r}
    /\ closed' = closed \cup table /\ table' = {}
    /\ UNCHANGED <<ran, asker, state, chan, answer, reply, panicked, crossed>>

Callback(q) ==
    PostQuestion(q) \/ HearAnswer(q) \/ HearClosing(q) \/ StopWaiting(q) \/ LeaveTable(q)

ClarifyNext ==
    /\ ~panicked
    /\ \/ \E r \in Sessions : BeginRun(r) \/ EndRunOf(r)
       \/ \E q \in Questions : Callback(q) \/ \E r \in Sessions : RegisterQuestion(q, r)
       \/ \E w \in Answers : SendAnswer(w) \/ \E q \in Questions : FindQuestion(w, q)

ClarifySpec == ClarifyInit /\ [][ClarifyNext]_clarifyVars

-----------------------------------------------------------------------------

ClarifyTypeOK ==
    /\ going \subseteq ran /\ ran \subseteq Sessions
    /\ asker \in [Questions -> Sessions \cup {Nobody}]
    /\ state \in [Questions -> {"new", "registered", "waiting", "leaving", "over"}]
    /\ table \subseteq Questions /\ closed \subseteq Questions
    /\ chan \in [Questions -> Answers \cup {Nobody}] /\ reply \in [Questions -> Answers \cup {Nobody}]
    /\ answer \in [Answers -> [step : {"new", "found", "refused", "delivered"}, to : Questions \cup {Nobody}]]
    /\ panicked \in BOOLEAN /\ crossed \in BOOLEAN

(* What a callback hears was said of its question and reported delivered.  *)
(* While the runs of a session come one after the other, the end of a run  *)
(* finds the table empty: no question is closed under its callback, and    *)
(* no answer is sent on a closed channel, however late it comes.           *)
QuestionsAreHeard ==
    /\ \A q \in Questions : reply[q] # Nobody =>
         answer[reply[q]] = [step |-> "delivered", to |-> q]
    /\ ~crossed => /\ ~panicked /\ closed = {}
                   /\ \A q \in table : state[q] # "over" /\ asker[q] \in going

=============================================================================
