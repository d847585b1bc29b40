----------------------------- MODULE ToolProofs -----------------------------
(***************************************************************************)
(* The safety of what a session says and asks: its clarify questions       *)
(* (Clarify), for every number of runs, questions and answers, the log of  *)
(* its prompts (ChatTurn), for every number of prompts, turns and tool     *)
(* calls, its MCP servers (McpServers), for every number of prompts, runs  *)
(* and servers, and the clients that talk to a server process (RpcClient), *)
(* for every number of callers and calls; and of the edit tool             *)
(* (EditBlocks), that its blocks are read as they were written and land    *)
(* where and as they were meant, for every text, file and list of edits,   *)
(* and of apply_patch (PatchHunks), that its hunks are read as they were   *)
(* written and its chunks land in order, for every patch and every file.   *)
(***************************************************************************)
EXTENDS Clarify, ChatTurn, McpServers, RpcClient, EditBlocks, PatchHunks, SequenceTheorems, FiniteSetTheorems, TLAPS

\* What lies in a question's channel, or was taken from it, was sent for it.
AnswersAreTold ==
    /\ \A q \in Questions : chan[q] # Nobody => answer[chan[q]] = [step |-> "delivered", to |-> q]
    /\ \A q \in Questions : reply[q] # Nobody => answer[reply[q]] = [step |-> "delivered", to |-> q]

\* A question in the table is being asked by its run, which cannot end; so
\* the end of the only run in flight finds an empty table.
TableIsBusy ==
    ~crossed =>
        /\ ~panicked /\ closed = {}
        /\ \A r, s \in going : r = s
        /\ \A q \in table : state[q] \notin {"new", "over"} /\ asker[q] \in going

ClarifyInv == ClarifyTypeOK /\ AnswersAreTold /\ TableIsBusy

LEMMA ClarifyInitially == ClarifyInit => ClarifyInv
<1> SUFFICES ASSUME ClarifyInit PROVE ClarifyInv
  OBVIOUS
<1>1. ClarifyTypeOK
  BY DEF ClarifyInit, ClarifyTypeOK
<1>2. AnswersAreTold
  BY DEF ClarifyInit, AnswersAreTold
<1>3. TableIsBusy
  BY DEF ClarifyInit, TableIsBusy
<1> QED
  BY <1>1, <1>2, <1>3 DEF ClarifyInv

LEMMA RunsKeep ==
    ASSUME ClarifyInv, NEW r \in Sessions, BeginRun(r) \/ EndRunOf(r)
    PROVE  ClarifyInv'
<1> USE DEF ClarifyInv, ClarifyTypeOK, AnswersAreTold, TableIsBusy
<1>1. CASE BeginRun(r)
  BY <1>1 DEF BeginRun
<1>2. CASE EndRunOf(r)
  <2>1. ~crossed => table = {}
    BY <1>2 DEF EndRunOf, Busy
  <2> QED
    BY <1>2, <2>1 DEF EndRunOf
<1> QED
  BY <1>1, <1>2

LEMMA QuestionBegins ==
    ASSUME ClarifyInv, NEW q \in Questions, NEW r \in Sessions, RegisterQuestion(q, r)
    PROVE  ClarifyInv'
BY DEF ClarifyInv, ClarifyTypeOK, AnswersAreTold, TableIsBusy, Advance, RegisterQuestion

LEMMA CallbackKeeps ==
    ASSUME ClarifyInv, NEW q \in Questions, Callback(q)
    PROVE  ClarifyInv'
<1> USE DEF ClarifyInv, ClarifyTypeOK, AnswersAreTold, TableIsBusy, Advance
<1>1. CASE PostQuestion(q)
  BY <1>1 DEF PostQuestion
<1>2. CASE HearAnswer(q)
  BY <1>2 DEF HearAnswer
<1>3. CASE HearClosing(q)
  BY <1>3 DEF HearClosing
<1>4. CASE StopWaiting(q)
  BY <1>4 DEF StopWaiting
<1>5. CASE LeaveTable(q)
  BY <1>5 DEF LeaveTable
<1> QED
  BY <1>1, <1>2, <1>3, <1>4, <1>5 DEF Callback

LEMMA AnswerKeeps ==
    ASSUME ClarifyInv, NEW w \in Answers, SendAnswer(w) \/ \E q \in Questions : FindQuestion(w, q)
    PROVE  ClarifyInv'
<1> USE ClarifyAssumption DEF ClarifyInv, ClarifyTypeOK, AnswersAreTold, TableIsBusy
<1>1. CASE SendAnswer(w)
  <2> DEFINE q == answer[w].to
  <2>1. CASE q \in closed
    BY <1>1, <2>1 DEF SendAnswer
  <2>2. CASE q \notin closed /\ chan[q] = Nobody
    BY <1>1, <2>2 DEF SendAnswer
  <2>3. CASE q \notin closed /\ chan[q] # Nobody
    BY <1>1, <2>3, SMTT(30) DEF SendAnswer
  <2> QED
    BY <2>1, <2>2, <2>3
<1>2. CASE \E q \in Questions : FindQuestion(w, q)
  BY <1>2 DEF FindQuestion
<1> QED
  BY <1>1, <1>2

LEMMA ClarifyStep == ClarifyInv /\ [ClarifyNext]_clarifyVars => ClarifyInv'
<1> SUFFICES ASSUME ClarifyInv, [ClarifyNext]_clarifyVars PROVE ClarifyInv'
  OBVIOUS
<1>1. CASE ClarifyNext
  BY <1>1, RunsKeep, QuestionBegins, CallbackKeeps, AnswerKeeps DEF ClarifyNext
<1>2. CASE UNCHANGED clarifyVars
  BY <1>2 DEF clarifyVars, ClarifyInv, ClarifyTypeOK, AnswersAreTold, TableIsBusy
<1> QED
  BY <1>1, <1>2

(* Every reachable state is well typed: answers name questions, channels   *)
(* hold answers (run.go:985-1090).                                         *)
THEOREM ClarifyTypeCorrect == ClarifySpec => []ClarifyTypeOK
<1>1. ClarifyInv => ClarifyTypeOK
  BY DEF ClarifyInv
<1> QED
  BY <1>1, ClarifyInitially, ClarifyStep, PTL DEF ClarifySpec

(* What a callback returns was said of its question and reported           *)
(* delivered; and while the runs of a session do not overlap, no channel   *)
(* is closed under a callback or an answer (run.go:797).                   *)
THEOREM QuestionsHeard == ClarifySpec => []QuestionsAreHeard
<1>1. ClarifyInv => QuestionsAreHeard
  BY DEF ClarifyInv, AnswersAreTold, TableIsBusy, QuestionsAreHeard
<1> QED
  BY <1>1, ClarifyInitially, ClarifyStep, PTL DEF ClarifySpec

-----------------------------------------------------------------------------
(* The log of the prompts. *)

Opens(m) == m.kind = "assistant" /\ m.n > 0

\* Each call but the last message's has its results, results have their call.
Paired(log) ==
    /\ \A i \in 1..Len(log) : i < Len(log) /\ Opens(log[i]) => log[i + 1] = Results(log[i].by, log[i].n)
    /\ \A i \in 1..Len(log) : log[i].kind = "results" => i > 1 /\ log[i - 1] = Reply(log[i].by, log[i].n)

ClosedLog(log) == Len(log) > 0 => ~Opens(log[Len(log)])

Clean == ~broken /\ ~cleared /\ ~mixed

\* A prompt that has the log for itself has a true copy of it, and leaves no
\* call in it open but the one it is at work on.
LogInv ==
    Clean =>
        /\ \A c, d \in Callers : InLog(c) /\ InLog(d) => c = d
        /\ Paired(history)
        /\ (\A c \in Callers : caller[c].step # "calling") => ClosedLog(history)
        /\ \A c \in Callers : caller[c].step = "read" => caller[c].msgs = Append(history, User(c))
        /\ \A c \in Callers : caller[c].step \in {"asking", "calling"} => caller[c].msgs = history
        /\ \A c \in Callers : caller[c].step = "calling" =>
             Len(history) > 0 /\ history[Len(history)] = Reply(c, caller[c].asked)

Steps == {"new", "resolved", "read", "asking", "calling", "done", "error"}
CallerTypes == [step : Steps, msgs : Seq(Messages), turn : 0..MaxTurns, asked : 0..MaxAsks, done : 0..MaxAsks]

\* A prompt that has turns left, and in a turn with calls, calls.
CallerRight(k) ==
    /\ k.step \in {"new", "resolved", "read"} => k.turn = 0
    /\ k.step \in {"asking", "calling"} => k.turn < MaxTurns
    /\ k.step = "calling" => k.asked > 0

TurnsInv == \A c \in Callers : CallerRight(caller[c])

ChatInv == ChatTypeOK /\ TurnsInv /\ LogInv

LEMMA AnsweredParts == ASSUME NEW log \in Seq(Messages), Paired(log), ClosedLog(log) PROVE Answered(log)
<1>1. Len(log) \in Nat /\ DOMAIN log = 1..Len(log)
  OBVIOUS
<1> SUFFICES ASSUME NEW i \in 1..Len(log)
             PROVE  /\ Opens(log[i]) => i < Len(log) /\ log[i + 1] = Results(log[i].by, log[i].n)
                    /\ log[i].kind = "results" => i > 1 /\ log[i - 1] = Reply(log[i].by, log[i].n)
  BY <1>1 DEF Answered, Opens
<1>2. Opens(log[i]) => i < Len(log)
  BY <1>1 DEF ClosedLog
<1> QED
  BY <1>2 DEF Paired

\* A message that is no result goes behind a log without an open call, a
\* result behind its call.
LEMMA PairedAppend ==
    ASSUME NEW log \in Seq(Messages), NEW m \in Messages, Paired(log),
           \/ ClosedLog(log) /\ m.kind # "results"
           \/ /\ m = Results(m.by, m.n) /\ Len(log) > 0
              /\ log[Len(log)] = Reply(m.by, m.n)
    PROVE  /\ Paired(Append(log, m)) /\ (ClosedLog(Append(log, m)) <=> ~Opens(m))
           /\ Len(Append(log, m)) > 0 /\ Append(log, m)[Len(Append(log, m))] = m
<1> DEFINE t == Append(log, m)
<1>1. Len(t) = Len(log) + 1 /\ t[Len(log) + 1] = m /\ \A i \in 1..Len(log) : t[i] = log[i]
  OBVIOUS
<1>2. Len(log) \in Nat
  OBVIOUS
<1> HIDE DEF t
<1>3. ASSUME NEW i \in 1..Len(t), i < Len(t), Opens(t[i])
      PROVE  t[i + 1] = Results(t[i].by, t[i].n)
  <2>1. i \in 1..Len(log) /\ t[i] = log[i]
    BY <1>1, <1>2, <1>3
  <2>2. CASE i < Len(log)
    <3>1. log[i + 1] = Results(log[i].by, log[i].n)
      BY <1>3, <2>1, <2>2 DEF Paired
    <3>2. t[i + 1] = log[i + 1]
      BY <1>1, <1>2, <2>1, <2>2
    <3> QED
      BY <2>1, <3>1, <3>2
  <2>3. CASE i = Len(log)
    <3>1. ~ClosedLog(log)
      BY <1>2, <1>3, <2>1, <2>3 DEF ClosedLog
    <3>2. m = Results(m.by, m.n) /\ log[i] = Reply(m.by, m.n)
      BY <2>3, <3>1
    <3>3. log[i].by = m.by /\ log[i].n = m.n
      BY <3>2 DEF Reply
    <3> QED
      BY <1>1, <2>1, <2>3, <3>2, <3>3
  <2> QED
    BY <1>2, <2>1, <2>2, <2>3
<1>4. ASSUME NEW i \in 1..Len(t), t[i].kind = "results"
      PROVE  i > 1 /\ t[i - 1] = Reply(t[i].by, t[i].n)
  <2>1. CASE i \in 1..Len(log)
    <3>1. i > 1 /\ log[i - 1] = Reply(log[i].by, log[i].n)
      BY <1>1, <1>4, <2>1 DEF Paired
    <3>2. t[i - 1] = log[i - 1] /\ t[i] = log[i]
      BY <1>1, <1>2, <2>1, <3>1
    <3> QED
      BY <3>1, <3>2
  <2>2. CASE i = Len(log) + 1
    <3>1. m.kind = "results"
      BY <1>1, <1>4, <2>2
    <3> QED
      BY <1>1, <1>2, <2>2, <3>1
  <2> QED
    BY <1>1, <1>2, <2>1, <2>2
<1>5. Paired(t)
  BY <1>3, <1>4 DEF Paired
<1>6. (ClosedLog(t) <=> ~Opens(m)) /\ Len(t) > 0 /\ t[Len(t)] = m
  BY <1>1, <1>2 DEF ClosedLog
<1> QED
  BY <1>5, <1>6 DEF t

LEMMA MessagesAre ==
    /\ \A c \in Callers : User(c) \in Messages
    /\ \A c \in Callers, n \in 0..MaxAsks : Reply(c, n) \in Messages
    /\ \A c \in Callers, n \in 1..MaxAsks : Results(c, n) \in Messages
  BY DEF Messages

\* A step of one prompt, as far as the types see it.
LEMMA OneCallerTypes ==
    ASSUME ChatTypeOK, TurnsInv, NEW c \in Callers, NEW k \in CallerTypes, CallerRight(k),
           caller' = [caller EXCEPT ![c] = k], history' \in Seq(Messages),
           broken' \in BOOLEAN, cleared' \in BOOLEAN, mixed' \in BOOLEAN
    PROVE  ChatTypeOK' /\ TurnsInv'
BY DEF ChatTypeOK, TurnsInv, CallerTypes, CallerRight, Steps

LEMMA AtTypes == \A s \in Steps : At(s) \in CallerTypes /\ At(s).step = s /\ At(s).turn = 0
BY ChatAssumption DEF At, CallerTypes

\* A prompt's record with other fields.
LEMMA CallerAs ==
    ASSUME NEW s \in Steps, NEW m \in Seq(Messages), NEW t \in 0..MaxTurns,
           NEW a \in 0..MaxAsks, NEW d \in 0..MaxAsks
    PROVE  [step |-> s, msgs |-> m, turn |-> t, asked |-> a, done |-> d] \in CallerTypes
BY DEF CallerTypes

LEMMA CallerIs ==
    ASSUME NEW k \in CallerTypes
    PROVE  /\ k.step \in Steps /\ k.msgs \in Seq(Messages) /\ k.turn \in 0..MaxTurns
           /\ k.asked \in 0..MaxAsks /\ k.done \in 0..MaxAsks
           /\ k = [step |-> k.step, msgs |-> k.msgs, turn |-> k.turn, asked |-> k.asked, done |-> k.done]
BY DEF CallerTypes

LEMMA ChatInitially == ChatInit => ChatInv
<1> SUFFICES ASSUME ChatInit PROVE ChatInv
  OBVIOUS
<1>1. At("new") \in CallerTypes /\ At("new").step = "new" /\ At("new").turn = 0
  BY AtTypes DEF Steps
<1>2. history \in Seq(Messages)
  BY DEF ChatInit
<1>3. ChatTypeOK
  BY <1>1, <1>2 DEF ChatInit, ChatTypeOK, CallerTypes, Steps
<1>4. TurnsInv
  BY <1>1 DEF ChatInit, TurnsInv, CallerRight
<1>5. LogInv
  BY <1>1 DEF ChatInit, LogInv, InLog, Paired, ClosedLog
<1> QED
  BY <1>3, <1>4, <1>5 DEF ChatInv

LEMMA ProgressTypes == ASSUME ChatTypeOK, TurnsInv, NEW c \in Callers, Progress(c) PROVE ChatTypeOK' /\ TurnsInv'
<1> DEFINE k == caller[c]
<1>1. /\ k \in CallerTypes /\ CallerRight(k) /\ history \in Seq(Messages)
      /\ broken \in BOOLEAN /\ cleared \in BOOLEAN /\ mixed \in BOOLEAN
  BY DEF ChatTypeOK, TurnsInv, CallerTypes, CallerRight, Steps
<1>2. MaxTurns \in Nat \ {0} /\ MaxAsks \in Nat \ {0} /\ caller \in [Callers -> CallerTypes]
  BY ChatAssumption DEF ChatTypeOK, CallerTypes, Steps
<1>3. \A m \in Messages : Append(history, m) \in Seq(Messages) /\ Append(k.msgs, m) \in Seq(Messages)
  BY <1>1, CallerIs
<1>4. /\ k.step \in Steps /\ k.msgs \in Seq(Messages) /\ k.turn \in 0..MaxTurns
      /\ k.asked \in 0..MaxAsks /\ k.done \in 0..MaxAsks
      /\ k = [step |-> k.step, msgs |-> k.msgs, turn |-> k.turn, asked |-> k.asked, done |-> k.done]
  BY <1>1, CallerIs
<1> HIDE DEF k
<1>5. CASE Resolve(c)
  <2>1. caller' = [caller EXCEPT ![c] = [k EXCEPT !.step = "resolved"]] /\ UNCHANGED <<history, broken, cleared, mixed>>
    BY <1>2, <1>5 DEF Resolve, Step, k
  <2>2. [k EXCEPT !.step = "resolved"] \in CallerTypes /\ CallerRight([k EXCEPT !.step = "resolved"])
    <3>1. k.turn = 0
      BY <1>1, <1>5 DEF k, Resolve, Step, CallerRight
    <3>2. [k EXCEPT !.step = "resolved"] = [step |-> "resolved", msgs |-> k.msgs, turn |-> k.turn, asked |-> k.asked, done |-> k.done]
      BY <1>4
    <3> QED
      BY <1>4, <3>1, <3>2, CallerAs DEF Steps, CallerRight
  <2> QED
    BY <1>1, <2>1, <2>2, OneCallerTypes
<1>6. CASE \E from \in {"new", "asking", "calling"}, how \in {"done", "error"} : Return(c, from, how)
           /\ history' \in Seq(Messages) /\ broken' \in BOOLEAN /\ UNCHANGED <<cleared, mixed>>
  <2>1. PICK how \in {"done", "error"} : caller' = [caller EXCEPT ![c] = At(how)]
    BY <1>6 DEF Return
  <2>2. At(how) \in CallerTypes /\ CallerRight(At(how))
    BY AtTypes DEF CallerRight, Steps
  <2> QED
    BY <1>1, <1>6, <2>1, <2>2, OneCallerTypes
<1>7. CASE ReadLog(c)
  <2> DEFINE m == Append(history, User(c))
             n == [k EXCEPT !.step = "read", !.msgs = m]
  <2>1. m \in Seq(Messages)
    BY <1>3, MessagesAre
  <2>2. caller' = [caller EXCEPT ![c] = n] /\ mixed' \in BOOLEAN /\ UNCHANGED <<history, broken, cleared>>
    BY <1>1, <1>2, <1>7 DEF ReadLog, k
  <2>3. n \in CallerTypes /\ CallerRight(n)
    <3> HIDE DEF m
    <3>1. k.turn = 0
      BY <1>1, <1>7 DEF k, ReadLog, CallerRight
    <3>2. n \in CallerTypes
      BY <1>1, <2>1 DEF CallerTypes, Steps
    <3>3. n.step = "read" /\ n.turn = k.turn
      BY <1>1, <2>1 DEF CallerTypes
    <3> QED
      BY <3>1, <3>2, <3>3 DEF CallerRight
  <2> QED
    BY <1>1, <2>2, <2>3, OneCallerTypes
<1>8. CASE LogUser(c)
  <2> DEFINE n == [k EXCEPT !.step = "asking"]
  <2>1. caller' = [caller EXCEPT ![c] = n] /\ history' \in Seq(Messages) /\ UNCHANGED <<broken, cleared, mixed>>
    BY <1>2, <1>3, <1>8, MessagesAre DEF LogUser, Step, k
  <2>2. n \in CallerTypes /\ CallerRight(n)
    <3>1. k.turn = 0
      BY <1>1, <1>8 DEF k, LogUser, Step, CallerRight
    <3>2. n = [step |-> "asking", msgs |-> k.msgs, turn |-> k.turn, asked |-> k.asked, done |-> k.done]
      BY <1>4
    <3> QED
      BY <1>4, <1>2, <3>1, <3>2, CallerAs DEF Steps, CallerRight
  <2> QED
    BY <1>1, <2>1, <2>2, OneCallerTypes
<1>9. CASE \E n \in 1..MaxAsks : Call(c, n)
  <2>1. PICK n \in 1..MaxAsks : Call(c, n)
    BY <1>9
  <2> DEFINE m == Append(k.msgs, Reply(c, n))
             l == [k EXCEPT !.step = "calling", !.asked = n, !.done = 0, !.msgs = m]
  <2>2. Reply(c, n) \in Messages
    BY <1>2, MessagesAre
  <2>3. caller' = [caller EXCEPT ![c] = l] /\ history' \in Seq(Messages) /\ UNCHANGED <<broken, cleared, mixed>>
    BY <1>2, <1>3, <2>1, <2>2 DEF Call, k
  <2>4. l \in CallerTypes /\ CallerRight(l)
    <3>1. m \in Seq(Messages)
      BY <1>3, <2>2
    <3> HIDE DEF m
    <3>2. k.turn < MaxTurns
      BY <1>1, <2>1 DEF k, Call, CallerRight
    <3>3. n \in 0..MaxAsks /\ 0 \in 0..MaxAsks /\ n > 0
      BY <1>2
    <3>4. l \in CallerTypes
      BY <1>1, <3>3, <3>1 DEF CallerTypes, Steps
    <3>5. l.step = "calling" /\ l.turn = k.turn /\ l.asked = n
      BY <1>1 DEF CallerTypes
    <3> QED
      BY <3>2, <3>4, <3>3, <3>5 DEF CallerRight
  <2> QED
    BY <1>1, <2>3, <2>4, OneCallerTypes
<1>10. CASE RunTool(c) \/ RunReset(c)
  <2> DEFINE n == [k EXCEPT !.done = @ + 1]
  <2>1. caller' = [caller EXCEPT ![c] = n] /\ k.step = "calling" /\ k.done < k.asked
    BY <1>2, <1>10 DEF RunTool, RunReset, k
  <2>2. n \in CallerTypes /\ CallerRight(n)
    <3>1. n = [step |-> k.step, msgs |-> k.msgs, turn |-> k.turn, asked |-> k.asked, done |-> k.done + 1]
      BY <1>4
    <3>2. k.done + 1 \in 0..MaxAsks
      BY <1>4, <1>2, <2>1
    <3> QED
      BY <1>4, <1>1, <3>1, <3>2, CallerAs DEF CallerRight
  <2>3. history' \in Seq(Messages)
    <3>1. history' = history \/ history' = <<>>
      BY <1>10 DEF RunTool, RunReset
    <3>2. <<>> \in Seq(Messages)
      OBVIOUS
    <3> QED
      BY <1>1, <3>1, <3>2
  <2>4. broken' \in BOOLEAN /\ cleared' \in BOOLEAN /\ mixed' \in BOOLEAN
    BY <1>1, <1>10 DEF RunTool, RunReset
  <2> QED
    BY <2>1, <2>2, <2>3, <2>4, OneCallerTypes
<1>11. CASE Feedback(c)
  <2> DEFINE n == IF k.turn + 1 = MaxTurns THEN At("done")
                  ELSE [At("asking") EXCEPT !.msgs = Append(k.msgs, Results(c, k.asked)), !.turn = k.turn + 1]
  <2>1. k.step = "calling" /\ k.asked \in 1..MaxAsks /\ k.turn \in 0..(MaxTurns - 1)
    BY <1>4, <1>1, <1>2, <1>11 DEF Feedback, CallerRight, k
  <2>2. Results(c, k.asked) \in Messages
    BY <2>1, MessagesAre
  <2>3. caller' = [caller EXCEPT ![c] = n] /\ history' \in Seq(Messages) /\ UNCHANGED <<broken, cleared, mixed>>
    BY <1>3, <1>11, <2>2 DEF Feedback, k
  <2>4. CASE k.turn + 1 = MaxTurns
    BY <1>1, <2>3, <2>4, OneCallerTypes, AtTypes DEF CallerRight, Steps
  <2>5. CASE k.turn + 1 # MaxTurns
    <3>1. Append(k.msgs, Results(c, k.asked)) \in Seq(Messages) /\ k.turn + 1 \in 0..MaxTurns /\ k.turn + 1 < MaxTurns
      BY <1>2, <1>3, <2>1, <2>2, <2>5
    <3>2. n \in CallerTypes /\ CallerRight(n)
      <4>1. n = [step |-> "asking", msgs |-> Append(k.msgs, Results(c, k.asked)), turn |-> k.turn + 1, asked |-> 0, done |-> 0]
        BY <2>5 DEF At
      <4>2. 0 \in 0..MaxAsks
        BY <1>2
      <4> QED
        <5> DEFINE m == Append(k.msgs, Results(c, k.asked))
        <5>1. m \in Seq(Messages) /\ n = [step |-> "asking", msgs |-> m, turn |-> k.turn + 1, asked |-> 0, done |-> 0]
          BY <3>1, <4>1
        <5> HIDE DEF m, n
        <5> QED
          BY <3>1, <4>2, <5>1, CallerAs DEF Steps, CallerRight
    <3> QED
      BY <1>1, <2>3, <3>2, OneCallerTypes
  <2> QED
    BY <2>4, <2>5
<1>12. Conclude(c) => history' \in Seq(Messages)
  <2>1. Reply(c, 0) \in Messages
    BY <1>2, MessagesAre
  <2> QED
    BY <1>3, <2>1 DEF Conclude
<1>13. CASE Refuse(c) \/ GiveUpAsking(c) \/ Conclude(c) \/ LoseClient(c)
  BY <1>1, <1>6, <1>12, <1>13 DEF Refuse, GiveUpAsking, Conclude, LoseClient
<1> QED
  BY <1>5, <1>7, <1>8, <1>9, <1>10, <1>11, <1>13 DEF Progress

\* The only prompt in the log makes its step, and leaves the log as it says.
LEMMA OwnerKeeps ==
    ASSUME caller \in [Callers -> CallerTypes], LogInv, Clean, NEW c \in Callers, InLog(c),
           NEW k, caller' = [caller EXCEPT ![c] = k], k.step # "read", Paired(history'),
           k.step # "calling" => ClosedLog(history'),
           k.step \in {"asking", "calling"} => k.msgs = history',
           k.step = "calling" => Len(history') > 0 /\ history'[Len(history')] = Reply(c, k.asked)
    PROVE  LogInv'
<1>1. \A d \in Callers \ {c} : ~InLog(d)
  BY DEF LogInv
<1>2. caller'[c] = k /\ \A d \in Callers \ {c} : caller'[d] = caller[d]
  OBVIOUS
<1>3. \A d \in Callers \ {c} : ~InLog(d)' /\ caller'[d].step \notin {"read", "asking", "calling"}
  BY <1>1, <1>2 DEF InLog
<1> QED
  BY <1>2, <1>3 DEF LogInv

LEMMA ProgressKeepsLog == ASSUME ChatTypeOK, TurnsInv, LogInv, NEW c \in Callers, Progress(c) PROVE LogInv'
<1> DEFINE k == caller[c]
<1> SUFFICES ASSUME Clean' PROVE LogInv'
  BY DEF LogInv
<1>1. /\ k \in CallerTypes /\ CallerRight(k) /\ caller \in [Callers -> CallerTypes] /\ history \in Seq(Messages)
      /\ k.msgs \in Seq(Messages)
  BY DEF ChatTypeOK, TurnsInv, CallerTypes, Steps
<1>2. Clean
  <2>1. CASE ReadLog(c)
    BY <2>1 DEF ReadLog, Clean
  <2>2. CASE ~ReadLog(c) /\ ~RunReset(c) /\ ~LoseClient(c)
    <3>1. UNCHANGED <<broken, cleared, mixed>>
      BY <2>2 DEF Progress, Resolve, Refuse, LogUser, GiveUpAsking, Conclude, Call, RunTool, Feedback
    <3> QED
      BY <3>1 DEF Clean
  <2>3. CASE RunReset(c) \/ LoseClient(c)
    BY <2>3 DEF RunReset, LoseClient, Clean
  <2> QED
    BY <2>1, <2>2, <2>3
<1>3. MaxAsks \in Nat \ {0}
  BY ChatAssumption
\* Who is in the log is alone there.
<1>4. InLog(c) => \A d \in Callers : d # c => caller[d].step # "calling"
  BY <1>2 DEF LogInv, InLog
<1>5. Paired(history) /\ (InLog(c) /\ k.step # "calling" => ClosedLog(history))
  BY <1>2, <1>4 DEF LogInv
<1> HIDE DEF k
<1>6. CASE Resolve(c) \/ Refuse(c)
  <2>1. k.step = "new" /\ UNCHANGED history /\ \E n : caller' = [caller EXCEPT ![c] = n] /\ n.step \in {"resolved", "error"}
    BY <1>1, <1>6 DEF Resolve, Refuse, Step, Return, At, k, CallerTypes
  <2>2. /\ \A d \in Callers : d # c => caller'[d] = caller[d]
        /\ ~InLog(c) /\ ~InLog(c)' /\ caller[c].step = "new" /\ caller'[c].step \in {"resolved", "error"}
    BY <1>1, <2>1 DEF InLog, k
  <2> QED
    BY <1>2, <2>1, <2>2 DEF LogInv, InLog
<1>7. CASE ReadLog(c)
  <2>1. /\ caller'[c].step = "read" /\ caller'[c].msgs = Append(history, User(c)) /\ UNCHANGED history
        /\ \A d \in Callers : d # c => caller'[d] = caller[d]
    BY <1>1, <1>7 DEF ReadLog, CallerTypes
  <2>2. \A d \in Callers : ~InLog(d)
    BY <1>7 DEF ReadLog, Clean
  <2>3. ClosedLog(history)
    BY <1>2, <2>2 DEF LogInv, InLog
  <2> QED
    BY <1>5, <2>1, <2>2, <2>3 DEF LogInv, InLog
<1>8. CASE LogUser(c)
  <2> DEFINE n == [k EXCEPT !.step = "asking"]
  <2>1. k.step = "read" /\ caller' = [caller EXCEPT ![c] = n] /\ history' = Append(history, User(c))
    BY <1>1, <1>8 DEF LogUser, Step, k
  <2>2. InLog(c) /\ k.msgs = history'
    BY <1>2, <2>1 DEF InLog, LogInv, k
  <2>3. n.step = "asking" /\ n.msgs = k.msgs
    BY <1>1 DEF CallerTypes
  <2>4. Paired(history') /\ ClosedLog(history')
    <3>1. User(c) \in Messages /\ User(c).kind # "results" /\ ~Opens(User(c))
      BY MessagesAre DEF User, Opens
    <3> QED
      BY <1>1, <1>5, <2>1, <2>2, <3>1, PairedAppend
  <2> HIDE DEF n
  <2> QED
    BY <1>1, <1>2, <2>1, <2>2, <2>3, <2>4, OwnerKeeps
<1>9. CASE GiveUpAsking(c) \/ Conclude(c)
  <2> DEFINE n == caller'[c]
  <2>1. k.step = "asking" /\ caller' = [caller EXCEPT ![c] = n] /\ n.step \in {"error", "done"}
    BY <1>1, <1>9 DEF GiveUpAsking, Conclude, Return, At, k
  <2>2. InLog(c)
    BY <2>1 DEF InLog, k
  <2>3. Paired(history') /\ ClosedLog(history')
    <3>1. Reply(c, 0) \in Messages /\ Reply(c, 0).kind # "results" /\ ~Opens(Reply(c, 0))
      BY <1>3, MessagesAre DEF Reply, Opens
    <3>2. history' = history \/ history' = Append(history, Reply(c, 0))
      BY <1>9 DEF GiveUpAsking, Conclude
    <3> QED
      BY <1>1, <1>5, <2>1, <2>2, <3>1, <3>2, PairedAppend
  <2> HIDE DEF n
  <2> QED
    BY <1>1, <1>2, <2>1, <2>2, <2>3, OwnerKeeps
<1>10. CASE \E a \in 1..MaxAsks : Call(c, a)
  <2>1. PICK a \in 1..MaxAsks : Call(c, a)
    BY <1>10
  <2> DEFINE m == Append(k.msgs, Reply(c, a))
             n == [k EXCEPT !.step = "calling", !.asked = a, !.done = 0, !.msgs = m]
  <2>2. k.step = "asking" /\ caller' = [caller EXCEPT ![c] = n] /\ history' = Append(history, Reply(c, a))
    BY <1>1, <2>1 DEF Call, k
  <2>3. InLog(c) /\ k.msgs = history /\ m = history'
    BY <1>2, <2>2 DEF InLog, LogInv, k
  <2>4. n.step = "calling" /\ n.msgs = m /\ n.asked = a
    BY <1>1 DEF CallerTypes
  <2>5. Reply(c, a) \in Messages /\ Reply(c, a).kind # "results"
    BY <1>3, MessagesAre DEF Reply
  <2>6. Paired(history') /\ Len(history') > 0 /\ history'[Len(history')] = Reply(c, a)
    BY <1>1, <1>5, <2>2, <2>3, <2>5, PairedAppend
  <2> HIDE DEF n, m
  <2> QED
    BY <1>1, <1>2, <2>2, <2>3, <2>4, <2>6, OwnerKeeps
<1>11. CASE RunTool(c)
  <2> DEFINE n == [k EXCEPT !.done = @ + 1]
  <2>1. k.step = "calling" /\ caller' = [caller EXCEPT ![c] = n] /\ UNCHANGED history
    BY <1>1, <1>11 DEF RunTool, k
  <2>2. n.step = "calling" /\ n.msgs = k.msgs /\ n.asked = k.asked
    BY <1>1, <2>1 DEF CallerTypes
  <2>3. InLog(c) /\ k.msgs = history /\ Len(history) > 0 /\ history[Len(history)] = Reply(c, k.asked)
    BY <1>2, <2>1 DEF InLog, LogInv, k
  <2> HIDE DEF n
  <2> QED
    BY <1>1, <1>2, <1>5, <2>1, <2>2, <2>3, OwnerKeeps
<1>12. CASE Feedback(c)
  <2> DEFINE r == Results(c, k.asked)
             m == Append(k.msgs, r)
             n == caller'[c]
  <2>1. /\ k.step = "calling" /\ caller' = [caller EXCEPT ![c] = n] /\ history' = Append(history, r)
        /\ n = At("done") \/ n = [At("asking") EXCEPT !.msgs = m, !.turn = k.turn + 1]
    BY <1>1, <1>12 DEF Feedback, k
  <2>2. InLog(c) /\ k.msgs = history /\ Len(history) > 0 /\ history[Len(history)] = Reply(c, k.asked) /\ m = history'
    BY <1>2, <2>1 DEF InLog, LogInv, k
  <2>3. r \in Messages /\ r = Results(r.by, r.n) /\ r.by = c /\ r.n = k.asked /\ ~Opens(r)
    <3>1. k.asked \in 1..MaxAsks
      BY <1>1, <1>3, <2>1, CallerIs DEF CallerRight
    <3> QED
      BY <3>1, MessagesAre DEF Results, Opens
  <2> HIDE DEF r
  <2>4. Paired(history') /\ ClosedLog(history')
    BY <1>1, <1>5, <2>1, <2>2, <2>3, PairedAppend
  <2> HIDE DEF m
  <2>5. n.step \in {"done", "asking"} /\ (n.step = "asking" => n.msgs = m)
    <3> HIDE DEF n, m
    <3> DEFINE w == [At("asking") EXCEPT !.msgs = m, !.turn = k.turn + 1]
    <3>1. At("done").step = "done" /\ w.step = "asking" /\ w.msgs = m
      BY DEF At
    <3> HIDE DEF w
    <3>2. n = At("done") \/ n = w
      BY <2>1 DEF w
    <3> QED
      BY <3>1, <3>2
  <2> HIDE DEF n
  <2> QED
    BY <1>1, <1>2, <2>1, <2>2, <2>4, <2>5, OwnerKeeps
<1>13. ~RunReset(c) /\ ~LoseClient(c)
  BY DEF RunReset, LoseClient, Clean
<1> QED
  BY <1>6, <1>7, <1>8, <1>9, <1>10, <1>11, <1>12, <1>13 DEF Progress

LEMMA RestartKeeps == ASSUME ChatInv, RestartDaemon PROVE ChatInv'
<1>1. \A c \in Callers : \/ caller'[c] = caller[c] /\ caller[c].step \in {"new", "done", "error"}
                         \/ caller'[c] = At("error")
  BY DEF RestartDaemon
<1>2. At("error") \in CallerTypes /\ At("error").step = "error"
  BY AtTypes DEF Steps
<1>3. history' = <<>> /\ broken' = FALSE /\ cleared' = FALSE /\ mixed' = FALSE /\ caller' = [c \in Callers |-> caller'[c]]
  BY DEF RestartDaemon
<1>4. \A c \in Callers : caller[c] \in CallerTypes /\ CallerRight(caller[c])
  BY DEF ChatInv, ChatTypeOK, TurnsInv, CallerTypes, Steps
<1>5. caller' \in [Callers -> CallerTypes]
  BY <1>1, <1>2, <1>3, <1>4
<1>6. history' \in Seq(Messages)
  BY <1>3
<1>7. ChatTypeOK'
  BY <1>3, <1>5, <1>6 DEF ChatTypeOK, CallerTypes, Steps
<1>8. TurnsInv'
  BY <1>1, <1>2, <1>4 DEF TurnsInv, CallerRight
<1>9. LogInv'
  <2>1. \A c \in Callers : caller'[c].step \notin {"read", "asking", "calling"}
    BY <1>1, <1>2
  <2>2. Paired(history') /\ ClosedLog(history')
    BY <1>3 DEF Paired, ClosedLog
  <2> QED
    BY <2>1, <2>2 DEF LogInv, InLog
<1> QED
  BY <1>7, <1>8, <1>9 DEF ChatInv

LEMMA ChatStep == ChatInv /\ [ChatNext]_chatVars => ChatInv'
<1> SUFFICES ASSUME ChatInv, [ChatNext]_chatVars PROVE ChatInv'
  OBVIOUS
<1>1. CASE RestartDaemon
  BY <1>1, RestartKeeps
<1>2. CASE \E c \in Callers : Progress(c)
  BY <1>2, ProgressTypes, ProgressKeepsLog DEF ChatInv
<1>3. CASE UNCHANGED chatVars
  BY <1>3 DEF chatVars, ChatInv, ChatTypeOK, TurnsInv, LogInv, InLog, Clean
<1> QED
  BY <1>1, <1>2, <1>3 DEF ChatNext

(* Every reachable state of the prompts is well typed: no prompt makes     *)
(* more turns than it may, the log holds messages (session_prompt.go:390). *)
THEOREM ChatTypeCorrect == ChatSpec => []ChatTypeOK
<1>1. ChatInv => ChatTypeOK
  BY DEF ChatInv
<1> QED
  BY <1>1, ChatInitially, ChatStep, PTL DEF ChatSpec

(* What a prompt sends to the provider is well formed, for every number of *)
(* prompts, turns and tool calls, unless a client has gone away in a turn, *)
(* the log was cleared, or two prompts shared it (session_prompt.go:315).  *)
THEOREM SendsWellFormed == ChatSpec => []SendsWhatItMay
<1>1. ChatInv => SendsWhatItMay
  <2> SUFFICES ASSUME ChatInv, NEW c \in Callers, caller[c].step = "asking", Clean
               PROVE  Answered(caller[c].msgs)
    BY DEF SendsWhatItMay, Clean
  <2>1. InLog(c) /\ caller[c].msgs = history /\ history \in Seq(Messages) /\ Paired(history)
    BY DEF ChatInv, LogInv, ChatTypeOK, InLog
  <2>2. \A d \in Callers : caller[d].step # "calling"
    BY <2>1 DEF ChatInv, LogInv, InLog
  <2>3. ClosedLog(history)
    BY <2>2 DEF ChatInv, LogInv
  <2> QED
    BY <2>1, <2>3, AnsweredParts
<1> QED
  BY <1>1, ChatInitially, ChatStep, PTL DEF ChatSpec

-----------------------------------------------------------------------------

\* No set that can still be cached or used is one whose clients are closed.
SetsStay ==
    /\ cache \notin shut
    /\ cache # NoSet => phase[cache] \in {"working", "over"}
    /\ \A c \in shut : phase[c] = "over" \/ (c \in ChatCalls /\ phase[c] = "working")
    /\ \A r \in RunCalls : phase[r] = "working" => uses[r] = r

McpInv == McpTypeOK /\ OneSetOfServers /\ SetsStay

LEMMA McpInitially == McpInit => McpInv
<1> SUFFICES ASSUME McpInit PROVE McpInv
  OBVIOUS
<1> QED
  BY DEF McpInit, McpInv, McpTypeOK, OneSetOfServers, SetsStay, McpCalls

\* The steps of a prompt: two looks into the cache, the launch between.
LEMMA PromptKeeps ==
    ASSUME McpInv, NEW p \in ChatCalls,
           LookUp(p) \/ Keep2nd(p) \/ EndPrompt(p)
           \/ \E got \in SUBSET Servers : Launch(p, got)
    PROVE  McpInv'
<1> USE McpAssumption DEF McpInv, McpTypeOK, OneSetOfServers, SetsStay, McpCalls, Goes, ends
<1>1. CASE LookUp(p)
  BY <1>1 DEF LookUp
<1>2. CASE Keep2nd(p)
  <2>1. CASE cache = NoSet
    <3>1. \A q \in ChatCalls : phase[q] # "working"
      BY <2>1
    <3> QED
      BY <1>2, <2>1, <3>1 DEF Keep2nd
  <2>2. CASE cache # NoSet
    BY <1>2, <2>2 DEF Keep2nd
  <2> QED
    BY <2>1, <2>2
<1>3. CASE EndPrompt(p)
  BY <1>3 DEF EndPrompt, Cancel
<1>4. CASE \E got \in SUBSET Servers : Launch(p, got)
  BY <1>4 DEF Launch, Launches
<1> QED
  BY <1>1, <1>2, <1>3, <1>4

LEMMA RunKeeps ==
    ASSUME McpInv, NEW r \in RunCalls, EndRun(r) \/ \E got \in SUBSET Servers : LaunchForRun(r, got)
    PROVE  McpInv'
<1> USE McpAssumption DEF McpInv, McpTypeOK, OneSetOfServers, SetsStay, McpCalls, Goes, ends
<1>1. CASE EndRun(r)
  BY <1>1 DEF EndRun
<1>2. CASE \E got \in SUBSET Servers : LaunchForRun(r, got)
  BY <1>2 DEF LaunchForRun, Launches
<1> QED
  BY <1>1, <1>2

LEMMA DeathKeeps ==
    ASSUME McpInv, NEW c \in McpCalls, LoseContext(c) \/ \E s \in Servers : ServerDies(c, s)
    PROVE  McpInv'
BY McpAssumption DEF McpInv, McpTypeOK, OneSetOfServers, SetsStay, McpCalls, LoseContext, Cancel, ServerDies, ends

LEMMA McpStep == McpInv /\ [McpNext]_mcpVars => McpInv'
<1> SUFFICES ASSUME McpInv, [McpNext]_mcpVars PROVE McpInv'
  OBVIOUS
<1>1. CASE McpNext
  BY <1>1, PromptKeeps, RunKeeps, DeathKeeps DEF McpNext
<1>2. CASE UNCHANGED mcpVars
  BY <1>2 DEF mcpVars, ends, McpInv, McpTypeOK, OneSetOfServers, SetsStay, McpCalls
<1> QED
  BY <1>1, <1>2

(* Every reachable state is well typed: a call uses the set of a call, and *)
(* the cache holds a prompt's (run.go:132, 216).                           *)
THEOREM McpTypeCorrect == McpSpec => []McpTypeOK
<1>1. McpInv => McpTypeOK
  BY DEF McpInv
<1> QED
  BY <1>1, McpInitially, McpStep, PTL DEF McpSpec

(* However many prompts launch at once, the double-checked cache of        *)
(* ensureSessionMCPTools leaves one set, none that a prompt or a run works *)
(* with is closed, and no process of another set is left running.          *)
THEOREM OneSet == McpSpec => []OneSetOfServers
<1>1. McpInv => OneSetOfServers
  BY DEF McpInv
<1> QED
  BY <1>1, McpInitially, McpStep, PTL DEF McpSpec

-----------------------------------------------------------------------------

Wire == 0..MaxIds

(* The ids are handed out in order and once: a call in flight has its own, *)
(* until an answer is delivered the channel of its id is empty, and from   *)
(* its entry on, not only when it waits, it can be found.                  *)
IdsAreFresh ==
    /\ pending \subseteq 1..lastId
    /\ \A c \in Clients : req[c].id \in 0..lastId /\ (InCall(c) => req[c].id # 0)
    /\ \A id \in pending : \E c \in Clients : InCall(c) /\ req[c].id = id
    /\ \A c, d \in Clients : InCall(c) /\ InCall(d) /\ req[c].id = req[d].id => c = d
    /\ \A id \in 1..MaxIds : id \in pending \/ id > lastId => box[id] = "empty"
    /\ \A c \in Clients : InCall(c) =>
         req[c].id \in pending \/ box[req[c].id] # "empty" \/ (loop.step = "found" /\ loop.id = req[c].id)
    /\ loop.step = "found" => loop.id \in 1..lastId /\ loop.id \notin pending /\ box[loop.id] = "empty"

LoopStates == [step : {"reading", "found", "asked", "locking", "replying", "done"}, id : Wire]
RpcTypes == RpcTypeOK /\ toServer \in Seq(Wire) /\ toClient \in Seq(Wire)

RpcInv == RpcTypes /\ IdsAreFresh /\ ~clash

LEMMA Bounds == MaxIds \in Nat /\ MaxAsked \in Nat /\ Room \in Nat
BY RpcAssumption

LEMMA RpcInitially == RpcInit => RpcInv
<1> SUFFICES ASSUME RpcInit PROVE RpcInv
  OBVIOUS
<1> USE Bounds DEF RpcInit
<1>1. toServer \in Seq(Wire) /\ toClient \in Seq(Wire)
      /\ Len(toServer) = 0 /\ Len(toClient) = 0
  OBVIOUS
<1>2. loop \in LoopStates
  BY DEF LoopStates, Wire
<1>3. req \in [Clients -> [step : {"idle", "entered", "write", "locking", "writing", "waiting", "answered", "failed"}, id : 0..MaxIds]]
  OBVIOUS
<1>4. pending \subseteq 1..MaxIds /\ box \in [1..MaxIds -> {"empty", "answer", "error"}] /\ heard \subseteq 1..MaxIds
  OBVIOUS
<1>5. /\ kind \in {"lsp", "mcp"} /\ lastId \in 0..MaxIds /\ asked \in 0..MaxAsked /\ server \in {"up", "down"}
      /\ closing = "no" /\ writing = Free
  OBVIOUS
<1>6. clash \in BOOLEAN
  OBVIOUS
<1>7. RpcTypeOK
  BY <1>1, <1>2, <1>3, <1>4, <1>5, <1>6 DEF RpcTypeOK, LoopStates, Wire
<1>8. IdsAreFresh
  BY DEF IdsAreFresh, InCall
<1> QED
  BY <1>1, <1>7, <1>8 DEF RpcInv, RpcTypes

LEMMA CallKeepsTypes ==
    ASSUME RpcTypes, NEW c \in Clients, Enter(c) \/ Caller(c)
    PROVE  RpcTypes'
<1> USE Bounds DEF RpcTypes, RpcTypeOK, Wire, Becomes, Drop, Free, Ask, Loop, Reading
<1>1. CASE Enter(c)
  BY <1>1 DEF Enter
<1>2. CASE Register(c)
  BY <1>2 DEF Register
<1>3. CASE MayWriteOn(c)
  BY <1>3 DEF MayWriteOn
<1>4. CASE RefuseWrite(c)
  BY <1>4 DEF RefuseWrite
<1>5. CASE Lock(c)
  BY <1>5 DEF Lock
<1>6. CASE Write(c)
  BY <1>6 DEF Write
<1>7. CASE FailWrite(c)
  BY <1>7 DEF FailWrite
<1>8. CASE TakeAnswer(c)
  BY <1>8 DEF TakeAnswer
<1>9. CASE GiveUp(c)
  BY <1>9 DEF GiveUp
<1> QED
  BY <1>1, <1>2, <1>3, <1>4, <1>5, <1>6, <1>7, <1>8, <1>9 DEF Caller

LEMMA ServerKeepsTypes ==
    ASSUME RpcTypes, Hear \/ AskClient \/ Exit \/ (\E id \in 1..MaxIds : Answer(id)) \/ Shutdown
    PROVE  RpcTypes'
<1> USE Bounds DEF RpcTypes, RpcTypeOK, Wire, Becomes, Drop, Free, Ask, Loop, Reading
<1>1. CASE Hear
  <2>1. Head(toServer) \in Wire /\ toServer' \in Seq(Wire) /\ Len(toServer') \in 0..Room
    BY <1>1 DEF Hear
  <2>2. {Head(toServer)} \ {Ask} \subseteq 1..MaxIds
    BY <2>1
  <2>3. heard' \subseteq 1..MaxIds
    BY <1>1, <2>2 DEF Hear
  <2> QED
    BY <1>1, <2>1, <2>3 DEF Hear
<1>2. CASE AskClient
  <2>1. PICK id \in (IF kind = "lsp" THEN {Ask} ELSE 1..MaxIds) : toClient' = Append(toClient, id)
    BY <1>2 DEF AskClient
  <2>2. id \in Wire
    BY <2>1
  <2>3. toClient' \in Seq(Wire) /\ Len(toClient') \in 0..Room
    BY <1>2, <2>1, <2>2 DEF AskClient
  <2> QED
    BY <1>2, <2>3 DEF AskClient
<1>3. CASE Exit
  BY <1>3 DEF Exit
<1>4. CASE \E id \in 1..MaxIds : Answer(id)
  BY <1>4 DEF Answer
<1>5. CASE Shutdown
  BY <1>5 DEF Shutdown
<1> QED
  BY <1>1, <1>2, <1>3, <1>4, <1>5

LEMMA ReaderKeepsTypes ==
    ASSUME RpcTypes, Reader \/ GiveUpReading
    PROVE  RpcTypes'
<1> USE Bounds DEF RpcTypes, RpcTypeOK, Wire, Becomes, Drop, Free, Ask, Loop, Reading
<1>1. CASE ReadOne
  <2> DEFINE id == Head(toClient)
  <2>1. id \in 0..MaxIds /\ toClient' \in Seq(Wire) /\ Len(toClient') \in 0..Room
    BY <1>1 DEF ReadOne
  <2> QED
    BY <1>1, <2>1 DEF ReadOne
<1>2. CASE Deliver
  <2>1. loop' \in LoopStates
    BY <1>2 DEF Deliver, LoopStates
  <2>2. box' \in [1..MaxIds -> {"empty", "answer", "error"}] /\ clash' \in BOOLEAN
    BY <1>2 DEF Deliver
  <2> QED
    BY <1>2, <2>1, <2>2 DEF Deliver, LoopStates
<1>3. CASE MayReply
  <2>1. loop' = Reading \/ loop' = [loop EXCEPT !.step = "locking"]
    BY <1>3 DEF MayReply
  <2>2. loop' \in LoopStates
    BY <2>1 DEF LoopStates
  <2> QED
    BY <1>3, <2>2 DEF MayReply, LoopStates
<1>4. CASE LockLoop
  BY <1>4 DEF LockLoop
<1>5. CASE ReplyToServer
  BY <1>5 DEF ReplyToServer
<1>6. CASE FailReply
  BY <1>6 DEF FailReply
<1>7. CASE Finish
  <2>1. loop' \in LoopStates
    BY <1>7 DEF Finish, LoopStates
  <2>2. box' \in [1..MaxIds -> {"empty", "answer", "error"}]
    BY <1>7 DEF Finish
  <2>3. pending' \subseteq 1..MaxIds
    BY <1>7 DEF Finish
  <2>4. clash' \in BOOLEAN
    BY <1>7 DEF Finish
  <2> QED
    BY <1>7, <2>1, <2>2, <2>3, <2>4 DEF Finish, LoopStates
<1> QED
  BY <1>1, <1>2, <1>3, <1>4, <1>5, <1>6, <1>7 DEF Reader, EndLoop, GiveUpReading

LEMMA CallKeepsIds ==
    ASSUME RpcInv, RpcTypes', NEW c \in Clients, Enter(c) \/ Caller(c)
    PROVE  IdsAreFresh' /\ ~clash'
<1> USE Bounds DEF RpcInv, RpcTypes, RpcTypeOK, IdsAreFresh, InCall, Becomes, Drop, Ask, Reading
<1>1. CASE Enter(c)
  BY <1>1, SMTT(30) DEF Enter
<1>2. CASE Register(c)
  <2>1. lastId' = lastId + 1 /\ req' = [req EXCEPT ![c] = [step |-> "write", id |-> lastId']]
        /\ pending' = pending \cup {lastId'} /\ UNCHANGED <<box, loop, clash>>
    BY <1>2 DEF Register
  <2>2. req'[c].id = lastId' /\ req'[c].step = "write" /\ \A d \in Clients \ {c} : req'[d] = req[d]
    BY <2>1
  <2>3. \A d, e \in Clients : InCall(d)' /\ InCall(e)' /\ req'[d].id = req'[e].id => d = e
    BY <2>1, <2>2
  <2>4. \A id \in pending' : \E d \in Clients : InCall(d)' /\ req'[d].id = id
    <3>1. \A id \in pending : \E d \in Clients \ {c} : InCall(d) /\ req[d].id = id
      <4>1. ~InCall(c)
        BY <1>2 DEF Register
      <4> QED
        BY <4>1
    <3> QED
      BY <2>1, <2>2, <3>1
  <2> QED
    BY <2>1, <2>2, <2>3, <2>4, SMTT(30)
<1>3. CASE MayWriteOn(c)
  BY <1>3 DEF MayWriteOn
<1>4. CASE RefuseWrite(c)
  BY <1>4 DEF RefuseWrite
<1>5. CASE Lock(c)
  BY <1>5 DEF Lock
<1>6. CASE Write(c)
  BY <1>6 DEF Write
<1>7. CASE FailWrite(c)
  BY <1>7 DEF FailWrite
<1>8. CASE TakeAnswer(c)
  BY <1>8 DEF TakeAnswer
<1>9. CASE GiveUp(c)
  BY <1>9 DEF GiveUp
<1> QED
  BY <1>1, <1>2, <1>3, <1>4, <1>5, <1>6, <1>7, <1>8, <1>9 DEF Caller

LEMMA ReaderKeepsIds ==
    ASSUME RpcInv, RpcTypes', Reader \/ GiveUpReading
    PROVE  IdsAreFresh' /\ ~clash'
<1> USE Bounds DEF RpcInv, RpcTypes, RpcTypeOK, IdsAreFresh, InCall, Becomes, Drop, Ask, Reading
<1>1. CASE ReadOne
  <2> DEFINE id == Head(toClient)
  <2>1. id \in 0..MaxIds /\ UNCHANGED <<lastId, req, box, clash>> /\ pending' = pending \ {id}
    BY <1>1 DEF ReadOne, Wire
  <2>2. CASE id \in pending
    <3>1. id # Ask /\ loop' = [step |-> "found", id |-> id]
      BY <1>1, <2>2 DEF ReadOne
    <3> QED
      BY <1>1, <2>1, <2>2, <3>1 DEF ReadOne
  <2>3. CASE id \notin pending
    <3>1. pending' = pending /\ loop.step # "found" /\ loop'.step # "found"
      BY <1>1, <2>1, <2>3 DEF ReadOne
    <3> QED
      BY <2>1, <3>1, SMTT(30)
  <2> QED
    BY <2>2, <2>3
<1>2. CASE Deliver
  BY <1>2 DEF Deliver
<1>3. CASE MayReply
  BY <1>3 DEF MayReply
<1>4. CASE LockLoop
  BY <1>4 DEF LockLoop
<1>5. CASE ReplyToServer
  BY <1>5 DEF ReplyToServer
<1>6. CASE FailReply
  BY <1>6 DEF FailReply
<1>7. CASE Finish /\ loop.step = "reading"
  <2>1. CASE kind = "lsp"
    <3>1. /\ pending' = {} /\ ~clash' /\ loop'.step = "done"
          /\ box' = [id \in 1..MaxIds |-> IF id \in pending THEN "error" ELSE box[id]]
          /\ UNCHANGED <<lastId, req>>
      BY <1>7, <2>1 DEF Finish
    <3> QED
      BY <1>7, <3>1
  <2>2. CASE kind # "lsp"
    <3>1. loop'.step = "done" /\ UNCHANGED <<lastId, req, box, pending, clash>>
      BY <1>7, <2>2 DEF Finish
    <3> QED
      BY <1>7, <3>1
  <2> QED
    BY <2>1, <2>2
<1> QED
  BY <1>1, <1>2, <1>3, <1>4, <1>5, <1>6, <1>7 DEF Reader, EndLoop, GiveUpReading

\* What says whose answer is where is left alone by the server's steps.
LEMMA OthersKeepIds == ASSUME RpcInv, UNCHANGED <<lastId, req, pending, box, loop, clash>>
                       PROVE  IdsAreFresh' /\ ~clash'
BY DEF RpcInv, IdsAreFresh, InCall

LEMMA RpcStep == RpcInv /\ [RpcNext]_rpcVars => RpcInv'
<1> SUFFICES ASSUME RpcInv, [RpcNext]_rpcVars PROVE RpcInv'
  OBVIOUS
<1>1. CASE \E c \in Clients : Enter(c) \/ Caller(c)
  BY <1>1, CallKeepsTypes, CallKeepsIds DEF RpcInv
<1>2. CASE Hear \/ AskClient \/ Exit \/ (\E id \in 1..MaxIds : Answer(id)) \/ Shutdown
  <2>1. RpcTypes'
    BY <1>2, ServerKeepsTypes DEF RpcInv
  <2>2. UNCHANGED <<lastId, req, pending, box, loop, clash>>
    BY <1>2 DEF Hear, AskClient, Exit, Answer, Shutdown
  <2> QED
    BY <2>1, <2>2, OthersKeepIds DEF RpcInv
<1>3. CASE Reader \/ GiveUpReading
  BY <1>3, ReaderKeepsTypes, ReaderKeepsIds DEF RpcInv
<1>4. CASE UNCHANGED rpcVars
  <2>1. RpcTypes'
    BY <1>4 DEF rpcVars, RpcInv, RpcTypes, RpcTypeOK, Wire
  <2> QED
    BY <1>4, <2>1, OthersKeepIds DEF rpcVars, RpcInv
<1> QED
  BY <1>1, <1>2, <1>3, <1>4 DEF RpcNext

(* However many goroutines call, time out and are answered late, and       *)
(* whenever the server ends or the client is closed: no channel is sent to *)
(* twice, the table holds calls in flight only, and no waiting call is     *)
(* forgotten (lsp/client.go, mcp/client.go).                               *)
THEOREM CallsAreFound == RpcSpec => []AnswersFindCalls
<1>1. RpcInv => AnswersFindCalls
  BY DEF RpcInv, IdsAreFresh, AnswersFindCalls, InCall
<1> QED
  BY <1>1, RpcInitially, RpcStep, PTL DEF RpcSpec

(* Every reachable state of a client is well typed: its pipes hold no more *)
(* than they can, its ids are ids it gave out.                             *)
THEOREM RpcTypeCorrect == RpcSpec => []RpcTypeOK
<1>1. RpcInv => RpcTypeOK
  BY DEF RpcInv, RpcTypes
<1> QED
  BY <1>1, RpcInitially, RpcStep, PTL DEF RpcSpec

-----------------------------------------------------------------------------
(* The edit tool (EditBlocks).                                              *)

\* What the parser should make of a list of edits: see BlocksAreRead.
ReadLines(lines) == FoldLeft(ReadLine, Outset, Listing(lines))
Parsed(m, f, s, w, bs) == [mode |-> m, file |-> f, search |-> s, replace |-> w, blocks |-> bs]
EndsIn(text, n) == Cardinality({i \in 1..n : text[i] = EndMark})
FileOf(list) == IF list = <<>> THEN NoWord ELSE list[Len(list)].file
IsMisled(list) == \E k \in DOMAIN list : MisledAt(list, k)

ReadsRight(list) ==
    /\ ReadLines(TextOf(list)) = Parsed("outside", FileOf(list), <<>>, <<>>, Meant(list))
    /\ EndsIn(TextOf(list), Len(TextOf(list))) = Len(list)
    /\ \A n \in 0..Len(TextOf(list)) :
          Parse(SubSeq(TextOf(list), 1, n)) = SubSeq(Meant(list), 1, EndsIn(TextOf(list), n))

ReadsWell(list) == IsList(list) /\ ~IsMisled(list) => ReadsRight(list)

Ind == INSTANCE Inductions WITH Op <- ReadLine, Claim <- ReadsWell

LEMMA FlattenOfOneMore ==
    ASSUME NEW T, NEW s \in Seq(Seq(T)), NEW x \in Seq(T)
    PROVE  FlattenSeq(Append(s, x)) = FlattenSeq(s) \o x
BY Ind!FlatOfOneMore DEF Ind!Flat, Ind!FlattenSeq, FlattenSeq

-----------------------------------------------------------------------------
(* The edit tool.  What its text is: one block's lines behind the others'. *)

-----------------------------------------------------------------------------
(* What the parser makes of one line more.                                  *)

Near(lines, i) ==
    {j \in (IF i > NameLines THEN i - NameLines ELSE 1)..i - 1 : lines[j].word \in EditFiles \cup Dotted}

LEMMA NearIsAbove ==
    ASSUME NEW lines, NEW i \in Nat \ {0}
    PROVE  /\ Near(lines, i) \subseteq 1..i - 1
           /\ Near(lines, i) # {} => Max(Near(lines, i)) \in Near(lines, i)
                                     /\ \A m \in Near(lines, i) : m <= Max(Near(lines, i))
<1>1. Near(lines, i) \subseteq 1..i - 1 /\ i - 1 \in Nat
  BY DEF Near, NameLines
<1> DEFINE n == i - 1
           S == Near(lines, i)
<1>2. n \in Nat /\ S \subseteq 1..n
  BY <1>1
<1> HIDE DEF n, S
<1>3. S # {} => Ind!Max(S) \in S /\ \A m \in S : m <= Ind!Max(S)
  BY <1>2, Ind!Greatest
<1>4. Ind!Max(S) = Max(S)
  BY DEF Ind!Max, Max
<1>5. S # {} => Max(S) \in S /\ \A m \in S : m <= Max(S)
  BY <1>3, <1>4
<1> QED
  BY <1>1, <1>5 DEF S

LEMMA NameIsRead ==
    ASSUME NEW lines, NEW i \in Nat \ {0}
    PROVE  FindFilename(lines, i) = IF Near(lines, i) = {} THEN NoWord ELSE lines[Max(Near(lines, i))].word
<1> DEFINE S == Near(lines, i)
<1>1. SelectLastInSubSeq(lines, IF i > NameLines THEN i - NameLines ELSE 1, i - 1,
                         LAMBDA l : l.word \in EditFiles \cup Dotted) = IF S # {} THEN Max(S) ELSE 0
  BY DEF SelectLastInSubSeq, Near
<1>2. S # {} => Max(S) # 0
  <2>1. 0 \notin S
    BY NearIsAbove
  <2>2. S # {} => Max(S) \in S
    BY NearIsAbove
  <2> HIDE DEF S
  <2> QED
    BY <2>1, <2>2
<1> HIDE DEF S
<1>3. FindFilename(lines, i) = IF (IF S # {} THEN Max(S) ELSE 0) = 0 THEN NoWord
                               ELSE lines[IF S # {} THEN Max(S) ELSE 0].word
  BY <1>1 DEF FindFilename
<1>4. FindFilename(lines, i) = IF S = {} THEN NoWord ELSE lines[Max(S)].word
  BY <1>2, <1>3
<1> QED
  BY <1>4 DEF S

LEMMA NameIsAWord ==
    ASSUME NEW lines, NEW i \in Nat \ {0}
    PROVE  FindFilename(lines, i) \in {NoWord} \cup EditFiles \cup Dotted
<1>1. CASE Near(lines, i) = {}
  BY <1>1, NameIsRead
<1>2. CASE Near(lines, i) # {}
  <2>1. Max(Near(lines, i)) \in Near(lines, i)
    BY <1>2, NearIsAbove
  <2>2. lines[Max(Near(lines, i))].word \in EditFiles \cup Dotted
    BY <2>1 DEF Near
  <2> QED
    BY <1>2, <2>2, NameIsRead
<1> QED
  BY <1>1, <1>2

\* A name is looked for in the lines above only.
LEMMA NameIsAbove ==
    ASSUME NEW a, NEW b, NEW i \in Nat \ {0}, \A j \in 1..i - 1 : a[j] = b[j]
    PROVE  FindFilename(a, i) = FindFilename(b, i)
<1>1. Near(a, i) = Near(b, i)
  BY DEF Near, NameLines
<1>2. CASE Near(a, i) = {}
  BY <1>1, <1>2, NameIsRead
<1>3. CASE Near(a, i) # {}
  <2>1. Max(Near(a, i)) \in 1..i - 1
    BY <1>3, NearIsAbove
  <2>2. a[Max(Near(a, i))] = b[Max(Near(a, i))]
    BY <2>1
  <2> QED
    BY <1>1, <1>3, <2>2, NameIsRead
<1> QED
  BY <1>2, <1>3

LEMMA ReadingFolds == ASSUME NEW lines PROVE ReadLines(lines) = Ind!Fold(Outset, Listing(lines))
BY DEF ReadLines, Ind!Fold, FoldLeft, Ind!FoldLeft, MapThenFoldSet, Ind!MapThenFoldSet, Max, Ind!Max

Listed == [line : TextLine, name : {NoWord} \cup EditFiles \cup Dotted]

LEMMA ListingType ==
    ASSUME NEW lines \in Seq(TextLine)
    PROVE  Listing(lines) \in Seq(Listed)
<1>1. \A i \in DOMAIN lines : i \in Nat \ {0} /\ lines[i] \in TextLine
  OBVIOUS
<1>2. \A i \in DOMAIN lines : [line |-> lines[i], name |-> FindFilename(lines, i)] \in Listed
  BY <1>1, NameIsAWord DEF Listed
<1>3. DOMAIN lines = 1..Len(lines)
  OBVIOUS
<1> QED
  BY <1>2, <1>3 DEF Listing

LEMMA ReadingOfNothing == ReadLines(<<>>) = Outset
<1>1. Listing(<<>>) = <<>>
  BY DEF Listing
<1> QED
  BY <1>1, ReadingFolds, Ind!FoldOfNothing

LEMMA ReadingOfOneMore ==
    ASSUME NEW lines \in Seq(TextLine), NEW l \in TextLine
    PROVE  ReadLines(Append(lines, l))
           = ReadLine(ReadLines(lines), [line |-> l, name |-> FindFilename(lines, Len(lines) + 1)])
<1> DEFINE n == Len(lines)
           t == Append(lines, l)
           x == [line |-> l, name |-> FindFilename(lines, n + 1)]
<1>1. n \in Nat /\ DOMAIN lines = 1..n /\ DOMAIN t = 1..n + 1 /\ t[n + 1] = l /\ \A j \in 1..n : t[j] = lines[j]
  OBVIOUS
<1>2. \A i \in 1..n + 1 : i \in Nat \ {0} /\ \A j \in 1..i - 1 : t[j] = lines[j]
  BY <1>1
<1> HIDE DEF n, t
<1>3. \A i \in 1..n + 1 : FindFilename(t, i) = FindFilename(lines, i)
  BY <1>2, NameIsAbove
<1>4. x \in Listed
  <2>1. n + 1 \in Nat \ {0}
    BY <1>1
  <2> QED
    BY <2>1, NameIsAWord DEF Listed
<1>5. Listing(t) = Append(Listing(lines), x)
  <2> DEFINE s == Listing(lines)
  <2>1. s \in Seq(Listed) /\ Len(s) = n
    <3>1. s \in Seq(Listed)
      BY ListingType
    <3>2. DOMAIN s = 1..n
      BY <1>1 DEF Listing
    <3> HIDE DEF s
    <3> QED
      BY <1>1, <3>1, <3>2
  <2>2. \A i \in 1..n : s[i] = [line |-> lines[i], name |-> FindFilename(lines, i)]
    BY <1>1 DEF Listing
  <2> HIDE DEF s, x
  <2>3. DOMAIN Append(s, x) = 1..n + 1 /\ Append(s, x)[n + 1] = x /\ \A i \in 1..n : Append(s, x)[i] = s[i]
    BY <2>1, <1>4
  <2>4. ASSUME NEW i \in 1..n + 1
        PROVE  Append(s, x)[i] = [line |-> t[i], name |-> FindFilename(t, i)]
    <3>1. CASE i \in 1..n
      BY <1>1, <1>3, <2>2, <2>3, <3>1
    <3>2. CASE i = n + 1
      <4>1. FindFilename(t, n + 1) = FindFilename(lines, n + 1)
        BY <1>3, <3>2
      <4> QED
        BY <1>1, <2>3, <3>2, <4>1 DEF x
    <3>3. i \in 1..n \/ i = n + 1
      BY <1>1, <2>4
    <3> QED
      BY <3>1, <3>2, <3>3
  <2>5. Append(s, x) = [i \in 1..n + 1 |-> Append(s, x)[i]]
    <3>1. Append(s, x) \in Seq(Listed)
      BY <1>4, <2>1
    <3> DEFINE u == Append(s, x)
    <3>2. u \in Seq(Listed) /\ DOMAIN u = 1..n + 1
      BY <2>3, <3>1
    <3> HIDE DEF u
    <3>3. u = [i \in DOMAIN u |-> u[i]]
      BY <3>2
    <3>4. u = [i \in 1..n + 1 |-> u[i]]
      BY <3>2, <3>3
    <3> QED
      BY <3>4 DEF u
  <2>6. Append(s, x) = [i \in 1..n + 1 |-> [line |-> t[i], name |-> FindFilename(t, i)]]
    BY <2>4, <2>5
  <2> QED
    BY <1>1, <2>6 DEF Listing, s
<1>6. Ind!Fold(Outset, Append(Listing(lines), x)) = ReadLine(Ind!Fold(Outset, Listing(lines)), x)
  <2> DEFINE s == Listing(lines)
  <2>1. s \in Seq(Listed)
    BY ListingType
  <2> HIDE DEF s, x
  <2>2. Ind!Fold(Outset, Append(s, x)) = ReadLine(Ind!Fold(Outset, s), x)
    BY <1>4, <2>1, Ind!FoldOfOneMore
  <2> QED
    BY <2>2 DEF s
<1> QED
  BY <1>5, <1>6, ReadingFolds DEF n, t
-----------------------------------------------------------------------------
(* What a block looks like in the agent's text.                             *)

MarkWords == {"SEARCH", "DIVIDER", "REPLACE"}
IsUnmarked(lines) == \A j \in DOMAIN lines : lines[j].word \notin MarkWords

LEMMA ShiftKeeps ==
    ASSUME NEW lines \in Seq(TextLine), NEW d \in Int, IsPlain(lines, d)
    PROVE  /\ Shift(lines, d) \in Seq(TextLine) /\ Len(Shift(lines, d)) = Len(lines)
           /\ IsUnmarked(Shift(lines, d))
           /\ \A j \in 1..Len(lines) : Shift(lines, d)[j].word = lines[j].word /\ Shift(lines, d)[j].tail = lines[j].tail
<1>1. DOMAIN lines = 1..Len(lines) /\ Len(lines) \in Nat
  OBVIOUS
<1>2. \A j \in 1..Len(lines) : lines[j] \in TextLine
  OBVIOUS
<1> DEFINE m(j) == IF IsBlank(lines[j]) THEN lines[j] ELSE [lines[j] EXCEPT !.in = @ + d]
<1>3. ASSUME NEW j \in 1..Len(lines)
      PROVE  m(j) \in TextLine /\ m(j).word = lines[j].word /\ m(j).tail = lines[j].tail
  <2>1. CASE IsBlank(lines[j])
    BY <1>2, <2>1
  <2>2. CASE ~IsBlank(lines[j])
    <3>1. lines[j].in + d \in Nat
      BY <1>1, <2>2 DEF IsPlain, IsBlank
    <3>2. lines[j] \in TextLine
      BY <1>2
    <3>3. [lines[j] EXCEPT !.in = @ + d] \in TextLine
      BY <3>1, <3>2 DEF TextLine
    <3>4. m(j) = [lines[j] EXCEPT !.in = @ + d]
      BY <2>2
    <3>5. m(j).word = lines[j].word /\ m(j).tail = lines[j].tail
      BY <3>2, <3>4 DEF TextLine
    <3> QED
      BY <3>3, <3>4, <3>5
  <2> QED
    BY <2>1, <2>2
<1>4. Shift(lines, d) = [j \in 1..Len(lines) |-> m(j)]
  BY <1>1 DEF Shift
<1>5. \A j \in 1..Len(lines) : lines[j].word \notin MarkWords
  BY <1>1 DEF IsPlain, MarkWords
<1> DEFINE t == Shift(lines, d)
<1>6. t = [j \in 1..Len(lines) |-> m(j)]
  BY <1>4
<1> HIDE DEF m, t
<1>7. t \in Seq(TextLine) /\ Len(t) = Len(lines) /\ DOMAIN t = 1..Len(lines)
  <2>1. \A j \in 1..Len(lines) : m(j) \in TextLine
    BY <1>3
  <2> QED
    BY <1>1, <1>6, <2>1
<1>8. \A j \in 1..Len(lines) : t[j] = m(j)
  BY <1>6
<1>9. IsUnmarked(t)
  BY <1>3, <1>5, <1>7, <1>8 DEF IsUnmarked
<1> QED
  BY <1>3, <1>7, <1>8, <1>9 DEF t

LEMMA TrimKeeps ==
    ASSUME NEW lines \in Seq(TextLine), IsUnmarked(lines)
    PROVE  /\ Trimmed(lines) \in Seq(TextLine) /\ Len(Trimmed(lines)) = Len(lines)
           /\ IsUnmarked(Trimmed(lines))
           /\ \A j \in 1..Len(lines) : Trimmed(lines)[j] = [lines[j] EXCEPT !.tail = FALSE]
<1>1. DOMAIN lines = 1..Len(lines) /\ Len(lines) \in Nat
  OBVIOUS
<1>2. \A j \in 1..Len(lines) : lines[j] \in TextLine
  OBVIOUS
<1> DEFINE m(j) == [lines[j] EXCEPT !.tail = FALSE]
           t == Trimmed(lines)
<1>3. ASSUME NEW j \in 1..Len(lines)
      PROVE  m(j) \in TextLine /\ m(j).word = lines[j].word
  <2>1. lines[j] \in TextLine
    BY <1>2
  <2> QED
    BY <2>1 DEF TextLine
<1>4. t = [j \in 1..Len(lines) |-> m(j)]
  BY <1>1 DEF Trimmed
<1>5. \A j \in 1..Len(lines) : lines[j].word \notin MarkWords
  BY <1>1 DEF IsUnmarked
<1>6. \A j \in 1..Len(lines) : m(j) = [lines[j] EXCEPT !.tail = FALSE]
  OBVIOUS
<1> HIDE DEF m, t
<1>7. t \in Seq(TextLine) /\ Len(t) = Len(lines) /\ DOMAIN t = 1..Len(lines)
  <2>1. \A j \in 1..Len(lines) : m(j) \in TextLine
    BY <1>3
  <2> QED
    BY <1>1, <1>4, <2>1
<1>8. \A j \in 1..Len(lines) : t[j] = m(j)
  BY <1>4
<1>9. IsUnmarked(t)
  BY <1>3, <1>5, <1>7, <1>8 DEF IsUnmarked
<1> QED
  BY <1>6, <1>7, <1>8, <1>9 DEF t

IsWish(e) == e \in Wish /\ IsPlain(e.old, e.shift) /\ IsPlain(e.new, e.shift)

LEMMA WishType ==
    ASSUME NEW e, IsWish(e)
    PROVE  /\ e.file \in EditFiles /\ e.old \in Seq(TextLine) /\ e.new \in Seq(TextLine) /\ e.shift \in Int
           /\ e.trim \in BOOLEAN /\ e.named \in BOOLEAN /\ e.gap \in 0..2
BY DEF IsWish, Wish, NameLines

LEMMA BlockLines ==
    ASSUME NEW e, IsWish(e)
    PROVE  /\ Searched(e) \in Seq(TextLine) /\ IsUnmarked(Searched(e))
           /\ Written(e) \in Seq(TextLine) /\ IsUnmarked(Written(e))
<1>1. e.old \in Seq(TextLine) /\ e.new \in Seq(TextLine) /\ e.shift \in Int
      /\ IsPlain(e.old, e.shift) /\ IsPlain(e.new, e.shift)
  BY WishType DEF IsWish
<1> DEFINE s == Shift(e.old, e.shift)
<1>2. s \in Seq(TextLine) /\ IsUnmarked(s)
  BY <1>1, ShiftKeeps
<1>3. Written(e) \in Seq(TextLine) /\ IsUnmarked(Written(e))
  BY <1>1, ShiftKeeps DEF Written
<1>4. Searched(e) = IF e.trim THEN Trimmed(s) ELSE s
  BY DEF Searched
<1> HIDE DEF s
<1>5. Trimmed(s) \in Seq(TextLine) /\ IsUnmarked(Trimmed(s))
  BY <1>2, TrimKeeps
<1> QED
  BY <1>2, <1>3, <1>4, <1>5

\* The lines before the mark that opens a block.
Headed(e) == IF e.named THEN <<Line(0, e.file)>> \o [k \in 1..e.gap |-> Fence] ELSE <<>>

LEMMA MarkTypes == {HeadMark, Divider, EndMark, Fence} \subseteq TextLine
BY DEF HeadMark, Divider, EndMark, Fence, Line, TextLine, Words

LEMMA MarksDiffer ==
    /\ HeadMark # Divider /\ HeadMark # EndMark /\ Divider # EndMark
    /\ \A l : l.word \notin MarkWords => l # HeadMark /\ l # Divider /\ l # EndMark
BY DEF HeadMark, Divider, EndMark, Line, MarkWords

LEMMA HeadedLines ==
    ASSUME NEW e, IsWish(e)
    PROVE  /\ Headed(e) \in Seq(TextLine)
           /\ IsUnmarked(Headed(e))
           /\ ~e.named => Len(Headed(e)) = 0
           /\ e.named => /\ Len(Headed(e)) \in 1..NameLines
                         /\ Headed(e)[1].word = e.file
                         /\ \A j \in 2..Len(Headed(e)) : Headed(e)[j].word \notin EditFiles \cup Dotted
<1>1. CASE ~e.named
  <2>1. Headed(e) = <<>>
    BY <1>1 DEF Headed
  <2> QED
    BY <1>1, <2>1 DEF IsUnmarked
<1>2. CASE e.named
  <2> DEFINE g == e.gap
             p == Line(0, e.file)
             f == [k \in 1..g |-> Fence]
             t == <<p>> \o f
  <2>1. e.file \in EditFiles /\ g \in 0..2 /\ e.file \in Words \ {NoWord, "SEARCH", "DIVIDER", "REPLACE", "~~~"}
    BY WishType, BlocksAssumption
  <2>0. g = e.gap /\ g \in 0..2
    BY WishType
  <2>1a. g \in Nat /\ g <= 2
    BY <2>0
  <2> HIDE DEF g
  <2>2. p \in TextLine /\ p.word = e.file
    BY <2>1 DEF Line, TextLine
  <2>3. Fence \in TextLine /\ Fence.word = "~~~"
    BY MarkTypes DEF Fence, Line
  <2>4. f \in Seq(TextLine) /\ Len(f) = g /\ \A k \in 1..g : f[k] = Fence
    BY <2>1a, <2>3
  <2> HIDE DEF p, f
  <2>5. t \in Seq(TextLine) /\ Len(t) = g + 1 /\ t[1] = p /\ \A j \in 2..g + 1 : t[j] = Fence
    <3>1. <<p>> \in Seq(TextLine) /\ Len(<<p>>) = 1 /\ <<p>>[1] = p
      BY <2>2
    <3>2. t \in Seq(TextLine) /\ Len(t) = g + 1
      BY <2>1a, <2>4, <3>1
    <3>3. t[1] = p
      BY <2>1a, <2>4, <3>1
    <3>4. ASSUME NEW j \in 2..g + 1 PROVE t[j] = Fence
      <4>1. j - 1 \in 1..g /\ t[j] = f[j - 1]
        BY <2>1a, <2>4, <3>1
      <4> QED
        BY <2>4, <4>1
    <3> QED
      BY <3>2, <3>3, <3>4
  <2>6. Headed(e) = t
    BY <1>2, <2>0 DEF Headed, p, f
  <2> HIDE DEF t
  <2>7. "~~~" \notin MarkWords /\ e.file \notin MarkWords /\ "~~~" \notin EditFiles \cup Dotted
    BY <2>1, BlocksAssumption DEF MarkWords
  <2>8. \A j \in 1..g + 1 : t[j].word \notin MarkWords
    BY <2>1a, <2>2, <2>3, <2>5, <2>7
  <2>9. DOMAIN t = 1..g + 1
    BY <2>1a, <2>5
  <2>10. IsUnmarked(t)
    BY <2>8, <2>9 DEF IsUnmarked
  <2>11. \A j \in 2..Len(t) : t[j].word \notin EditFiles \cup Dotted
    BY <2>3, <2>5, <2>7
  <2>12. Len(t) \in 1..NameLines /\ t[1].word = e.file
    BY <2>1a, <2>2, <2>5 DEF NameLines
  <2> QED
    BY <1>2, <2>5, <2>6, <2>10, <2>11, <2>12
<1>3. e.named \in BOOLEAN
  BY WishType
<1> QED
  BY <1>1, <1>2, <1>3

LEMMA OneLine == ASSUME NEW T, NEW l \in T PROVE <<l>> \in Seq(T) /\ Len(<<l>>) = 1 /\ <<l>>[1] = l
OBVIOUS

LEMMA WithOneLine ==
    ASSUME NEW T, NEW s \in Seq(T), NEW l \in T
    PROVE  /\ s \o <<l>> \in Seq(T) /\ Len(s \o <<l>>) = Len(s) + 1 /\ (s \o <<l>>)[Len(s) + 1] = l
           /\ \A i \in 1..Len(s) : (s \o <<l>>)[i] = s[i]
<1> DEFINE o == <<l>>
<1>1. o \in Seq(T) /\ Len(o) = 1 /\ o[1] = l
  BY OneLine
<1> HIDE DEF o
<1>1a. s \in Seq(T) /\ o \in Seq(T)
  BY <1>1
<1>2. /\ s \o o \in Seq(T) /\ Len(s \o o) = Len(s) + Len(o)
      /\ \A i \in 1..Len(s) : (s \o o)[i] = s[i]
      /\ \A i \in 1..Len(o) : (s \o o)[Len(s) + i] = o[i]
  BY <1>1a
<1>3. /\ s \o o \in Seq(T) /\ Len(s \o o) = Len(s) + 1 /\ (s \o o)[Len(s) + 1] = l
      /\ \A i \in 1..Len(s) : (s \o o)[i] = s[i]
  BY <1>1, <1>2
<1> QED
  BY <1>3 DEF o

\* The places of a block's lines: h before the mark, s to search, w to put.
IsLaidOut(b, h, s, w) ==
    /\ b \in Seq(TextLine) /\ Len(b) = Len(h) + Len(s) + Len(w) + 3
    /\ \A j \in 1..Len(h) : b[j] = h[j]
    /\ b[Len(h) + 1] = HeadMark
    /\ \A j \in 1..Len(s) : b[Len(h) + 1 + j] = s[j]
    /\ b[Len(h) + Len(s) + 2] = Divider
    /\ \A j \in 1..Len(w) : b[Len(h) + Len(s) + 2 + j] = w[j]
    /\ b[Len(h) + Len(s) + Len(w) + 3] = EndMark

LEMMA LaidOut ==
    ASSUME NEW h \in Seq(TextLine), NEW s \in Seq(TextLine), NEW w \in Seq(TextLine)
    PROVE  IsLaidOut(h \o <<HeadMark>> \o s \o <<Divider>> \o w \o <<EndMark>>, h, s, w)
<1>1. Len(h) \in Nat /\ Len(s) \in Nat /\ Len(w) \in Nat /\ HeadMark \in TextLine /\ Divider \in TextLine /\ EndMark \in TextLine
  BY MarkTypes
<1> DEFINE p1 == h \o <<HeadMark>>
           p2 == p1 \o s
           p3 == p2 \o <<Divider>>
           p4 == p3 \o w
           p5 == p4 \o <<EndMark>>
           x == Len(h)
           y == Len(s)
           z == Len(w)
<1>2. /\ p1 \in Seq(TextLine) /\ Len(p1) = x + 1 /\ p1[x + 1] = HeadMark
      /\ \A i \in 1..x : p1[i] = h[i]
  BY <1>1, WithOneLine
<1> HIDE DEF p1, p2, p3, p4, p5
<1>3. /\ p2 \in Seq(TextLine) /\ Len(p2) = x + 1 + y
      /\ \A i \in 1..x + 1 : p2[i] = p1[i]
      /\ \A i \in 1..y : p2[x + 1 + i] = s[i]
  <2>1. p1 \in Seq(TextLine) /\ s \in Seq(TextLine)
    BY <1>2
  <2>2. /\ p2 \in Seq(TextLine) /\ Len(p2) = Len(p1) + Len(s)
        /\ \A i \in 1..Len(p1) : p2[i] = p1[i]
        /\ \A i \in 1..Len(s) : p2[Len(p1) + i] = s[i]
    BY <2>1, Ind!Beside DEF p2
  <2> QED
    BY <1>1, <1>2, <2>2
<1>4. /\ p3 \in Seq(TextLine) /\ Len(p3) = x + y + 2 /\ p3[x + y + 2] = Divider
      /\ \A i \in 1..x + 1 + y : p3[i] = p2[i]
  <2>1. /\ p3 \in Seq(TextLine) /\ Len(p3) = Len(p2) + 1 /\ p3[Len(p2) + 1] = Divider
        /\ \A i \in 1..Len(p2) : p3[i] = p2[i]
    <3>1. p2 \in Seq(TextLine) /\ Divider \in TextLine
      BY <1>1, <1>3
    <3> QED
      BY <3>1, WithOneLine DEF p3
  <2> HIDE DEF x, y
  <2>2. x \in Nat /\ y \in Nat
    BY <1>1 DEF x, y
  <2>3. Len(p2) + 1 = x + y + 2
    BY <1>3, <2>2
  <2> QED
    BY <2>1, <2>3, <1>3
<1>5. /\ p4 \in Seq(TextLine) /\ Len(p4) = x + y + 2 + z
      /\ \A i \in 1..x + y + 2 : p4[i] = p3[i]
      /\ \A i \in 1..z : p4[x + y + 2 + i] = w[i]
  <2>1. p3 \in Seq(TextLine) /\ w \in Seq(TextLine)
    BY <1>4
  <2>2. /\ p4 \in Seq(TextLine) /\ Len(p4) = Len(p3) + Len(w)
        /\ \A i \in 1..Len(p3) : p4[i] = p3[i]
        /\ \A i \in 1..Len(w) : p4[Len(p3) + i] = w[i]
    BY <2>1, Ind!Beside DEF p4
  <2> QED
    BY <1>1, <1>4, <2>2
<1>6. /\ p5 \in Seq(TextLine) /\ Len(p5) = x + y + z + 3 /\ p5[x + y + z + 3] = EndMark
      /\ \A i \in 1..x + y + 2 + z : p5[i] = p4[i]
  <2>1. /\ p5 \in Seq(TextLine) /\ Len(p5) = Len(p4) + 1 /\ p5[Len(p4) + 1] = EndMark
        /\ \A i \in 1..Len(p4) : p5[i] = p4[i]
    <3>1. p4 \in Seq(TextLine) /\ EndMark \in TextLine
      BY <1>1, <1>5
    <3> QED
      BY <3>1, WithOneLine DEF p5
  <2> HIDE DEF x, y, z
  <2>2. x \in Nat /\ y \in Nat /\ z \in Nat
    BY <1>1 DEF x, y, z
  <2>3. Len(p4) + 1 = x + y + z + 3
    BY <1>5, <2>2
  <2> QED
    BY <2>1, <2>3, <1>5
<1>7. x \in Nat /\ y \in Nat /\ z \in Nat
  BY <1>1
<1> HIDE DEF x, y, z
<1>8. \A j \in 1..x : p5[j] = h[j]
  BY <1>2, <1>3, <1>4, <1>5, <1>6, <1>7
<1>9. p5[x + 1] = HeadMark
  BY <1>2, <1>3, <1>4, <1>5, <1>6, <1>7
<1>10. ASSUME NEW j \in 1..y PROVE p5[x + 1 + j] = s[j]
  <2>1. x + 1 + j \in 1..x + 1 + y /\ x + 1 + j \in 1..x + y + 2 /\ x + 1 + j \in 1..x + y + 2 + z
    BY <1>7
  <2> QED
    BY <1>3, <1>4, <1>5, <1>6, <2>1
<1>11. p5[x + y + 2] = Divider
  <2>1. x + y + 2 \in 1..x + y + 2 /\ x + y + 2 \in 1..x + y + 2 + z
    BY <1>7
  <2> QED
    BY <1>4, <1>5, <1>6, <2>1
<1>12. ASSUME NEW j \in 1..z PROVE p5[x + y + 2 + j] = w[j]
  <2>1. x + y + 2 + j \in 1..x + y + 2 + z
    BY <1>7
  <2> QED
    BY <1>5, <1>6, <2>1
<1>13. IsLaidOut(p5, h, s, w)
  BY <1>6, <1>8, <1>9, <1>10, <1>11, <1>12 DEF IsLaidOut, x, y, z
<1> QED
  BY <1>13 DEF p1, p2, p3, p4, p5

LEMMA PrintedIsLaidOut ==
    ASSUME NEW e, IsWish(e)
    PROVE  IsLaidOut(Printed(e), Headed(e), Searched(e), Written(e))
<1>1. Headed(e) \in Seq(TextLine) /\ Searched(e) \in Seq(TextLine) /\ Written(e) \in Seq(TextLine)
  BY BlockLines, HeadedLines
<1>2. Printed(e) = Headed(e) \o <<HeadMark>> \o Searched(e) \o <<Divider>> \o Written(e) \o <<EndMark>>
  BY DEF Printed, Headed
<1> QED
  BY <1>1, <1>2, LaidOut
-----------------------------------------------------------------------------
(* What the parser makes of each line of a block.                           *)

BlockOf(f, s, w) == [file |-> f, search |-> s, replace |-> w]

LEMMA ReadsOther ==
    ASSUME NEW f, NEW bs, NEW l, NEW n, l \notin Marks
    PROVE  ReadLine(Parsed("outside", f, <<>>, <<>>, bs), [line |-> l, name |-> n]) = Parsed("outside", f, <<>>, <<>>, bs)
BY DEF ReadLine, Parsed, Marks

LEMMA ReadsHead ==
    ASSUME NEW f, NEW bs, NEW n, n # NoWord \/ f # NoWord
    PROVE  ReadLine(Parsed("outside", f, <<>>, <<>>, bs), [line |-> HeadMark, name |-> n])
           = Parsed("search", IF n = NoWord THEN f ELSE n, <<>>, <<>>, bs)
<1> DEFINE p == Parsed("outside", f, <<>>, <<>>, bs)
<1>1. p.mode = "outside" /\ p.file = f
  BY DEF Parsed
<1> HIDE DEF p
<1>2. ReadLine(p, [line |-> HeadMark, name |-> n])
      = [p EXCEPT !.mode = "search", !.file = IF n = NoWord THEN @ ELSE n]
  BY <1>1, MarksDiffer DEF ReadLine, Marks
<1> DEFINE m == IF n = NoWord THEN f ELSE n
<1>3. [p EXCEPT !.mode = "search", !.file = IF n = NoWord THEN @ ELSE n] = [[p EXCEPT !.mode = "search"] EXCEPT !.file = m]
  BY <1>1
<1> HIDE DEF m
<1>4. [p EXCEPT !.mode = "search"] = Parsed("search", f, <<>>, <<>>, bs)
  BY DEF Parsed, p
<1>5. [Parsed("search", f, <<>>, <<>>, bs) EXCEPT !.file = m] = Parsed("search", m, <<>>, <<>>, bs)
  BY DEF Parsed
<1> QED
  BY <1>2, <1>3, <1>4, <1>5 DEF p, m

LEMMA ReadsSearched ==
    ASSUME NEW f, NEW bs, NEW s, NEW l, NEW n, l \notin Marks
    PROVE  ReadLine(Parsed("search", f, s, <<>>, bs), [line |-> l, name |-> n]) = Parsed("search", f, Append(s, l), <<>>, bs)
<1> DEFINE p == Parsed("search", f, s, <<>>, bs)
<1>1. p.mode = "search" /\ p.search = s
  BY DEF Parsed
<1> HIDE DEF p
<1>2. ReadLine(p, [line |-> l, name |-> n]) = [p EXCEPT !.search = Append(@, l)]
  BY <1>1 DEF ReadLine, Marks
<1> USE DEF p
<1>3. [p EXCEPT !.search = Append(@, l)] = Parsed("search", f, Append(s, l), <<>>, bs)
  BY DEF Parsed
<1> QED
  BY <1>2, <1>3

LEMMA ReadsDivider ==
    ASSUME NEW f, NEW bs, NEW s, NEW n
    PROVE  ReadLine(Parsed("search", f, s, <<>>, bs), [line |-> Divider, name |-> n]) = Parsed("replace", f, s, <<>>, bs)
<1> DEFINE p == Parsed("search", f, s, <<>>, bs)
<1>1. p.mode = "search"
  BY DEF Parsed
<1> HIDE DEF p
<1>2. ReadLine(p, [line |-> Divider, name |-> n]) = [p EXCEPT !.mode = "replace"]
  BY <1>1, MarksDiffer DEF ReadLine, Marks
<1> USE DEF p
<1>3. [p EXCEPT !.mode = "replace"] = Parsed("replace", f, s, <<>>, bs)
  BY DEF Parsed
<1> QED
  BY <1>2, <1>3

LEMMA ReadsWritten ==
    ASSUME NEW f, NEW bs, NEW s, NEW w, NEW l, NEW n, l \notin Marks
    PROVE  ReadLine(Parsed("replace", f, s, w, bs), [line |-> l, name |-> n]) = Parsed("replace", f, s, Append(w, l), bs)
<1> DEFINE p == Parsed("replace", f, s, w, bs)
<1>1. p.mode = "replace"
  BY DEF Parsed
<1> HIDE DEF p
<1>2. ReadLine(p, [line |-> l, name |-> n]) = [p EXCEPT !.replace = Append(@, l)]
  BY <1>1 DEF ReadLine, Marks
<1> USE DEF p
<1>3. [p EXCEPT !.replace = Append(@, l)] = Parsed("replace", f, s, Append(w, l), bs)
  BY DEF Parsed
<1> QED
  BY <1>2, <1>3

LEMMA ReadsEnd ==
    ASSUME NEW f, NEW bs, NEW s, NEW w, NEW n
    PROVE  ReadLine(Parsed("replace", f, s, w, bs), [line |-> EndMark, name |-> n])
           = Parsed("outside", f, <<>>, <<>>, Append(bs, BlockOf(f, s, w)))
<1> DEFINE p == Parsed("replace", f, s, w, bs)
           b == BlockOf(f, s, w)
<1>1. p.mode = "replace" /\ b = [file |-> p.file, search |-> p.search, replace |-> p.replace]
  BY DEF Parsed, BlockOf
<1> HIDE DEF p, b
<1>2. ReadLine(p, [line |-> EndMark, name |-> n])
      = [Fresh(p) EXCEPT !.mode = "outside", !.blocks = Append(@, b)]
  BY <1>1, MarksDiffer DEF ReadLine, Marks
<1>3. Fresh(p) = Parsed("replace", f, <<>>, <<>>, bs)
  <2>1. Fresh(p) = [[p EXCEPT !.search = <<>>] EXCEPT !.replace = <<>>]
    BY DEF Fresh
  <2>2. [p EXCEPT !.search = <<>>] = Parsed("replace", f, <<>>, w, bs)
    BY DEF p, Parsed
  <2>3. [Parsed("replace", f, <<>>, w, bs) EXCEPT !.replace = <<>>] = Parsed("replace", f, <<>>, <<>>, bs)
    BY DEF Parsed
  <2> QED
    BY <2>1, <2>2, <2>3
<1>4. [Parsed("replace", f, <<>>, <<>>, bs) EXCEPT !.mode = "outside", !.blocks = Append(@, b)]
      = Parsed("outside", f, <<>>, <<>>, Append(bs, b))
  <2> DEFINE q == Parsed("replace", f, <<>>, <<>>, bs)
  <2>1. q.blocks = bs
    BY DEF Parsed
  <2>2. [q EXCEPT !.mode = "outside"] = Parsed("outside", f, <<>>, <<>>, bs)
    BY DEF Parsed
  <2> DEFINE c == Append(bs, b)
  <2> HIDE DEF q
  <2>3. [q EXCEPT !.mode = "outside", !.blocks = Append(@, b)] = [[q EXCEPT !.mode = "outside"] EXCEPT !.blocks = c]
    BY <2>1
  <2> HIDE DEF c
  <2>4. [Parsed("outside", f, <<>>, <<>>, bs) EXCEPT !.blocks = c] = Parsed("outside", f, <<>>, <<>>, c)
    BY DEF Parsed
  <2> QED
    BY <2>2, <2>3, <2>4 DEF q, c
<1> QED
  BY <1>2, <1>3, <1>4 DEF p, b
-----------------------------------------------------------------------------
(* The parser reads a block.                                                *)

NoPathNear(lines) == \A j \in 1..Len(lines) : j > Len(lines) - NameLines => lines[j].word \notin EditFiles \cup Dotted

LEMMA NameAtHead ==
    ASSUME NEW t \in Seq(TextLine), NEW e, IsWish(e), e.named \/ NoPathNear(t)
    PROVE  FindFilename(t \o Headed(e), Len(t) + Len(Headed(e)) + 1) = IF e.named THEN e.file ELSE NoWord
<1> DEFINE h == Headed(e)
           u == t \o h
           i == Len(t) + Len(h) + 1
<1>1. /\ h \in Seq(TextLine) /\ (~e.named => Len(h) = 0)
      /\ e.named => /\ Len(h) \in 1..NameLines
                    /\ h[1].word = e.file
                    /\ \A j \in 2..Len(h) : h[j].word \notin EditFiles \cup Dotted
  BY HeadedLines
<1>2. e.file \in EditFiles /\ e.named \in BOOLEAN
  BY WishType
<1> HIDE DEF h
<1>3. /\ u \in Seq(TextLine) /\ Len(u) = Len(t) + Len(h)
      /\ \A j \in 1..Len(t) : u[j] = t[j]
      /\ \A j \in 1..Len(h) : u[Len(t) + j] = h[j]
  <2>1. t \in Seq(TextLine) /\ h \in Seq(TextLine)
    BY <1>1
  <2> QED
    BY <2>1, Ind!Beside
<1>4. Len(t) \in Nat /\ Len(h) \in Nat /\ i \in Nat \ {0} /\ i - 1 = Len(t) + Len(h)
  <2>1. h \in Seq(TextLine)
    BY <1>1
  <2> QED
    BY <2>1
<1> DEFINE n == Len(t)
           m == Len(h)
<1>5. i = n + m + 1 /\ n \in Nat /\ m \in Nat
  BY <1>4
<1> HIDE DEF u
<1>6. CASE e.named
  <2>1. m \in 1..3 /\ h[1].word = e.file /\ \A j \in 2..m : h[j].word \notin EditFiles \cup Dotted
    BY <1>1, <1>6 DEF NameLines
  <2>2. u[n + 1].word = e.file
    BY <1>3, <2>1
  <2> HIDE DEF i, n, m
  <2>3. n + 1 \in Near(u, i)
    BY <1>2, <1>5, <2>1, <2>2 DEF Near, NameLines
  <2>4. ASSUME NEW j \in Near(u, i) PROVE j <= n + 1
    <3> SUFFICES ASSUME j > n + 1 PROVE FALSE
      <4>1. j \in 1..i - 1
        BY <1>5, NearIsAbove, i \in Nat \ {0}
      <4> QED
        BY <1>5, <4>1
    <3>1. j \in 1..i - 1
      BY <1>5, NearIsAbove, i \in Nat \ {0}
    <3>2. j - n \in 2..m
      BY <1>5, <3>1
    <3>3. u[n + (j - n)] = h[j - n]
      BY <1>3, <3>2, <1>5 DEF n, m
    <3>4. n + (j - n) = j
      BY <1>5, <3>1
    <3>5. u[j].word \notin EditFiles \cup Dotted
      BY <2>1, <3>2, <3>3, <3>4
    <3>6. u[j].word \in EditFiles \cup Dotted
      BY DEF Near
    <3> QED
      BY <3>5, <3>6
  <2>5. Max(Near(u, i)) = n + 1
    <3>1. i \in Nat \ {0} /\ Near(u, i) # {}
      BY <1>5, <2>3
    <3>2. /\ Max(Near(u, i)) \in Near(u, i) /\ \A x \in Near(u, i) : x <= Max(Near(u, i))
          /\ Near(u, i) \subseteq 1..i - 1
      BY <3>1, NearIsAbove
    <3>3. n + 1 <= Max(Near(u, i)) /\ Max(Near(u, i)) <= n + 1 /\ Max(Near(u, i)) \in 1..i - 1
      BY <2>3, <2>4, <3>2
    <3> QED
      BY <1>5, <3>3
  <2>6. FindFilename(u, i) = u[n + 1].word
    BY <1>5, <2>3, <2>5, NameIsRead, i \in Nat \ {0}
  <2> QED
    BY <1>6, <2>2, <2>6 DEF u, h, i
<1>7. CASE ~e.named
  <2>1. m = 0 /\ NoPathNear(t)
    BY <1>1, <1>7
  <2>2. \A j \in 1..n : j > n - NameLines => t[j].word \notin EditFiles \cup Dotted
    BY <2>1 DEF NoPathNear
  <2>3. \A j \in 1..n : u[j] = t[j]
    BY <1>3
  <2> HIDE DEF i, n, m
  <2>4. Near(u, i) = {}
    <3> SUFFICES ASSUME NEW j \in Near(u, i) PROVE FALSE
      OBVIOUS
    <3>1. j \in 1..n
      BY <1>5, <2>1, NearIsAbove, i \in Nat \ {0}
    <3>2. j > n - NameLines
      BY <1>5, <2>1, <3>1 DEF Near, NameLines
    <3>3. u[j].word \in EditFiles \cup Dotted
      BY DEF Near
    <3> QED
      BY <2>2, <2>3, <3>1, <3>2, <3>3
  <2>5. FindFilename(u, i) = NoWord
    BY <1>5, <2>4, NameIsRead, i \in Nat \ {0}
  <2> QED
    BY <1>7, <2>5 DEF u, h, i
<1> QED
  BY <1>2, <1>6, <1>7

\* The parser behind j lines of a block e that follows the blocks bs, the
\* last of which is in the file f.
StageOf(j, f, bs, e) ==
    LET h == Len(Headed(e))
        s == Len(Searched(e))
        w == Len(Written(e))
    IN  IF j <= h THEN Parsed("outside", f, <<>>, <<>>, bs)
        ELSE IF j <= h + 1 + s THEN Parsed("search", e.file, SubSeq(Searched(e), 1, j - h - 1), <<>>, bs)
        ELSE IF j <= h + s + 2 + w
        THEN Parsed("replace", e.file, Searched(e), SubSeq(Written(e), 1, j - h - s - 2), bs)
        ELSE Parsed("outside", e.file, <<>>, <<>>, Append(bs, BlockOf(e.file, Searched(e), Written(e))))

LEMMA UnmarkedLine ==
    ASSUME NEW lines \in Seq(TextLine), IsUnmarked(lines), NEW i \in 1..Len(lines)
    PROVE  lines[i] \notin Marks
<1>1. DOMAIN lines = 1..Len(lines)
  OBVIOUS
<1>2. lines[i].word \notin MarkWords
  BY <1>1 DEF IsUnmarked
<1> QED
  BY <1>2, MarksDiffer DEF Marks

\* The parser is j lines into a block, and the lines above give the name n.
IsWithin(j, n, f, b, e) ==
    /\ IsWish(e) /\ IsLaidOut(b, Headed(e), Searched(e), Written(e))
    /\ j \in Nat /\ j < Len(Headed(e)) + Len(Searched(e)) + Len(Written(e)) + 3
    /\ j = Len(Headed(e)) => n = IF e.named THEN e.file ELSE NoWord
    /\ e.named \/ f = e.file

LEMMA StageStep ==
    ASSUME NEW j, NEW n, NEW f, NEW bs, NEW b, NEW e, IsWithin(j, n, f, b, e)
    PROVE  ReadLine(StageOf(j, f, bs, e), [line |-> b[j + 1], name |-> n]) = StageOf(j + 1, f, bs, e)
<1> DEFINE hd == Headed(e)
           sr == Searched(e)
           wr == Written(e)
           h == Len(hd)
           s == Len(sr)
           w == Len(wr)
           bl == BlockOf(e.file, sr, wr)
           Stage(i) == StageOf(i, f, bs, e)
<1>0. /\ IsWish(e) /\ IsLaidOut(b, Headed(e), Searched(e), Written(e))
      /\ j \in Nat /\ j < Len(Headed(e)) + Len(Searched(e)) + Len(Written(e)) + 3
      /\ j = Len(Headed(e)) => n = IF e.named THEN e.file ELSE NoWord
      /\ e.named \/ f = e.file
  BY DEF IsWithin
<1>1. /\ hd \in Seq(TextLine) /\ sr \in Seq(TextLine) /\ wr \in Seq(TextLine)
      /\ IsUnmarked(hd) /\ IsUnmarked(sr) /\ IsUnmarked(wr)
  BY <1>0, BlockLines, HeadedLines
<1>2. e.file # NoWord /\ e.named \in BOOLEAN
  <2>1. e.file \in EditFiles /\ e.named \in BOOLEAN
    BY <1>0, WishType
  <2>2. NoWord \notin EditFiles
    BY BlocksAssumption
  <2> QED
    BY <2>1, <2>2
<1>3. \A i : Stage(i) = IF i <= h THEN Parsed("outside", f, <<>>, <<>>, bs)
                        ELSE IF i <= h + 1 + s THEN Parsed("search", e.file, SubSeq(sr, 1, i - h - 1), <<>>, bs)
                        ELSE IF i <= h + s + 2 + w THEN Parsed("replace", e.file, sr, SubSeq(wr, 1, i - h - s - 2), bs)
                        ELSE Parsed("outside", e.file, <<>>, <<>>, Append(bs, bl))
  BY DEF StageOf
<1>e. Stage(j + 1) = IF j + 1 <= h THEN Parsed("outside", f, <<>>, <<>>, bs)
                     ELSE IF j + 1 <= h + 1 + s THEN Parsed("search", e.file, SubSeq(sr, 1, j + 1 - h - 1), <<>>, bs)
                     ELSE IF j + 1 <= h + s + 2 + w
                     THEN Parsed("replace", e.file, sr, SubSeq(wr, 1, j + 1 - h - s - 2), bs)
                     ELSE Parsed("outside", e.file, <<>>, <<>>, Append(bs, bl))
  BY <1>0 DEF StageOf
<1>4. /\ \A i \in 1..h : b[i] = hd[i]
      /\ b[h + 1] = HeadMark
      /\ \A i \in 1..s : b[h + 1 + i] = sr[i]
      /\ b[h + s + 2] = Divider
      /\ \A i \in 1..w : b[h + s + 2 + i] = wr[i]
      /\ b[h + s + w + 3] = EndMark
  BY <1>0 DEF IsLaidOut
<1>5. j \in Nat /\ j < h + s + w + 3 /\ (j = h => n = IF e.named THEN e.file ELSE NoWord) /\ (e.named \/ f = e.file)
  BY <1>0
<1> HIDE DEF hd, sr, wr, bl, Stage
<1>6. h \in Nat /\ s \in Nat /\ w \in Nat
  BY <1>1
<1>a. /\ \A i \in 1..h : hd[i] \notin Marks
      /\ \A i \in 1..s : sr[i] \notin Marks
      /\ \A i \in 1..w : wr[i] \notin Marks
  BY <1>1, UnmarkedLine
<1>b. /\ SubSeq(sr, 1, 0) = <<>> /\ SubSeq(wr, 1, 0) = <<>> /\ SubSeq(sr, 1, s) = sr /\ SubSeq(wr, 1, w) = wr
  BY <1>1, Ind!AllTaken
<1>c. /\ \A k \in Nat : k < s => SubSeq(sr, 1, k + 1) = Append(SubSeq(sr, 1, k), sr[k + 1])
      /\ \A k \in Nat : k < w => SubSeq(wr, 1, k + 1) = Append(SubSeq(wr, 1, k), wr[k + 1])
  BY <1>1, Ind!OneMoreTaken
<1>d. bl = BlockOf(e.file, sr, wr)
  BY DEF bl
<1> HIDE DEF h, s, w
<1> DEFINE x == [line |-> b[j + 1], name |-> n]
<1>7. CASE j < h
  <2>1. j <= h /\ j + 1 <= h /\ j + 1 \in 1..h
    BY <1>5, <1>6, <1>7
  <2>2. b[j + 1] \notin Marks
    BY <1>4, <1>a, <2>1
  <2>3. Stage(j) = Parsed("outside", f, <<>>, <<>>, bs) /\ Stage(j + 1) = Parsed("outside", f, <<>>, <<>>, bs)
    BY <1>3, <2>1
  <2> QED
    BY <2>2, <2>3, ReadsOther DEF Stage
<1>8. CASE j = h
  <2>1. Stage(j) = Parsed("outside", f, <<>>, <<>>, bs)
    BY <1>3, <1>5, <1>6, <1>8
  <2>2. ~(j + 1 <= h) /\ j + 1 <= h + 1 + s /\ j + 1 - h - 1 = 0
    BY <1>5, <1>6, <1>8
  <2>3. Stage(j + 1) = Parsed("search", e.file, <<>>, <<>>, bs)
    BY <1>e, <1>b, <2>2
  <2>4. b[j + 1] = HeadMark
    BY <1>4, <1>8
  <2>5. e.file = (IF n = NoWord THEN f ELSE n) /\ (n # NoWord \/ f # NoWord)
    BY <1>2, <1>5, <1>8
  <2>6. ReadLine(Parsed("outside", f, <<>>, <<>>, bs), [line |-> HeadMark, name |-> n])
        = Parsed("search", e.file, <<>>, <<>>, bs)
    BY <2>5, ReadsHead
  <2> QED
    BY <2>1, <2>3, <2>4, <2>6 DEF Stage
<1>9. CASE j > h /\ j < h + 1 + s
  <2> DEFINE k == j - h - 1
  <2>1. k \in Nat /\ k < s /\ j + 1 = h + 1 + (k + 1) /\ j + 1 - h - 1 = k + 1 /\ k + 1 \in 1..s
        /\ ~(j <= h) /\ ~(j + 1 <= h) /\ j <= h + 1 + s /\ j + 1 <= h + 1 + s
    BY <1>5, <1>6, <1>9
  <2>2. Stage(j) = Parsed("search", e.file, SubSeq(sr, 1, k), <<>>, bs)
    BY <1>3, <2>1
  <2>h. k = j - h - 1
    OBVIOUS
  <2> HIDE DEF k
  <2>3. Stage(j + 1) = Parsed("search", e.file, SubSeq(sr, 1, k + 1), <<>>, bs)
    BY <1>e, <2>1
  <2>4. b[j + 1] = sr[k + 1] /\ sr[k + 1] \notin Marks
    BY <1>4, <1>a, <2>1
  <2>5. SubSeq(sr, 1, k + 1) = Append(SubSeq(sr, 1, k), sr[k + 1])
    BY <1>c, <2>1
  <2>6. ReadLine(Parsed("search", e.file, SubSeq(sr, 1, k), <<>>, bs), [line |-> sr[k + 1], name |-> n])
        = Parsed("search", e.file, Append(SubSeq(sr, 1, k), sr[k + 1]), <<>>, bs)
    BY <2>4, ReadsSearched
  <2> QED
    BY <2>2, <2>3, <2>4, <2>5, <2>6 DEF Stage
<1>10. CASE j = h + 1 + s
  <2>1. ~(j <= h) /\ j <= h + 1 + s /\ ~(j + 1 <= h) /\ ~(j + 1 <= h + 1 + s) /\ j + 1 <= h + s + 2 + w
        /\ j - h - 1 = s /\ j + 1 - h - s - 2 = 0 /\ j + 1 = h + s + 2
    BY <1>5, <1>6, <1>10
  <2>2. Stage(j) = Parsed("search", e.file, sr, <<>>, bs)
    BY <1>3, <1>b, <2>1
  <2>3. Stage(j + 1) = Parsed("replace", e.file, sr, <<>>, bs)
    BY <1>e, <1>b, <2>1
  <2>4. b[j + 1] = Divider
    BY <1>4, <2>1
  <2>5. ReadLine(Parsed("search", e.file, sr, <<>>, bs), [line |-> Divider, name |-> n])
        = Parsed("replace", e.file, sr, <<>>, bs)
    BY ReadsDivider
  <2> QED
    BY <2>2, <2>3, <2>4, <2>5 DEF Stage
<1>11. CASE j > h + 1 + s /\ j < h + s + 2 + w
  <2> DEFINE k == j - h - s - 2
  <2>1. k \in Nat /\ k < w /\ j + 1 = h + s + 2 + (k + 1) /\ j + 1 - h - s - 2 = k + 1 /\ k + 1 \in 1..w
        /\ ~(j <= h) /\ ~(j + 1 <= h) /\ ~(j <= h + 1 + s) /\ ~(j + 1 <= h + 1 + s)
        /\ j <= h + s + 2 + w /\ j + 1 <= h + s + 2 + w
    BY <1>5, <1>6, <1>11
  <2>2. Stage(j) = Parsed("replace", e.file, sr, SubSeq(wr, 1, k), bs)
    BY <1>3, <2>1
  <2> HIDE DEF k
  <2>3. Stage(j + 1) = Parsed("replace", e.file, sr, SubSeq(wr, 1, k + 1), bs)
    BY <1>e, <2>1
  <2>4. b[j + 1] = wr[k + 1] /\ wr[k + 1] \notin Marks
    BY <1>4, <1>a, <2>1
  <2>5. SubSeq(wr, 1, k + 1) = Append(SubSeq(wr, 1, k), wr[k + 1])
    BY <1>c, <2>1
  <2>6. ReadLine(Parsed("replace", e.file, sr, SubSeq(wr, 1, k), bs), [line |-> wr[k + 1], name |-> n])
        = Parsed("replace", e.file, sr, Append(SubSeq(wr, 1, k), wr[k + 1]), bs)
    BY <2>4, ReadsWritten
  <2> QED
    BY <2>2, <2>3, <2>4, <2>5, <2>6 DEF Stage
<1>12. CASE j = h + s + 2 + w
  <2>1. ~(j <= h) /\ ~(j <= h + 1 + s) /\ j <= h + s + 2 + w
        /\ ~(j + 1 <= h) /\ ~(j + 1 <= h + 1 + s) /\ ~(j + 1 <= h + s + 2 + w)
        /\ j - h - s - 2 = w /\ j + 1 = h + s + w + 3
    BY <1>5, <1>6, <1>12
  <2>2. Stage(j) = Parsed("replace", e.file, sr, wr, bs)
    BY <1>3, <1>b, <2>1
  <2>3. Stage(j + 1) = Parsed("outside", e.file, <<>>, <<>>, Append(bs, bl))
    BY <1>e, <2>1
  <2>4. b[j + 1] = EndMark
    BY <1>4, <2>1
  <2>5. ReadLine(Parsed("replace", e.file, sr, wr, bs), [line |-> EndMark, name |-> n])
        = Parsed("outside", e.file, <<>>, <<>>, Append(bs, bl))
    BY <1>d, ReadsEnd
  <2> QED
    BY <2>2, <2>3, <2>4, <2>5 DEF Stage
<1>13. \/ j < h \/ j = h \/ (j > h /\ j < h + 1 + s) \/ j = h + 1 + s
       \/ (j > h + 1 + s /\ j < h + s + 2 + w) \/ j = h + s + 2 + w
  BY <1>5, <1>6
<1> QED
  BY <1>7, <1>8, <1>9, <1>10, <1>11, <1>12, <1>13

LEMMA BlockIsRead ==
    ASSUME NEW t \in Seq(TextLine), NEW e, IsWish(e), NEW f, NEW bs,
           ReadLines(t) = Parsed("outside", f, <<>>, <<>>, bs),
           e.named \/ (f = e.file /\ NoPathNear(t))
    PROVE  \A j \in 0..Len(Printed(e)) : ReadLines(t \o SubSeq(Printed(e), 1, j)) = StageOf(j, f, bs, e)
<1> DEFINE b == Printed(e)
           m == Len(b)
           S == {j \in Nat : j <= m => ReadLines(t \o SubSeq(b, 1, j)) = StageOf(j, f, bs, e)}
<1>1. IsLaidOut(b, Headed(e), Searched(e), Written(e))
  BY PrintedIsLaidOut
<1>2. /\ Headed(e) \in Seq(TextLine) /\ Searched(e) \in Seq(TextLine) /\ Written(e) \in Seq(TextLine)
  BY BlockLines, HeadedLines
<1>3. b \in Seq(TextLine) /\ m = Len(Headed(e)) + Len(Searched(e)) + Len(Written(e)) + 3
      /\ \A j \in 1..Len(Headed(e)) : b[j] = Headed(e)[j]
  BY <1>1 DEF IsLaidOut
<1> HIDE DEF b, m
<1>4. Len(Headed(e)) \in Nat /\ Len(Searched(e)) \in Nat /\ Len(Written(e)) \in Nat
  BY <1>2
<1>5. 0 \in S
  <2>1. SubSeq(b, 1, 0) = <<>>
    BY <1>3
  <2>2. t \o SubSeq(b, 1, 0) = t
    BY <2>1
  <2>3. StageOf(0, f, bs, e) = Parsed("outside", f, <<>>, <<>>, bs)
    <3>1. 0 <= Len(Headed(e))
      BY <1>4
    <3> QED
      BY <3>1 DEF StageOf
  <2> QED
    BY <2>2, <2>3
<1>6. ASSUME NEW j \in Nat, j \in S PROVE j + 1 \in S
  <2> SUFFICES ASSUME j + 1 <= m PROVE ReadLines(t \o SubSeq(b, 1, j + 1)) = StageOf(j + 1, f, bs, e)
    BY j + 1 \in Nat
  <2> DEFINE c == SubSeq(b, 1, j)
             u == t \o c
             l == b[j + 1]
             n == FindFilename(u, Len(u) + 1)
  <2>1. j < m /\ m \in Nat /\ m = Len(b)
    BY <1>3 DEF m
  <2>2. ReadLines(u) = StageOf(j, f, bs, e)
    BY <1>6, <2>1
  <2>3. c \in Seq(TextLine) /\ Len(c) = j /\ l \in TextLine /\ SubSeq(b, 1, j + 1) = Append(c, l)
    BY <1>3, <2>1, Ind!OneMoreTaken
  <2> HIDE DEF c, l
  <2>4. u \in Seq(TextLine) /\ Len(u) = Len(t) + j
    BY <2>3
  <2>5. t \o Append(c, l) = Append(u, l)
    BY <2>3
  <2> HIDE DEF u
  <2>6. ReadLines(Append(u, l)) = ReadLine(ReadLines(u), [line |-> l, name |-> n])
    BY <2>3, <2>4, ReadingOfOneMore
  <2>7. ASSUME j = Len(Headed(e)) PROVE n = IF e.named THEN e.file ELSE NoWord
    <3> DEFINE h == Headed(e)
    <3>1. h \in Seq(TextLine) /\ Len(h) = j /\ \A i \in 1..j : b[i] = h[i]
      BY <1>2, <1>3, <2>7
    <3>2. \A i \in 1..j : c[i] = b[i]
      BY <1>3, <2>1 DEF c
    <3>3. FindFilename(t \o h, Len(t) + Len(h) + 1) = IF e.named THEN e.file ELSE NoWord
      BY NameAtHead
    <3> HIDE DEF h
    <3>4. c = h
      BY <2>3, <3>1, <3>2, SeqEqual
    <3> QED
      BY <2>4, <3>1, <3>3, <3>4 DEF u
  <2> HIDE DEF n
  <2>8. j < Len(Headed(e)) + Len(Searched(e)) + Len(Written(e)) + 3
    BY <1>3, <2>1
  <2>h. IsWish(e) /\ j \in Nat /\ (e.named \/ f = e.file) /\ (j = Len(Headed(e)) => n = IF e.named THEN e.file ELSE NoWord)
    BY <2>7
  <2>i. IsWithin(j, n, f, b, e)
    BY <1>1, <2>8, <2>h DEF IsWithin
  <2>9. ReadLine(StageOf(j, f, bs, e), [line |-> l, name |-> n]) = StageOf(j + 1, f, bs, e)
    <3>1. ReadLine(StageOf(j, f, bs, e), [line |-> b[j + 1], name |-> n]) = StageOf(j + 1, f, bs, e)
      BY <2>i, StageStep
    <3> QED
      BY <3>1 DEF l
  <2> QED
    BY <2>2, <2>3, <2>5, <2>6, <2>9
<1> HIDE DEF S
<1>7. ASSUME NEW j \in 0..m PROVE j \in S
  BY <1>5, <1>6, Ind!Steps, j \in Nat
<1>8. m \in Nat
  BY <1>3, <1>4
<1> QED
  BY <1>7, <1>8 DEF S, b, m

-----------------------------------------------------------------------------
(* The text of a list of edits, and what is meant by one.                   *)

LEMMA TextOfNothing == TextOf(<<>>) = <<>>
<1>1. [k \in DOMAIN <<>> |-> Printed(<<>>[k])] = <<>>
  OBVIOUS
<1> QED
  BY <1>1 DEF TextOf, FlattenSeq

LEMMA PrintedType == ASSUME NEW e, IsWish(e) PROVE Printed(e) \in Seq(TextLine)
BY PrintedIsLaidOut DEF IsLaidOut

Wishes == {e \in Wish : IsWish(e)}

LEMMA TextOfOneMore ==
    ASSUME NEW list \in Seq(Wishes), NEW e \in Wishes
    PROVE  TextOf(Append(list, e)) = TextOf(list) \o Printed(e)
<1> DEFINE n == Len(list)
           new == Append(list, e)
           s == [k \in 1..n |-> Printed(list[k])]
           p == Printed(e)
<1>1. n \in Nat /\ DOMAIN list = 1..n /\ DOMAIN new = 1..n + 1 /\ new[n + 1] = e /\ \A k \in 1..n : new[k] = list[k]
  OBVIOUS
<1>2. \A k \in 1..n : Printed(list[k]) \in Seq(TextLine)
  <2>1. \A k \in 1..n : list[k] \in Wishes
    BY <1>1
  <2> QED
    BY <2>1, PrintedType DEF Wishes
<1>3. p \in Seq(TextLine)
  BY PrintedType DEF Wishes
<1>4. TextOf(list) = FlattenSeq(s)
  BY <1>1 DEF TextOf
<1>5. TextOf(new) = FlattenSeq([k \in 1..n + 1 |-> Printed(new[k])])
  BY <1>1 DEF TextOf
<1>6. \A k \in 1..n + 1 : Printed(new[k]) = IF k <= n THEN Printed(list[k]) ELSE p
  BY <1>1
<1> DEFINE U == Seq(TextLine)
           q(k) == Printed(list[k])
<1>7. s = [k \in 1..n |-> q(k)] /\ \A k \in 1..n : q(k) \in U
  BY <1>2
<1>8. \A k \in 1..n + 1 : Printed(new[k]) = IF k <= n THEN q(k) ELSE p
  BY <1>6
<1> HIDE DEF q, n, U, p, new
<1>9. s \in Seq(U) /\ p \in U
  BY <1>1, <1>3, <1>7 DEF U
<1>10. Append(s, p) = [k \in 1..n + 1 |-> Printed(new[k])]
  <2>1. Append(s, p) = [k \in 1..n + 1 |-> IF k <= n THEN q(k) ELSE p]
    <3>1. Append(s, p) \in Seq(U) /\ Len(Append(s, p)) = n + 1
      BY <1>1, <1>7, <1>9
    <3>2. \A k \in 1..n + 1 : Append(s, p)[k] = IF k <= n THEN q(k) ELSE p
      BY <1>1, <1>7, <1>9
    <3> DEFINE a == Append(s, p)
    <3>3. a \in Seq(U) /\ Len(a) = n + 1 /\ \A k \in 1..n + 1 : a[k] = IF k <= n THEN q(k) ELSE p
      BY <3>1, <3>2
    <3> HIDE DEF a
    <3>4. DOMAIN a = 1..n + 1
      BY <1>1, <3>3
    <3>5. a = [k \in 1..n + 1 |-> a[k]]
      BY <3>3, <3>4
    <3>6. a = [k \in 1..n + 1 |-> IF k <= n THEN q(k) ELSE p]
      BY <3>3, <3>5
    <3> QED
      BY <3>6 DEF a
  <2> QED
    BY <1>8, <2>1
<1>11. FlattenSeq(Append(s, p)) = FlattenSeq(s) \o p
  BY <1>9, FlattenOfOneMore DEF U
<1> QED
  BY <1>4, <1>5, <1>10, <1>11 DEF new, p

LEMMA TextType == \A list \in Seq(Wishes) : TextOf(list) \in Seq(TextLine)
<1> DEFINE S == {n \in Nat : \A list \in Seq(Wishes) : Len(list) = n => TextOf(list) \in Seq(TextLine)}
<1>1. 0 \in S
  <2>1. \A list \in Seq(Wishes) : Len(list) = 0 => list = <<>>
    BY EmptySeq
  <2>2. <<>> \in Seq(TextLine)
    OBVIOUS
  <2> QED
    BY <2>1, <2>2, TextOfNothing
<1>2. ASSUME NEW n \in Nat, n \in S PROVE n + 1 \in S
  <2> SUFFICES ASSUME NEW list \in Seq(Wishes), Len(list) = n + 1 PROVE TextOf(list) \in Seq(TextLine)
    BY n + 1 \in Nat
  <2>1. PICK f \in Seq(Wishes), e \in Wishes : list = Append(f, e) /\ Len(f) = n
    BY Ind!LastIsApart
  <2>2. TextOf(f) \in Seq(TextLine) /\ Printed(e) \in Seq(TextLine)
    BY <1>2, <2>1, PrintedType DEF Wishes
  <2>3. TextOf(f) \o Printed(e) \in Seq(TextLine)
    BY <2>2
  <2> QED
    BY <2>1, <2>3, TextOfOneMore
<1> HIDE DEF S
<1>3. ASSUME NEW list \in Seq(Wishes) PROVE Len(list) \in S
  BY <1>1, <1>2, Ind!Steps, Len(list) \in Nat
<1> QED
  BY <1>3 DEF S
-----------------------------------------------------------------------------
(* The parser reads a list of edits, by induction over the list.            *)

ReadBlocks == [file : EditFiles, search : Seq(TextLine), replace : Seq(TextLine)]

LEMMA WishOfList ==
    ASSUME NEW list, IsList(list)
    PROVE  list \in Seq(Wishes)
<1>1. list \in Seq(Wish) /\ \A k \in 1..Len(list) : IsPlain(list[k].old, list[k].shift) /\ IsPlain(list[k].new, list[k].shift)
  BY DEF IsList
<1>2. \A k \in 1..Len(list) : list[k] \in Wishes
  BY <1>1 DEF Wishes, IsWish
<1> QED
  BY <1>1, <1>2

LEMMA MeantType ==
    ASSUME NEW list \in Seq(Wishes)
    PROVE  Meant(list) \in Seq(ReadBlocks) /\ Len(Meant(list)) = Len(list)
<1>1. DOMAIN list = 1..Len(list) /\ Len(list) \in Nat
  OBVIOUS
<1>2. \A k \in 1..Len(list) : list[k] \in Wishes
  OBVIOUS
<1> DEFINE m(k) == [file |-> list[k].file, search |-> Searched(list[k]), replace |-> Written(list[k])]
<1>3. ASSUME NEW k \in 1..Len(list) PROVE m(k) \in ReadBlocks
  <2>1. IsWish(list[k])
    BY <1>2 DEF Wishes
  <2>2. list[k].file \in EditFiles /\ Searched(list[k]) \in Seq(TextLine) /\ Written(list[k]) \in Seq(TextLine)
    BY <2>1, WishType, BlockLines
  <2> QED
    BY <2>2 DEF ReadBlocks
<1>4. Meant(list) = [k \in 1..Len(list) |-> m(k)]
  BY <1>1 DEF Meant
<1> HIDE DEF m
<1> QED
  BY <1>1, <1>3, <1>4

LEMMA MeantOfOneMore ==
    ASSUME NEW list \in Seq(Wishes), NEW e \in Wishes
    PROVE  Meant(Append(list, e)) = Append(Meant(list), BlockOf(e.file, Searched(e), Written(e)))
<1> DEFINE n == Len(list)
           new == Append(list, e)
           m(x) == [file |-> x.file, search |-> Searched(x), replace |-> Written(x)]
           a == Append(Meant(list), m(e))
<1>1. n \in Nat /\ Len(new) = n + 1 /\ DOMAIN list = 1..n /\ DOMAIN new = 1..n + 1 /\ new[n + 1] = e
      /\ new \in Seq(Wishes) /\ \A k \in 1..n : new[k] = list[k]
  OBVIOUS
<1>2. Meant(list) = [k \in 1..n |-> m(list[k])] /\ Meant(new) = [k \in 1..n + 1 |-> m(new[k])]
  BY <1>1 DEF Meant
<1>3. BlockOf(e.file, Searched(e), Written(e)) = m(e)
  BY DEF BlockOf
<1> HIDE DEF m, new, n
<1>4. Meant(list) \in Seq(ReadBlocks) /\ Len(Meant(list)) = n /\ Meant(new) \in Seq(ReadBlocks) /\ Len(Meant(new)) = n + 1
  BY <1>1, MeantType DEF n
<1>5. m(e) \in ReadBlocks
  <2>1. Meant(new)[n + 1] = m(e)
    BY <1>1, <1>2
  <2> QED
    BY <1>1, <1>4, <2>1
<1>6. a \in Seq(ReadBlocks) /\ Len(a) = n + 1 /\ a[n + 1] = m(e) /\ \A k \in 1..n : a[k] = Meant(list)[k]
  BY <1>1, <1>4, <1>5
<1> HIDE DEF a
<1>7. \A k \in 1..n + 1 : a[k] = Meant(new)[k]
  <2>1. \A k \in 1..n : a[k] = m(list[k]) /\ Meant(new)[k] = m(list[k])
    BY <1>1, <1>2, <1>6
  <2>2. Meant(new)[n + 1] = m(e)
    BY <1>1, <1>2
  <2> QED
    BY <1>1, <1>6, <2>1, <2>2
<1>8. a = Meant(new)
  BY <1>4, <1>6, <1>7, SeqEqual
<1> QED
  BY <1>3, <1>8 DEF a, new

\* A list without its last edit is one.
LEMMA ListWithoutLast ==
    ASSUME NEW list \in Seq(Wish), NEW e \in Wish, IsList(Append(list, e)), ~IsMisled(Append(list, e))
    PROVE  IsList(list) /\ ~IsMisled(list)
<1> DEFINE new == Append(list, e)
           n == Len(list)
<1>1. n \in Nat /\ DOMAIN list = 1..n /\ DOMAIN new = 1..n + 1 /\ \A k \in 1..n : new[k] = list[k]
  OBVIOUS
<1>2. \A k \in 1..n + 1 : /\ IsPlain(new[k].old, new[k].shift) /\ IsPlain(new[k].new, new[k].shift)
                          /\ new[k].named \/ (k # 1 /\ new[k].file = new[k - 1].file)
  BY <1>1 DEF IsList
<1>3. ASSUME NEW k \in 1..n
      PROVE  new[k] = list[k] /\ (k # 1 => new[k - 1] = list[k - 1]) /\ k \in 1..n + 1
  <2>1. k # 1 => k - 1 \in 1..n
    BY <1>1
  <2> QED
    BY <1>1, <2>1
<1>4. \A k \in 1..n + 1 : ~MisledAt(new, k)
  BY <1>1 DEF IsMisled
<1> HIDE DEF new, n
<1>5. \A k \in 1..n : /\ IsPlain(list[k].old, list[k].shift) /\ IsPlain(list[k].new, list[k].shift)
                      /\ list[k].named \/ (k # 1 /\ list[k].file = list[k - 1].file)
  BY <1>2, <1>3
<1>6. IsList(list)
  BY <1>1, <1>5 DEF IsList
<1>7. ASSUME NEW k \in 1..n PROVE ~MisledAt(list, k)
  <2>1. CASE k = 1
    <3>1. list[k].named
      BY <1>5, <2>1
    <3> QED
      BY <3>1 DEF MisledAt
  <2>2. CASE k # 1
    <3>1. new[k] = list[k] /\ new[k - 1] = list[k - 1] /\ ~MisledAt(new, k)
      BY <1>3, <1>4, <2>2
    <3> QED
      BY <3>1 DEF MisledAt
  <2> QED
    BY <2>1, <2>2
<1> QED
  BY <1>1, <1>6, <1>7 DEF IsMisled

\* No line above a block without a path could be its path.
LEMMA NothingMisleads ==
    ASSUME NEW list \in Seq(Wishes), NEW e \in Wishes, IsList(Append(list, e)), ~IsMisled(Append(list, e)), ~e.named
    PROVE  FileOf(list) = e.file /\ NoPathNear(TextOf(list))
<1> DEFINE new == Append(list, e)
           n == Len(list)
<1>1. n \in Nat /\ DOMAIN new = 1..n + 1 /\ new[n + 1] = e /\ \A k \in 1..n : new[k] = list[k]
  OBVIOUS
<1>2. n # 0 /\ e.file = new[n].file
  <2>1. n + 1 \in DOMAIN new
    BY <1>1
  <2>2. new[n + 1].named \/ (n + 1 # 1 /\ new[n + 1].file = new[n + 1 - 1].file)
    BY <2>1 DEF IsList
  <2>3. n + 1 - 1 = n /\ (n + 1 # 1 => n # 0)
    BY <1>1
  <2> HIDE DEF new, n
  <2> QED
    BY <1>1, <2>2, <2>3
<1>3. FileOf(list) = e.file
  <2>1. list # <<>> /\ new[n] = list[n]
    BY <1>1, <1>2
  <2> QED
    BY <1>2, <2>1 DEF FileOf
<1>4. PICK f \in Seq(Wishes), x \in Wishes : list = Append(f, x) /\ Len(f) = n - 1
  <2>1. n - 1 \in Nat /\ n = n - 1 + 1
    BY <1>1, <1>2
  <2>2. \E f \in Seq(Wishes), x \in Wishes : list = Append(f, x) /\ Len(f) = n - 1
    BY <2>1, Ind!LastIsApart
  <2> QED
    BY <2>2
<1>5. list[n] = x
  BY <1>1, <1>2, <1>4
<1> DEFINE t == TextOf(f)
           p == Printed(x)
<1>6. TextOf(list) = t \o p
  BY <1>4, TextOfOneMore
<1>7. t \in Seq(TextLine) /\ p \in Seq(TextLine) /\ Len(p) >= 3
  <2>1. IsWish(x)
    BY DEF Wishes
  <2>2. IsLaidOut(p, Headed(x), Searched(x), Written(x))
    BY <2>1, PrintedIsLaidOut
  <2>3. Headed(x) \in Seq(TextLine) /\ Searched(x) \in Seq(TextLine) /\ Written(x) \in Seq(TextLine)
    BY <2>1, BlockLines, HeadedLines
  <2> HIDE DEF p
  <2>4. p \in Seq(TextLine) /\ Len(p) = Len(Headed(x)) + Len(Searched(x)) + Len(Written(x)) + 3
    BY <2>2 DEF IsLaidOut
  <2>5. Len(p) >= 3
    BY <2>3, <2>4
  <2> QED
    BY <2>4, <2>5, TextType
<1>8. ASSUME NEW i \in Len(p) - NameLines + 1..Len(p) PROVE p[i].word \notin EditFiles \cup Dotted
  <2>1. ~MisledAt(new, n + 1)
    BY <1>1 DEF IsMisled
  <2>2. n + 1 - 1 = n /\ new[n] = x
    BY <1>1, <1>2, <1>5
  <2>3. ~new[n + 1].named
    BY <1>1
  <2> DEFINE k == n + 1
             q == Printed(new[k - 1])
  <2>4. q = p
    <3>1. k - 1 = n
      BY <1>1
    <3> HIDE DEF new, n, k
    <3>2. new[k - 1] = x
      BY <2>2, <3>1
    <3> QED
      BY <3>2
  <2>5. ~(\E j \in Len(q) - NameLines + 1..Len(q) : q[j].word \in EditFiles \cup Dotted)
    <3>1. ~MisledAt(new, k) /\ ~new[k].named
      BY <2>1, <2>3
    <3> HIDE DEF new, k
    <3> QED
      BY <3>1 DEF MisledAt
  <2> HIDE DEF q, p
  <2> QED
    BY <2>4, <2>5
<1> HIDE DEF t, p
<1>9. ASSUME NEW j \in 1..Len(t \o p), j > Len(t \o p) - NameLines
      PROVE  (t \o p)[j].word \notin EditFiles \cup Dotted
  <2>1. Len(t \o p) = Len(t) + Len(p) /\ \A i \in 1..Len(p) : (t \o p)[Len(t) + i] = p[i]
    BY <1>7, Ind!Beside
  <2>2. Len(t) \in Nat /\ Len(p) \in Nat
    BY <1>7
  <2>3. j - Len(t) \in 1..Len(p) /\ j - Len(t) \in Len(p) - NameLines + 1..Len(p) /\ Len(t) + (j - Len(t)) = j
    BY <1>7, <1>9, <2>1, <2>2 DEF NameLines
  <2>4. (t \o p)[j] = p[j - Len(t)]
    BY <2>1, <2>3
  <2> QED
    BY <1>8, <2>3, <2>4
<1> QED
  BY <1>3, <1>6, <1>9 DEF NoPathNear

\* The marks that end blocks.
EndsTo(text, n) == {i \in 1..n : text[i] = EndMark}

LEMMA EndsInTotal ==
    ASSUME NEW text, NEW m \in Nat, NEW n \in 0..m
    PROVE  /\ IsFiniteSet(EndsTo(text, n)) /\ EndsIn(text, n) \in Nat /\ EndsIn(text, m) \in Nat
           /\ EndsIn(text, n) <= EndsIn(text, m)
<1>1. IsFiniteSet(1..n) /\ IsFiniteSet(1..m)
  BY FS_Interval
<1>2. EndsTo(text, n) \subseteq 1..n /\ EndsTo(text, m) \subseteq 1..m /\ EndsTo(text, n) \subseteq EndsTo(text, m)
  BY DEF EndsTo
<1>3. IsFiniteSet(EndsTo(text, n)) /\ IsFiniteSet(EndsTo(text, m))
  BY <1>1, <1>2, FS_Subset
<1>4. Cardinality(EndsTo(text, n)) \in Nat /\ Cardinality(EndsTo(text, m)) \in Nat
      /\ Cardinality(EndsTo(text, n)) <= Cardinality(EndsTo(text, m))
  BY <1>2, <1>3, FS_CardinalityType, FS_Subset
<1> QED
  BY <1>3, <1>4 DEF EndsIn, EndsTo

LEMMA OneEndInABlock ==
    ASSUME NEW e, IsWish(e)
    PROVE  /\ Len(Printed(e)) \in Nat \ {0} /\ Printed(e)[Len(Printed(e))] = EndMark
           /\ \A j \in 1..Len(Printed(e)) - 1 : Printed(e)[j] # EndMark
<1> DEFINE b == Printed(e)
           hd == Headed(e)
           sr == Searched(e)
           wr == Written(e)
           h == Len(hd)
           s == Len(sr)
           w == Len(wr)
<1>1. IsLaidOut(b, hd, sr, wr)
  BY PrintedIsLaidOut
<1>2. /\ hd \in Seq(TextLine) /\ sr \in Seq(TextLine) /\ wr \in Seq(TextLine)
      /\ IsUnmarked(hd) /\ IsUnmarked(sr) /\ IsUnmarked(wr)
  BY BlockLines, HeadedLines
<1> HIDE DEF b, hd, sr, wr
<1>3. /\ Len(b) = h + s + w + 3
      /\ \A i \in 1..h : b[i] = hd[i]
      /\ b[h + 1] = HeadMark
      /\ \A i \in 1..s : b[h + 1 + i] = sr[i]
      /\ b[h + s + 2] = Divider
      /\ \A i \in 1..w : b[h + s + 2 + i] = wr[i]
      /\ b[h + s + w + 3] = EndMark
  BY <1>1 DEF IsLaidOut
<1>4. h \in Nat /\ s \in Nat /\ w \in Nat
  BY <1>2
<1>5. /\ \A i \in 1..h : hd[i] # EndMark
      /\ \A i \in 1..s : sr[i] # EndMark
      /\ \A i \in 1..w : wr[i] # EndMark
  BY <1>2, UnmarkedLine DEF Marks
<1> HIDE DEF h, s, w
<1>6. ASSUME NEW j \in 1..Len(b) - 1 PROVE b[j] # EndMark
  <2>1. j \in Nat /\ j >= 1 /\ j <= h + s + w + 2
    BY <1>3, <1>4
  <2>2. CASE j <= h
    BY <1>3, <1>4, <1>5, <2>1, <2>2
  <2>3. CASE j = h + 1
    BY <1>3, <2>3, MarksDiffer
  <2>4. CASE j > h + 1 /\ j <= h + 1 + s
    <3>1. j - h - 1 \in 1..s /\ h + 1 + (j - h - 1) = j
      BY <1>4, <2>1, <2>4
    <3> QED
      BY <1>3, <1>5, <3>1
  <2>5. CASE j = h + s + 2
    BY <1>3, <2>5, MarksDiffer
  <2>6. CASE j > h + s + 2
    <3>1. j - h - s - 2 \in 1..w /\ h + s + 2 + (j - h - s - 2) = j
      BY <1>4, <2>1, <2>6
    <3> QED
      BY <1>3, <1>5, <3>1
  <2> QED
    BY <1>4, <2>1, <2>2, <2>3, <2>4, <2>5, <2>6
<1>7. Len(b) \in Nat \ {0} /\ b[Len(b)] = EndMark
  BY <1>3, <1>4
<1> QED
  BY <1>6, <1>7 DEF b

\* The parser's blocks, from what it is behind j lines of a block.
LEMMA StageBlocks ==
    ASSUME NEW e, IsWish(e), NEW f, NEW bs, NEW j \in 0..Len(Printed(e))
    PROVE  StageOf(j, f, bs, e).blocks = IF j = Len(Printed(e)) THEN Append(bs, BlockOf(e.file, Searched(e), Written(e))) ELSE bs
<1> DEFINE m == Len(Printed(e))
           h == Len(Headed(e))
           s == Len(Searched(e))
           w == Len(Written(e))
<1>1. IsLaidOut(Printed(e), Headed(e), Searched(e), Written(e))
  BY PrintedIsLaidOut
<1>2. m = h + s + w + 3
  BY <1>1 DEF IsLaidOut
<1>3. /\ Headed(e) \in Seq(TextLine) /\ Searched(e) \in Seq(TextLine) /\ Written(e) \in Seq(TextLine)
  BY BlockLines, HeadedLines
<1>4. h \in Nat /\ s \in Nat /\ w \in Nat
  BY <1>3
<1>5. StageOf(j, f, bs, e) =
        IF j <= h THEN Parsed("outside", f, <<>>, <<>>, bs)
        ELSE IF j <= h + 1 + s THEN Parsed("search", e.file, SubSeq(Searched(e), 1, j - h - 1), <<>>, bs)
        ELSE IF j <= h + s + 2 + w
        THEN Parsed("replace", e.file, Searched(e), SubSeq(Written(e), 1, j - h - s - 2), bs)
        ELSE Parsed("outside", e.file, <<>>, <<>>, Append(bs, BlockOf(e.file, Searched(e), Written(e))))
  BY DEF StageOf
<1>6. j \in 0..m /\ j \in Nat
  OBVIOUS
<1> DEFINE b == BlockOf(e.file, Searched(e), Written(e))
<1>7. \A md, fl, sr, wr, bl : Parsed(md, fl, sr, wr, bl).blocks = bl
  BY DEF Parsed
<1>8. StageOf(j, f, bs, e).blocks = IF j <= h + s + 2 + w THEN bs ELSE Append(bs, b)
  <2>1. j <= h \/ j <= h + 1 + s => j <= h + s + 2 + w
    BY <1>4, <1>6
  <2> HIDE DEF h, s, w, b
  <2> QED
    BY <1>5, <1>7, <2>1 DEF b
<1> HIDE DEF m, h, s, w, b
<1>9. j = m <=> ~(j <= h + s + 2 + w)
  BY <1>2, <1>4, <1>6
<1> QED
  BY <1>8, <1>9 DEF m, b

LEMMA TakeOfAFront ==
    ASSUME NEW T, NEW s \in Seq(T), NEW x \in T, NEW n \in 0..Len(s)
    PROVE  SubSeq(Append(s, x), 1, n) = SubSeq(s, 1, n)
<1> DEFINE a == SubSeq(Append(s, x), 1, n)
           b == SubSeq(s, 1, n)
<1>1. a \in Seq(T) /\ b \in Seq(T) /\ Len(a) = n /\ Len(b) = n
  OBVIOUS
<1>2. \A i \in 1..n : a[i] = s[i] /\ b[i] = s[i]
  OBVIOUS
<1> HIDE DEF a, b
<1>3. a = b
  BY <1>1, <1>2, SeqEqual
<1> QED
  BY <1>3 DEF a, b

LEMMA TakeOfBoth ==
    ASSUME NEW T, NEW s \in Seq(T), NEW t \in Seq(T)
    PROVE  /\ \A n \in 0..Len(s) : SubSeq(s \o t, 1, n) = SubSeq(s, 1, n)
           /\ \A j \in 0..Len(t) : SubSeq(s \o t, 1, Len(s) + j) = s \o SubSeq(t, 1, j)
<1> DEFINE u == s \o t
<1>1. u \in Seq(T) /\ Len(u) = Len(s) + Len(t) /\ Len(s) \in Nat /\ Len(t) \in Nat
      /\ (\A i \in 1..Len(s) : u[i] = s[i]) /\ \A i \in 1..Len(t) : u[Len(s) + i] = t[i]
  OBVIOUS
<1> HIDE DEF u
<1>2. ASSUME NEW n \in 0..Len(s) PROVE SubSeq(u, 1, n) = SubSeq(s, 1, n)
  <2>1. SubSeq(u, 1, n) \in Seq(T) /\ Len(SubSeq(u, 1, n)) = n /\ \A i \in 1..n : SubSeq(u, 1, n)[i] = u[i]
    BY <1>1
  <2>2. SubSeq(s, 1, n) \in Seq(T) /\ Len(SubSeq(s, 1, n)) = n /\ \A i \in 1..n : SubSeq(s, 1, n)[i] = s[i]
    BY <1>1
  <2>3. \A i \in 1..n : u[i] = s[i]
    BY <1>1
  <2> DEFINE a == SubSeq(u, 1, n)
             b == SubSeq(s, 1, n)
  <2>4. a \in Seq(T) /\ b \in Seq(T) /\ Len(a) = n /\ Len(b) = n /\ \A i \in 1..n : a[i] = b[i]
    BY <2>1, <2>2, <2>3
  <2> HIDE DEF a, b
  <2>5. a = b
    BY <2>4, SeqEqual
  <2> QED
    BY <2>5 DEF a, b
<1>3. ASSUME NEW j \in 0..Len(t) PROVE SubSeq(u, 1, Len(s) + j) = s \o SubSeq(t, 1, j)
  <2> DEFINE c == SubSeq(t, 1, j)
             a == SubSeq(u, 1, Len(s) + j)
             b == s \o c
             n == Len(s) + j
  <2>1. c \in Seq(T) /\ Len(c) = j /\ \A i \in 1..j : c[i] = t[i]
    BY <1>1
  <2>2. a \in Seq(T) /\ Len(a) = n /\ \A i \in 1..n : a[i] = u[i]
    <3>1. n \in Nat /\ n <= Len(u)
      BY <1>1
    <3> HIDE DEF n
    <3>2. SubSeq(u, 1, n) \in Seq(T) /\ Len(SubSeq(u, 1, n)) = n /\ \A i \in 1..n : SubSeq(u, 1, n)[i] = u[i]
      BY <1>1, <3>1
    <3> QED
      BY <3>2 DEF n
  <2> HIDE DEF c, a
  <2>3. b \in Seq(T) /\ Len(b) = n /\ (\A i \in 1..Len(s) : b[i] = s[i]) /\ \A i \in 1..j : b[Len(s) + i] = c[i]
    <3>1. s \in Seq(T) /\ c \in Seq(T)
      BY <2>1
    <3>2. /\ s \o c \in Seq(T) /\ Len(s \o c) = Len(s) + Len(c)
          /\ \A i \in 1..Len(s) : (s \o c)[i] = s[i]
          /\ \A i \in 1..Len(c) : (s \o c)[Len(s) + i] = c[i]
      BY <3>1, Ind!Beside
    <3> QED
      BY <2>1, <3>2
  <2> HIDE DEF b
  <2>4. ASSUME NEW i \in 1..n PROVE a[i] = b[i]
    <3>1. CASE i <= Len(s)
      BY <1>1, <2>2, <2>3, <3>1
    <3>2. CASE i > Len(s)
      <4>1. i - Len(s) \in 1..j /\ i - Len(s) \in 1..Len(t) /\ Len(s) + (i - Len(s)) = i
        BY <1>1, <3>2
      <4>2. b[i] = c[i - Len(s)] /\ u[i] = t[i - Len(s)] /\ c[i - Len(s)] = t[i - Len(s)]
        BY <1>1, <2>1, <2>3, <4>1
      <4> QED
        BY <2>2, <4>2
    <3> QED
      BY <1>1, <3>1, <3>2
  <2> HIDE DEF n
  <2>5. a = b
    BY <2>2, <2>3, <2>4, SeqEqual
  <2> QED
    BY <2>5 DEF a, b, c, n
<1> QED
  BY <1>2, <1>3 DEF u

LEMMA OneBlockMore ==
    ASSUME NEW list \in Seq(Wishes), NEW e \in Wishes, IsList(Append(list, e)), ~IsMisled(Append(list, e)), ReadsRight(list)
    PROVE  ReadsRight(Append(list, e))
<1> DEFINE new == Append(list, e)
           t == TextOf(list)
           b == Printed(e)
           u == TextOf(new)
           ms == Meant(list)
           bl == BlockOf(e.file, Searched(e), Written(e))
           l == Len(t)
           m == Len(b)
<1>1. IsWish(e) /\ (e.named \/ (FileOf(list) = e.file /\ NoPathNear(t)))
  BY NothingMisleads DEF Wishes
<1>2. t \in Seq(TextLine) /\ b \in Seq(TextLine) /\ u = t \o b
  BY <1>1, TextType, TextOfOneMore, PrintedType
<1>3. m \in Nat \ {0} /\ b[m] = EndMark /\ \A j \in 1..m - 1 : b[j] # EndMark
  BY <1>1, OneEndInABlock
<1>4. /\ ReadLines(t) = Parsed("outside", FileOf(list), <<>>, <<>>, ms)
      /\ EndsIn(t, l) = Len(list)
      /\ \A n \in 0..l : Parse(SubSeq(t, 1, n)) = SubSeq(ms, 1, EndsIn(t, n))
  BY DEF ReadsRight
<1>5. ms \in Seq(ReadBlocks) /\ Len(ms) = Len(list) /\ Meant(new) = Append(ms, bl)
      /\ Meant(new) \in Seq(ReadBlocks) /\ Len(Meant(new)) = Len(list) + 1
  <2>1. new \in Seq(Wishes) /\ Len(new) = Len(list) + 1
    OBVIOUS
  <2> QED
    BY <2>1, MeantType, MeantOfOneMore
<1>6. \A j \in 0..m : ReadLines(t \o SubSeq(b, 1, j)) = StageOf(j, FileOf(list), ms, e)
  BY <1>1, <1>2, <1>4, BlockIsRead
<1>7. \A j \in 0..m : StageOf(j, FileOf(list), ms, e).blocks = IF j = m THEN Append(ms, bl) ELSE ms
  BY <1>1, StageBlocks
<1>8. Len(new) = Len(list) + 1 /\ Len(list) \in Nat /\ FileOf(new) = e.file
  <2>1. new # <<>> /\ Len(new) = Len(list) + 1 /\ Len(list) \in Nat /\ new[Len(list) + 1] = e
    OBVIOUS
  <2> QED
    BY <2>1 DEF FileOf
<1>9. bl \in ReadBlocks
  <2>1. e.file \in EditFiles /\ Searched(e) \in Seq(TextLine) /\ Written(e) \in Seq(TextLine)
    BY <1>1, WishType, BlockLines
  <2> QED
    BY <2>1 DEF BlockOf, ReadBlocks
<1>10. StageOf(m, FileOf(list), ms, e) = Parsed("outside", e.file, <<>>, <<>>, Append(ms, bl))
  <2>1. IsLaidOut(b, Headed(e), Searched(e), Written(e))
    BY <1>1, PrintedIsLaidOut
  <2>2. /\ Headed(e) \in Seq(TextLine) /\ Searched(e) \in Seq(TextLine) /\ Written(e) \in Seq(TextLine)
    BY <1>1, BlockLines, HeadedLines
  <2> DEFINE h == Len(Headed(e))
             s == Len(Searched(e))
             w == Len(Written(e))
  <2>3. m = h + s + w + 3
    BY <2>1 DEF IsLaidOut
  <2>4. h \in Nat /\ s \in Nat /\ w \in Nat
    BY <2>2
  <2>5. ~(m <= h) /\ ~(m <= h + 1 + s) /\ ~(m <= h + s + 2 + w)
    BY <2>3, <2>4
  <2> HIDE DEF m, b
  <2> QED
    BY <2>5 DEF StageOf
<1> HIDE DEF new, t, b, u, ms, bl
<1>11. ReadLines(u) = Parsed("outside", FileOf(new), <<>>, <<>>, Meant(new))
  <2>1. SubSeq(b, 1, m) = b /\ m \in 0..m
    BY <1>2, <1>3, Ind!AllTaken
  <2> QED
    BY <1>2, <1>5, <1>6, <1>8, <1>10, <2>1
<1>12. l \in Nat /\ Len(u) = l + m
       /\ (\A i \in 1..l : u[i] = t[i]) /\ \A i \in 1..m : u[l + i] = b[i]
  BY <1>2, <1>3, Ind!Beside
<1> HIDE DEF l, m
<1>13. \A n \in 0..l : EndsIn(u, n) = EndsIn(t, n)
  <2> SUFFICES ASSUME NEW n \in 0..l PROVE EndsIn(u, n) = EndsIn(t, n)
    OBVIOUS
  <2>1. {i \in 1..n : u[i] = EndMark} = {i \in 1..n : t[i] = EndMark}
    BY <1>12
  <2> QED
    BY <2>1 DEF EndsIn
<1>14. \A j \in 0..m - 1 : EndsIn(u, l + j) = Len(list)
  <2> SUFFICES ASSUME NEW j \in 0..m - 1 PROVE EndsIn(u, l + j) = Len(list)
    OBVIOUS
  <2>1. EndsTo(u, l + j) = EndsTo(u, l)
    <3>1. ASSUME NEW i \in 1..l + j, i \notin 1..l PROVE u[i] # EndMark
      <4>1. i - l \in 1..m - 1 /\ i - l \in 1..m /\ l + (i - l) = i
        BY <1>3, <1>12, <3>1
      <4> QED
        BY <1>3, <1>12, <4>1
    <3>2. 1..l \subseteq 1..l + j
      BY <1>12
    <3> QED
      BY <3>1, <3>2 DEF EndsTo
  <2>2. EndsIn(u, l) = Len(list)
    BY <1>4, <1>12, <1>13 DEF l
  <2> QED
    BY <2>1, <2>2 DEF EndsIn, EndsTo
<1>15. EndsIn(u, l + m) = Len(list) + 1
  <2>1. l + m = l + (m - 1) + 1 /\ m - 1 \in 0..m - 1 /\ l + (m - 1) \in Nat
    BY <1>3, <1>12
  <2>2. u[l + m] = EndMark /\ l + m \in Nat
    BY <1>3, <1>12
  <2> DEFINE k == l + (m - 1)
  <2>3. EndsTo(u, l + m) = EndsTo(u, k) \cup {l + m} /\ l + m \notin EndsTo(u, k)
    BY <1>3, <1>12, <2>1, <2>2 DEF EndsTo
  <2>4. IsFiniteSet(EndsTo(u, k))
    <3>1. k \in Nat
      BY <2>1
    <3> HIDE DEF k
    <3>2. k \in 0..k
      BY <3>1
    <3> QED
      BY <3>1, <3>2, EndsInTotal
  <2>5. Cardinality(EndsTo(u, k)) = Len(list)
    BY <1>14, <2>1 DEF EndsIn, EndsTo
  <2> HIDE DEF k
  <2>6. Cardinality(EndsTo(u, k) \cup {l + m}) = Cardinality(EndsTo(u, k)) + 1
    BY <2>3, <2>4, FS_AddElement
  <2> QED
    BY <2>3, <2>5, <2>6 DEF EndsIn, EndsTo
<1>16. ASSUME NEW n \in 0..Len(u) PROVE Parse(SubSeq(u, 1, n)) = SubSeq(Meant(new), 1, EndsIn(u, n))
  <2>1. CASE n <= l
    <3>1. n \in 0..l
      BY <1>12, <2>1
    <3>2. SubSeq(u, 1, n) = SubSeq(t, 1, n)
      <4>1. n \in 0..Len(t)
        BY <3>1 DEF l
      <4> QED
        BY <1>2, <4>1, TakeOfBoth
    <3>3. EndsIn(t, n) \in 0..Len(ms)
      <4>1. EndsIn(t, n) \in Nat /\ EndsIn(t, n) <= EndsIn(t, l)
        BY <1>12, <3>1, EndsInTotal
      <4> QED
        BY <1>4, <1>5, <1>8, <4>1 DEF l
    <3>4. SubSeq(Append(ms, bl), 1, EndsIn(t, n)) = SubSeq(ms, 1, EndsIn(t, n))
      BY <1>5, <1>9, <3>3, TakeOfAFront
    <3>5. Parse(SubSeq(t, 1, n)) = SubSeq(ms, 1, EndsIn(t, n))
      BY <1>4, <3>1 DEF l
    <3> QED
      BY <1>5, <1>13, <3>1, <3>2, <3>4, <3>5
  <2>2. CASE n > l
    <3> DEFINE j == n - l
    <3>1. j \in 0..m /\ n = l + j /\ (j # m => j \in 0..m - 1)
      BY <1>3, <1>12, <2>2
    <3> HIDE DEF j
    <3>2. SubSeq(u, 1, l + j) = t \o SubSeq(b, 1, j)
      <4>1. j \in 0..Len(b)
        BY <3>1 DEF m
      <4> QED
        BY <1>2, <4>1, TakeOfBoth DEF l
    <3>3. Parse(t \o SubSeq(b, 1, j)) = IF j = m THEN Append(ms, bl) ELSE ms
      <4>1. Parse(t \o SubSeq(b, 1, j)) = ReadLines(t \o SubSeq(b, 1, j)).blocks
        BY DEF Parse, ReadLines
      <4> QED
        BY <1>6, <1>7, <3>1, <4>1
    <3>4. CASE j = m
      <4>1. SubSeq(Meant(new), 1, Len(list) + 1) = Meant(new)
        BY <1>5, Ind!AllTaken
      <4> QED
        BY <1>5, <1>15, <3>1, <3>2, <3>3, <3>4, <4>1
    <3>5. CASE j # m
      <4>1. SubSeq(Append(ms, bl), 1, Len(list)) = SubSeq(ms, 1, Len(list))
        <5>1. Len(list) \in 0..Len(ms)
          BY <1>5, <1>8
        <5> QED
          BY <1>5, <1>9, <5>1, TakeOfAFront
      <4>2. SubSeq(ms, 1, Len(list)) = ms
        BY <1>5, Ind!AllTaken
      <4>3. EndsIn(u, n) = Len(list)
        BY <1>14, <3>1, <3>5
      <4> QED
        BY <1>5, <3>1, <3>2, <3>3, <3>5, <4>1, <4>2, <4>3
    <3> QED
      BY <3>4, <3>5
  <2> QED
    BY <1>12, <2>1, <2>2
<1> QED
  BY <1>8, <1>11, <1>12, <1>15, <1>16 DEF ReadsRight, new, u

LEMMA ListsAreRead ==
    ASSUME NEW list, IsList(list)
    PROVE  ReadsWell(list)
<1>1. ReadsWell(<<>>)
  <2> DEFINE nought == <<>>
  <2>1. TextOf(nought) = <<>> /\ Meant(nought) = <<>> /\ FileOf(nought) = NoWord
    BY TextOfNothing DEF Meant, FileOf
  <2>2. ReadLines(<<>>) = Parsed("outside", NoWord, <<>>, <<>>, <<>>)
    BY ReadingOfNothing DEF Outset, Parsed
  <2>3. \A text : EndsIn(text, 0) = 0
    <3>1. \A text : {i \in 1..0 : text[i] = EndMark} = {}
      OBVIOUS
    <3> QED
      BY <3>1, FS_EmptySet DEF EndsIn
  <2>4. Parse(<<>>) = <<>>
    BY <2>2 DEF Parse, ReadLines, Parsed
  <2>5. Len(<<>>) = 0 /\ SubSeq(<<>>, 1, 0) = <<>> /\ \A n \in 0..0 : n = 0
    OBVIOUS
  <2> HIDE DEF nought
  <2>6. ReadsRight(nought)
    <3>1. Len(nought) = 0
      BY DEF nought
    <3>2. ReadLines(TextOf(nought)) = Parsed("outside", FileOf(nought), <<>>, <<>>, Meant(nought))
      BY <2>1, <2>2
    <3>3. Len(TextOf(nought)) = 0 /\ EndsIn(TextOf(nought), 0) = 0
      BY <2>1, <2>3, <2>5
    <3>4. Parse(SubSeq(TextOf(nought), 1, 0)) = SubSeq(Meant(nought), 1, 0)
      BY <2>1, <2>4, <2>5
    <3> QED
      BY <2>5, <3>1, <3>2, <3>3, <3>4 DEF ReadsRight
  <2> QED
    BY <2>6 DEF ReadsWell, nought
<1>2. ASSUME NEW s \in Seq(Wish), NEW x \in Wish, ReadsWell(s) PROVE ReadsWell(Append(s, x))
  <2> SUFFICES ASSUME IsList(Append(s, x)), ~IsMisled(Append(s, x)) PROVE ReadsRight(Append(s, x))
    BY DEF ReadsWell
  <2>1. IsList(s) /\ ~IsMisled(s)
    BY ListWithoutLast
  <2>2. ReadsRight(s)
    BY <1>2, <2>1 DEF ReadsWell
  <2>3. s \in Seq(Wishes)
    BY <2>1, WishOfList
  <2>4. x \in Wishes
    <3> DEFINE p == Append(s, x)
    <3>1. p \in Seq(Wishes)
      BY WishOfList
    <3>2. Len(p) = Len(s) + 1 /\ p[Len(s) + 1] = x /\ Len(s) \in Nat
      OBVIOUS
    <3> HIDE DEF p
    <3> QED
      BY <3>1, <3>2
  <2> QED
    BY <2>2, <2>3, <2>4, OneBlockMore
<1>3. \A s \in Seq(Wish) : ReadsWell(s)
  <2> HIDE DEF ReadsWell
  <2> QED
    BY <1>1, <1>2, Ind!SequenceInduction
<1> QED
  BY <1>3 DEF IsList
-----------------------------------------------------------------------------
(* The engine: where a block lands.                                         *)

LEMMA LeastOf ==
    ASSUME NEW S, S \subseteq Nat, S # {}
    PROVE  Min(S) \in S /\ \A m \in S : Min(S) <= m
<1>1. \E n \in S : \A m \in S : n <= m
  BY Ind!Least
<1> QED
  BY <1>1 DEF Min

LEMMA OneOf == ASSUME NEW i \in Int PROVE Min({i}) = i /\ Max({i}) = i
BY DEF Min, Max

LEMMA LengthsAreLikely ==
    ASSUME NEW n \in Nat, NEW length \in Max({1, (9 * n) \div 10})..((11 * n) \div 10) + 1
    PROVE  length \in Nat
<1> DEFINE q == (9 * n) \div 10
           S == {1, q}
<1>1. q \in Int
  OBVIOUS
<1>o. length \in Max(S)..((11 * n) \div 10) + 1
  OBVIOUS
<1> HIDE DEF q
<1>2. \E x \in S : \A y \in S : x >= y
  BY <1>1
<1>3. Max(S) \in S /\ \A y \in S : Max(S) >= y
  BY <1>2 DEF Max
<1>4. Max(S) \in Int /\ Max(S) >= 1
  BY <1>1, <1>3
<1> HIDE DEF S
<1> QED
  BY <1>o, <1>4

LEMMA PutType ==
    ASSUME NEW T, NEW whole \in Seq(T), NEW n \in Nat, NEW i \in Starts(whole, n), NEW new \in Seq(T)
    PROVE  PutAt(whole, i, n, new) \in Seq(T)
<1> DEFINE w == Len(whole)
           a == SubSeq(whole, 1, i - 1)
           b == SubSeq(whole, i + n, w)
<1>1. w \in Nat /\ i \in Nat /\ i >= 1 /\ i + n <= w + 1
  BY DEF Starts
<1>2. a \in Seq(T)
  BY <1>1
<1>3. b \in Seq(T)
  <2>1. i + n \in Nat /\ i + n >= 1
    BY <1>1
  <2> DEFINE k == i + n
  <2> HIDE DEF k
  <2>2. k \in Nat /\ k >= 1 /\ k <= w + 1
    BY <1>1, <2>1 DEF k
  <2>3. SubSeq(whole, k, w) \in Seq(T)
    <3>1. \A j \in k..w : whole[j] \in T
      BY <1>1, <2>2
    <3> QED
      BY <1>1, <2>2, <3>1, SubSeqProperties
  <2> QED
    BY <2>3 DEF k
<1> HIDE DEF a, b
<1>4. a \o new \o b \in Seq(T)
  BY <1>2, <1>3
<1> QED
  BY <1>4 DEF PutAt, a, b

LEMMA SpanType ==
    ASSUME NEW T, NEW whole \in Seq(T), NEW n \in Nat, NEW i \in Starts(whole, n)
    PROVE  SpanAt(whole, i, n) \in Seq(T) /\ Len(SpanAt(whole, i, n)) = n
<1>1. Len(whole) \in Nat /\ i \in Nat /\ i >= 1 /\ i + n - 1 <= Len(whole) /\ i + n - 1 >= i - 1
  BY DEF Starts
<1> DEFINE k == i + n - 1
<1>2. k \in Int /\ k <= Len(whole) /\ k >= i - 1 /\ k - i + 1 = n
  BY <1>1
<1> HIDE DEF k
<1>3. SubSeq(whole, i, k) \in Seq(T) /\ Len(SubSeq(whole, i, k)) = n
  <2>1. \A j \in i..k : whole[j] \in T
    BY <1>1, <1>2
  <2> QED
    BY <1>1, <1>2, <2>1, SubSeqProperties
<1> QED
  BY <1>3 DEF SpanAt, k

Indents(lines) == {lines[j].in : j \in Inked(lines)}

LEMMA LeadIsLeast ==
    ASSUME NEW lines \in Seq(TextLine)
    PROVE  /\ Lead(lines) \in Nat
           /\ \A j \in Inked(lines) : lines[j].in >= Lead(lines)
           /\ Inked(lines) # {} => \E j \in Inked(lines) : lines[j].in = Lead(lines)
<1>1. \A j \in Inked(lines) : lines[j] \in TextLine
  BY DEF Inked
<1>2. Indents(lines) \subseteq Nat /\ \A j \in Inked(lines) : lines[j].in \in Nat
  BY <1>1 DEF Indents, TextLine
<1>3. CASE Inked(lines) = {}
  BY <1>3 DEF Lead
<1>4. CASE Inked(lines) # {}
  <2>1. Lead(lines) = Min(Indents(lines))
    BY <1>4 DEF Lead, Indents
  <2>2. Indents(lines) # {}
    BY <1>4 DEF Indents
  <2>3. Min(Indents(lines)) \in Indents(lines) /\ \A m \in Indents(lines) : Min(Indents(lines)) <= m
    BY <1>2, <2>2, LeastOf
  <2>4. \A j \in Inked(lines) : lines[j].in \in Indents(lines)
    BY DEF Indents
  <2>5. \E j \in Inked(lines) : lines[j].in = Lead(lines)
    BY <2>1, <2>3 DEF Indents
  <2> QED
    BY <1>2, <2>1, <2>3, <2>4, <2>5
<1> QED
  BY <1>3, <1>4

\* The lines whose indentations are counted are those of the block.
LEMMA InkOfBoth ==
    ASSUME NEW s \in Seq(TextLine), NEW t \in Seq(TextLine)
    PROVE  /\ s \o t \in Seq(TextLine)
           /\ \A j \in Inked(s) : j \in Inked(s \o t) /\ (s \o t)[j] = s[j]
           /\ \A j \in Inked(t) : Len(s) + j \in Inked(s \o t) /\ (s \o t)[Len(s) + j] = t[j]
           /\ \A j \in Inked(s \o t) : \/ j \in Inked(s) /\ (s \o t)[j] = s[j]
                                       \/ j - Len(s) \in Inked(t) /\ (s \o t)[j] = t[j - Len(s)]
<1> DEFINE u == s \o t
           m == Len(s)
           n == Len(t)
<1>1. /\ u \in Seq(TextLine) /\ Len(u) = m + n /\ (\A i \in 1..m : u[i] = s[i]) /\ \A i \in 1..n : u[m + i] = t[i]
  BY Ind!Beside
<1>2. m \in Nat /\ n \in Nat /\ DOMAIN s = 1..m /\ DOMAIN t = 1..n
  OBVIOUS
<1> HIDE DEF u
<1>3. DOMAIN u = 1..m + n
  BY <1>1
<1> HIDE DEF m, n
<1>4. ASSUME NEW j \in Inked(s) PROVE j \in Inked(u) /\ u[j] = s[j]
  <2>1. j \in 1..m /\ ~IsBlank(s[j])
    BY <1>2 DEF Inked
  <2>2. u[j] = s[j] /\ j \in 1..m + n
    BY <1>1, <1>2, <2>1
  <2> QED
    BY <1>3, <2>1, <2>2 DEF Inked
<1>5. ASSUME NEW j \in Inked(t) PROVE m + j \in Inked(u) /\ u[m + j] = t[j]
  <2>1. j \in 1..n /\ ~IsBlank(t[j])
    BY <1>2 DEF Inked
  <2>2. u[m + j] = t[j] /\ m + j \in 1..m + n
    BY <1>1, <1>2, <2>1
  <2> QED
    BY <1>3, <2>1, <2>2 DEF Inked
<1>6. ASSUME NEW j \in Inked(u)
      PROVE  (j \in Inked(s) /\ u[j] = s[j]) \/ (j - m \in Inked(t) /\ u[j] = t[j - m])
  <2>1. j \in 1..m + n /\ ~IsBlank(u[j])
    BY <1>3 DEF Inked
  <2>2. CASE j <= m
    <3>1. j \in 1..m /\ u[j] = s[j]
      BY <1>1, <1>2, <2>1, <2>2
    <3> QED
      BY <1>2, <2>1, <3>1 DEF Inked
  <2>3. CASE j > m
    <3>1. j - m \in 1..n /\ m + (j - m) = j
      BY <1>2, <2>1, <2>3
    <3>2. u[j] = t[j - m]
      BY <1>1, <3>1
    <3> QED
      BY <1>2, <2>1, <3>1, <3>2 DEF Inked
  <2> QED
    BY <1>2, <2>1, <2>2, <2>3
<1> QED
  BY <1>1, <1>4, <1>5, <1>6 DEF u, m

-----------------------------------------------------------------------------
\* The places of each tier, and what may be left there.
Exactly(whole, part) == {i \in Starts(whole, Len(part)) : SpanAt(whole, i, Len(part)) = part}
Bared(part, new) == Shift(part, -Lead(part \o new))
ButForLeading(whole, part, new) ==
    {i \in Starts(whole, Len(part)) : LeadingMatch(SpanAt(whole, i, Len(part)), Bared(part, new))}
ButForTrailing(whole, part) == {i \in Starts(whole, Len(part)) : TrailingMatch(SpanAt(whole, i, Len(part)), part)}
Landed(tier, whole, i, n, new) == [tier |-> tier, lines |-> PutAt(whole, i, n, new)]

LEMMA ReplaceIsRead ==
    ASSUME NEW whole, NEW part, NEW new, NEW r \in ReplaceIn(whole, part, new)
    PROVE  \/ /\ Exactly(whole, part) # {}
              /\ r = Landed("exact", whole, Min(Exactly(whole, part)), Len(part), new)
           \/ /\ Exactly(whole, part) = {} /\ ButForLeading(whole, part, new) # {}
              /\ LET i == Min(ButForLeading(whole, part, new))
                 IN  r = Landed("leading_ws", whole, i, Len(part),
                                Reindented(new, Lead(part \o new), SpanAt(whole, i, Len(part)), Bared(part, new)))
           \/ /\ Exactly(whole, part) = {} /\ ButForLeading(whole, part, new) = {} /\ ButForTrailing(whole, part) # {}
              /\ r = Landed("trailing_ws", whole, Min(ButForTrailing(whole, part)), Len(part), new)
           \/ /\ Exactly(whole, part) = {} /\ ButForLeading(whole, part, new) = {} /\ ButForTrailing(whole, part) = {}
              /\ \/ r = [tier |-> "none", lines |-> whole]
                 \/ \E length \in Max({1, (9 * Len(part)) \div 10})..((11 * Len(part)) \div 10) + 1 :
                       \E i \in Starts(whole, length) : r = Landed("fuzzy", whole, i, length, new)
<1> DEFINE n == Len(part)
           ex == Exactly(whole, part)
           le == ButForLeading(whole, part, new)
           tr == ButForTrailing(whole, part)
           like == Max({1, (9 * n) \div 10})..((11 * n) \div 10) + 1
           i == Min(le)
           moved == Reindented(new, Lead(part \o new), SpanAt(whole, i, n), Bared(part, new))
           others == {[tier |-> "none", lines |-> whole]}
                     \cup UNION {{Landed("fuzzy", whole, j, length, new) : j \in Starts(whole, length)} : length \in like}
<1>1. ReplaceIn(whole, part, new) =
        CASE ex # {} -> {Landed("exact", whole, Min(ex), n, new)}
          [] ex = {} /\ le # {} -> {Landed("leading_ws", whole, i, n, moved)}
          [] ex \cup le = {} /\ tr # {} -> {Landed("trailing_ws", whole, Min(tr), n, new)}
          [] OTHER -> others
  BY Zenon DEF ReplaceIn, Exactly, ButForLeading, ButForTrailing, Bared, Landed
<1> HIDE DEF ex, le, tr, like, i, moved, n
<1>2. \/ ex # {} /\ r = Landed("exact", whole, Min(ex), n, new)
      \/ ex = {} /\ le # {} /\ r = Landed("leading_ws", whole, i, n, moved)
      \/ ex = {} /\ le = {} /\ tr # {} /\ r = Landed("trailing_ws", whole, Min(tr), n, new)
      \/ ex = {} /\ le = {} /\ tr = {} /\ r \in others
  <2>1. CASE ex # {}
    BY <1>1, <2>1
  <2>2. CASE ex = {} /\ le # {}
    BY <1>1, <2>2
  <2>3. CASE ex = {} /\ le = {} /\ tr # {}
    BY <1>1, <2>3
  <2>4. CASE ex = {} /\ le = {} /\ tr = {}
    BY <1>1, <2>4
  <2> QED
    BY <2>1, <2>2, <2>3, <2>4
<1>3. r \in others => \/ r = [tier |-> "none", lines |-> whole]
                      \/ \E length \in like : \E j \in Starts(whole, length) : r = Landed("fuzzy", whole, j, length, new)
  OBVIOUS
<1> HIDE DEF others
<1> QED
  BY <1>2, <1>3 DEF ex, le, tr, like, i, moved, n

-----------------------------------------------------------------------------
(* Shifting an indentation.                                                 *)

LEMMA ShiftType ==
    ASSUME NEW lines \in Seq(TextLine), NEW d \in Int, \A j \in Inked(lines) : lines[j].in + d \in Nat
    PROVE  Shift(lines, d) \in Seq(TextLine) /\ Len(Shift(lines, d)) = Len(lines)
<1> DEFINE n == Len(lines)
           s == [j \in 1..n |-> IF IsBlank(lines[j]) THEN lines[j] ELSE [lines[j] EXCEPT !.in = @ + d]]
<1>1. n \in Nat /\ DOMAIN lines = 1..n /\ \A j \in 1..n : lines[j] \in TextLine
  OBVIOUS
<1>2. Shift(lines, d) = s
  BY <1>1 DEF Shift
<1> HIDE DEF n
<1>3. \A j \in 1..n : s[j] \in TextLine
  <2> SUFFICES ASSUME NEW j \in 1..n PROVE s[j] \in TextLine
    OBVIOUS
  <2> DEFINE l == lines[j]
  <2>1. l \in TextLine
    BY <1>1
  <2>2. CASE IsBlank(l)
    BY <2>1, <2>2
  <2>3. CASE ~IsBlank(l)
    <3>1. j \in Inked(lines)
      BY <1>1, <2>3 DEF Inked
    <3>2. l.in + d \in Nat
      BY <3>1
    <3>3. s[j] = [l EXCEPT !.in = @ + d]
      BY <2>3
    <3> HIDE DEF l, s
    <3>4. [l EXCEPT !.in = @ + d] \in TextLine
      BY <2>1, <3>2 DEF TextLine
    <3> QED
      BY <3>3, <3>4
  <2> QED
    BY <2>2, <2>3
<1>4. s \in Seq(TextLine) /\ Len(s) = n
  BY <1>1, <1>3
<1> QED
  BY <1>2, <1>4 DEF n

\* What becomes of each line.
LEMMA ShiftedLine ==
    ASSUME NEW lines \in Seq(TextLine), NEW d \in Int, NEW j \in 1..Len(lines)
    PROVE  /\ Shift(lines, d)[j].word = lines[j].word /\ Shift(lines, d)[j].tail = lines[j].tail
           /\ IsBlank(Shift(lines, d)[j]) <=> IsBlank(lines[j])
           /\ ~IsBlank(lines[j]) => Shift(lines, d)[j].in = lines[j].in + d
           /\ IsBlank(lines[j]) => Shift(lines, d)[j] = lines[j]
<1> DEFINE l == lines[j]
           m == [l EXCEPT !.in = @ + d]
<1>1. l \in TextLine /\ j \in DOMAIN lines
  OBVIOUS
<1>2. Shift(lines, d)[j] = IF IsBlank(l) THEN l ELSE m
  BY <1>1 DEF Shift
<1> HIDE DEF l
<1>3. m.word = l.word /\ m.tail = l.tail /\ m.in = l.in + d
  BY <1>1 DEF TextLine
<1> HIDE DEF m
<1>4. IsBlank(m) <=> IsBlank(l)
  BY <1>3 DEF IsBlank
<1> QED
  BY <1>2, <1>3, <1>4 DEF l

\* A line is its three parts.
LEMMA SameLine ==
    ASSUME NEW l \in TextLine, NEW m \in TextLine, l.in = m.in, l.word = m.word, l.tail = m.tail
    PROVE  l = m
BY DEF TextLine

LEMMA ShiftBack ==
    ASSUME NEW lines \in Seq(TextLine), NEW d \in Int, Shift(lines, d) \in Seq(TextLine),
           Len(Shift(lines, d)) = Len(lines)
    PROVE  Shift(Shift(lines, d), -d) = lines
<1> DEFINE t == Shift(lines, d)
           n == Len(lines)
<1>1. n \in Nat /\ -d \in Int /\ t \in Seq(TextLine) /\ Len(t) = n
  OBVIOUS
<1>2. \A j \in 1..n : /\ lines[j] \in TextLine /\ t[j].word = lines[j].word /\ t[j].tail = lines[j].tail
                      /\ IsBlank(t[j]) <=> IsBlank(lines[j])
                      /\ ~IsBlank(lines[j]) => t[j].in = lines[j].in + d
                      /\ IsBlank(lines[j]) => t[j] = lines[j]
  BY ShiftedLine
<1> HIDE DEF t, n
<1>3. \A j \in Inked(t) : t[j].in + (-d) \in Nat
  <2> SUFFICES ASSUME NEW j \in Inked(t) PROVE t[j].in + (-d) \in Nat
    OBVIOUS
  <2>1. j \in 1..n /\ ~IsBlank(t[j])
    BY <1>1 DEF Inked
  <2>2. t[j].in = lines[j].in + d /\ lines[j].in \in Nat
    BY <1>2, <2>1 DEF TextLine
  <2> QED
    BY <2>2
<1>4. Shift(t, -d) \in Seq(TextLine) /\ Len(Shift(t, -d)) = n
  BY <1>1, <1>3, ShiftType
<1>5. ASSUME NEW j \in 1..n PROVE Shift(t, -d)[j] = lines[j]
  <2> DEFINE b == Shift(t, -d)[j]
             l == lines[j]
  <2>1. /\ b.word = t[j].word /\ b.tail = t[j].tail
        /\ ~IsBlank(t[j]) => b.in = t[j].in + (-d)
        /\ IsBlank(t[j]) => b = t[j]
    BY <1>1, <1>5, ShiftedLine
  <2>2. b \in TextLine /\ l \in TextLine
    BY <1>2, <1>4, <1>5
  <2>3. /\ t[j].word = l.word /\ t[j].tail = l.tail /\ (IsBlank(t[j]) <=> IsBlank(l))
        /\ (~IsBlank(l) => t[j].in = l.in + d) /\ (IsBlank(l) => t[j] = l)
    BY <1>2, <1>5
  <2> HIDE DEF b, l
  <2>4. IsBlank(l) => b = l
    BY <2>1, <2>3
  <2>5. ASSUME ~IsBlank(l) PROVE b = l
    <3>1. l.in \in Nat
      BY <2>2 DEF TextLine
    <3>2. b.in = l.in
      BY <2>1, <2>3, <2>5, <3>1
    <3> QED
      BY <2>1, <2>2, <2>3, <3>2, SameLine
  <2> QED
    BY <2>4, <2>5 DEF b, l
<1> QED
  BY <1>1, <1>4, <1>5, SeqEqual DEF t, n

LEMMA ShiftOfNone ==
    ASSUME NEW lines \in Seq(TextLine)
    PROVE  Shift(lines, 0) = lines
<1>1. \A j \in Inked(lines) : lines[j].in + 0 \in Nat
  <2>1. \A j \in Inked(lines) : lines[j] \in TextLine
    BY DEF Inked
  <2> QED
    BY <2>1 DEF TextLine
<1>2. Shift(lines, 0) \in Seq(TextLine) /\ Len(Shift(lines, 0)) = Len(lines)
  BY <1>1, ShiftType
<1>3. ASSUME NEW j \in 1..Len(lines) PROVE Shift(lines, 0)[j] = lines[j]
  <2> DEFINE b == Shift(lines, 0)[j]
             l == lines[j]
  <2>1. b \in TextLine /\ l \in TextLine
    BY <1>2, <1>3
  <2>2. /\ b.word = l.word /\ b.tail = l.tail
        /\ ~IsBlank(l) => b.in = l.in + 0
        /\ IsBlank(l) => b = l
    BY <1>3, ShiftedLine
  <2> HIDE DEF b, l
  <2>3. l.in \in Nat
    BY <2>1 DEF TextLine
  <2>4. b = l
    BY <2>1, <2>2, <2>3, SameLine
  <2> QED
    BY <2>4 DEF b, l
<1> QED
  BY <1>2, <1>3, SeqEqual

-----------------------------------------------------------------------------
(* The indentation that is added when only that differs.                    *)

LEMMA AddedIsOne ==
    ASSUME NEW chunk, NEW part, LeadingMatch(chunk, part), Added(chunk, part) # {}, Added(chunk, part) \subseteq Int
    PROVE  /\ Max(Added(chunk, part)) \in Nat
           /\ Added(chunk, part) = {Max(Added(chunk, part))}
<1>1. \A c, d \in Added(chunk, part) : c = d /\ c >= 0
  BY DEF LeadingMatch
<1>2. PICK c \in Added(chunk, part) : TRUE
  OBVIOUS
<1>3. c \in Nat /\ Added(chunk, part) = {c}
  BY <1>1, <1>2
<1>4. Max({c}) = c
  BY <1>3, OneOf
<1> QED
  BY <1>3, <1>4

LEMMA AddedType ==
    ASSUME NEW n \in Nat, NEW chunk \in Seq(TextLine), NEW part \in Seq(TextLine), Len(chunk) = n, Len(part) = n
    PROVE  Added(chunk, part) \subseteq Int
<1>1. \A j \in Inked(chunk) : chunk[j] \in TextLine /\ part[j] \in TextLine
  BY DEF Inked
<1>2. \A j \in Inked(chunk) : chunk[j].in - part[j].in \in Int
  BY <1>1 DEF TextLine
<1> QED
  BY <1>2 DEF Added

LEMMA BaredType ==
    ASSUME NEW part \in Seq(TextLine), NEW new \in Seq(TextLine)
    PROVE  /\ Bared(part, new) \in Seq(TextLine) /\ Len(Bared(part, new)) = Len(part)
           /\ Lead(part \o new) \in Nat
           /\ \A j \in Inked(new) : new[j].in >= Lead(part \o new)
           /\ \A j \in Inked(part) : part[j].in >= Lead(part \o new)
<1> DEFINE both == part \o new
           lead == Lead(both)
<1>1. both \in Seq(TextLine)
  BY InkOfBoth
<1>2. lead \in Nat /\ \A j \in Inked(both) : both[j].in >= lead
  BY <1>1, LeadIsLeast
<1>3. \A j \in Inked(part) : j \in Inked(both) /\ both[j] = part[j]
  BY InkOfBoth
<1>4. \A j \in Inked(new) : Len(part) + j \in Inked(both) /\ both[Len(part) + j] = new[j]
  BY InkOfBoth
<1> HIDE DEF both, lead
<1>5. \A j \in Inked(part) : part[j].in >= lead
  BY <1>2, <1>3
<1>6. \A j \in Inked(new) : new[j].in >= lead
  BY <1>2, <1>4
<1>7. \A j \in Inked(part) : part[j].in + (-lead) \in Nat
  <2>1. \A j \in Inked(part) : part[j] \in TextLine
    BY DEF Inked
  <2>2. \A j \in Inked(part) : part[j].in \in Nat
    BY <2>1 DEF TextLine
  <2> QED
    BY <1>2, <1>5, <2>2
<1>8. Shift(part, -lead) \in Seq(TextLine) /\ Len(Shift(part, -lead)) = Len(part)
  BY <1>2, <1>7, ShiftType
<1> QED
  BY <1>2, <1>5, <1>6, <1>8 DEF Bared, both, lead

LEMMA ReindentedType ==
    ASSUME NEW part \in Seq(TextLine), NEW new \in Seq(TextLine), NEW chunk \in Seq(TextLine), Len(chunk) = Len(part),
           LeadingMatch(chunk, Bared(part, new))
    PROVE  Reindented(new, Lead(part \o new), chunk, Bared(part, new)) \in Seq(TextLine)
<1> DEFINE lead == Lead(part \o new)
           bare == Bared(part, new)
           added == Added(chunk, bare)
<1>1. /\ bare \in Seq(TextLine) /\ Len(bare) = Len(part) /\ lead \in Nat
      /\ \A j \in Inked(new) : new[j].in >= lead
  BY BaredType
<1>2. added \subseteq Int
  BY <1>1, AddedType
<1>3. added # {} => Max(added) \in Nat
  BY <1>2, AddedIsOne
<1>4. Reindented(new, lead, chunk, bare) = IF added = {} THEN Shift(new, -lead) ELSE Shift(new, Max(added) - lead)
  BY DEF Reindented
<1> HIDE DEF lead, bare, added
<1>5. \A j \in Inked(new) : new[j].in \in Nat
  <2>1. \A j \in Inked(new) : new[j] \in TextLine
    BY DEF Inked
  <2> QED
    BY <2>1 DEF TextLine
<1>6. ASSUME NEW d \in Nat PROVE Shift(new, d - lead) \in Seq(TextLine)
  <2>1. d - lead \in Int /\ \A j \in Inked(new) : new[j].in + (d - lead) \in Nat
    BY <1>1, <1>5
  <2> QED
    BY <2>1, ShiftType
<1>7. CASE added = {}
  <2>1. -lead = 0 - lead
    BY <1>1
  <2> QED
    BY <1>4, <1>6, <1>7, <2>1 DEF lead, bare
<1>8. CASE added # {}
  BY <1>3, <1>4, <1>6, <1>8 DEF lead, bare
<1> QED
  BY <1>7, <1>8

Tiers == {"exact", "leading_ws", "trailing_ws", "fuzzy", "none"}

LEMMA ReplaceType ==
    ASSUME NEW whole \in Seq(TextLine), NEW part \in Seq(TextLine), NEW new \in Seq(TextLine),
           NEW r \in ReplaceIn(whole, part, new)
    PROVE  r.tier \in Tiers /\ r.lines \in Seq(TextLine)
<1> DEFINE n == Len(part)
           ex == Exactly(whole, part)
           le == ButForLeading(whole, part, new)
           tr == ButForTrailing(whole, part)
<1>1. n \in Nat /\ Starts(whole, n) \subseteq Nat
  BY DEF Starts
<1>2. ex \subseteq Starts(whole, n) /\ le \subseteq Starts(whole, n) /\ tr \subseteq Starts(whole, n)
  BY DEF Exactly, ButForLeading, ButForTrailing
<1>3. ASSUME NEW tier \in Tiers, NEW length \in Nat, NEW i \in Starts(whole, length), NEW text \in Seq(TextLine)
      PROVE  /\ Landed(tier, whole, i, length, text).tier \in Tiers
             /\ Landed(tier, whole, i, length, text).lines \in Seq(TextLine)
  <2>1. PutAt(whole, i, length, text) \in Seq(TextLine)
    BY PutType
  <2> QED
    BY <2>1 DEF Landed
<1>4. CASE ex # {} /\ r = Landed("exact", whole, Min(ex), n, new)
  <2>1. Min(ex) \in Starts(whole, n)
    BY <1>1, <1>2, <1>4, LeastOf
  <2>2. "exact" \in Tiers
    BY DEF Tiers
  <2> QED
    BY <1>1, <1>3, <1>4, <2>1, <2>2
<1>5. CASE tr # {} /\ r = Landed("trailing_ws", whole, Min(tr), n, new)
  <2>1. Min(tr) \in Starts(whole, n)
    BY <1>1, <1>2, <1>5, LeastOf
  <2>2. "trailing_ws" \in Tiers
    BY DEF Tiers
  <2> QED
    BY <1>1, <1>3, <1>5, <2>1, <2>2
<1>6. CASE /\ le # {}
           /\ r = Landed("leading_ws", whole, Min(le), n,
                         Reindented(new, Lead(part \o new), SpanAt(whole, Min(le), n), Bared(part, new)))
  <2> DEFINE i == Min(le)
             chunk == SpanAt(whole, i, n)
             text == Reindented(new, Lead(part \o new), chunk, Bared(part, new))
  <2>1. i \in le
    BY <1>1, <1>2, <1>6, LeastOf
  <2>2. i \in Starts(whole, n) /\ LeadingMatch(chunk, Bared(part, new))
    BY <2>1 DEF ButForLeading
  <2>3. chunk \in Seq(TextLine) /\ Len(chunk) = n
    BY <1>1, <2>2, SpanType
  <2>4. text \in Seq(TextLine)
    BY <2>2, <2>3, ReindentedType
  <2>5. "leading_ws" \in Tiers
    BY DEF Tiers
  <2> HIDE DEF chunk
  <2> QED
    BY <1>1, <1>3, <1>6, <2>2, <2>4, <2>5 DEF chunk
<1>7. CASE r = [tier |-> "none", lines |-> whole]
  BY <1>7 DEF Tiers
<1>8. CASE \E length \in Max({1, (9 * n) \div 10})..((11 * n) \div 10) + 1 :
              \E i \in Starts(whole, length) : r = Landed("fuzzy", whole, i, length, new)
  <2>1. PICK length \in Max({1, (9 * n) \div 10})..((11 * n) \div 10) + 1 :
               \E i \in Starts(whole, length) : r = Landed("fuzzy", whole, i, length, new)
    BY <1>8
  <2>2. PICK i \in Starts(whole, length) : r = Landed("fuzzy", whole, i, length, new)
    BY <2>1
  <2>3. length \in Nat
    BY <1>1, LengthsAreLikely
  <2>4. "fuzzy" \in Tiers
    BY DEF Tiers
  <2> QED
    BY <1>3, <2>2, <2>3, <2>4
<1> QED
  BY <1>4, <1>5, <1>6, <1>7, <1>8, ReplaceIsRead

-----------------------------------------------------------------------------
(* A block lands where its lines stand.                                     *)

\* The place and the error of an edit: see EditsLandAsMeant.
IsFor(whole, e, i) ==
    /\ whole \in Seq(TextLine) /\ IsWish(e)
    /\ i \in Starts(whole, Len(e.old)) /\ SpanAt(whole, i, Len(e.old)) = e.old
    /\ \A m \in Starts(whole, Len(e.old)) : Reads(SpanAt(whole, m, Len(e.old))) = Reads(e.old) => m = i

LEMMA SearchedType ==
    ASSUME NEW e, IsWish(e)
    PROVE  /\ Len(e.old) \in Nat /\ Searched(e) \in Seq(TextLine) /\ Len(Searched(e)) = Len(e.old)
           /\ Written(e) \in Seq(TextLine)
           /\ Shift(e.old, e.shift) \in Seq(TextLine) /\ Len(Shift(e.old, e.shift)) = Len(e.old)
           /\ Shift(e.new, e.shift) \in Seq(TextLine) /\ Len(Shift(e.new, e.shift)) = Len(e.new)
           /\ \A j \in 1..Len(e.old) : Searched(e)[j].word = e.old[j].word
<1>1. /\ e.old \in Seq(TextLine) /\ e.new \in Seq(TextLine) /\ e.shift \in Int
      /\ IsPlain(e.old, e.shift) /\ IsPlain(e.new, e.shift)
  BY WishType DEF IsWish
<1> DEFINE s == Shift(e.old, e.shift)
           n == Len(e.old)
<1>2. /\ s \in Seq(TextLine) /\ Len(s) = n /\ IsUnmarked(s)
      /\ \A j \in 1..n : s[j].word = e.old[j].word
  BY <1>1, ShiftKeeps
<1>3. Shift(e.new, e.shift) \in Seq(TextLine) /\ Len(Shift(e.new, e.shift)) = Len(e.new)
  BY <1>1, ShiftKeeps
<1>4. n \in Nat
  BY <1>1
<1>5. Searched(e) = IF e.trim THEN Trimmed(s) ELSE s
  BY DEF Searched
<1>6. Written(e) = Shift(e.new, e.shift)
  BY DEF Written
<1> HIDE DEF s, n
<1>7. CASE e.trim
  <2>1. /\ Trimmed(s) \in Seq(TextLine) /\ Len(Trimmed(s)) = n
        /\ \A j \in 1..n : Trimmed(s)[j] = [s[j] EXCEPT !.tail = FALSE]
    BY <1>2, TrimKeeps
  <2>2. \A j \in 1..n : Trimmed(s)[j].word = s[j].word
    <3>1. \A j \in 1..n : s[j] \in TextLine
      BY <1>2
    <3> QED
      BY <2>1, <3>1 DEF TextLine
  <2> QED
    BY <1>2, <1>3, <1>4, <1>5, <1>6, <1>7, <2>1, <2>2 DEF s, n
<1>8. CASE ~e.trim
  BY <1>2, <1>3, <1>4, <1>5, <1>6, <1>8 DEF s, n
<1> QED
  BY <1>7, <1>8

LEMMA ReadsAlike ==
    ASSUME NEW s \in Seq(TextLine), NEW t \in Seq(TextLine), Len(s) = Len(t), \A j \in 1..Len(s) : s[j].word = t[j].word
    PROVE  Reads(s) = Reads(t)
BY DEF Reads

LEMMA RTrimKeepsTheWord ==
    ASSUME NEW l \in TextLine
    PROVE  RTrim(l).word = l.word /\ RTrim([l EXCEPT !.tail = FALSE]) = RTrim(l)
<1> DEFINE m == [l EXCEPT !.tail = FALSE]
<1>1. m.word = l.word /\ [m EXCEPT !.tail = FALSE] = m
  BY DEF TextLine
<1>2. CASE IsBlank(l)
  <2>1. l.word = NoWord
    BY <1>2 DEF IsBlank
  <2>2. RTrim(l) = Blank /\ Blank.word = NoWord
    BY <1>2 DEF RTrim, Blank, Line
  <2> HIDE DEF m
  <2>3. RTrim(m) = Blank
    BY <1>1, <2>1 DEF RTrim, IsBlank
  <2> QED
    BY <2>1, <2>2, <2>3 DEF m
<1>3. CASE ~IsBlank(l)
  <2>1. RTrim(l) = m
    BY <1>3 DEF RTrim
  <2> HIDE DEF m
  <2>2. RTrim(m) = m
    BY <1>1, <1>3 DEF RTrim, IsBlank
  <2> QED
    BY <1>1, <2>1, <2>2 DEF m
<1> QED
  BY <1>2, <1>3

\* What matches in any way reads as the block does, and one place does.
LEMMA OnePlace ==
    ASSUME NEW whole, NEW e, NEW i, IsFor(whole, e, i)
    PROVE  /\ Exactly(whole, Searched(e)) \subseteq {i}
           /\ ButForLeading(whole, Searched(e), Written(e)) \subseteq {i}
           /\ ButForTrailing(whole, Searched(e)) \subseteq {i}
<1> DEFINE n == Len(e.old)
           x == Searched(e)
           bare == Bared(x, Written(e))
<1>1. /\ n \in Nat /\ x \in Seq(TextLine) /\ Len(x) = n /\ Written(e) \in Seq(TextLine)
      /\ \A j \in 1..n : x[j].word = e.old[j].word
  BY SearchedType DEF IsFor
<1>2. e.old \in Seq(TextLine) /\ Reads(x) = Reads(e.old)
  <2>1. e.old \in Seq(TextLine)
    BY WishType DEF IsFor
  <2> QED
    BY <1>1, <2>1, ReadsAlike
<1>3. /\ whole \in Seq(TextLine)
      /\ \A m \in Starts(whole, n) : Reads(SpanAt(whole, m, n)) = Reads(e.old) => m = i
  BY DEF IsFor
<1>4. bare \in Seq(TextLine) /\ Len(bare) = n
  BY <1>1, BaredType
<1>5. \A j \in 1..n : bare[j].word = x[j].word
  <2>1. Lead(x \o Written(e)) \in Nat
    BY <1>1, BaredType
  <2>2. -Lead(x \o Written(e)) \in Int
    BY <2>1
  <2> QED
    BY <1>1, <2>2, ShiftedLine DEF Bared
<1> HIDE DEF x, bare, n
<1>6. \A m \in Starts(whole, n) : SpanAt(whole, m, n) \in Seq(TextLine) /\ Len(SpanAt(whole, m, n)) = n
  BY <1>1, <1>3, SpanType
<1>7. ASSUME NEW m \in Starts(whole, n), \A j \in 1..n : SpanAt(whole, m, n)[j].word = x[j].word
      PROVE  m = i
  <2>1. Reads(SpanAt(whole, m, n)) = Reads(x)
    BY <1>1, <1>6, <1>7, ReadsAlike
  <2> QED
    BY <1>2, <1>3, <2>1
<1>8. Exactly(whole, x) \subseteq {i}
  BY <1>1, <1>7 DEF Exactly
<1>9. ASSUME NEW m \in ButForLeading(whole, x, Written(e)) PROVE m = i
  <2>1. m \in Starts(whole, n) /\ LeadingMatch(SpanAt(whole, m, n), bare)
    BY <1>1, <1>9 DEF ButForLeading, bare
  <2>2. \A j \in 1..n : SpanAt(whole, m, n)[j].word = bare[j].word
    BY <1>4, <2>1 DEF LeadingMatch
  <2> QED
    BY <1>5, <1>7, <2>1, <2>2
<1>10. ASSUME NEW m \in ButForTrailing(whole, x) PROVE m = i
  <2>1. m \in Starts(whole, n) /\ TrailingMatch(SpanAt(whole, m, n), x)
    BY <1>1, <1>10 DEF ButForTrailing
  <2>2. \A j \in 1..n : RTrim(SpanAt(whole, m, n)[j]) = RTrim(x[j])
    BY <1>1, <2>1 DEF TrailingMatch
  <2>3. \A j \in 1..n : SpanAt(whole, m, n)[j] \in TextLine /\ x[j] \in TextLine
    BY <1>1, <1>6, <2>1
  <2>4. \A j \in 1..n : SpanAt(whole, m, n)[j].word = x[j].word
    BY <2>2, <2>3, RTrimKeepsTheWord
  <2> QED
    BY <1>7, <2>1, <2>4
<1> QED
  BY <1>8, <1>9, <1>10 DEF x

LEMMA PlaceOfAnExactBlock ==
    ASSUME NEW whole, NEW e, NEW i, IsFor(whole, e, i), Searched(e) = e.old
    PROVE  Exactly(whole, Searched(e)) = {i}
<1>1. i \in Exactly(whole, Searched(e))
  BY DEF Exactly, IsFor
<1> QED
  BY <1>1, OnePlace

\* A block without the blanks at the ends of its lines.
LEMMA PlaceOfATrimmedBlock ==
    ASSUME NEW whole, NEW e, NEW i, IsFor(whole, e, i), e.shift = 0, Searched(e) # e.old
    PROVE  /\ Exactly(whole, Searched(e)) = {} /\ ButForLeading(whole, Searched(e), Written(e)) = {}
           /\ ButForTrailing(whole, Searched(e)) = {i}
<1> DEFINE n == Len(e.old)
           x == Searched(e)
           old == e.old
           bare == Bared(x, Written(e))
           lead == Lead(x \o Written(e))
<1>1. /\ IsWish(e) /\ i \in Starts(whole, n) /\ SpanAt(whole, i, n) = old
  BY DEF IsFor
<1>2. n \in Nat /\ x \in Seq(TextLine) /\ Len(x) = n /\ Written(e) \in Seq(TextLine)
  BY <1>1, SearchedType
<1>3. old \in Seq(TextLine) /\ Shift(old, 0) = old
  BY <1>1, WishType, ShiftOfNone
<1>4. x = Trimmed(old)
  BY <1>3 DEF Searched
<1>5. \A j \in 1..n : x[j] = [old[j] EXCEPT !.tail = FALSE]
  BY <1>3, <1>4 DEF Trimmed
<1>6. \A j \in 1..n : old[j] \in TextLine
  BY <1>3
<1>7. x # old
  OBVIOUS
<1>8. bare \in Seq(TextLine) /\ Len(bare) = n /\ lead \in Nat
  BY <1>2, BaredType
<1>9. \A j \in 1..n : bare[j].tail = x[j].tail
  <2>1. -lead \in Int
    BY <1>8
  <2> QED
    BY <1>2, <2>1, ShiftedLine DEF Bared
<1>10. Exactly(whole, x) \subseteq {i} /\ ButForLeading(whole, x, Written(e)) \subseteq {i} /\ ButForTrailing(whole, x) \subseteq {i}
  BY OnePlace
<1>11. i \notin Exactly(whole, x)
  BY <1>1, <1>2, <1>7 DEF Exactly
<1> HIDE DEF n, x, old, bare, lead
<1>12. i \notin ButForLeading(whole, x, Written(e))
  <2> SUFFICES ASSUME i \in ButForLeading(whole, x, Written(e)) PROVE FALSE
    OBVIOUS
  <2>1. LeadingMatch(old, bare)
    BY <1>1, <1>2 DEF ButForLeading, bare
  <2>2. \A j \in 1..n : old[j].tail = x[j].tail
    BY <1>8, <1>9, <2>1 DEF LeadingMatch
  <2>3. ASSUME NEW j \in 1..n PROVE x[j] = old[j]
    <3> DEFINE l == old[j]
    <3>1. l \in TextLine /\ x[j] = [l EXCEPT !.tail = FALSE] /\ x[j].tail = l.tail
      BY <1>5, <1>6, <2>2, <2>3
    <3> HIDE DEF l
    <3>2. l.tail = FALSE
      BY <3>1 DEF TextLine
    <3>3. [l EXCEPT !.tail = FALSE] = l
      BY <3>1, <3>2 DEF TextLine
    <3> QED
      BY <3>1, <3>3 DEF l
  <2>4. x = old
    BY <1>2, <1>3, <2>3, SeqEqual DEF n, old
  <2> QED
    BY <1>7, <2>4
<1>13. i \in ButForTrailing(whole, x)
  <2>1. \A j \in 1..n : RTrim(old[j]) = RTrim(x[j])
    BY <1>5, <1>6, RTrimKeepsTheWord
  <2>2. TrailingMatch(old, x)
    BY <1>2, <2>1 DEF TrailingMatch
  <2> QED
    BY <1>1, <1>2, <2>2 DEF ButForTrailing
<1> QED
  BY <1>10, <1>11, <1>12, <1>13 DEF x

\* A block whose indentation is wrong, some line of which has one.
LEMMA PlaceOfAShiftedBlock ==
    ASSUME NEW whole, NEW e, NEW i, IsFor(whole, e, i), e.shift # 0, Searched(e) = Shift(e.old, e.shift), Inked(e.old) # {}
    PROVE  /\ Exactly(whole, Searched(e)) = {} /\ ButForLeading(whole, Searched(e), Written(e)) = {i}
           /\ Reindented(Written(e), Lead(Searched(e) \o Written(e)), e.old, Bared(Searched(e), Written(e))) = e.new
<1> DEFINE n == Len(e.old)
           x == Searched(e)
           w == Written(e)
           old == e.old
           bare == Bared(x, w)
           lead == Lead(x \o w)
           d == e.shift
<1>1. /\ IsWish(e) /\ i \in Starts(whole, n) /\ SpanAt(whole, i, n) = old
  BY DEF IsFor
<1>2. n \in Nat /\ x \in Seq(TextLine) /\ Len(x) = n /\ w \in Seq(TextLine) /\ w = Shift(e.new, d) /\ Len(w) = Len(e.new)
  BY <1>1, SearchedType DEF Written
<1>3. old \in Seq(TextLine) /\ d \in Int /\ d # 0 /\ e.new \in Seq(TextLine)
  BY <1>1, WishType
<1>4. bare \in Seq(TextLine) /\ Len(bare) = n /\ lead \in Nat
  BY <1>2, BaredType
<1>5. Exactly(whole, x) \subseteq {i} /\ ButForLeading(whole, x, w) \subseteq {i}
  BY OnePlace
<1>6. x = Shift(old, d) /\ bare = Shift(x, -lead)
  BY DEF Bared
<1>7. Inked(old) # {}
  OBVIOUS
<1> HIDE DEF n, x, w, old, bare, lead, d
<1>8. \A j \in 1..n : old[j] \in TextLine /\ old[j].in \in Nat
  <2>1. \A j \in 1..n : old[j] \in TextLine
    BY <1>3 DEF n, old
  <2> QED
    BY <2>1 DEF TextLine
<1>9. \A j \in 1..n : /\ x[j].word = old[j].word /\ x[j].tail = old[j].tail /\ (IsBlank(x[j]) <=> IsBlank(old[j]))
                      /\ ~IsBlank(old[j]) => x[j].in = old[j].in + d
  BY <1>3, <1>6, ShiftedLine DEF n, old
<1>10. \A j \in 1..n : /\ bare[j].word = old[j].word /\ bare[j].tail = old[j].tail
                       /\ ~IsBlank(old[j]) => bare[j].in = (old[j].in + d) + (-lead)
  <2>1. -lead \in Int
    BY <1>4
  <2>2. \A j \in 1..n : /\ bare[j].word = x[j].word /\ bare[j].tail = x[j].tail
                        /\ ~IsBlank(x[j]) => bare[j].in = x[j].in + (-lead)
    BY <1>2, <1>6, <2>1, ShiftedLine
  <2> QED
    BY <1>9, <2>2
<1>11. \A j \in Inked(old) : j \in 1..n /\ ~IsBlank(old[j])
  BY <1>3 DEF Inked, n, old
<1>12. \A j \in Inked(old) : old[j].in - bare[j].in = lead - d
  <2> SUFFICES ASSUME NEW j \in Inked(old) PROVE old[j].in - bare[j].in = lead - d
    OBVIOUS
  <2>1. old[j].in \in Nat /\ bare[j].in = (old[j].in + d) + (-lead)
    BY <1>8, <1>10, <1>11
  <2> QED
    BY <1>3, <1>4, <2>1
<1>13. Added(old, bare) = {lead - d}
  BY <1>7, <1>12 DEF Added
<1>14. lead - d \in Nat
  <2>1. x \o w \in Seq(TextLine)
    BY <1>2, InkOfBoth
  <2>2. PICK j \in Inked(old) : TRUE
    BY <1>7
  <2>3. j \in Inked(x)
    BY <1>2, <1>9, <1>11 DEF Inked
  <2>4. Inked(x \o w) # {}
    BY <1>2, <2>3, InkOfBoth
  <2>5. PICK m \in Inked(x \o w) : (x \o w)[m].in = lead
    BY <2>1, <2>4, LeadIsLeast DEF lead
  <2>6. \/ m \in Inked(x) /\ (x \o w)[m] = x[m]
        \/ m - Len(x) \in Inked(w) /\ (x \o w)[m] = w[m - Len(x)]
    BY <1>2, InkOfBoth
  <2>7. CASE m \in Inked(x) /\ (x \o w)[m] = x[m]
    <3>1. m \in 1..n /\ ~IsBlank(x[m])
      BY <1>2, <2>7 DEF Inked
    <3>2. x[m].in = old[m].in + d /\ old[m].in \in Nat
      BY <1>8, <1>9, <3>1
    <3> QED
      BY <1>3, <1>4, <2>5, <2>7, <3>2
  <2>8. CASE m - Len(x) \in Inked(w) /\ (x \o w)[m] = w[m - Len(x)]
    <3> DEFINE k == m - Len(x)
               new == e.new
    <3>1. k \in 1..Len(w) /\ ~IsBlank(w[k])
      BY <1>2, <2>8 DEF Inked
    <3>2. k \in 1..Len(new) /\ new \in Seq(TextLine)
      BY <1>2, <1>3, <3>1
    <3>3. (x \o w)[m].in = w[k].in
      BY <2>8
    <3> HIDE DEF k, new
    <3>4. new[k] \in TextLine /\ (IsBlank(w[k]) <=> IsBlank(new[k])) /\ (~IsBlank(new[k]) => w[k].in = new[k].in + d)
      BY <1>2, <1>3, <3>2, ShiftedLine DEF new
    <3>5. new[k].in \in Nat
      BY <3>4 DEF TextLine
    <3>6. lead = new[k].in + d
      BY <2>5, <3>1, <3>3, <3>4
    <3> QED
      BY <1>3, <1>4, <3>5, <3>6
  <2> QED
    BY <2>6, <2>7, <2>8
<1>15. LeadingMatch(old, bare)
  <2>1. DOMAIN bare = 1..n
    BY <1>4
  <2>2. \A j \in DOMAIN bare : old[j].word = bare[j].word /\ old[j].tail = bare[j].tail
    BY <1>10, <2>1
  <2>3. \A b, c \in Added(old, bare) : b = c /\ b >= 0
    BY <1>13, <1>14
  <2> QED
    BY <2>2, <2>3 DEF LeadingMatch
<1>16. i \in ButForLeading(whole, x, w)
  BY <1>1, <1>2, <1>15 DEF ButForLeading, bare
<1>17. i \notin Exactly(whole, x)
  <2> SUFFICES ASSUME i \in Exactly(whole, x) PROVE FALSE
    OBVIOUS
  <2>1. old = x
    BY <1>1, <1>2 DEF Exactly
  <2>2. PICK j \in Inked(old) : TRUE
    BY <1>7
  <2>3. j \in 1..n /\ ~IsBlank(old[j])
    BY <1>11
  <2>4. x[j].in = old[j].in + d /\ old[j].in \in Nat
    BY <1>8, <1>9, <2>3
  <2>5. old[j].in = old[j].in + d
    BY <2>1, <2>4
  <2> QED
    BY <1>3, <2>4, <2>5
<1>18. Reindented(w, lead, old, bare) = e.new
  <2>1. Max(Added(old, bare)) = lead - d
    <3>1. lead - d \in Int
      BY <1>14
    <3>2. Max({lead - d}) = lead - d
      BY <3>1, OneOf
    <3> QED
      BY <1>13, <3>2
  <2>2. (lead - d) - lead = -d
    BY <1>3, <1>4
  <2>3. Added(old, bare) # {}
    BY <1>13
  <2>4. Reindented(w, lead, old, bare) = Shift(w, -d)
    BY <2>1, <2>2, <2>3 DEF Reindented
  <2>5. Shift(Shift(e.new, d), -d) = e.new
    <3>1. Shift(e.new, d) \in Seq(TextLine) /\ Len(Shift(e.new, d)) = Len(e.new)
      BY <1>2
    <3> QED
      BY <1>3, <3>1, ShiftBack
  <2> QED
    BY <1>2, <2>4, <2>5
<1> QED
  BY <1>5, <1>16, <1>17, <1>18 DEF x, w, old, bare, lead

\* The file is what it would be had the agent erred in nothing.
LEMMA LandsAsMeant ==
    ASSUME NEW whole, NEW e, NEW i, IsFor(whole, e, i),
           e.shift = 0 \/ (Searched(e) = Shift(e.old, e.shift) /\ Inked(e.old) # {}),
           NEW r \in ReplaceIn(whole, Searched(e), Written(e))
    PROVE  /\ r.tier \in {"exact", "leading_ws", "trailing_ws"}
           /\ r.lines = PutAt(whole, i, Len(e.old), e.new)
<1> DEFINE n == Len(e.old)
           x == Searched(e)
           w == Written(e)
           ex == Exactly(whole, x)
           le == ButForLeading(whole, x, w)
           tr == ButForTrailing(whole, x)
<1>1. /\ IsWish(e) /\ i \in Starts(whole, n) /\ SpanAt(whole, i, n) = e.old
  BY DEF IsFor
<1>2. n \in Nat /\ Len(x) = n
  BY <1>1, SearchedType
<1>3. e.old \in Seq(TextLine) /\ e.new \in Seq(TextLine) /\ e.shift \in Int
  BY <1>1, WishType
<1>4. i \in Int /\ Min({i}) = i
  <2>1. i \in Int
    BY <1>1 DEF Starts
  <2> QED
    BY <2>1, OneOf
<1>5. e.shift = 0 => w = e.new
  BY <1>3, ShiftOfNone DEF Written
<1>6. /\ ex # {} => r = Landed("exact", whole, Min(ex), n, w)
      /\ ex = {} /\ le # {} => r = Landed("leading_ws", whole, Min(le), n,
                                          Reindented(w, Lead(x \o w), SpanAt(whole, Min(le), n), Bared(x, w)))
      /\ ex = {} /\ le = {} /\ tr # {} => r = Landed("trailing_ws", whole, Min(tr), n, w)
  BY <1>2, ReplaceIsRead
<1>7. CASE e.shift = 0 /\ x = e.old
  <2>1. ex = {i}
    BY <1>7, PlaceOfAnExactBlock
  <2>2. r = Landed("exact", whole, i, n, e.new)
    BY <1>4, <1>5, <1>6, <1>7, <2>1
  <2> QED
    BY <2>2 DEF Landed
<1>8. CASE e.shift = 0 /\ x # e.old
  <2>1. ex = {} /\ le = {} /\ tr = {i}
    BY <1>8, PlaceOfATrimmedBlock
  <2>2. r = Landed("trailing_ws", whole, i, n, e.new)
    BY <1>4, <1>5, <1>6, <1>8, <2>1
  <2> QED
    BY <2>2 DEF Landed
<1>9. CASE e.shift # 0
  <2>1. x = Shift(e.old, e.shift) /\ Inked(e.old) # {}
    BY <1>9
  <2>2. /\ ex = {} /\ le = {i}
        /\ Reindented(w, Lead(x \o w), e.old, Bared(x, w)) = e.new
    BY <1>9, <2>1, PlaceOfAShiftedBlock
  <2> HIDE DEF ex, le, tr, x, w
  <2>3. r = Landed("leading_ws", whole, i, n, e.new)
    BY <1>1, <1>4, <1>6, <2>2
  <2> QED
    BY <2>3 DEF Landed
<1> QED
  BY <1>7, <1>8, <1>9

-----------------------------------------------------------------------------
(* What the parser gives, misled or not, is blocks.                         *)

Modes == {"outside", "search", "replace", "error"}
SomeBlocks == [file : Words, search : Seq(TextLine), replace : Seq(TextLine)]
IsReading(p) ==
    /\ p.mode \in Modes /\ p.file \in Words
    /\ p.search \in Seq(TextLine) /\ p.replace \in Seq(TextLine) /\ p.blocks \in Seq(SomeBlocks)
    /\ p = Parsed(p.mode, p.file, p.search, p.replace, p.blocks)

LEMMA ParsedParts ==
    ASSUME NEW m \in Modes, NEW f \in Words, NEW s \in Seq(TextLine), NEW w \in Seq(TextLine), NEW bs \in Seq(SomeBlocks)
    PROVE  IsReading(Parsed(m, f, s, w, bs))
BY DEF IsReading, Parsed

LEMMA PathsAreWords == {NoWord} \cup EditFiles \cup Dotted \subseteq Words
BY BlocksAssumption DEF Words

LEMMA LineKeepsType ==
    ASSUME NEW m \in Modes, NEW f \in Words, NEW s \in Seq(TextLine), NEW w \in Seq(TextLine), NEW bs \in Seq(SomeBlocks),
           NEW l \in TextLine, NEW n \in Words
    PROVE  IsReading(ReadLine(Parsed(m, f, s, w, bs), [line |-> l, name |-> n]))
<1> DEFINE p == Parsed(m, f, s, w, bs)
           b == [file |-> f, search |-> s, replace |-> w]
           x == [line |-> l, name |-> n]
           g == IF n = NoWord THEN f ELSE n
<1>1. p.mode = m /\ p.file = f /\ p.search = s /\ p.replace = w /\ p.blocks = bs
  BY DEF Parsed
<1>2. IsReading(p)
  BY ParsedParts
<1>3. x.line = l /\ x.name = n
  OBVIOUS
<1>4. g \in Words
  BY <1>1
<1>5. Append(s, l) \in Seq(TextLine) /\ Append(w, l) \in Seq(TextLine) /\ <<>> \in Seq(TextLine)
  BY <1>1
<1>6. Append(bs, b) \in Seq(SomeBlocks)
  <2>1. b \in SomeBlocks
    BY <1>1 DEF SomeBlocks
  <2> HIDE DEF b
  <2> QED
    BY <1>1, <2>1
<1>7. {"outside", "search", "replace", "error"} \subseteq Modes
  BY DEF Modes
<1> HIDE DEF g, x
<1>8. [p EXCEPT !.mode = "search", !.file = g] = Parsed("search", g, s, w, bs)
  <2>1. [p EXCEPT !.mode = "search", !.file = g] = [[p EXCEPT !.mode = "search"] EXCEPT !.file = g]
    OBVIOUS
  <2>2. [p EXCEPT !.mode = "search"] = Parsed("search", f, s, w, bs)
    BY DEF Parsed
  <2>3. [Parsed("search", f, s, w, bs) EXCEPT !.file = g] = Parsed("search", g, s, w, bs)
    BY DEF Parsed
  <2> HIDE DEF p
  <2> QED
    BY <2>1, <2>2, <2>3
<1> HIDE DEF b
<1>9. [Fresh(p) EXCEPT !.mode = "outside", !.blocks = Append(bs, b)] = Parsed("outside", f, <<>>, <<>>, Append(bs, b))
  <2> DEFINE c == Append(bs, b)
             q == Parsed(m, f, <<>>, <<>>, bs)
  <2>1. Fresh(p) = [[p EXCEPT !.search = <<>>] EXCEPT !.replace = <<>>]
    BY DEF Fresh
  <2>2. [p EXCEPT !.search = <<>>] = Parsed(m, f, <<>>, w, bs)
    BY DEF Parsed
  <2>3. [Parsed(m, f, <<>>, w, bs) EXCEPT !.replace = <<>>] = q
    BY DEF Parsed
  <2> HIDE DEF c, p
  <2>4. [q EXCEPT !.mode = "outside"] = Parsed("outside", f, <<>>, <<>>, bs)
    BY DEF Parsed
  <2>5. [Parsed("outside", f, <<>>, <<>>, bs) EXCEPT !.blocks = c] = Parsed("outside", f, <<>>, <<>>, c)
    BY DEF Parsed
  <2> HIDE DEF q
  <2>6. [q EXCEPT !.mode = "outside", !.blocks = c] = [[q EXCEPT !.mode = "outside"] EXCEPT !.blocks = c]
    OBVIOUS
  <2> QED
    BY <2>1, <2>2, <2>3, <2>4, <2>5, <2>6 DEF c
<1>10. /\ [p EXCEPT !.mode = "error"] = Parsed("error", f, s, w, bs)
       /\ [p EXCEPT !.mode = "replace"] = Parsed("replace", f, s, w, bs)
       /\ [p EXCEPT !.search = Append(s, l)] = Parsed(m, f, Append(s, l), w, bs)
       /\ [p EXCEPT !.replace = Append(w, l)] = Parsed(m, f, s, Append(w, l), bs)
  <2>1. [p EXCEPT !.mode = "error"] = Parsed("error", f, s, w, bs)
    BY DEF Parsed
  <2>2. [p EXCEPT !.mode = "replace"] = Parsed("replace", f, s, w, bs)
    BY DEF Parsed
  <2> DEFINE sl == Append(s, l)
             wl == Append(w, l)
  <2> HIDE DEF sl, wl
  <2>3. [p EXCEPT !.search = sl] = Parsed(m, f, sl, w, bs)
    BY DEF Parsed
  <2>4. [p EXCEPT !.replace = wl] = Parsed(m, f, s, wl, bs)
    BY DEF Parsed
  <2> HIDE DEF p
  <2> QED
    BY <2>1, <2>2, <2>3, <2>4 DEF sl, wl
<1> HIDE DEF p
<1>11. \/ ReadLine(p, x) \in {p, [p EXCEPT !.mode = "error"], [p EXCEPT !.mode = "replace"]}
       \/ ReadLine(p, x) \in {[p EXCEPT !.search = Append(s, l)], [p EXCEPT !.replace = Append(w, l)]}
       \/ ReadLine(p, x) = [p EXCEPT !.mode = "search", !.file = g]
       \/ ReadLine(p, x) = [Fresh(p) EXCEPT !.mode = "outside", !.blocks = Append(bs, b)]
  <2>1. ReadLine(p, x) =
          CASE m = "outside" /\ l = HeadMark ->
                 IF n = NoWord /\ f = NoWord THEN [p EXCEPT !.mode = "error"]
                 ELSE [p EXCEPT !.mode = "search", !.file = g]
            [] m = "search" /\ l = Divider -> [p EXCEPT !.mode = "replace"]
            [] m = "replace" /\ l = EndMark -> [Fresh(p) EXCEPT !.mode = "outside", !.blocks = Append(bs, b)]
            [] \/ m = "search" /\ l \in {HeadMark, EndMark}
               \/ m = "replace" /\ l \in {HeadMark, Divider} -> [p EXCEPT !.mode = "error"]
            [] m = "search" /\ l \notin Marks -> [p EXCEPT !.search = Append(s, l)]
            [] m = "replace" /\ l \notin Marks -> [p EXCEPT !.replace = Append(w, l)]
            [] OTHER -> p
    BY <1>1, <1>3 DEF ReadLine, g, b
  <2> DEFINE c1 == m = "outside" /\ l = HeadMark
             c2 == m = "search" /\ l = Divider
             c3 == m = "replace" /\ l = EndMark
             c4 == (m = "search" /\ l \in {HeadMark, EndMark}) \/ (m = "replace" /\ l \in {HeadMark, Divider})
             c5 == m = "search" /\ l \notin Marks
             c6 == m = "replace" /\ l \notin Marks
             v1 == IF n = NoWord /\ f = NoWord THEN [p EXCEPT !.mode = "error"] ELSE [p EXCEPT !.mode = "search", !.file = g]
             v2 == [p EXCEPT !.mode = "replace"]
             v3 == [Fresh(p) EXCEPT !.mode = "outside", !.blocks = Append(bs, b)]
             v4 == [p EXCEPT !.mode = "error"]
             v5 == [p EXCEPT !.search = Append(s, l)]
             v6 == [p EXCEPT !.replace = Append(w, l)]
  <2>2. v1 \in {v4, [p EXCEPT !.mode = "search", !.file = g]}
    OBVIOUS
  <2>3. /\ c1 => ~c2 /\ ~c3 /\ ~c4 /\ ~c5 /\ ~c6
        /\ c2 => ~c3 /\ ~c4 /\ ~c5 /\ ~c6
        /\ c3 => ~c4 /\ ~c5 /\ ~c6
        /\ c4 => ~c5 /\ ~c6
        /\ c5 => ~c6
    BY MarksDiffer DEF Marks
  <2> HIDE DEF c1, c2, c3, c4, c5, c6, v1, v2, v3, v4, v5, v6
  <2>4. ReadLine(p, x) = CASE c1 -> v1 [] c2 -> v2 [] c3 -> v3 [] c4 -> v4 [] c5 -> v5 [] c6 -> v6 [] OTHER -> p
    BY <2>1 DEF c1, c2, c3, c4, c5, c6, v1, v2, v3, v4, v5, v6
  <2>5. ReadLine(p, x) \in {v1, v2, v3, v4, v5, v6, p}
    BY <2>3, <2>4
  <2> QED
    BY <2>2, <2>5 DEF v2, v3, v4, v5, v6
<1> HIDE DEF p
<1>12. IsReading(ReadLine(p, x))
  <2>1. CASE ReadLine(p, x) \in {p, [p EXCEPT !.mode = "error"], [p EXCEPT !.mode = "replace"]}
    BY <1>2, <1>7, <1>10, <2>1, ParsedParts
  <2>2. CASE ReadLine(p, x) \in {[p EXCEPT !.search = Append(s, l)], [p EXCEPT !.replace = Append(w, l)]}
    <3> DEFINE sl == Append(s, l)
               wl == Append(w, l)
    <3>1. sl \in Seq(TextLine) /\ wl \in Seq(TextLine)
      BY <1>5
    <3>2. ReadLine(p, x) = Parsed(m, f, sl, w, bs) \/ ReadLine(p, x) = Parsed(m, f, s, wl, bs)
      BY <1>10, <2>2
    <3> HIDE DEF sl, wl
    <3> QED
      BY <1>1, <3>1, <3>2, ParsedParts
  <2>3. CASE ReadLine(p, x) = [p EXCEPT !.mode = "search", !.file = g]
    BY <1>1, <1>4, <1>7, <1>8, <2>3, ParsedParts
  <2>4. CASE ReadLine(p, x) = [Fresh(p) EXCEPT !.mode = "outside", !.blocks = Append(bs, b)]
    <3> DEFINE c == Append(bs, b)
               nought == <<>>
    <3>1. c \in Seq(SomeBlocks)
      BY <1>6 DEF b
    <3>2. nought \in Seq(TextLine)
      OBVIOUS
    <3>3. ReadLine(p, x) = Parsed("outside", f, nought, nought, c)
      BY <1>9, <2>4 DEF b
    <3> HIDE DEF c, nought
    <3> QED
      BY <1>1, <1>7, <3>1, <3>2, <3>3, ParsedParts
  <2> QED
    BY <1>11, <2>1, <2>2, <2>3, <2>4
<1> QED
  BY <1>12 DEF p, x

LEMMA ParseType == \A lines \in Seq(TextLine) : Parse(lines) \in Seq(SomeBlocks)
<1> DEFINE S == {n \in Nat : \A lines \in Seq(TextLine) : Len(lines) = n => IsReading(ReadLines(lines))}
<1>1. 0 \in S
  <2>1. \A lines \in Seq(TextLine) : Len(lines) = 0 => lines = <<>>
    BY EmptySeq
  <2>2. "outside" \in Modes /\ NoWord \in Words /\ <<>> \in Seq(TextLine) /\ <<>> \in Seq(SomeBlocks)
    BY PathsAreWords DEF Modes
  <2>3. Outset = Parsed("outside", NoWord, <<>>, <<>>, <<>>)
    BY DEF Outset, Parsed
  <2>4. IsReading(ReadLines(<<>>))
    BY <2>2, <2>3, ParsedParts, ReadingOfNothing
  <2> QED
    BY <2>1, <2>4
<1>2. ASSUME NEW n \in Nat, n \in S PROVE n + 1 \in S
  <2> SUFFICES ASSUME NEW lines \in Seq(TextLine), Len(lines) = n + 1 PROVE IsReading(ReadLines(lines))
    BY n + 1 \in Nat
  <2>1. PICK t \in Seq(TextLine), l \in TextLine : lines = Append(t, l) /\ Len(t) = n
    BY Ind!LastIsApart
  <2>2. IsReading(ReadLines(t))
    BY <1>2, <2>1
  <2>3. Len(t) + 1 \in Nat \ {0}
    BY <2>1
  <2>4. FindFilename(t, Len(t) + 1) \in Words
    BY <2>3, NameIsAWord, PathsAreWords
  <2> DEFINE p == ReadLines(t)
             x == [line |-> l, name |-> FindFilename(t, Len(t) + 1)]
  <2>5. IsReading(ReadLine(Parsed(p.mode, p.file, p.search, p.replace, p.blocks), x))
    <3>1. /\ p.mode \in Modes /\ p.file \in Words /\ p.search \in Seq(TextLine) /\ p.replace \in Seq(TextLine)
          /\ p.blocks \in Seq(SomeBlocks)
      BY <2>2 DEF IsReading
    <3> HIDE DEF p
    <3> QED
      BY <2>4, <3>1, LineKeepsType
  <2>6. p = Parsed(p.mode, p.file, p.search, p.replace, p.blocks)
    BY <2>2 DEF IsReading
  <2>7. ReadLines(lines) = ReadLine(p, x)
    BY <2>1, ReadingOfOneMore
  <2> HIDE DEF p, x
  <2> QED
    BY <2>5, <2>6, <2>7
<1> HIDE DEF S
<1>3. ASSUME NEW lines \in Seq(TextLine) PROVE Len(lines) \in S
  BY <1>1, <1>2, Ind!Steps, Len(lines) \in Nat
<1>4. ASSUME NEW lines \in Seq(TextLine) PROVE IsReading(ReadLines(lines))
  BY <1>3 DEF S
<1>5. \A lines : Parse(lines) = ReadLines(lines).blocks
  BY DEF Parse, ReadLines
<1> QED
  BY <1>4, <1>5 DEF IsReading

-----------------------------------------------------------------------------
(* The tool.                                                                *)

\* The blocks are what the parser makes of what the agent wrote ...
SheetInv ==
    /\ IsList(wants)
    /\ wants = <<>> => sheet = <<>> /\ fate = <<>>
    /\ wants # <<>> => sheet = Parse(TextOf(wants))

\* ... and the file of the last one is as the engine left it.
LastInv ==
    fate # <<>> /\ was # Gone =>
        LET b == sheet[Len(fate)]
        IN  \/ fate[Len(fate)] = "unwritten"
            \/ \E r \in ReplaceIn(was, b.search, b.replace) : fate[Len(fate)] = r.tier /\ tree[b.file] = r.lines

BlocksInv == BlocksTypeOK /\ SheetInv /\ LastInv

LEMMA NothingIsAList == IsList(<<>>)
BY DEF IsList

LEMMA BlocksStart == BlocksInit => BlocksInv
<1> SUFFICES ASSUME BlocksInit PROVE BlocksInv
  OBVIOUS
<1>1. tree \in [EditFiles -> {Gone} \cup Seq(TextLine)]
  BY BlocksAssumption DEF BlocksInit
<1>2. was = Gone /\ sheet = <<>> /\ fate = <<>> /\ wants = <<>>
  BY DEF BlocksInit
<1>3. BlocksTypeOK
  BY <1>1, <1>2 DEF BlocksTypeOK
<1> QED
  BY <1>2, <1>3, NothingIsAList DEF BlocksInv, SheetInv, LastInv

LEMMA NextBlockType ==
    ASSUME BlocksTypeOK, Len(fate) < Len(sheet)
    PROVE  NextBlock \in SomeBlocks /\ Len(fate) \in Nat /\ Len(fate) + 1 <= Len(sheet)
<1>1. sheet \in Seq(SomeBlocks) /\ fate \in Seq(Fates)
  BY DEF BlocksTypeOK, SomeBlocks
<1>2. Len(sheet) \in Nat /\ Len(fate) \in Nat
  BY <1>1
<1>3. Len(fate) + 1 \in 1..Len(sheet)
  BY <1>2
<1> QED
  BY <1>1, <1>2, <1>3 DEF NextBlock

\* One more block has an end.
LEMMA OneMoreFate ==
    ASSUME BlocksTypeOK, Len(fate) < Len(sheet), NEW t \in Fates, fate' = Append(fate, t), sheet' = sheet
    PROVE  /\ fate' \in Seq(Fates) /\ Len(fate') <= Len(sheet') /\ sheet' \in Seq(SomeBlocks)
           /\ Len(fate') = Len(fate) + 1 /\ fate'[Len(fate')] = t /\ fate' # <<>>
           /\ sheet'[Len(fate')] = NextBlock
<1>1. sheet \in Seq(SomeBlocks) /\ fate \in Seq(Fates)
  BY DEF BlocksTypeOK, SomeBlocks
<1>2. Len(sheet) \in Nat /\ Len(fate) \in Nat
  BY <1>1
<1>3. /\ fate' \in Seq(Fates) /\ Len(fate') = Len(fate) + 1 /\ fate'[Len(fate) + 1] = t
  BY <1>1
<1>4. fate' # <<>>
  <2>1. Len(fate') # 0
    BY <1>2, <1>3
  <2> QED
    BY <2>1
<1> QED
  BY <1>1, <1>2, <1>3, <1>4 DEF NextBlock

LEMMA CallKeeps == ASSUME BlocksInv, wants = <<>>, NEW list \in EditLists, CallEdit(list) PROVE BlocksInv'
<1>1. /\ wants' = list /\ sheet' = Parse(TextOf(list)) /\ tree' = tree /\ fate' = fate /\ was' = was
  BY DEF CallEdit
<1>2. list # <<>> /\ IsList(list)
  BY BlocksAssumption
<1>3. fate = <<>>
  BY DEF BlocksInv, SheetInv
<1>4. sheet' \in Seq(SomeBlocks)
  <2>1. TextOf(list) \in Seq(TextLine)
    BY <1>2, WishOfList, TextType
  <2> QED
    BY <1>1, <2>1, ParseType
<1>5. Len(fate') <= Len(sheet')
  BY <1>1, <1>3, <1>4
<1>6. BlocksTypeOK'
  BY <1>1, <1>4, <1>5 DEF BlocksInv, BlocksTypeOK, SomeBlocks
<1>7. SheetInv'
  BY <1>1, <1>2 DEF SheetInv
<1> QED
  BY <1>1, <1>3, <1>6, <1>7 DEF BlocksInv, LastInv

LEMMA SkipKeeps == ASSUME BlocksInv, SkipBlock PROVE BlocksInv'
<1>1. /\ Len(fate) < Len(sheet) /\ fate' = Append(fate, "unread") /\ was' = Gone
      /\ tree' = tree /\ wants' = wants /\ sheet' = sheet
  BY DEF SkipBlock
<1>2. BlocksTypeOK /\ SheetInv
  BY DEF BlocksInv
<1>3. "unread" \in Fates
  BY DEF Fates
<1>4. fate' \in Seq(Fates) /\ Len(fate') <= Len(sheet') /\ sheet' \in Seq(SomeBlocks)
  BY <1>1, <1>2, <1>3, OneMoreFate
<1>5. BlocksTypeOK'
  BY <1>1, <1>2, <1>4 DEF BlocksTypeOK, SomeBlocks
<1>6. wants # <<>>
  BY <1>1, <1>2 DEF SheetInv
<1>7. SheetInv'
  BY <1>1, <1>2, <1>6 DEF SheetInv
<1> QED
  BY <1>1, <1>5, <1>7 DEF BlocksInv, LastInv

LEMMA ApplyKeeps == ASSUME BlocksInv, ApplyBlock PROVE BlocksInv'
<1> DEFINE b == NextBlock
<1>1. /\ Len(fate) < Len(sheet) /\ Known(b.file) /\ was' = tree[b.file] /\ wants' = wants /\ sheet' = sheet
  BY DEF ApplyBlock
<1>2. PICK r \in ReplaceIn(was', b.search, b.replace) :
        tree' = [tree EXCEPT ![b.file] = r.lines] /\ fate' = Append(fate, r.tier)
  BY DEF ApplyBlock
<1>3. BlocksTypeOK /\ SheetInv /\ tree \in [EditFiles -> {Gone} \cup Seq(TextLine)]
  BY DEF BlocksInv, BlocksTypeOK
<1>4. b.search \in Seq(TextLine) /\ b.replace \in Seq(TextLine)
  BY <1>1, <1>3, NextBlockType DEF SomeBlocks
<1>5. b.file \in EditFiles /\ was' \in Seq(TextLine)
  BY <1>1, <1>3 DEF Known
<1> HIDE DEF b
<1>6. r.tier \in Tiers /\ r.lines \in Seq(TextLine)
  BY <1>2, <1>4, <1>5, ReplaceType
<1>7. r.tier \in Fates
  BY <1>6 DEF Tiers, Fates
<1>8. /\ fate' \in Seq(Fates) /\ Len(fate') <= Len(sheet') /\ sheet' \in Seq(SomeBlocks)
      /\ fate'[Len(fate')] = r.tier /\ sheet'[Len(fate')] = b
  BY <1>1, <1>2, <1>3, <1>7, OneMoreFate DEF b
<1>9. tree' \in [EditFiles -> {Gone} \cup Seq(TextLine)] /\ tree'[b.file] = r.lines
  BY <1>2, <1>3, <1>5, <1>6
<1>10. BlocksTypeOK'
  BY <1>5, <1>8, <1>9 DEF BlocksTypeOK, SomeBlocks
<1>11. wants # <<>>
  BY <1>1, <1>3 DEF SheetInv
<1>12. SheetInv'
  BY <1>1, <1>3, <1>11 DEF SheetInv
<1>13. LastInv'
  BY <1>2, <1>8, <1>9 DEF LastInv
<1> QED
  BY <1>10, <1>12, <1>13 DEF BlocksInv

LEMMA FailKeeps == ASSUME BlocksInv, FailBlock PROVE BlocksInv'
<1> DEFINE b == NextBlock
<1>1. /\ Len(fate) < Len(sheet) /\ Known(b.file) /\ was' = tree[b.file] /\ wants' = wants /\ sheet' = sheet
      /\ fate' = Append(fate, "unwritten")
  BY DEF FailBlock
<1>2. PICK left \in {was', <<>>} : tree' = [tree EXCEPT ![b.file] = left]
  BY DEF FailBlock
<1>3. BlocksTypeOK /\ SheetInv /\ tree \in [EditFiles -> {Gone} \cup Seq(TextLine)]
  BY DEF BlocksInv, BlocksTypeOK
<1>4. b.file \in EditFiles /\ was' \in Seq(TextLine)
  BY <1>1, <1>3 DEF Known
<1>5. left \in Seq(TextLine)
  <2>1. <<>> \in Seq(TextLine)
    OBVIOUS
  <2> QED
    BY <1>2, <1>4, <2>1
<1>6. "unwritten" \in Fates
  BY DEF Fates
<1>7. /\ fate' \in Seq(Fates) /\ Len(fate') <= Len(sheet') /\ sheet' \in Seq(SomeBlocks)
      /\ fate'[Len(fate')] = "unwritten"
  BY <1>1, <1>3, <1>6, OneMoreFate
<1> HIDE DEF b
<1>8. tree' \in [EditFiles -> {Gone} \cup Seq(TextLine)]
  BY <1>2, <1>3, <1>4, <1>5
<1>9. BlocksTypeOK'
  BY <1>4, <1>7, <1>8 DEF BlocksTypeOK, SomeBlocks
<1>10. wants # <<>>
  BY <1>1, <1>3 DEF SheetInv
<1>11. SheetInv'
  BY <1>1, <1>3, <1>10 DEF SheetInv
<1>12. LastInv'
  BY <1>7 DEF LastInv
<1> QED
  BY <1>9, <1>11, <1>12 DEF BlocksInv

LEMMA BlocksStep == BlocksInv /\ [BlocksNext]_blockVars => BlocksInv'
<1> SUFFICES ASSUME BlocksInv, [BlocksNext]_blockVars PROVE BlocksInv'
  OBVIOUS
<1>1. ASSUME wants = <<>>, NEW list \in EditLists, CallEdit(list) PROVE BlocksInv'
  BY <1>1, CallKeeps
<1>2. CASE SkipBlock
  BY <1>2, SkipKeeps
<1>3. CASE ApplyBlock
  BY <1>3, ApplyKeeps
<1>4. CASE FailBlock
  BY <1>4, FailKeeps
<1>5. CASE UNCHANGED blockVars
  BY <1>5 DEF blockVars, BlocksInv, BlocksTypeOK, SheetInv, LastInv
<1> QED
  BY <1>1, <1>2, <1>3, <1>4, <1>5 DEF BlocksNext

THEOREM BlocksInvariant == BlocksSpec => []BlocksInv
  BY BlocksStart, BlocksStep, PTL DEF BlocksSpec

\* Files hold lines, the blocks read are blocks, and every block that was
\* worked off has one end (edit.go).
THEOREM BlocksTypeCorrect == BlocksSpec => []BlocksTypeOK
<1>1. BlocksInv => BlocksTypeOK
  BY DEF BlocksInv
<1> QED
  BY <1>1, BlocksInvariant, PTL

\* A text is read as the blocks that were written and closed in it,
\* wherever it breaks off (parser.go:49-159).
LEMMA BlocksAreAlwaysRead == BlocksInv => BlocksAreRead
<1> SUFFICES ASSUME IsList(wants), \A k \in DOMAIN wants : ~MisledAt(wants, k)
             PROVE  \A n \in 0..Len(TextOf(wants)) :
                      Parse(SubSeq(TextOf(wants), 1, n))
                      = SubSeq(Meant(wants), 1, Cardinality({i \in 1..n : TextOf(wants)[i] = EndMark}))
  BY DEF BlocksInv, SheetInv, BlocksAreRead
<1>1. ~IsMisled(wants)
  BY DEF IsMisled
<1>2. ReadsRight(wants)
  BY <1>1, ListsAreRead DEF ReadsWell
<1> QED
  BY <1>2 DEF ReadsRight, EndsIn

\* A block whose lines stand in one place of its file, and that is wrong in
\* one thing at most, is applied there and nowhere else, as it was meant
\* (match.go).
LEMMA LastBlockLands ==
    ASSUME BlocksInv, fate # <<>>, sheet = Meant(wants), was # Gone,
           LET e == wants[Len(fate)]
           IN  e.shift = 0 \/ (Searched(e) = Shift(e.old, e.shift) /\ Inked(e.old) # {}),
           NEW i, LET e == wants[Len(fate)]
                      places == {m \in Starts(was, Len(e.old)) : Reads(SpanAt(was, m, Len(e.old))) = Reads(e.old)}
                  IN  places = {i} /\ SpanAt(was, i, Len(e.old)) = e.old
    PROVE  LET e == wants[Len(fate)]
           IN  \/ fate[Len(fate)] = "unwritten"
               \/ /\ fate[Len(fate)] \in {"exact", "leading_ws", "trailing_ws"}
                  /\ tree[e.file] = PutAt(was, i, Len(e.old), e.new)
<1> DEFINE k == Len(fate)
           e == wants[k]
           b == sheet[k]
           n == Len(e.old)
           places == {m \in Starts(was, n) : Reads(SpanAt(was, m, n)) = Reads(e.old)}
<1>1. /\ fate \in Seq(Fates) /\ Len(fate) <= Len(sheet) /\ was \in Seq(TextLine)
      /\ sheet \in Seq(SomeBlocks)
  BY DEF BlocksInv, BlocksTypeOK, SomeBlocks
<1>2. wants \in Seq(Wishes) /\ IsList(wants)
  BY WishOfList DEF BlocksInv, SheetInv
<1>3. Len(sheet) = Len(wants) /\ Len(wants) \in Nat
  BY <1>2, MeantType
<1>4. k \in 1..Len(wants)
  <2>1. k \in Nat /\ k # 0
    BY <1>1, EmptySeq
  <2>2. k <= Len(sheet)
    BY <1>1
  <2> HIDE DEF k
  <2> QED
    BY <1>3, <2>1, <2>2
<1>5. IsWish(e)
  <2>1. e \in Wishes
    BY <1>2, <1>4
  <2> QED
    BY <2>1 DEF Wishes
<1>6. b.file = e.file /\ b.search = Searched(e) /\ b.replace = Written(e)
  <2>1. k \in DOMAIN wants
    BY <1>2, <1>4
  <2>2. b = [file |-> wants[k].file, search |-> Searched(wants[k]), replace |-> Written(wants[k])]
    BY <2>1 DEF Meant
  <2> HIDE DEF b, e
  <2> QED
    BY <2>2 DEF e
<1>7. i \in places /\ places = {i} /\ SpanAt(was, i, n) = e.old
  OBVIOUS
<1>8. /\ e.shift = 0 \/ (Searched(e) = Shift(e.old, e.shift) /\ Inked(e.old) # {})
  OBVIOUS
<1>9. \/ fate[k] = "unwritten"
      \/ \E r \in ReplaceIn(was, b.search, b.replace) : fate[k] = r.tier /\ tree[b.file] = r.lines
  BY DEF BlocksInv, LastInv
<1>10. IsFor(was, e, i)
  <2>1. i \in Starts(was, n)
    BY <1>7
  <2>2. \A m \in Starts(was, n) : Reads(SpanAt(was, m, n)) = Reads(e.old) => m = i
    BY <1>7
  <2> HIDE DEF e
  <2> QED
    BY <1>1, <1>5, <1>7, <2>1, <2>2 DEF IsFor
<1> HIDE DEF e, b, k, places
<1>11. ASSUME NEW r \in ReplaceIn(was, b.search, b.replace), fate[k] = r.tier, tree[b.file] = r.lines
       PROVE  /\ fate[k] \in {"exact", "leading_ws", "trailing_ws"}
              /\ tree[e.file] = PutAt(was, i, n, e.new)
  <2>1. r \in ReplaceIn(was, Searched(e), Written(e))
    BY <1>6, <1>11
  <2>2. r.tier \in {"exact", "leading_ws", "trailing_ws"} /\ r.lines = PutAt(was, i, n, e.new)
    BY <1>8, <1>10, <2>1, LandsAsMeant
  <2> QED
    BY <1>6, <1>11, <2>2
<1> QED
  BY <1>9, <1>11 DEF e, k

\* The blocks of an edit are read as they were written, and the last that
\* was applied is where and what the agent meant, if it erred in one thing
\* at most and its file has one place for it (edit.go, match.go).
THEOREM BlocksLandAsMeant == BlocksSpec => []EditsLandAsMeant
<1>1. BlocksInv => EditsLandAsMeant
  BY BlocksAreAlwaysRead, LastBlockLands DEF EditsLandAsMeant
<1> QED
  BY <1>1, BlocksInvariant, PTL

-----------------------------------------------------------------------------
Rt == INSTANCE Inductions WITH Op <- ReadToken, Claim <- Vacant
Ac == INSTANCE Inductions WITH Op <- ApplyChunk, Claim <- Vacant

LEMMA FlattenOfNothing == FlattenSeq(<<>>) = <<>>
BY Rt!FlatOfNothing DEF Rt!Flat, Rt!FlattenSeq, FlattenSeq

LEMMA FlattenType == ASSUME NEW T, NEW s \in Seq(Seq(T)) PROVE FlattenSeq(s) \in Seq(T)
<1> DEFINE U == Seq(T)
           S == {t \in Seq(U) : FlattenSeq(t) \in Seq(T)}
<1>0. <<>> \in Seq(T) /\ (\A t \in Seq(U), x \in U : Append(t, x) \in Seq(U)) /\ <<>> \in Seq(U)
  <2> HIDE DEF U
  <2> QED
    OBVIOUS
<1>1. <<>> \in S
  BY <1>0, FlattenOfNothing
<1>2. ASSUME NEW t \in Seq(U), NEW x \in U, t \in S PROVE Append(t, x) \in S
  <2>1. FlattenSeq(Append(t, x)) = FlattenSeq(t) \o x
    BY FlattenOfOneMore
  <2>2. FlattenSeq(t) \o x \in Seq(T)
    BY <1>2, Rt!Beside
  <2> QED
    BY <1>0, <2>1, <2>2
<1> HIDE DEF U, S
<1>3. \A t \in Seq(U) : t \in S
  BY <1>1, <1>2, Rt!SeqSteps
<1> QED
  BY <1>3 DEF U, S

-----------------------------------------------------------------------------
(* The applier of apply_patch (PatchHunks): where a line is found.          *)

\* A line in the way it is compared last, and in the ways before.
LEMMA LooksAlike ==
    ASSUME NEW l \in PatchLine, NEW m \in PatchLine
    PROVE  /\ l = m => RTrim(l) = RTrim(m)
           /\ RTrim(l) = RTrim(m) => Trim(l) = Trim(m)
           /\ Trim(l) = Trim(m) <=> l.word = m.word
<1>1. RTrim(l).word = l.word /\ RTrim(m).word = m.word
  BY DEF RTrim, IsBlank, Blank, Line, PatchLine
<1>2. Trim(l) = Trim(m) <=> l.word = m.word
  BY DEF Trim, Line
<1> QED
  BY <1>1, <1>2

\* The places where lines are found in a way.
Exact(lines, pat, from) == {i \in Starts(lines, Len(pat)) : i >= from /\ \A j \in DOMAIN pat : lines[i + j - 1] = pat[j]}
Ends0(lines, pat, from) == {i \in Starts(lines, Len(pat)) : i >= from /\ \A j \in DOMAIN pat : RTrim(lines[i + j - 1]) = RTrim(pat[j])}
Both(lines, pat, from) == {i \in Starts(lines, Len(pat)) : i >= from /\ \A j \in DOMAIN pat : Trim(lines[i + j - 1]) = Trim(pat[j])}

LEMMA SeekIs ==
    ASSUME NEW lines, NEW pat, NEW at, NEW eof, pat # <<>>
    PROVE  LET from == IF eof THEN Len(lines) - Len(pat) + 1 ELSE at
           IN  Seek(lines, pat, at, eof) =
                 CASE Exact(lines, pat, from) # {} -> Min(Exact(lines, pat, from))
                   [] Exact(lines, pat, from) = {} /\ Ends0(lines, pat, from) # {} -> Min(Ends0(lines, pat, from))
                   [] Ends0(lines, pat, from) = {} /\ Both(lines, pat, from) # {} -> Min(Both(lines, pat, from))
                   [] OTHER -> 0
BY DEF Seek, Exact, Ends0, Both

\* The ways are looser, one after the other, and the last reads the words.
LEMMA WaysLoosen ==
    ASSUME NEW lines \in Seq(PatchLine), NEW pat \in Seq(PatchLine), NEW from
    PROVE  /\ Exact(lines, pat, from) \subseteq Ends0(lines, pat, from)
           /\ Ends0(lines, pat, from) \subseteq Both(lines, pat, from)
           /\ Both(lines, pat, from) \subseteq Nat
           /\ \A i : i \in Both(lines, pat, from) <=> i >= from /\ ReadsAt(lines, i, pat)
<1>1. ASSUME NEW i \in Starts(lines, Len(pat)), NEW j \in DOMAIN pat
      PROVE  lines[i + j - 1] \in PatchLine /\ pat[j] \in PatchLine
             /\ SpanAt(lines, i, Len(pat))[j] = lines[i + j - 1]
  <2>1. j \in 1..Len(pat) /\ Len(pat) \in Nat /\ Len(lines) \in Nat /\ i \in 1..Len(lines) - Len(pat) + 1
    BY <1>1 DEF Starts
  <2>2. i + j - 1 \in 1..Len(lines)
    BY <2>1
  <2>3. SpanAt(lines, i, Len(pat))[j] = lines[i + j - 1]
    BY <2>1, <2>2 DEF SpanAt
  <2> QED
    BY <2>1, <2>2, <2>3
<1>2. Exact(lines, pat, from) \subseteq Ends0(lines, pat, from) /\ Ends0(lines, pat, from) \subseteq Both(lines, pat, from)
  BY <1>1, LooksAlike DEF Exact, Ends0, Both
<1>3. Both(lines, pat, from) \subseteq Nat
  BY DEF Both, Starts
<1>4. ASSUME NEW i \in Starts(lines, Len(pat))
      PROVE  (\A j \in DOMAIN pat : Trim(lines[i + j - 1]) = Trim(pat[j])) <=> SameText(SpanAt(lines, i, Len(pat)), pat)
  BY <1>1, LooksAlike DEF SameText
<1> QED
  BY <1>2, <1>3, <1>4 DEF Both, ReadsAt

\* What is found reads as what was looked for, and what is there is found.
LEMMA SeekFinds ==
    ASSUME NEW lines \in Seq(PatchLine), NEW pat \in Seq(PatchLine), pat # <<>>, NEW at \in Int, NEW eof \in BOOLEAN
    PROVE  LET i == Seek(lines, pat, at, eof)
               from == IF eof THEN Len(lines) - Len(pat) + 1 ELSE at
           IN  /\ i # 0 => i >= from /\ ReadsAt(lines, i, pat)
               /\ i = 0 => \A j : j >= from => ~ReadsAt(lines, j, pat)
<1> DEFINE i == Seek(lines, pat, at, eof)
           from == IF eof THEN Len(lines) - Len(pat) + 1 ELSE at
           E == Exact(lines, pat, from)
           R == Ends0(lines, pat, from)
           B == Both(lines, pat, from)
<1>1. i = CASE E # {} -> Min(E) [] E = {} /\ R # {} -> Min(R) [] R = {} /\ B # {} -> Min(B) [] OTHER -> 0
  BY SeekIs
<1>2. E \subseteq R /\ R \subseteq B /\ B \subseteq Nat /\ (\A j : j \in B <=> j >= from /\ ReadsAt(lines, j, pat)) /\ 0 \notin B
  <2>1. 0 \notin B
    BY DEF Both, Starts
  <2> QED
    BY <2>1, WaysLoosen
<1> HIDE DEF i, from, E, R, B
<1>3. E \subseteq Nat /\ R \subseteq Nat
  BY <1>2
<1>4. /\ E # {} => Min(E) \in E
      /\ R # {} => Min(R) \in R
      /\ B # {} => Min(B) \in B
  BY <1>2, <1>3, LeastOf
<1>5. (i \in B /\ i # 0) \/ (B = {} /\ i = 0)
  BY <1>1, <1>2, <1>4
<1> QED
  BY <1>2, <1>5 DEF i, from

LEMMA SeekTheOnly ==
    ASSUME NEW lines \in Seq(PatchLine), NEW pat \in Seq(PatchLine), pat # <<>>, NEW at \in Int,
           NEW p \in Int, p >= at, ReadsAt(lines, p, pat), \A j : j >= at /\ ReadsAt(lines, j, pat) => j = p
    PROVE  Seek(lines, pat, at, FALSE) = p
BY SeekFinds

\* Of lines that are all the same the first is found.
LEMMA SeekTheFirst ==
    ASSUME NEW lines \in Seq(PatchLine), NEW c \in PatchLine, NEW at \in Int, NEW l,
           \A q : q >= at /\ ReadsAt(lines, q, <<c>>) => lines[q] = l
    PROVE  \A q : q >= at /\ ReadsAt(lines, q, <<c>>) => Seek(lines, <<c>>, at, FALSE) # 0 /\ Seek(lines, <<c>>, at, FALSE) <= q
<1> DEFINE pat == <<c>>
           E == Exact(lines, pat, at)
           R == Ends0(lines, pat, at)
           B == Both(lines, pat, at)
           i == Seek(lines, pat, at, FALSE)
<1>0. pat \in Seq(PatchLine) /\ pat # <<>> /\ DOMAIN pat = {1} /\ pat[1] = c
  OBVIOUS
<1>1. i = CASE E # {} -> Min(E) [] E = {} /\ R # {} -> Min(R) [] R = {} /\ B # {} -> Min(B) [] OTHER -> 0
  BY <1>0, SeekIs
<1>2. E \subseteq R /\ R \subseteq B /\ B \subseteq Nat /\ (\A j : j \in B <=> j >= at /\ ReadsAt(lines, j, pat)) /\ 0 \notin B
  <2>1. 0 \notin B
    BY DEF Both, Starts
  <2> QED
    BY <1>0, <2>1, WaysLoosen
<1>3. \A q \in B : lines[q] = l /\ q \in Starts(lines, Len(pat)) /\ q >= at /\ q + 1 - 1 = q
  BY <1>2 DEF Both
<1>4. \A q \in B : (q \in E <=> l = c) /\ (q \in R <=> RTrim(l) = RTrim(c))
  BY <1>0, <1>3 DEF Exact, Ends0
<1>5. (E = {} \/ E = B) /\ (R = {} \/ R = B)
  BY <1>2, <1>4
<1> HIDE DEF i, E, R, B, pat
<1>6. B # {} => Min(B) \in B /\ \A q \in B : Min(B) <= q
  BY <1>2, LeastOf
<1>7. B # {} => i = Min(B)
  BY <1>1, <1>5
<1> QED
  BY <1>2, <1>6, <1>7 DEF i, pat

-----------------------------------------------------------------------------
\* The lines of a text from a place on, behind others.
Rest(lines, p) == SubSeq(lines, p, Len(lines))

LEMMA RestOfLines ==
    ASSUME NEW T, NEW lines \in Seq(T), NEW p \in 1..Len(lines) + 1
    PROVE  /\ Rest(lines, p) \in Seq(T) /\ Len(Rest(lines, p)) = Len(lines) - p + 1
           /\ \A i \in 1..Len(lines) - p + 1 : Rest(lines, p)[i] = lines[p + i - 1]
BY DEF Rest

LEMMA LinesBehind ==
    ASSUME NEW T, NEW lines \in Seq(T), NEW p \in 1..Len(lines) + 1, NEW a \in Seq(T)
    PROVE  /\ a \o Rest(lines, p) \in Seq(T) /\ Len(a \o Rest(lines, p)) = Len(a) + Len(lines) - p + 1
           /\ \A i \in p..Len(lines) : (a \o Rest(lines, p))[Len(a) + 1 + i - p] = lines[i]
<1> DEFINE r == Rest(lines, p)
           w == a \o r
           n == Len(lines)
           k == Len(a)
<1>1. n \in Nat /\ k \in Nat /\ p \in 1..n + 1
  OBVIOUS
<1>2. r \in Seq(T) /\ Len(r) = n - p + 1 /\ \A i \in 1..n - p + 1 : r[i] = lines[p + i - 1]
  BY RestOfLines
<1> HIDE DEF r
<1>3. w \in Seq(T) /\ Len(w) = k + Len(r) /\ \A i \in 1..Len(r) : w[k + i] = r[i]
  <2> HIDE DEF n
  <2>1. r \in Seq(T) /\ a \in Seq(T)
    BY <1>2
  <2>2. Len(a \o r) = Len(a) + Len(r) /\ a \o r \in Seq(T)
    BY <2>1
  <2>3. \A i \in 1..Len(r) : (a \o r)[Len(a) + i] = r[i]
    BY <2>1
  <2> QED
    BY <2>2, <2>3 DEF w, k
<1> HIDE DEF w, n, k
<1>4. Len(w) = k + n - p + 1
  BY <1>1, <1>2, <1>3
<1>5. ASSUME NEW i \in p..n PROVE w[k + 1 + i - p] = lines[i]
  <2>1. i - p + 1 \in 1..n - p + 1 /\ p + (i - p + 1) - 1 = i /\ k + (i - p + 1) = k + 1 + i - p
    BY <1>1
  <2>2. w[k + (i - p + 1)] = r[i - p + 1] /\ r[i - p + 1] = lines[p + (i - p + 1) - 1]
    BY <1>2, <1>3, <2>1
  <2> QED
    BY <2>1, <2>2
<1> QED
  BY <1>3, <1>4, <1>5 DEF w, r, n, k

\* What is read behind others is read in the text.
LEMMA ReadBehind ==
    ASSUME NEW lines \in Seq(PatchLine), NEW p \in 1..Len(lines) + 1, NEW a \in Seq(PatchLine),
           NEW pat \in Seq(PatchLine), pat # <<>>, NEW i \in Int, i >= p
    PROVE  ReadsAt(a \o Rest(lines, p), Len(a) + 1 + i - p, pat) <=> ReadsAt(lines, i, pat)
<1> DEFINE w == a \o Rest(lines, p)
           n == Len(lines)
           k == Len(a)
           m == Len(pat)
           d == Len(a) + 1 + i - p
<1>1. n \in Nat /\ k \in Nat /\ m \in Nat /\ m >= 1 /\ p \in 1..n + 1 /\ d = k + 1 + i - p
  OBVIOUS
<1>2. w \in Seq(PatchLine) /\ Len(w) = k + n - p + 1 /\ \A j \in p..n : w[k + 1 + j - p] = lines[j]
  BY LinesBehind
<1> HIDE DEF w, n, k, m, d
<1>3. d \in 1..Len(w) - m + 1 <=> i \in 1..n - m + 1
  BY <1>1, <1>2
<1>4. ASSUME i \in 1..n - m + 1, NEW j \in 1..m PROVE SpanAt(w, d, m)[j] = SpanAt(lines, i, m)[j]
  <2>1. d \in 1..Len(w) - m + 1 /\ i + j - 1 \in p..n
    BY <1>1, <1>3, <1>4
  <2>2. d + j - 1 = k + 1 + (i + j - 1) - p
    BY <1>1
  <2>3. Len(w) \in Nat
    BY <1>2
  <2>4. SpanAt(w, d, m)[j] = w[d + j - 1]
    BY <1>1, <1>2, <2>1, <2>3 DEF SpanAt
  <2>5. SpanAt(lines, i, m)[j] = lines[i + j - 1]
    BY <1>1, <1>4 DEF SpanAt, n
  <2> QED
    BY <1>2, <2>1, <2>2, <2>4, <2>5
<1>5. DOMAIN pat = 1..m
  BY DEF m
<1> QED
  BY <1>3, <1>4, <1>5 DEF ReadsAt, Starts, SameText, w, n, m, d

LEMMA PartOf ==
    ASSUME NEW T, NEW w \in Seq(T), NEW i \in Nat \ {0}, NEW j \in Nat, i <= j + 1, j <= Len(w)
    PROVE  SubSeq(w, i, j) \in Seq(T) /\ Len(SubSeq(w, i, j)) = j - i + 1
           /\ \A k \in 1..j - i + 1 : SubSeq(w, i, j)[k] = w[i + k - 1]
<1>1. \A k \in i..j : w[k] \in T
  OBVIOUS
<1> QED
  BY <1>1, SubSeqProperties

LEMMA InARow == \A x, y, z \in Seq(PatchLine) : (x \o y) \o z = x \o (y \o z)
BY ConcatAssociative

\* In a text that stands behind others: a place of it, what lies between
\* two, and the place behind some lines.
Spot(a, p, i) == Len(a) + 1 + i - p
Passed(lines, p, i) == SubSeq(lines, p, i - 1)
Beyond(i, n) == i + n

\* Lines put behind others, where the text has what they replace.
Fits(lines, p, a, n, i, new) ==
    /\ lines \in Seq(PatchLine) /\ p \in 1..Len(lines) + 1 /\ a \in Seq(PatchLine) /\ n \in Nat
    /\ i \in p..Len(lines) + 1 /\ i + n <= Len(lines) + 1 /\ new \in Seq(PatchLine)

LEMMA SpliceBehind ==
    ASSUME NEW lines, NEW p, NEW a, NEW n, NEW i, NEW new, Fits(lines, p, a, n, i, new)
    PROVE  PutAt(a \o Rest(lines, p), Spot(a, p, i), n, new) = (a \o (Passed(lines, p, i) \o new)) \o Rest(lines, Beyond(i, n))
<1> DEFINE w == a \o Rest(lines, p)
           L == Len(lines)
           k == Len(a)
           d == Spot(a, p, i)
           m == SubSeq(lines, p, i - 1)
           x == SubSeq(w, 1, d - 1)
           y == SubSeq(w, d + n, Len(w))
           r == Rest(lines, i + n)
<1>0. lines \in Seq(PatchLine) /\ p \in 1..Len(lines) + 1 /\ a \in Seq(PatchLine) /\ n \in Nat
      /\ i \in p..Len(lines) + 1 /\ i + n <= Len(lines) + 1 /\ new \in Seq(PatchLine)
  BY DEF Fits
<1>1. n \in Nat /\ L \in Nat /\ k \in Nat /\ p \in 1..L + 1 /\ d = k + 1 + i - p /\ i \in p..L + 1 /\ i + n <= L + 1
  BY <1>0 DEF Spot
<1>2. w \in Seq(PatchLine) /\ Len(w) = k + L - p + 1 /\ \A j \in p..L : w[k + 1 + j - p] = lines[j]
  BY <1>0, LinesBehind
<1>3. \A j \in 1..k : w[j] = a[j]
  <2>1. Rest(lines, p) \in Seq(PatchLine)
    BY <1>0, RestOfLines
  <2> QED
    BY <1>0, <2>1, Rt!Beside
<1>4. m \in Seq(PatchLine) /\ Len(m) = i - p /\ \A j \in 1..i - p : m[j] = lines[p + j - 1]
  <2>1. p \in Nat \ {0} /\ i - 1 \in Nat /\ p <= i - 1 + 1 /\ i - 1 <= L /\ i - 1 - p + 1 = i - p
    BY <1>1
  <2> QED
    <3> DEFINE q == i - 1
    <3>1. q \in Nat /\ p \in Nat \ {0} /\ p <= q + 1 /\ q <= Len(lines) /\ q - p + 1 = i - p
      BY <1>1, <2>1
    <3> HIDE DEF q
    <3>2. SubSeq(lines, p, q) \in Seq(PatchLine) /\ Len(SubSeq(lines, p, q)) = q - p + 1 /\ \A j \in 1..q - p + 1 : SubSeq(lines, p, q)[j] = lines[p + j - 1]
      BY <1>0, <3>1, PartOf
    <3> QED
      BY <3>1, <3>2 DEF q
<1>5. r \in Seq(PatchLine) /\ Len(r) = L - i - n + 1 /\ \A j \in 1..L - i - n + 1 : r[j] = lines[i + n + j - 1]
  <2>1. i + n \in 1..L + 1
    BY <1>1
  <2> DEFINE q == i + n
  <2>2. q \in 1..L + 1 /\ L - q + 1 = L - i - n + 1
    BY <1>1, <2>1
  <2> HIDE DEF q
  <2>3. Rest(lines, q) \in Seq(PatchLine) /\ Len(Rest(lines, q)) = L - q + 1 /\ \A j \in 1..L - q + 1 : Rest(lines, q)[j] = lines[q + j - 1]
    BY <1>0, <2>2, RestOfLines DEF L
  <2> QED
    BY <2>2, <2>3 DEF q
<1>e. m = Passed(lines, p, i) /\ r = Rest(lines, Beyond(i, n)) /\ d = Spot(a, p, i)
  BY DEF Passed, Beyond
<1> HIDE DEF w, L, k, m, r, d
<1>6. x \in Seq(PatchLine) /\ Len(x) = d - 1 /\ \A j \in 1..d - 1 : x[j] = w[j]
  <2>1. d - 1 \in Nat /\ d - 1 <= Len(w) /\ 1 <= d - 1 + 1 /\ d - 1 - 1 + 1 = d - 1
    BY <1>1, <1>2
  <2>2. x \in Seq(PatchLine) /\ Len(x) = d - 1 /\ \A j \in 1..d - 1 : x[j] = w[1 + j - 1]
    BY <1>2, <2>1, PartOf
  <2>3. d \in Int
    BY <1>1
  <2> QED
    BY <2>2, <2>3
<1>7. y \in Seq(PatchLine) /\ Len(y) = L - i - n + 1 /\ \A j \in 1..L - i - n + 1 : y[j] = w[d + n + j - 1]
  <2>1. d + n \in Nat \ {0} /\ Len(w) \in Nat /\ d + n <= Len(w) + 1 /\ Len(w) - (d + n) + 1 = L - i - n + 1
    BY <1>1, <1>2
  <2> DEFINE q == d + n
  <2> HIDE DEF q
  <2>2. q \in Nat \ {0} /\ q <= Len(w) + 1 /\ Len(w) - q + 1 = L - i - n + 1
    BY <2>1 DEF q
  <2>3. SubSeq(w, q, Len(w)) \in Seq(PatchLine) /\ Len(SubSeq(w, q, Len(w))) = Len(w) - q + 1
        /\ \A j \in 1..Len(w) - q + 1 : SubSeq(w, q, Len(w))[j] = w[q + j - 1]
    <3> DEFINE e == Len(w)
    <3>1. w \in Seq(PatchLine) /\ e \in Nat /\ e <= Len(w) /\ q <= e + 1
      BY <1>2, <2>1, <2>2
    <3> HIDE DEF e
    <3>2. SubSeq(w, q, e) \in Seq(PatchLine) /\ Len(SubSeq(w, q, e)) = e - q + 1 /\ \A j \in 1..e - q + 1 : SubSeq(w, q, e)[j] = w[q + j - 1]
      BY <2>2, <3>1, PartOf
    <3> QED
      BY <3>2 DEF e
  <2> QED
    BY <2>2, <2>3 DEF q, y
<1> HIDE DEF x, y
<1>8. x = a \o m
  <2>1. a \o m \in Seq(PatchLine) /\ Len(a \o m) = k + (i - p) /\ (\A j \in 1..k : (a \o m)[j] = a[j])
        /\ \A j \in 1..i - p : (a \o m)[k + j] = m[j]
    <3>1. a \in Seq(PatchLine) /\ m \in Seq(PatchLine) /\ k = Len(a)
      BY <1>0, <1>4 DEF k
    <3>2. a \o m \in Seq(PatchLine) /\ Len(a \o m) = Len(a) + Len(m) /\ (\A j \in 1..Len(a) : (a \o m)[j] = a[j])
          /\ \A j \in 1..Len(m) : (a \o m)[Len(a) + j] = m[j]
      BY <3>1, Rt!Beside
    <3> QED
      BY <1>4, <3>1, <3>2
  <2>2. d - 1 = k + (i - p)
    BY <1>1
  <2>3. ASSUME NEW j \in 1..d - 1 PROVE x[j] = (a \o m)[j]
    <3>1. CASE j \in 1..k
      BY <1>3, <1>6, <2>1, <3>1
    <3>2. CASE j \notin 1..k
      <4>1. j - k \in 1..i - p /\ k + (j - k) = j /\ p + (j - k) - 1 \in p..L /\ k + 1 + (p + (j - k) - 1) - p = j
        BY <1>1, <3>2
      <4>2. (a \o m)[k + (j - k)] = m[j - k] /\ m[j - k] = lines[p + (j - k) - 1]
        BY <1>4, <2>1, <4>1
      <4>3. w[k + 1 + (p + (j - k) - 1) - p] = lines[p + (j - k) - 1]
        BY <1>2, <4>1
      <4> QED
        BY <1>6, <4>1, <4>2, <4>3
    <3> QED
      BY <3>1, <3>2
  <2> QED
    BY <1>6, <2>1, <2>2, <2>3, SeqEqual
<1>9. y = r
  <2>1. ASSUME NEW j \in 1..L - i - n + 1 PROVE y[j] = r[j]
    <3>1. i + n + j - 1 \in p..L /\ k + 1 + (i + n + j - 1) - p = d + n + j - 1
      BY <1>1
    <3> QED
      BY <1>2, <1>5, <1>7, <3>1
  <2> QED
    BY <1>5, <1>7, <2>1, SeqEqual
<1>10. PutAt(w, d, n, new) = x \o new \o y
  BY DEF PutAt, x, y
<1>11. (a \o m) \o new = a \o (m \o new)
  <2>1. a \in Seq(PatchLine) /\ m \in Seq(PatchLine) /\ new \in Seq(PatchLine)
    BY <1>0, <1>4
  <2> QED
    BY <2>1, InARow, Zenon
<1>12. PutAt(w, d, n, new) = (a \o (m \o new)) \o r
  BY <1>8, <1>9, <1>10, <1>11
<1> QED
  BY <1>12, <1>e DEF w

-----------------------------------------------------------------------------
(* One chunk, on a text whose lines behind some place are untouched.       *)

ReadChunk == [ctx : PatchLine, old : Seq(PatchLine), new : Seq(PatchLine), eof : BOOLEAN]
Meaning == [ctx : PatchLine, old : Seq(PatchLine), new : Seq(PatchLine)]
FullOf(c) == [ctx |-> c.ctx, old |-> c.old, new |-> c.new]
Means(m, c) == m = FullOf(c) \/ (EndsBlank(c.old) /\ m = Brief(FullOf(c)))

\* The text as far as the chunks before have come, and what is left of it.
StateAt(lines, a, p) == [lines |-> a \o Rest(lines, p), at |-> Len(a) + 1, ok |-> TRUE]

LEMMA BlankIsALine == Blank \in PatchLine
BY DEF Blank, Line, PatchLine, NoWord

LEMMA ShorterIs ==
    ASSUME NEW s \in Seq(PatchLine)
    PROVE  /\ Shorter(s) \in Seq(PatchLine) /\ Len(Shorter(s)) <= Len(s)
           /\ EndsBlank(s) => /\ Len(s) = Len(Shorter(s)) + 1 /\ s[Len(s)] = Blank
                              /\ \A j \in 1..Len(Shorter(s)) : Shorter(s)[j] = s[j]
<1>1. CASE EndsBlank(s)
  <2>1. s # <<>> /\ s[Len(s)] = Blank /\ Len(s) \in Nat /\ Len(s) >= 1
    BY <1>1 DEF EndsBlank, Last
  <2> DEFINE n == Len(s) - 1
  <2>2. n \in Nat /\ 1 \in Nat \ {0} /\ 1 <= n + 1 /\ n <= Len(s) /\ n - 1 + 1 = n /\ Len(s) = n + 1
    BY <2>1
  <2> HIDE DEF n
  <2>3. SubSeq(s, 1, n) \in Seq(PatchLine) /\ Len(SubSeq(s, 1, n)) = n - 1 + 1 /\ \A j \in 1..n - 1 + 1 : SubSeq(s, 1, n)[j] = s[1 + j - 1]
    BY <2>2, PartOf
  <2>4. Shorter(s) = SubSeq(s, 1, n)
    BY <1>1 DEF Shorter, Front, n
  <2>5. \A j \in 1..n : 1 + j - 1 = j
    BY <2>2
  <2> QED
    BY <2>1, <2>2, <2>3, <2>4, <2>5
<1>2. CASE ~EndsBlank(s)
  BY <1>2 DEF Shorter
<1> QED
  BY <1>1, <1>2

LEMMA MeaningTypes ==
    ASSUME NEW c \in ReadChunk, NEW m, Means(m, c)
    PROVE  /\ m \in Meaning /\ m.ctx = c.ctx
           /\ (m.old = c.old /\ m.new = c.new) \/ (EndsBlank(c.old) /\ m.old = Shorter(c.old) /\ m.new = Shorter(c.new))
<1>1. c.ctx \in PatchLine /\ c.old \in Seq(PatchLine) /\ c.new \in Seq(PatchLine)
  BY DEF ReadChunk
<1>2. Shorter(c.old) \in Seq(PatchLine) /\ Shorter(c.new) \in Seq(PatchLine)
  BY <1>1, ShorterIs
<1>3. CASE m = FullOf(c)
  BY <1>1, <1>3 DEF FullOf, Meaning
<1>4. CASE EndsBlank(c.old) /\ m = Brief(FullOf(c))
  <2>1. Brief(FullOf(c)) = [ctx |-> c.ctx, old |-> Shorter(c.old), new |-> Shorter(c.new)]
    <3>1. FullOf(c).ctx = c.ctx /\ FullOf(c).old = c.old /\ FullOf(c).new = c.new
      BY DEF FullOf
    <3> QED
      BY <3>1 DEF Brief
  <2> QED
    BY <1>1, <1>2, <1>4, <2>1 DEF Meaning
<1> QED
  BY <1>3, <1>4 DEF Means

\* Where a context is found.
CtxAt(w, at, ctx) == IF ctx = Blank THEN at - 1 ELSE Seek(w, <<ctx>>, at, FALSE)
WholeAt(w, at, c) == IF c.old = <<>> THEN at ELSE Seek(w, c.old, at, c.eof)
PutBy(w, i, old, new) == [lines |-> PutAt(w, i, Len(old), new), at |-> i + Len(new), ok |-> TRUE]

LEMMA ChunkIs ==
    ASSUME NEW s, NEW c
    PROVE  LET x == CtxAt(s.lines, s.at, c.ctx)
               whole == WholeAt(s.lines, x + 1, c)
               retry == IF whole = 0 /\ EndsBlank(c.old) THEN Seek(s.lines, Shorter(c.old), x + 1, c.eof) ELSE 0
           IN  ApplyChunk(s, c) =
                 CASE ~s.ok \/ (c.ctx # Blank /\ x = 0) -> [s EXCEPT !.ok = FALSE]
                   [] s.ok /\ (c.ctx = Blank \/ x # 0) /\ whole # 0 -> PutBy(s.lines, whole, c.old, c.new)
                   [] s.ok /\ (c.ctx = Blank \/ x # 0) /\ whole = 0 /\ retry # 0 -> PutBy(s.lines, retry, Shorter(c.old), Shorter(c.new))
                   [] OTHER -> [s EXCEPT !.ok = FALSE]
BY DEF ApplyChunk, CtxAt, WholeAt, PutBy

\* What is found behind others, in the text they stand before.
LEMMA FoundBehind ==
    ASSUME NEW lines \in Seq(PatchLine), NEW p \in 1..Len(lines) + 1, NEW a \in Seq(PatchLine), NEW q \in p - 1..Len(lines),
           NEW pat \in Seq(PatchLine), pat # <<>>, NEW eof \in BOOLEAN, eof => a = <<>> /\ p = 1 /\ q = 0
    PROVE  LET j == Seek(a \o Rest(lines, p), pat, Len(a) + 1 + (q + 1) - p, eof)
           IN  /\ j # 0 => \E i \in q + 1..Len(lines) + 1 - Len(pat) : j = Len(a) + 1 + i - p /\ ReadsAt(lines, i, pat)
               /\ ~eof /\ j = 0 => \A i \in Int : i >= q + 1 => ~ReadsAt(lines, i, pat)
<1> DEFINE w == a \o Rest(lines, p)
           k == Len(a)
           n == Len(lines)
           at == k + 1 + (q + 1) - p
           j == Seek(w, pat, at, eof)
           from == IF eof THEN Len(w) - Len(pat) + 1 ELSE at
<1>1. n \in Nat /\ k \in Nat /\ p \in 1..n + 1 /\ q \in p - 1..n /\ Len(pat) \in Nat /\ Len(pat) >= 1 /\ at \in Int
  OBVIOUS
<1>2. w \in Seq(PatchLine) /\ Len(w) = k + n - p + 1
  BY LinesBehind
<1>a. at = k + 1 + (q + 1) - p
  OBVIOUS
<1>k. k = 0 <=> a = <<>>
  OBVIOUS
<1> HIDE DEF w, k, n, at
<1>3. /\ j # 0 => j >= from /\ ReadsAt(w, j, pat)
      /\ j = 0 => \A i : i >= from => ~ReadsAt(w, i, pat)
  BY <1>1, <1>2, SeekFinds
<1>4. ASSUME NEW i \in Int, i >= p PROVE ReadsAt(w, k + 1 + i - p, pat) <=> ReadsAt(lines, i, pat)
  BY <1>4, ReadBehind DEF w, k
<1> HIDE DEF j
<1>5. ASSUME j # 0 PROVE \E i \in q + 1..n + 1 - Len(pat) : j = k + 1 + i - p /\ ReadsAt(lines, i, pat)
  <2>1. j >= from /\ ReadsAt(w, j, pat) /\ j \in 1..Len(w) - Len(pat) + 1
    BY <1>3, <1>5 DEF ReadsAt, Starts
  <2>2. j \in Int /\ Len(w) - Len(pat) + 1 \in Int /\ j >= 1
    BY <1>1, <1>2, <2>1
  <2>3. j >= at
    <3>1. CASE eof
      BY <1>1, <1>a, <1>k, <2>2, <3>1
    <3>2. CASE ~eof
      BY <2>1, <3>2
    <3> QED
      BY <3>1, <3>2
  <2> DEFINE i == j - k - 1 + p
  <2>4. i \in Int /\ i >= q + 1 /\ i >= p /\ j = k + 1 + i - p
    BY <1>1, <1>a, <2>2, <2>3
  <2> HIDE DEF i
  <2>5. ReadsAt(lines, i, pat)
    BY <1>4, <2>1, <2>4
  <2>6. i \in q + 1..n + 1 - Len(pat)
    BY <1>1, <2>4, <2>5 DEF ReadsAt, Starts, n
  <2> QED
    BY <2>4, <2>5, <2>6
<1>6. ASSUME ~eof, j = 0, NEW i \in Int, i >= q + 1 PROVE ~ReadsAt(lines, i, pat)
  <2>1. i >= p /\ k + 1 + i - p >= at
    BY <1>1, <1>6, <1>a
  <2> QED
    BY <1>3, <1>4, <1>6, <2>1
<1> QED
  BY <1>5, <1>6 DEF j, w, k, n, at

LEMMA Landing ==
    ASSUME NEW lines \in Seq(PatchLine), NEW p \in 1..Len(lines) + 1, NEW a \in Seq(PatchLine), NEW old \in Seq(PatchLine),
           NEW i \in p..Len(lines) + 1, i + Len(old) <= Len(lines) + 1, NEW new \in Seq(PatchLine)
    PROVE  /\ a \o (Passed(lines, p, i) \o new) \in Seq(PatchLine) /\ Beyond(i, Len(old)) \in 1..Len(lines) + 1
           /\ PutBy(a \o Rest(lines, p), Spot(a, p, i), old, new) = StateAt(lines, a \o (Passed(lines, p, i) \o new), Beyond(i, Len(old)))
<1> DEFINE w == a \o Rest(lines, p)
           m == Passed(lines, p, i)
           b == a \o (m \o new)
           d == Spot(a, p, i)
           n == Len(old)
           v == Beyond(i, n)
           L == Len(lines)
<1>1. n \in Nat /\ L \in Nat /\ p \in 1..L + 1 /\ i \in p..L + 1 /\ i + n <= L + 1 /\ Len(a) \in Nat /\ Len(new) \in Nat
      /\ d = Len(a) + 1 + i - p /\ v = i + n
  BY DEF Spot, Beyond
<1>2. m \in Seq(PatchLine) /\ Len(m) = i - p
  <2> DEFINE u == i - 1
  <2>1. u \in Nat /\ p \in Nat \ {0} /\ p <= u + 1 /\ u <= Len(lines) /\ u - p + 1 = i - p
    BY <1>1
  <2> HIDE DEF u
  <2>2. SubSeq(lines, p, u) \in Seq(PatchLine) /\ Len(SubSeq(lines, p, u)) = u - p + 1
    BY <2>1, PartOf
  <2> QED
    BY <2>1, <2>2 DEF u, Passed
<1>5. PutAt(w, d, n, new) = b \o Rest(lines, v)
  <2>1. Fits(lines, p, a, n, i, new)
    BY <1>1 DEF Fits
  <2> HIDE DEF n, d, m, v
  <2>2. PutAt(a \o Rest(lines, p), Spot(a, p, i), n, new) = (a \o (Passed(lines, p, i) \o new)) \o Rest(lines, Beyond(i, n))
    BY <2>1, SpliceBehind
  <2> QED
    BY <2>2 DEF d, m, v
<1> HIDE DEF m, n, v, d
<1>3. m \o new \in Seq(PatchLine) /\ Len(m \o new) = i - p + Len(new)
  BY <1>2, Rt!Beside
<1>4. b \in Seq(PatchLine) /\ Len(b) = Len(a) + (i - p + Len(new))
  <2> DEFINE g == m \o new
  <2>1. g \in Seq(PatchLine) /\ Len(g) = i - p + Len(new)
    BY <1>3
  <2> HIDE DEF g
  <2>2. a \o g \in Seq(PatchLine) /\ Len(a \o g) = Len(a) + Len(g)
    BY <2>1, Rt!Beside
  <2> QED
    BY <2>1, <2>2 DEF g
<1> HIDE DEF b
<1>6. d + Len(new) = Len(b) + 1 /\ v \in 1..L + 1
  BY <1>1, <1>4
<1> HIDE DEF w
<1>7. PutBy(w, d, old, new) = StateAt(lines, b, v)
  BY <1>5, <1>6 DEF PutBy, StateAt, n
<1> QED
  BY <1>4, <1>6, <1>7 DEF w, b, m, d, v, n

LEMMA ReadsOne ==
    ASSUME NEW lines \in Seq(PatchLine), NEW c \in PatchLine, NEW i \in Int
    PROVE  ReadsAt(lines, i, <<c>>) <=> i \in 1..Len(lines) /\ lines[i].word = c.word
<1>1. Len(<<c>>) = 1 /\ DOMAIN <<c>> = {1} /\ <<c>>[1] = c /\ Len(lines) \in Nat
  OBVIOUS
<1>2. Starts(lines, 1) = 1..Len(lines)
  BY <1>1 DEF Starts
<1>3. ASSUME i \in 1..Len(lines) PROVE SpanAt(lines, i, 1)[1] = lines[i]
  BY <1>1, <1>3 DEF SpanAt
<1> QED
  BY <1>1, <1>2, <1>3 DEF ReadsAt, SameText

\* A context is found on a line that reads as it, on the first if they are
\* all the same.
LEMMA ContextOf ==
    ASSUME NEW lines \in Seq(PatchLine), NEW p \in 1..Len(lines) + 1, NEW a \in Seq(PatchLine), NEW m \in Meaning
    PROVE  LET x == CtxAt(a \o Rest(lines, p), Len(a) + 1, m.ctx)
           IN  /\ m.ctx = Blank \/ x # 0 => \E q \in p - 1..Len(lines) : x = Len(a) + 1 + q - p /\ q \in Anchors(lines, m, p)
               /\ \A o \in Anchors(lines, m, p) :
                    (m.ctx = Blank \/ \E l : \A i \in DOMAIN lines : lines[i].word = m.ctx.word => lines[i] = l)
                    => \E q \in p - 1..Len(lines) : x = Len(a) + 1 + q - p /\ q <= o /\ (m.ctx = Blank \/ x # 0)
<1> DEFINE w == a \o Rest(lines, p)
           n == Len(lines)
           k == Len(a)
           c == m.ctx
           x == CtxAt(w, k + 1, c)
<1>1. n \in Nat /\ k \in Nat /\ p \in 1..n + 1 /\ c \in PatchLine
  BY DEF Meaning
<1>2. w \in Seq(PatchLine) /\ Len(w) = k + n - p + 1 /\ \A j \in p..n : w[k + 1 + j - p] = lines[j]
  BY LinesBehind
<1>3. Anchors(lines, m, p) = IF c = Blank THEN {p - 1} ELSE {q \in p..n : lines[q].word = c.word}
  BY DEF Anchors
<1> HIDE DEF w, n, k, c
<1>4. CASE c = Blank
  <2>1. x = k /\ p - 1 \in p - 1..n /\ k = k + 1 + (p - 1) - p
    BY <1>1, <1>4 DEF CtxAt
  <2>2. Anchors(lines, m, p) = {p - 1} /\ p - 1 <= p - 1
    BY <1>1, <1>3, <1>4
  <2> QED
    BY <1>4, <2>1, <2>2 DEF w, k, c, n
<1>5. CASE c # Blank
  <2>1. x = Seek(w, <<c>>, k + 1, FALSE) /\ <<c>> \in Seq(PatchLine) /\ <<c>> # <<>> /\ k + 1 \in Int
    BY <1>1, <1>5 DEF CtxAt
  <2>2. /\ x # 0 => x >= k + 1 /\ ReadsAt(w, x, <<c>>)
        /\ x = 0 => \A j : j >= k + 1 => ~ReadsAt(w, j, <<c>>)
    BY <1>2, <2>1, SeekFinds
  <2>3. \A j \in Int : ReadsAt(w, j, <<c>>) <=> j \in 1..Len(w) /\ w[j].word = c.word
    BY <1>1, <1>2, ReadsOne
  <2>4. Anchors(lines, m, p) = {q \in p..n : lines[q].word = c.word}
    BY <1>3, <1>5
  <2> HIDE DEF x
  <2>5. ASSUME x # 0 PROVE \E q \in p..n : x = k + 1 + q - p /\ lines[q].word = c.word
    <3>0. x \in 1..Len(w) - Len(<<c>>) + 1 /\ Len(w) \in Nat /\ Len(<<c>>) = 1
      BY <1>2, <2>2, <2>5 DEF ReadsAt, Starts
    <3>1. x \in Int /\ x >= k + 1 /\ x \in 1..Len(w) /\ w[x].word = c.word
      BY <2>2, <2>3, <2>5, <3>0
    <3>2. x - k - 1 + p \in p..n /\ x = k + 1 + (x - k - 1 + p) - p
      BY <1>1, <1>2, <3>1
    <3> QED
      BY <1>2, <3>1, <3>2
  <2>6. ASSUME NEW o \in Anchors(lines, m, p), NEW l, \A i \in DOMAIN lines : lines[i].word = c.word => lines[i] = l
        PROVE  x # 0 /\ x <= k + 1 + o - p
    <3>1. o \in p..n /\ lines[o].word = c.word
      BY <2>4, <2>6
    <3>2. k + 1 + o - p >= k + 1 /\ k + 1 + o - p \in 1..Len(w) /\ k + 1 + o - p \in Int
      BY <1>1, <1>2, <3>1
    <3>3. ReadsAt(w, k + 1 + o - p, <<c>>)
      BY <1>2, <2>3, <3>1, <3>2
    <3>4. ASSUME NEW j, j >= k + 1, ReadsAt(w, j, <<c>>) PROVE w[j] = l
      <4>1. j \in 1..Len(w) - Len(<<c>>) + 1 /\ Len(<<c>>) = 1 /\ Len(w) \in Nat
        BY <1>2, <3>4 DEF ReadsAt, Starts
      <4>2. j \in Int /\ j \in 1..Len(w) /\ w[j].word = c.word
        BY <2>3, <3>4, <4>1
      <4>3. j - k - 1 + p \in p..n /\ j = k + 1 + (j - k - 1 + p) - p /\ j - k - 1 + p \in DOMAIN lines
        BY <1>1, <1>2, <3>4, <4>2 DEF n
      <4> QED
        BY <1>2, <2>6, <4>2, <4>3
    <3> DEFINE e == k + 1
               d == k + 1 + o - p
    <3>5. d >= e /\ ReadsAt(w, d, <<c>>) /\ e \in Int /\ (\A j : j >= e /\ ReadsAt(w, j, <<c>>) => w[j] = l) /\ x = Seek(w, <<c>>, e, FALSE)
      BY <1>1, <2>1, <3>2, <3>3, <3>4
    <3> HIDE DEF e, d
    <3>6. Seek(w, <<c>>, e, FALSE) # 0 /\ Seek(w, <<c>>, e, FALSE) <= d
      BY <1>1, <1>2, <3>5, SeekTheFirst
    <3> QED
      BY <3>5, <3>6 DEF d
  <2>7. ASSUME NEW o \in Anchors(lines, m, p), NEW l, \A i \in DOMAIN lines : lines[i].word = c.word => lines[i] = l
        PROVE  \E q \in p - 1..n : x = k + 1 + q - p /\ q <= o /\ x # 0
    <3>1. x # 0 /\ x <= k + 1 + o - p /\ o \in p..n
      BY <2>4, <2>6, <2>7
    <3>2. PICK q \in p..n : x = k + 1 + q - p
      BY <2>5, <3>1
    <3>3. q \in p - 1..n /\ q <= o
      BY <1>1, <3>1, <3>2
    <3> QED
      BY <3>1, <3>2, <3>3
  <2>8. x # 0 => \E q \in p - 1..n : x = k + 1 + q - p /\ q \in Anchors(lines, m, p)
    <3>1. \A q \in p..n : q \in p - 1..n
      BY <1>1
    <3> QED
      BY <2>4, <2>5, <3>1
  <2> QED
    BY <1>5, <2>7, <2>8 DEF x, w, k, c, n
<1> QED
  BY <1>4, <1>5

-----------------------------------------------------------------------------
\* A chunk that is applied has found a place that is its own.
LEMMA ChunkLands ==
    ASSUME NEW lines \in Seq(PatchLine), NEW p \in 1..Len(lines) + 1, NEW a \in Seq(PatchLine), NEW c \in ReadChunk,
           c.eof => a = <<>> /\ p = 1 /\ c.ctx = Blank, ApplyChunk(StateAt(lines, a, p), c).ok
    PROVE  \E m \in Meaning, i \in p..Len(lines) + 1 :
             LET b == a \o (Passed(lines, p, i) \o m.new)
             IN  /\ Means(m, c) /\ Sits(lines, m, i, p) /\ Beyond(i, Len(m.old)) \in 1..Len(lines) + 1 /\ b \in Seq(PatchLine)
                 /\ ApplyChunk(StateAt(lines, a, p), c) = StateAt(lines, b, Beyond(i, Len(m.old)))
<1> DEFINE s == StateAt(lines, a, p)
           w == a \o Rest(lines, p)
           x == CtxAt(w, Len(a) + 1, c.ctx)
           whole == WholeAt(w, x + 1, c)
           retry == IF whole = 0 /\ EndsBlank(c.old) THEN Seek(w, Shorter(c.old), x + 1, c.eof) ELSE 0
           t == ApplyChunk(s, c)
           m == FullOf(c)
           r == Brief(FullOf(c))
           L == Len(lines)
<1>1. s.lines = w /\ s.at = Len(a) + 1 /\ s.ok = TRUE
  BY DEF StateAt
<1>2. c.ctx \in PatchLine /\ c.old \in Seq(PatchLine) /\ c.new \in Seq(PatchLine) /\ c.eof \in BOOLEAN /\ L \in Nat /\ p \in 1..L + 1 /\ Len(a) \in Nat
  BY DEF ReadChunk
<1>3. t = CASE c.ctx # Blank /\ x = 0 -> [s EXCEPT !.ok = FALSE]
            [] (c.ctx = Blank \/ x # 0) /\ whole # 0 -> PutBy(w, whole, c.old, c.new)
            [] (c.ctx = Blank \/ x # 0) /\ whole = 0 /\ retry # 0 -> PutBy(w, retry, Shorter(c.old), Shorter(c.new))
            [] OTHER -> [s EXCEPT !.ok = FALSE]
  BY <1>1, ChunkIs
<1>4. [s EXCEPT !.ok = FALSE].ok = FALSE
  BY DEF StateAt
<1>5. m.ctx = c.ctx /\ m.old = c.old /\ m.new = c.new /\ m \in Meaning /\ Means(m, c)
  BY <1>2 DEF FullOf, Meaning, Means
<1>6. r.ctx = c.ctx /\ r.old = Shorter(c.old) /\ r.new = Shorter(c.new) /\ r \in Meaning /\ (EndsBlank(c.old) => Means(r, c))
  BY <1>2, ShorterIs DEF FullOf, Brief, Meaning, Means
<1>7. t.ok
  OBVIOUS
<1> HIDE DEF s, t, whole, retry, m, r
<1>8. c.ctx = Blank \/ x # 0
  BY <1>3, <1>4, <1>7
<1>9. PICK q \in p - 1..L : x = Len(a) + 1 + q - p /\ q \in Anchors(lines, m, p) /\ (c.eof => q = 0)
  <2>1. \E q \in p - 1..L : x = Len(a) + 1 + q - p /\ q \in Anchors(lines, m, p)
    BY <1>5, <1>8, ContextOf
  <2>2. c.eof => Anchors(lines, m, p) = {0}
    BY <1>5 DEF Anchors
  <2> QED
    BY <2>1, <2>2
<1> HIDE DEF x, L, w
<1>10. x + 1 = Len(a) + 1 + (q + 1) - p
  BY <1>2, <1>9
<1>11. ASSUME NEW e \in Meaning, Means(e, c), Anchors(lines, e, p) = Anchors(lines, m, p), NEW i \in p..L + 1, i + Len(e.old) <= L + 1,
              IF e.old = <<>> THEN i = q + 1 ELSE q < i /\ ReadsAt(lines, i, e.old), t = PutBy(w, Spot(a, p, i), e.old, e.new)
       PROVE  \E h \in Meaning, j \in p..L + 1 :
                LET b == a \o (Passed(lines, p, j) \o h.new)
                IN  /\ Means(h, c) /\ Sits(lines, h, j, p) /\ Beyond(j, Len(h.old)) \in 1..L + 1 /\ b \in Seq(PatchLine)
                    /\ t = StateAt(lines, b, Beyond(j, Len(h.old)))
  <2>1. e.old \in Seq(PatchLine) /\ e.new \in Seq(PatchLine)
    BY <1>11 DEF Meaning
  <2> DEFINE b == a \o (Passed(lines, p, i) \o e.new)
  <2>2. b \in Seq(PatchLine) /\ Beyond(i, Len(e.old)) \in 1..L + 1 /\ PutBy(w, Spot(a, p, i), e.old, e.new) = StateAt(lines, b, Beyond(i, Len(e.old)))
    <3> DEFINE old == e.old
               new == e.new
    <3>1. old \in Seq(PatchLine) /\ new \in Seq(PatchLine) /\ i \in p..Len(lines) + 1 /\ i + Len(old) <= Len(lines) + 1
      BY <1>11, <2>1 DEF L
    <3> HIDE DEF old, new, b
    <3>2. a \o (Passed(lines, p, i) \o new) \in Seq(PatchLine) /\ Beyond(i, Len(old)) \in 1..Len(lines) + 1
          /\ PutBy(a \o Rest(lines, p), Spot(a, p, i), old, new) = StateAt(lines, a \o (Passed(lines, p, i) \o new), Beyond(i, Len(old)))
      BY <3>1, Landing
    <3> QED
      BY <3>2 DEF old, new, b, w, L
  <2>3. Sits(lines, e, i, p)
    <3>1. CASE e.old = <<>>
      <4>1. i - 1 = q
        BY <1>9, <1>11, <3>1, <1>2
      <4> QED
        BY <1>9, <1>11, <3>1, <4>1 DEF Sits
    <3>2. CASE e.old # <<>>
      BY <1>9, <1>11, <3>2 DEF Sits
    <3> QED
      BY <3>1, <3>2
  <2> HIDE DEF b
  <2>4. t = StateAt(lines, b, Beyond(i, Len(e.old)))
    BY <1>11, <2>2
  <2> QED
    BY <1>11, <2>2, <2>3, <2>4 DEF b
<1>12. Anchors(lines, r, p) = Anchors(lines, m, p)
  BY <1>5, <1>6 DEF Anchors
<1>13. ASSUME NEW e \in Meaning, Means(e, c), Anchors(lines, e, p) = Anchors(lines, m, p), NEW j \in Int, j # 0,
              j = IF e.old = <<>> THEN x + 1 ELSE Seek(w, e.old, x + 1, c.eof), t = PutBy(w, j, e.old, e.new)
       PROVE  \E i \in p..L + 1 : i + Len(e.old) <= L + 1 /\ (IF e.old = <<>> THEN i = q + 1 ELSE q < i /\ ReadsAt(lines, i, e.old))
                /\ t = PutBy(w, Spot(a, p, i), e.old, e.new)
  <2>0. e.old \in Seq(PatchLine) /\ Len(e.old) \in Nat
    BY <1>13 DEF Meaning
  <2>1. CASE e.old = <<>>
    <3>1. q + 1 \in p..L + 1 /\ j = Len(a) + 1 + (q + 1) - p /\ q + 1 + Len(e.old) <= L + 1
      BY <1>2, <1>9, <1>10, <1>13, <2>1
    <3> QED
      BY <1>13, <2>1, <3>1 DEF Spot
  <2>2. CASE e.old # <<>>
    <3>1. j = Seek(w, e.old, Len(a) + 1 + (q + 1) - p, c.eof)
      BY <1>10, <1>13, <2>2
    <3>2. q \in p - 1..Len(lines) /\ (c.eof => a = <<>> /\ p = 1 /\ q = 0)
      BY <1>9 DEF L
    <3>3. \E i \in q + 1..Len(lines) + 1 - Len(e.old) : j = Len(a) + 1 + i - p /\ ReadsAt(lines, i, e.old)
      BY <1>2, <1>13, <2>0, <2>2, <3>1, <3>2, FoundBehind DEF w
    <3>4. PICK i \in q + 1..L + 1 - Len(e.old) : j = Len(a) + 1 + i - p /\ ReadsAt(lines, i, e.old)
      BY <3>3 DEF L
    <3>5. i \in p..L + 1 /\ i + Len(e.old) <= L + 1 /\ q < i
      BY <1>2, <1>9, <2>0, <3>4
    <3> QED
      BY <1>13, <2>2, <3>4, <3>5 DEF Spot
  <2> QED
    BY <2>1, <2>2
<1>14. ASSUME NEW e \in Meaning, Means(e, c), Anchors(lines, e, p) = Anchors(lines, m, p), NEW j \in Int, j # 0,
              j = IF e.old = <<>> THEN x + 1 ELSE Seek(w, e.old, x + 1, c.eof), t = PutBy(w, j, e.old, e.new)
       PROVE  \E h \in Meaning, i \in p..L + 1 :
                LET b == a \o (Passed(lines, p, i) \o h.new)
                IN  /\ Means(h, c) /\ Sits(lines, h, i, p) /\ Beyond(i, Len(h.old)) \in 1..L + 1 /\ b \in Seq(PatchLine)
                    /\ t = StateAt(lines, b, Beyond(i, Len(h.old)))
  <2>1. PICK i \in p..L + 1 : i + Len(e.old) <= L + 1 /\ (IF e.old = <<>> THEN i = q + 1 ELSE q < i /\ ReadsAt(lines, i, e.old))
                /\ t = PutBy(w, Spot(a, p, i), e.old, e.new)
    BY <1>13, <1>14
  <2> QED
    BY <1>11, <1>14, <2>1
<1>15. w \in Seq(PatchLine) /\ Len(w) \in Nat /\ x \in Int
  <2>1. w \in Seq(PatchLine)
    BY LinesBehind DEF w
  <2> QED
    BY <1>2, <1>9, <2>1
<1>16. ASSUME NEW pat \in Seq(PatchLine), pat # <<>> PROVE Seek(w, pat, x + 1, c.eof) \in Int
  <2>1. x + 1 \in Int
    BY <1>15
  <2> DEFINE at == x + 1
             j == Seek(w, pat, at, c.eof)
  <2> HIDE DEF at
  <2>2. j # 0 => ReadsAt(w, j, pat)
    BY <1>2, <1>15, <1>16, <2>1, SeekFinds DEF at
  <2>3. Starts(w, Len(pat)) \subseteq Int
    BY DEF Starts
  <2> HIDE DEF j
  <2>4. j \in Int
    BY <2>2, <2>3 DEF ReadsAt
  <2> QED
    BY <2>4 DEF j, at
<1>17. CASE whole # 0
  <2>1. t = PutBy(w, whole, m.old, m.new)
    BY <1>3, <1>5, <1>8, <1>17
  <2>2. whole = IF m.old = <<>> THEN x + 1 ELSE Seek(w, m.old, x + 1, c.eof)
    BY <1>5 DEF whole, WholeAt
  <2>3. whole \in Int
    BY <1>2, <1>5, <1>15, <1>16, <2>2
  <2>4. \E h \in Meaning, i \in p..L + 1 :
                LET b == a \o (Passed(lines, p, i) \o h.new)
                IN  /\ Means(h, c) /\ Sits(lines, h, i, p) /\ Beyond(i, Len(h.old)) \in 1..L + 1 /\ b \in Seq(PatchLine)
                    /\ t = StateAt(lines, b, Beyond(i, Len(h.old)))
    BY <1>5, <1>14, <1>17, <2>1, <2>2, <2>3
  <2> QED
    BY <2>4 DEF t, s, L
<1>18. CASE whole = 0
  <2>1. retry # 0
    BY <1>3, <1>4, <1>7, <1>8, <1>18
  <2>2. EndsBlank(c.old) /\ retry = Seek(w, r.old, x + 1, c.eof)
    BY <1>6, <2>1 DEF retry
  <2>3. t = PutBy(w, retry, r.old, r.new)
    BY <1>3, <1>6, <1>8, <1>18, <2>1
  <2>4. r.old = <<>> => retry = x + 1
    BY <2>2 DEF Seek
  <2>5. retry \in Int
    <3>1. r.old \in Seq(PatchLine)
      BY <1>6 DEF Meaning
    <3> QED
      BY <1>15, <1>16, <2>2, <2>4, <3>1
  <2>6. retry = IF r.old = <<>> THEN x + 1 ELSE Seek(w, r.old, x + 1, c.eof)
    BY <2>2, <2>4
  <2>7. \E h \in Meaning, i \in p..L + 1 :
                LET b == a \o (Passed(lines, p, i) \o h.new)
                IN  /\ Means(h, c) /\ Sits(lines, h, i, p) /\ Beyond(i, Len(h.old)) \in 1..L + 1 /\ b \in Seq(PatchLine)
                    /\ t = StateAt(lines, b, Beyond(i, Len(h.old)))
    BY <1>6, <1>12, <1>14, <2>1, <2>2, <2>3, <2>5, <2>6
  <2> QED
    BY <2>7 DEF t, s, L
<1> QED
  BY <1>17, <1>18

\* Where lines that end with a blank one are read, so are those before it,
\* and a blank line follows.
LEMMA ReadShorter ==
    ASSUME NEW lines \in Seq(PatchLine), NEW old \in Seq(PatchLine), EndsBlank(old), NEW i, ReadsAt(lines, i, old)
    PROVE  ReadsAt(lines, i, Shorter(old)) /\ i + Len(Shorter(old)) \in DOMAIN lines /\ IsBlank(lines[i + Len(Shorter(old))])
<1> DEFINE o == Shorter(old)
           n == Len(o)
           m == Len(old)
           L == Len(lines)
<1>1. o \in Seq(PatchLine) /\ n \in Nat /\ m = n + 1 /\ old[m] = Blank /\ (\A j \in 1..n : o[j] = old[j]) /\ L \in Nat
      /\ DOMAIN o = 1..n /\ DOMAIN old = 1..m /\ DOMAIN lines = 1..L
  BY ShorterIs
<1>2. i \in 1..L - m + 1 /\ \A j \in DOMAIN old : SpanAt(lines, i, m)[j].word = old[j].word
  BY DEF ReadsAt, Starts, SameText
<1> HIDE DEF o, n, m, L
<1>3. i \in 1..L - n + 1 /\ i + n \in 1..L /\ i \in Nat
  BY <1>1, <1>2
<1>4. ASSUME NEW j \in 1..m PROVE SpanAt(lines, i, m)[j] = lines[i + j - 1] /\ (j <= n => SpanAt(lines, i, n)[j] = lines[i + j - 1])
  <2>1. i \in Nat /\ i >= 1 /\ i + m - 1 <= Len(lines) /\ i + n - 1 <= Len(lines) /\ j \in 1..m /\ m \in Nat /\ n \in Nat /\ Len(lines) \in Nat
    BY <1>1, <1>2, <1>3 DEF L
  <2>2. SpanAt(lines, i, m)[j] = lines[i + j - 1]
    BY <2>1 DEF SpanAt
  <2>3. j <= n => SpanAt(lines, i, n)[j] = lines[i + j - 1]
    BY <2>1 DEF SpanAt
  <2> QED
    BY <2>2, <2>3
<1>5. \A j \in DOMAIN o : SpanAt(lines, i, n)[j].word = o[j].word
  <2> SUFFICES ASSUME NEW j \in 1..n PROVE SpanAt(lines, i, n)[j].word = o[j].word
    BY <1>1
  <2>1. j \in 1..m /\ j <= n /\ j \in DOMAIN old
    BY <1>1
  <2> QED
    BY <1>1, <1>2, <1>4, <2>1
<1>6. lines[i + n].word = NoWord
  <2>1. m \in 1..m /\ m \in DOMAIN old /\ i + m - 1 = i + n
    BY <1>1, <1>3
  <2>2. Blank.word = NoWord
    BY DEF Blank, Line
  <2> QED
    BY <1>1, <1>2, <1>4, <2>1, <2>2
<1> QED
  BY <1>1, <1>3, <1>5, <1>6 DEF ReadsAt, Starts, SameText, IsBlank, o, n, m, L

\* What Plain and LeavesNone say of one chunk.
HasOnePlace(lines, m) ==
    /\ m.old # <<>> /\ Cardinality({i \in DOMAIN lines : ReadsAt(lines, i, m.old)}) = 1
    /\ m.ctx = Blank \/ \E l \in Range(lines) : \A i \in DOMAIN lines : lines[i].word = m.ctx.word => lines[i] = l

LEMMA ThePlace ==
    ASSUME NEW lines \in Seq(PatchLine), NEW m \in Meaning, HasOnePlace(lines, m), NEW i, ReadsAt(lines, i, m.old)
    PROVE  \A j : ReadsAt(lines, j, m.old) => j = i
<1> DEFINE S == {j \in DOMAIN lines : ReadsAt(lines, j, m.old)}
<1>1. m.old \in Seq(PatchLine) /\ Len(m.old) \in Nat /\ Len(m.old) >= 1 /\ Len(lines) \in Nat /\ DOMAIN lines = 1..Len(lines)
  BY DEF HasOnePlace, Meaning
<1>2. \A j : ReadsAt(lines, j, m.old) => j \in S
  <2>1. \A j \in Starts(lines, Len(m.old)) : j \in DOMAIN lines
    BY <1>1 DEF Starts
  <2> QED
    BY <2>1 DEF ReadsAt
<1>3. IsFiniteSet(S) /\ Cardinality(S) = 1
  <2>1. IsFiniteSet(1..Len(lines))
    BY <1>1, FS_Interval
  <2>2. S \subseteq 1..Len(lines)
    BY <1>1
  <2> QED
    BY <2>1, <2>2, FS_Subset DEF HasOnePlace
<1> HIDE DEF S
<1>4. \E x : S = {x}
  BY <1>3, FS_Singleton
<1> QED
  BY <1>2, <1>4

\* A chunk that has one place in the text is applied there.
LEMMA ChunkIsApplied ==
    ASSUME NEW lines \in Seq(PatchLine), NEW p \in 1..Len(lines) + 1, NEW a \in Seq(PatchLine), NEW c \in ReadChunk, ~c.eof,
           NEW m, Means(m, c), NEW i, Sits(lines, m, i, p), HasOnePlace(lines, m),
           m # FullOf(c) => \A j \in DOMAIN lines : j = i + Len(m.old) => ~IsBlank(lines[j])
    PROVE  LET b == a \o (Passed(lines, p, i) \o m.new)
           IN  /\ i \in p..Len(lines) + 1 /\ Beyond(i, Len(m.old)) \in 1..Len(lines) + 1 /\ b \in Seq(PatchLine)
               /\ ApplyChunk(StateAt(lines, a, p), c) = StateAt(lines, b, Beyond(i, Len(m.old)))
<1> DEFINE s == StateAt(lines, a, p)
           w == a \o Rest(lines, p)
           x == CtxAt(w, Len(a) + 1, c.ctx)
           whole == WholeAt(w, x + 1, c)
           retry == IF whole = 0 /\ EndsBlank(c.old) THEN Seek(w, Shorter(c.old), x + 1, c.eof) ELSE 0
           t == ApplyChunk(s, c)
           L == Len(lines)
           b == a \o (Passed(lines, p, i) \o m.new)
<1>1. s.lines = w /\ s.at = Len(a) + 1 /\ s.ok = TRUE
  BY DEF StateAt
<1>2. c.ctx \in PatchLine /\ c.old \in Seq(PatchLine) /\ c.new \in Seq(PatchLine) /\ c.eof = FALSE /\ L \in Nat /\ p \in 1..L + 1 /\ Len(a) \in Nat
  BY DEF ReadChunk
<1>3. t = CASE c.ctx # Blank /\ x = 0 -> [s EXCEPT !.ok = FALSE]
            [] (c.ctx = Blank \/ x # 0) /\ whole # 0 -> PutBy(w, whole, c.old, c.new)
            [] (c.ctx = Blank \/ x # 0) /\ whole = 0 /\ retry # 0 -> PutBy(w, retry, Shorter(c.old), Shorter(c.new))
            [] OTHER -> [s EXCEPT !.ok = FALSE]
  BY <1>1, ChunkIs
<1>4. /\ m \in Meaning /\ m.ctx = c.ctx
      /\ (m.old = c.old /\ m.new = c.new) \/ (EndsBlank(c.old) /\ m.old = Shorter(c.old) /\ m.new = Shorter(c.new))
  BY MeaningTypes
<1>5. m.old \in Seq(PatchLine) /\ m.new \in Seq(PatchLine) /\ Len(m.old) \in Nat /\ Len(m.old) >= 1 /\ m.old # <<>>
  BY <1>4 DEF Meaning, HasOnePlace
<1>6. ReadsAt(lines, i, m.old) /\ i \in 1..L - Len(m.old) + 1 /\ \E o \in Anchors(lines, m, p) : o < i
  BY <1>5 DEF Sits, ReadsAt, Starts
<1>7. \A j : ReadsAt(lines, j, m.old) => j = i
  BY <1>4, <1>6, ThePlace
<1> HIDE DEF s, t, whole, retry, w, L
<1>8. PICK q \in p - 1..L : x = Len(a) + 1 + q - p /\ q < i /\ (c.ctx = Blank \/ x # 0)
  <2>1. PICK o \in Anchors(lines, m, p) : o < i
    BY <1>6
  <2>2. m.ctx = Blank \/ \E l : \A k \in DOMAIN lines : lines[k].word = m.ctx.word => lines[k] = l
    BY DEF HasOnePlace
  <2>3. \E q \in p - 1..L : x = Len(a) + 1 + q - p /\ q <= o /\ (c.ctx = Blank \/ x # 0)
    <3>1. x = CtxAt(w, Len(a) + 1, m.ctx)
      BY <1>4
    <3> DEFINE z == CtxAt(w, Len(a) + 1, m.ctx)
    <3>2. \A d \in Anchors(lines, m, p) :
            (m.ctx = Blank \/ \E l : \A k \in DOMAIN lines : lines[k].word = m.ctx.word => lines[k] = l)
            => \E e \in p - 1..L : z = Len(a) + 1 + e - p /\ e <= d /\ (m.ctx = Blank \/ z # 0)
      BY <1>4, ContextOf DEF w, L
    <3> HIDE DEF x, z
    <3>3. \E e \in p - 1..L : z = Len(a) + 1 + e - p /\ e <= o /\ (m.ctx = Blank \/ z # 0)
      BY <2>2, <3>2
    <3> QED
      BY <1>4, <3>1, <3>3 DEF z
  <2>4. o \in Int
    BY <1>2 DEF Anchors
  <2>5. \A q \in p - 1..L : q <= o => q < i
    BY <1>2, <1>6, <2>1, <2>4
  <2> QED
    BY <2>3, <2>5
<1> HIDE DEF x
<1>9. i \in p..L + 1 /\ i + Len(m.old) <= L + 1 /\ x + 1 = Len(a) + 1 + (q + 1) - p
  BY <1>2, <1>5, <1>6, <1>8
<1>10. ASSUME NEW pat \in Seq(PatchLine), pat # <<>>, \A j : ReadsAt(lines, j, pat) => j = i
       PROVE  LET j == Seek(w, pat, x + 1, c.eof)
              IN  (j # 0 => j = Spot(a, p, i) /\ ReadsAt(lines, i, pat)) /\ (j = 0 => ~ReadsAt(lines, i, pat))
  <2> DEFINE j == Seek(w, pat, Len(a) + 1 + (q + 1) - p, c.eof)
  <2>1. /\ j # 0 => \E k \in q + 1..Len(lines) + 1 - Len(pat) : j = Len(a) + 1 + k - p /\ ReadsAt(lines, k, pat)
        /\ j = 0 => \A k \in Int : k >= q + 1 => ~ReadsAt(lines, k, pat)
    <3> DEFINE e == c.eof
    <3>1. e \in BOOLEAN /\ (e => a = <<>> /\ p = 1 /\ q = 0) /\ q \in p - 1..Len(lines) /\ pat # <<>>
      BY <1>2, <1>8, <1>10 DEF L
    <3> DEFINE g == Seek(a \o Rest(lines, p), pat, Len(a) + 1 + (q + 1) - p, e)
    <3>2. ~e
      BY <1>2
    <3> HIDE DEF e
    <3>3. /\ g # 0 => \E k \in q + 1..Len(lines) + 1 - Len(pat) : g = Len(a) + 1 + k - p /\ ReadsAt(lines, k, pat)
          /\ ~e /\ g = 0 => \A k \in Int : k >= q + 1 => ~ReadsAt(lines, k, pat)
      BY <3>1, FoundBehind
    <3>4. g = j
      BY DEF w, e
    <3> HIDE DEF g, j
    <3> QED
      BY <3>2, <3>3, <3>4
  <2>2. i \in Int /\ i >= q + 1
    BY <1>6, <1>8, <1>2
  <2>3. Seek(w, pat, x + 1, c.eof) = j
    BY <1>9
  <2> HIDE DEF j
  <2> QED
    BY <1>10, <2>1, <2>2, <2>3 DEF Spot
<1>11. Spot(a, p, i) # 0
  BY <1>2, <1>9 DEF Spot
<1>12. t = PutBy(w, Spot(a, p, i), m.old, m.new)
  <2>1. CASE m.old = c.old /\ m.new = c.new
    <3>1. whole = Seek(w, c.old, x + 1, c.eof)
      BY <1>5, <2>1 DEF whole, WholeAt
    <3>2. whole = Spot(a, p, i)
      BY <1>2, <1>5, <1>6, <1>7, <1>10, <2>1, <3>1
    <3> QED
      BY <1>3, <1>8, <1>11, <2>1, <3>2
  <2>2. CASE EndsBlank(c.old) /\ m.old = Shorter(c.old) /\ m.new = Shorter(c.new) /\ ~(m.old = c.old /\ m.new = c.new)
    <3>0. FullOf(c).old = c.old /\ FullOf(c).new = c.new
      BY DEF FullOf
    <3>a. c.old # <<>>
      BY <2>2 DEF EndsBlank
    <3>b. whole = Seek(w, c.old, x + 1, c.eof)
      BY <3>a DEF whole, WholeAt
    <3>1. c.old # <<>> /\ whole = Seek(w, c.old, x + 1, c.eof) /\ m # FullOf(c)
      BY <2>2, <3>0, <3>a, <3>b
    <3>2. \A j : ReadsAt(lines, j, c.old) => ReadsAt(lines, j, m.old)
      BY <1>2, <2>2, ReadShorter
    <3>3. ~ReadsAt(lines, i, c.old)
      <4>1. ReadsAt(lines, i, c.old) => i + Len(m.old) \in DOMAIN lines /\ IsBlank(lines[i + Len(m.old)])
        BY <1>2, <2>2, ReadShorter
      <4> QED
        BY <3>1, <4>1
    <3>4. whole = 0
      BY <1>2, <1>7, <1>10, <3>1, <3>2, <3>3
    <3>5. retry = Seek(w, m.old, x + 1, c.eof)
      BY <2>2, <3>4 DEF retry
    <3>6. retry = Spot(a, p, i)
      BY <1>5, <1>6, <1>7, <1>10, <3>5
    <3> QED
      BY <1>3, <1>8, <1>11, <2>2, <3>4, <3>6
  <2> QED
    BY <1>4, <2>1, <2>2
<1>13. b \in Seq(PatchLine) /\ Beyond(i, Len(m.old)) \in 1..L + 1 /\ PutBy(w, Spot(a, p, i), m.old, m.new) = StateAt(lines, b, Beyond(i, Len(m.old)))
  <2> DEFINE old == m.old
             new == m.new
  <2>1. old \in Seq(PatchLine) /\ new \in Seq(PatchLine) /\ i \in p..Len(lines) + 1 /\ i + Len(old) <= Len(lines) + 1
    BY <1>5, <1>9 DEF L
  <2> HIDE DEF old, new, b
  <2>2. a \o (Passed(lines, p, i) \o new) \in Seq(PatchLine) /\ Beyond(i, Len(old)) \in 1..Len(lines) + 1
        /\ PutBy(a \o Rest(lines, p), Spot(a, p, i), old, new) = StateAt(lines, a \o (Passed(lines, p, i) \o new), Beyond(i, Len(old)))
    BY <2>1, Landing
  <2> QED
    BY <2>2 DEF old, new, b, w, L
<1> HIDE DEF b
<1> QED
  BY <1>9, <1>12, <1>13 DEF s, t, L, b

-----------------------------------------------------------------------------
\* Chunks in a row, each where it sits, and the text as they have left it.
Ahead(lines, cs, at) == FlattenSeq([k \in 1..Len(cs) |-> Passed(lines, Behind(cs, at, k), at[k]) \o cs[k].new])
Reached(lines, cs, at) == StateAt(lines, Ahead(lines, cs, at), Behind(cs, at, Len(cs) + 1))
Placed(lines, cs, at) ==
    /\ cs \in Seq(Meaning) /\ at \in Seq(Nat) /\ Len(at) = Len(cs)
    /\ \A k \in 1..Len(cs) : at[k] \in Behind(cs, at, k)..Len(lines) + 1 /\ Beyond(at[k], Len(cs[k].old)) \in 1..Len(lines) + 1

LEMMA BehindOfOneMore ==
    ASSUME NEW cs \in Seq(Meaning), NEW at \in Seq(Nat), Len(at) = Len(cs), NEW m \in Meaning, NEW i \in Nat
    PROVE  /\ \A k \in 1..Len(cs) : Append(cs, m)[k] = cs[k] /\ Append(at, i)[k] = at[k]
           /\ Append(cs, m)[Len(cs) + 1] = m /\ Append(at, i)[Len(cs) + 1] = i
           /\ \A k \in 1..Len(cs) + 1 : Behind(Append(cs, m), Append(at, i), k) = Behind(cs, at, k)
           /\ Behind(Append(cs, m), Append(at, i), Len(cs) + 2) = Beyond(i, Len(m.old))
           /\ Append(cs, m) \in Seq(Meaning) /\ Append(at, i) \in Seq(Nat)
           /\ Len(Append(cs, m)) = Len(cs) + 1 /\ Len(Append(at, i)) = Len(cs) + 1
<1> DEFINE n == Len(cs)
           d == Append(cs, m)
           b == Append(at, i)
<1>1. n \in Nat /\ (\A k \in 1..n : d[k] = cs[k]) /\ d[n + 1] = m /\ d \in Seq(Meaning) /\ Len(d) = n + 1
  OBVIOUS
<1>2. (\A k \in 1..n : b[k] = at[k]) /\ b[n + 1] = i /\ b \in Seq(Nat) /\ Len(b) = n + 1
  OBVIOUS
<1> HIDE DEF n, d, b
<1>3. ASSUME NEW k \in 1..n + 1 PROVE Behind(d, b, k) = Behind(cs, at, k)
  <2>1. k = 1 \/ k - 1 \in 1..n
    BY <1>1
  <2> QED
    BY <1>1, <1>2, <2>1 DEF Behind
<1>4. Behind(d, b, n + 2) = Beyond(i, Len(m.old))
  <2>1. n + 2 # 1 /\ n + 2 - 1 = n + 1
    BY <1>1
  <2> QED
    BY <1>1, <1>2, <2>1 DEF Behind, Beyond
<1> QED
  BY <1>1, <1>2, <1>3, <1>4 DEF n, d, b

LEMMA BehindIsAPlace ==
    ASSUME NEW lines \in Seq(PatchLine), NEW cs, NEW at, Placed(lines, cs, at)
    PROVE  \A k \in 1..Len(cs) + 1 : Behind(cs, at, k) \in 1..Len(lines) + 1
<1> SUFFICES ASSUME NEW k \in 1..Len(cs) + 1 PROVE Behind(cs, at, k) \in 1..Len(lines) + 1
  OBVIOUS
<1>1. Len(cs) \in Nat /\ Len(lines) \in Nat
  BY DEF Placed
<1>2. CASE k = 1
  BY <1>1, <1>2 DEF Behind
<1>3. CASE k # 1
  <2>1. k - 1 \in 1..Len(cs)
    BY <1>1, <1>3
  <2> DEFINE j == k - 1
  <2>2. j \in 1..Len(cs)
    BY <2>1
  <2>3. Behind(cs, at, k) = at[j] + Len(cs[j].old)
    BY <1>3 DEF Behind
  <2> HIDE DEF j
  <2> QED
    BY <2>2, <2>3 DEF Placed, Beyond
<1> QED
  BY <1>2, <1>3

LEMMA PassedType ==
    ASSUME NEW lines \in Seq(PatchLine), NEW p \in 1..Len(lines) + 1, NEW i \in p..Len(lines) + 1
    PROVE  Passed(lines, p, i) \in Seq(PatchLine)
<1> DEFINE u == i - 1
<1>1. u \in Nat /\ p \in Nat \ {0} /\ p <= u + 1 /\ u <= Len(lines)
  OBVIOUS
<1> HIDE DEF u
<1>2. SubSeq(lines, p, u) \in Seq(PatchLine)
  BY <1>1, PartOf
<1> QED
  BY <1>2 DEF Passed, u

EndOf(cs, at) == Behind(cs, at, Len(cs) + 1)

Further(a, passed, new) == a \o (passed \o new)

LEMMA OneMoreChunk ==
    ASSUME NEW lines \in Seq(PatchLine), NEW cs, NEW at, Placed(lines, cs, at), NEW m \in Meaning, NEW p, p = EndOf(cs, at),
           NEW i, i \in p..Len(lines) + 1, Beyond(i, Len(m.old)) \in 1..Len(lines) + 1
    PROVE  /\ Placed(lines, Append(cs, m), Append(at, i))
           /\ Ahead(lines, Append(cs, m), Append(at, i)) = Further(Ahead(lines, cs, at), Passed(lines, p, i), m.new)
           /\ Ahead(lines, cs, at) \in Seq(PatchLine)
<1> DEFINE n == Len(cs)
           d == Append(cs, m)
           b == Append(at, i)
           f == [k \in 1..Len(cs) |-> Passed(lines, Behind(cs, at, k), at[k]) \o cs[k].new]
           g == [k \in 1..Len(d) |-> Passed(lines, Behind(d, b, k), b[k]) \o d[k].new]
           x == Passed(lines, p, i) \o m.new
<1>0. p = Behind(cs, at, n + 1)
  BY DEF EndOf
<1>1. cs \in Seq(Meaning) /\ at \in Seq(Nat) /\ Len(at) = Len(cs) /\ n \in Nat /\ Len(lines) \in Nat
  BY DEF Placed
<1>2. p \in 1..Len(lines) + 1 /\ i \in p..Len(lines) + 1
  <2>1. n + 1 \in 1..n + 1
    BY <1>1
  <2> QED
    BY <1>0, <2>1, BehindIsAPlace
<1>3. i \in Nat
  BY <1>1, <1>2
<1>4. /\ \A k \in 1..n : d[k] = cs[k] /\ b[k] = at[k]
      /\ d[n + 1] = m /\ b[n + 1] = i
      /\ \A k \in 1..n + 1 : Behind(d, b, k) = Behind(cs, at, k)
      /\ Behind(d, b, n + 2) = Beyond(i, Len(m.old))
      /\ d \in Seq(Meaning) /\ b \in Seq(Nat) /\ Len(d) = n + 1 /\ Len(b) = n + 1
  BY <1>1, <1>3, BehindOfOneMore
<1> HIDE DEF d, b
<1>5. ASSUME NEW k \in 1..n PROVE f[k] \in Seq(PatchLine)
  <2>1. k \in 1..Len(cs) /\ k \in 1..Len(cs) + 1
    BY <1>1
  <2>2. Behind(cs, at, k) \in 1..Len(lines) + 1 /\ at[k] \in Behind(cs, at, k)..Len(lines) + 1
    BY <2>1, BehindIsAPlace DEF Placed
  <2>3. Passed(lines, Behind(cs, at, k), at[k]) \in Seq(PatchLine)
    BY <2>2, PassedType
  <2>4. cs[k] \in Meaning
    BY <1>1
  <2>5. cs[k].new \in Seq(PatchLine)
    BY <2>4 DEF Meaning
  <2>6. f[k] = Passed(lines, Behind(cs, at, k), at[k]) \o cs[k].new
    BY <2>1
  <2> HIDE DEF f
  <2> QED
    BY <2>3, <2>5, <2>6, Rt!Beside
<1>6. x \in Seq(PatchLine)
  <2>1. Passed(lines, p, i) \in Seq(PatchLine)
    BY <1>2, PassedType
  <2>2. m.new \in Seq(PatchLine)
    BY DEF Meaning
  <2> QED
    BY <2>1, <2>2, Rt!Beside
<1> DEFINE U == Seq(PatchLine)
<1>7. f \in Seq(U) /\ Len(f) = n
  <2>1. f \in [1..n -> U]
    BY <1>5
  <2> HIDE DEF f, U, n
  <2> QED
    BY <1>1, <2>1
<1>8. g \in [1..n + 1 -> U]
  <2>1. DOMAIN g = 1..n + 1
    BY <1>4
  <2>2. ASSUME NEW k \in 1..n PROVE g[k] = f[k]
    <3>1. k \in 1..Len(d) /\ k \in 1..Len(cs) /\ k \in 1..n + 1
      BY <1>1, <1>4
    <3> QED
      BY <1>4, <3>1
  <2>3. g[n + 1] = x
    <3>1. n + 1 \in 1..Len(d) /\ n + 1 \in 1..n + 1
      BY <1>1, <1>4
    <3> QED
      BY <1>0, <1>4, <3>1
  <2>4. \A k \in 1..n + 1 : k \in 1..n \/ k = n + 1
    BY <1>1
  <2>5. \A k \in 1..n + 1 : g[k] \in U
    BY <1>5, <1>6, <2>2, <2>3, <2>4
  <2> QED
    BY <2>1, <2>5
<1>9. g = Append(f, x)
  <2>1. ASSUME NEW k \in 1..n PROVE g[k] = f[k]
    <3>1. k \in 1..Len(d) /\ k \in 1..Len(cs) /\ k \in 1..n + 1
      BY <1>1, <1>4
    <3> QED
      BY <1>4, <3>1
  <2>2. g[n + 1] = x
    <3>1. n + 1 \in 1..Len(d) /\ n + 1 \in 1..n + 1
      BY <1>1, <1>4
    <3> QED
      BY <1>0, <1>4, <3>1
  <2> HIDE DEF f, g, x, U, n
  <2>3. g \in Seq(U) /\ Len(g) = n + 1
    BY <1>1, <1>8
  <2>4. Append(f, x) \in Seq(U) /\ Len(Append(f, x)) = n + 1 /\ Append(f, x)[n + 1] = x /\ \A k \in 1..n : Append(f, x)[k] = f[k]
    <3>1. f \in Seq(U) /\ x \in U /\ Len(f) = n
      BY <1>6, <1>7 DEF U
    <3> QED
      BY <3>1
  <2>5. \A k \in 1..n + 1 : k \in 1..n \/ k = n + 1
    BY <1>1
  <2>6. \A k \in 1..n + 1 : g[k] = Append(f, x)[k]
    BY <2>1, <2>2, <2>4, <2>5
  <2> QED
    BY <2>3, <2>4, <2>6, SeqEqual
<1> HIDE DEF f, g, x
<1>10. FlattenSeq(g) = FlattenSeq(f) \o x
  BY <1>6, <1>7, <1>9, FlattenOfOneMore DEF U
<1>11. FlattenSeq(f) \in Seq(PatchLine)
  BY <1>7, FlattenType DEF U
<1>12. Placed(lines, d, b)
  <2> SUFFICES ASSUME NEW k \in 1..n + 1 PROVE b[k] \in Behind(d, b, k)..Len(lines) + 1 /\ Beyond(b[k], Len(d[k].old)) \in 1..Len(lines) + 1
    BY <1>4 DEF Placed
  <2>1. CASE k = n + 1
    BY <1>0, <1>2, <1>4, <2>1
  <2>2. CASE k # n + 1
    <3>1. k \in 1..n /\ k \in 1..Len(cs)
      BY <1>1, <2>2
    <3> QED
      BY <1>4, <3>1 DEF Placed
  <2> QED
    BY <2>1, <2>2
<1> QED
  BY <1>10, <1>11, <1>12 DEF Ahead, Further, f, g, x, d, b, n

-----------------------------------------------------------------------------
\* What the applier keeps, whatever the chunks are.
ApplyStates == {s \in [lines : Seq(PatchLine), at : Nat, ok : BOOLEAN] : s.at \in 1..Len(s.lines) + 1}

LEMMA StateAtType ==
    ASSUME NEW lines \in Seq(PatchLine), NEW p \in 1..Len(lines) + 1, NEW a \in Seq(PatchLine)
    PROVE  StateAt(lines, a, p) \in ApplyStates
<1>1. a \o Rest(lines, p) \in Seq(PatchLine) /\ Len(a \o Rest(lines, p)) = Len(a) + Len(lines) - p + 1
  BY LinesBehind
<1> DEFINE w == a \o Rest(lines, p)
<1>2. Len(a) \in Nat /\ Len(lines) \in Nat
  OBVIOUS
<1> HIDE DEF w
<1>3. Len(a) + 1 \in 1..Len(w) + 1
  BY <1>1, <1>2 DEF w
<1> QED
  BY <1>1, <1>2, <1>3 DEF StateAt, ApplyStates, w

LEMMA AllIsLeft ==
    ASSUME NEW lines \in Seq(PatchLine)
    PROVE  StateAt(lines, <<>>, 1) = [lines |-> lines, at |-> 1, ok |-> TRUE] /\ <<>> \o Rest(lines, 1) = lines
<1>1. Rest(lines, 1) = lines
  BY DEF Rest
<1>2. <<>> \o lines = lines /\ Len(<<>>) + 1 = 1
  OBVIOUS
<1> QED
  BY <1>1, <1>2 DEF StateAt

LEMMA PutByType ==
    ASSUME NEW w \in Seq(PatchLine), NEW j \in 1..Len(w) + 1, NEW old \in Seq(PatchLine), j + Len(old) <= Len(w) + 1, NEW new \in Seq(PatchLine)
    PROVE  PutBy(w, j, old, new) \in ApplyStates
<1> DEFINE e == <<>>
           p == 1
<1>1. e \in Seq(PatchLine) /\ Len(w) \in Nat /\ Len(e) = 0 /\ p \in 1..Len(w) + 1
  OBVIOUS
<1>2. Spot(e, p, j) = j
  BY <1>1 DEF Spot
<1>3. e \o Rest(w, p) = w
  BY AllIsLeft
<1>4. j \in p..Len(w) + 1
  OBVIOUS
<1> HIDE DEF e, p
<1>5. w \in Seq(PatchLine) /\ p \in 1..Len(w) + 1 /\ e \in Seq(PatchLine) /\ old \in Seq(PatchLine) /\ j \in p..Len(w) + 1
      /\ j + Len(old) <= Len(w) + 1 /\ new \in Seq(PatchLine)
  BY <1>1, <1>4
<1>6. e \o (Passed(w, p, j) \o new) \in Seq(PatchLine) /\ Beyond(j, Len(old)) \in 1..Len(w) + 1
      /\ PutBy(e \o Rest(w, p), Spot(e, p, j), old, new) = StateAt(w, e \o (Passed(w, p, j) \o new), Beyond(j, Len(old)))
  BY <1>5, Landing
<1> DEFINE b == e \o (Passed(w, p, j) \o new)
           v == Beyond(j, Len(old))
<1> HIDE DEF b, v
<1>7. StateAt(w, b, v) \in ApplyStates
  BY <1>6, StateAtType DEF b, v
<1> QED
  BY <1>2, <1>3, <1>6, <1>7 DEF b, v

LEMMA SeekIsAPlace ==
    ASSUME NEW w \in Seq(PatchLine), NEW pat \in Seq(PatchLine), NEW at \in 1..Len(w) + 1, NEW eof \in BOOLEAN, Seek(w, pat, at, eof) # 0
    PROVE  Seek(w, pat, at, eof) \in 1..Len(w) + 1 /\ Seek(w, pat, at, eof) + Len(pat) <= Len(w) + 1
<1>1. CASE pat = <<>>
  <2>1. Seek(w, pat, at, eof) = at /\ Len(pat) = 0
    BY <1>1 DEF Seek
  <2> QED
    BY <2>1
<1>2. CASE pat # <<>>
  <2>1. at \in Int
    OBVIOUS
  <2>2. ReadsAt(w, Seek(w, pat, at, eof), pat)
    BY <1>2, <2>1, SeekFinds
  <2>3. Len(pat) \in Nat /\ Len(pat) >= 1 /\ Len(w) \in Nat
    BY <1>2
  <2> DEFINE j == Seek(w, pat, at, eof)
  <2> HIDE DEF j
  <2>4. j \in 1..Len(w) - Len(pat) + 1
    BY <2>2 DEF ReadsAt, Starts, j
  <2>5. j \in 1..Len(w) + 1 /\ j + Len(pat) <= Len(w) + 1
    BY <2>3, <2>4
  <2> QED
    BY <2>5 DEF j
<1> QED
  BY <1>1, <1>2

LEMMA ChunkKeepsType ==
    ASSUME NEW s \in ApplyStates, NEW c \in ReadChunk
    PROVE  ApplyChunk(s, c) \in ApplyStates /\ (ApplyChunk(s, c).ok => s.ok)
<1> DEFINE w == s.lines
           x == CtxAt(w, s.at, c.ctx)
           whole == WholeAt(w, x + 1, c)
           retry == IF whole = 0 /\ EndsBlank(c.old) THEN Seek(w, Shorter(c.old), x + 1, c.eof) ELSE 0
           t == ApplyChunk(s, c)
<1>1. w \in Seq(PatchLine) /\ s.at \in 1..Len(w) + 1 /\ s.ok \in BOOLEAN /\ Len(w) \in Nat
  BY DEF ApplyStates
<1>2. c.ctx \in PatchLine /\ c.old \in Seq(PatchLine) /\ c.new \in Seq(PatchLine) /\ c.eof \in BOOLEAN
  BY DEF ReadChunk
<1>3. t = CASE ~s.ok \/ (c.ctx # Blank /\ x = 0) -> [s EXCEPT !.ok = FALSE]
            [] s.ok /\ (c.ctx = Blank \/ x # 0) /\ whole # 0 -> PutBy(w, whole, c.old, c.new)
            [] s.ok /\ (c.ctx = Blank \/ x # 0) /\ whole = 0 /\ retry # 0 -> PutBy(w, retry, Shorter(c.old), Shorter(c.new))
            [] OTHER -> [s EXCEPT !.ok = FALSE]
  BY ChunkIs
<1>4. [s EXCEPT !.ok = FALSE] \in ApplyStates /\ [s EXCEPT !.ok = FALSE].ok = FALSE
  BY DEF ApplyStates
<1>5. Shorter(c.old) \in Seq(PatchLine) /\ Shorter(c.new) \in Seq(PatchLine)
  BY <1>2, ShorterIs
<1> HIDE DEF t, retry, whole, w
<1>6. CASE s.ok /\ (c.ctx = Blank \/ x # 0)
  <2>1. x + 1 \in 1..Len(w) + 1
    <3>1. CASE c.ctx = Blank
      BY <1>1, <3>1 DEF CtxAt
    <3>2. CASE c.ctx # Blank
      <4> DEFINE e == FALSE
                 pat == <<c.ctx>>
      <4>1. x # 0
        BY <1>6, <3>2
      <4>2. x = Seek(w, pat, s.at, e)
        BY <3>2 DEF CtxAt
      <4>3. pat \in Seq(PatchLine) /\ Len(pat) = 1 /\ e \in BOOLEAN
        BY <1>2
      <4> HIDE DEF e, pat, x
      <4>4. Seek(w, pat, s.at, e) \in 1..Len(w) + 1 /\ Seek(w, pat, s.at, e) + Len(pat) <= Len(w) + 1
        BY <1>1, <4>1, <4>2, <4>3, SeekIsAPlace
      <4> QED
        BY <1>1, <4>2, <4>3, <4>4
    <3> QED
      BY <3>1, <3>2
  <2> DEFINE at == x + 1
  <2>2. at \in 1..Len(w) + 1
    BY <2>1
  <2>3. whole # 0 => whole \in 1..Len(w) + 1 /\ whole + Len(c.old) <= Len(w) + 1
    <3>1. CASE c.old = <<>>
      <4>1. whole = at /\ Len(c.old) = 0
        BY <3>1 DEF whole, WholeAt
      <4> QED
        BY <1>1, <2>2, <4>1
    <3>2. CASE c.old # <<>>
      <4>1. whole = Seek(w, c.old, at, c.eof)
        BY <3>2 DEF whole, WholeAt
      <4> HIDE DEF at
      <4> QED
        BY <1>1, <1>2, <2>2, <4>1, SeekIsAPlace
    <3> QED
      BY <3>1, <3>2
  <2>4. retry # 0 => retry \in 1..Len(w) + 1 /\ retry + Len(Shorter(c.old)) <= Len(w) + 1
    <3>1. retry # 0 => retry = Seek(w, Shorter(c.old), at, c.eof)
      BY DEF retry
    <3> HIDE DEF at
    <3> QED
      BY <1>1, <1>2, <1>5, <2>2, <3>1, SeekIsAPlace
  <2> HIDE DEF at, x
  <2>5. whole # 0 => PutBy(w, whole, c.old, c.new) \in ApplyStates
    BY <1>1, <1>2, <2>3, PutByType
  <2>6. retry # 0 => PutBy(w, retry, Shorter(c.old), Shorter(c.new)) \in ApplyStates
    BY <1>1, <1>5, <2>4, PutByType
  <2>7. t \in ApplyStates
    BY <1>3, <1>4, <1>6, <2>5, <2>6
  <2> QED
    BY <1>6, <2>7 DEF t
<1>7. CASE ~(s.ok /\ (c.ctx = Blank \/ x # 0))
  <2>1. t = [s EXCEPT !.ok = FALSE]
    BY <1>1, <1>3, <1>7
  <2> QED
    BY <1>4, <2>1 DEF t
<1> QED
  BY <1>6, <1>7

ChunkOutset(lines) == [lines |-> lines, at |-> 1, ok |-> TRUE]
After(lines, ps) == Ac!Fold(ChunkOutset(lines), ps)

LEMMA AfterNone == ASSUME NEW lines PROVE After(lines, <<>>) = ChunkOutset(lines)
BY Ac!FoldOfNothing DEF After

LEMMA AfterOneMore ==
    ASSUME NEW lines, NEW ps \in Seq(ReadChunk), NEW c \in ReadChunk
    PROVE  After(lines, Append(ps, c)) = ApplyChunk(After(lines, ps), c)
BY Ac!FoldOfOneMore DEF After

LEMMA AfterType ==
    ASSUME NEW lines \in Seq(PatchLine)
    PROVE  \A ps \in Seq(ReadChunk) : After(lines, ps) \in ApplyStates
<1> DEFINE S == {ps \in Seq(ReadChunk) : After(lines, ps) \in ApplyStates}
<1>0. <<>> \in Seq(ReadChunk) /\ \A ps \in Seq(ReadChunk), c \in ReadChunk : Append(ps, c) \in Seq(ReadChunk)
  OBVIOUS
<1>1. <<>> \in S
  <2>1. ChunkOutset(lines) \in ApplyStates
    BY DEF ChunkOutset, ApplyStates
  <2> QED
    BY <1>0, <2>1, AfterNone
<1>2. ASSUME NEW ps \in Seq(ReadChunk), NEW c \in ReadChunk, ps \in S PROVE Append(ps, c) \in S
  <2>1. After(lines, ps) \in ApplyStates
    BY <1>2
  <2>2. After(lines, Append(ps, c)) \in ApplyStates
    BY <2>1, AfterOneMore, ChunkKeepsType
  <2> QED
    BY <1>0, <2>2
<1> HIDE DEF S
<1>3. \A ps \in Seq(ReadChunk) : ps \in S
  BY <1>1, <1>2, Ac!SeqSteps
<1> QED
  BY <1>3 DEF S

\* What the chunks make of the lines before their end.
LEMMA AheadType ==
    ASSUME NEW lines \in Seq(PatchLine), NEW cs, NEW at, Placed(lines, cs, at)
    PROVE  Ahead(lines, cs, at) \in Seq(PatchLine)
<1> DEFINE n == Len(cs)
           p == Behind(cs, at, n + 1)
           m == [ctx |-> Blank, old |-> <<>>, new |-> <<>>]
<1>1. n \in Nat /\ n + 1 \in 1..n + 1 /\ Len(lines) \in Nat
  BY DEF Placed
<1>2. p \in 1..Len(lines) + 1
  BY <1>1, BehindIsAPlace
<1>3. m \in Meaning /\ Len(m.old) = 0
  BY BlankIsALine DEF Meaning
<1>4. p = EndOf(cs, at) /\ p \in p..Len(lines) + 1 /\ Beyond(p, Len(m.old)) \in 1..Len(lines) + 1
  BY <1>1, <1>2, <1>3 DEF Beyond, EndOf
<1> HIDE DEF m, p
<1> QED
  BY <1>3, <1>4, OneMoreChunk

\* Chunks that were read, each with its meaning and where it sits.
Seated(lines, cs, at, ps) ==
    /\ Placed(lines, cs, at) /\ Len(cs) = Len(ps)
    /\ \A k \in 1..Len(ps) : Means(cs[k], ps[k]) /\ Sits(lines, cs[k], at[k], Behind(cs, at, k))

LEMMA NoChunksSit ==
    ASSUME NEW lines \in Seq(PatchLine)
    PROVE  Seated(lines, <<>>, <<>>, <<>>) /\ After(lines, <<>>) = Reached(lines, <<>>, <<>>)
<1>1. <<>> \in Seq(Meaning) /\ <<>> \in Seq(Nat) /\ Len(<<>>) = 0 /\ 1..0 = {}
  OBVIOUS
<1>2. Seated(lines, <<>>, <<>>, <<>>)
  BY <1>1 DEF Seated, Placed
<1>3. Behind(<<>>, <<>>, 1) = 1
  BY DEF Behind
<1>4. [k \in 1..0 |-> Passed(lines, Behind(<<>>, <<>>, k), <<>>[k]) \o <<>>[k].new] = <<>>
  BY <1>1
<1>5. Ahead(lines, <<>>, <<>>) = <<>>
  BY <1>1, <1>4, FlattenOfNothing DEF Ahead
<1>6. Reached(lines, <<>>, <<>>) = StateAt(lines, <<>>, 1)
  BY <1>1, <1>3, <1>5 DEF Reached
<1>7. After(lines, <<>>) = StateAt(lines, <<>>, 1)
  BY AfterNone, AllIsLeft DEF ChunkOutset
<1> QED
  BY <1>2, <1>6, <1>7

\* One chunk more, behind the others.
LEMMA OneMoreSits ==
    ASSUME NEW lines \in Seq(PatchLine), NEW ps \in Seq(ReadChunk), NEW cs, NEW at, Seated(lines, cs, at, ps),
           NEW c \in ReadChunk, NEW m \in Meaning, Means(m, c), NEW i \in Behind(cs, at, Len(cs) + 1)..Len(lines) + 1,
           Sits(lines, m, i, Behind(cs, at, Len(cs) + 1)), Beyond(i, Len(m.old)) \in 1..Len(lines) + 1
    PROVE  /\ Seated(lines, Append(cs, m), Append(at, i), Append(ps, c))
           /\ Append(cs, m) \in Seq(Meaning) /\ Append(at, i) \in Seq(Nat)
           /\ Reached(lines, Append(cs, m), Append(at, i))
                = StateAt(lines, Ahead(lines, cs, at) \o (Passed(lines, Behind(cs, at, Len(cs) + 1), i) \o m.new), Beyond(i, Len(m.old)))
<1> DEFINE n == Len(cs)
           d == Append(cs, m)
           b == Append(at, i)
           qs == Append(ps, c)
           p == Behind(cs, at, n + 1)
<1>1. Placed(lines, cs, at) /\ Len(cs) = Len(ps) /\ n \in Nat
  BY DEF Seated, Placed
<1>2. cs \in Seq(Meaning) /\ at \in Seq(Nat) /\ Len(at) = Len(cs)
  BY <1>1 DEF Placed
<1>3. p \in 1..Len(lines) + 1
  <2>1. n + 1 \in 1..n + 1
    BY <1>1
  <2> QED
    BY <1>1, <2>1, BehindIsAPlace
<1>4. i \in Nat
  BY <1>3
<1>5. /\ \A k \in 1..n : d[k] = cs[k] /\ b[k] = at[k]
      /\ d[n + 1] = m /\ b[n + 1] = i
      /\ \A k \in 1..n + 1 : Behind(d, b, k) = Behind(cs, at, k)
      /\ Behind(d, b, n + 2) = Beyond(i, Len(m.old))
      /\ d \in Seq(Meaning) /\ b \in Seq(Nat) /\ Len(d) = n + 1
  BY <1>2, <1>4, BehindOfOneMore
<1>6. Placed(lines, d, b) /\ Ahead(lines, d, b) = Ahead(lines, cs, at) \o (Passed(lines, p, i) \o m.new)
  <2>1. Placed(lines, cs, at) /\ m \in Meaning /\ p = EndOf(cs, at) /\ i \in p..Len(lines) + 1 /\ Beyond(i, Len(m.old)) \in 1..Len(lines) + 1
    BY <1>1 DEF EndOf
  <2> HIDE DEF p
  <2>2. Placed(lines, d, b) /\ Ahead(lines, d, b) = Further(Ahead(lines, cs, at), Passed(lines, p, i), m.new)
    BY <2>1, OneMoreChunk DEF d, b
  <2> QED
    BY <2>2 DEF Further
<1>7. qs \in Seq(ReadChunk) /\ Len(qs) = n + 1 /\ qs[n + 1] = c /\ \A k \in 1..n : qs[k] = ps[k]
  BY <1>1
<1>8. Means(m, c) /\ Sits(lines, m, i, p)
  OBVIOUS
<1> HIDE DEF d, b, qs, p
<1>9. Seated(lines, d, b, qs)
  <2>1. Len(d) = Len(qs)
    BY <1>5, <1>7
  <2> SUFFICES ASSUME NEW k \in 1..n + 1 PROVE Means(d[k], qs[k]) /\ Sits(lines, d[k], b[k], Behind(d, b, k))
    BY <1>6, <1>7, <2>1 DEF Seated
  <2>2. CASE k = n + 1
    <3>1. Behind(d, b, k) = p
      BY <1>5, <2>2 DEF p
    <3> QED
      BY <1>5, <1>7, <1>8, <2>2, <3>1
  <2>3. CASE k # n + 1
    <3>1. k \in 1..n /\ k \in 1..Len(ps)
      BY <1>1, <2>3
    <3>2. Means(cs[k], ps[k]) /\ Sits(lines, cs[k], at[k], Behind(cs, at, k))
      BY <3>1 DEF Seated
    <3> QED
      BY <1>5, <1>7, <3>1, <3>2
  <2> QED
    BY <2>2, <2>3
<1>10. Reached(lines, d, b) = StateAt(lines, Ahead(lines, cs, at) \o (Passed(lines, p, i) \o m.new), Beyond(i, Len(m.old)))
  <2>1. Len(d) + 1 = n + 2
    BY <1>1, <1>5
  <2> QED
    BY <1>5, <1>6, <2>1 DEF Reached
<1> QED
  BY <1>5, <1>9, <1>10 DEF d, b, qs, p

\* The chunks of an update that are not odd (PatchLandsInOrder).
Sober(ps) == \A k \in 1..Len(ps) : ps[k].eof => k = 1 /\ ps[k].ctx = Blank

LEMMA SoberBefore ==
    ASSUME NEW ps \in Seq(ReadChunk), NEW c \in ReadChunk, Sober(Append(ps, c))
    PROVE  Sober(ps) /\ (c.eof => ps = <<>> /\ c.ctx = Blank)
<1>1. Len(ps) \in Nat /\ Len(Append(ps, c)) = Len(ps) + 1 /\ Append(ps, c)[Len(ps) + 1] = c /\ \A k \in 1..Len(ps) : Append(ps, c)[k] = ps[k]
  OBVIOUS
<1> DEFINE n == Len(ps)
           qs == Append(ps, c)
<1> HIDE DEF n, qs
<1>2. n \in Nat /\ Len(qs) = n + 1 /\ qs[n + 1] = c /\ (\A k \in 1..n : qs[k] = ps[k]) /\ Sober(qs)
  BY <1>1 DEF n, qs
<1>3. ASSUME NEW k \in 1..n, ps[k].eof PROVE k = 1 /\ ps[k].ctx = Blank
  BY <1>2, <1>3 DEF Sober
<1>4. n + 1 \in 1..n + 1
  BY <1>2
<1>5. c.eof => n + 1 = 1 /\ c.ctx = Blank
  BY <1>2, <1>4 DEF Sober
<1>6. n = 0 => ps = <<>>
  BY DEF n
<1> QED
  BY <1>2, <1>3, <1>5, <1>6 DEF Sober, n

\* What is applied sits somewhere, one chunk behind the other.
LEMMA ChunksLand ==
    ASSUME NEW lines \in Seq(PatchLine)
    PROVE  \A ps \in Seq(ReadChunk) : Sober(ps) /\ After(lines, ps).ok =>
             \E cs \in Seq(Meaning), at \in Seq(Nat) : Seated(lines, cs, at, ps) /\ After(lines, ps) = Reached(lines, cs, at)
<1> DEFINE S == {ps \in Seq(ReadChunk) : Sober(ps) /\ After(lines, ps).ok =>
             \E cs \in Seq(Meaning), at \in Seq(Nat) : Seated(lines, cs, at, ps) /\ After(lines, ps) = Reached(lines, cs, at)}
<1>1. <<>> \in S
  <2>1. <<>> \in Seq(ReadChunk) /\ <<>> \in Seq(Meaning) /\ <<>> \in Seq(Nat)
    OBVIOUS
  <2> QED
    BY <2>1, NoChunksSit
<1>2. ASSUME NEW ps \in Seq(ReadChunk), NEW c \in ReadChunk, ps \in S PROVE Append(ps, c) \in S
  <2>1. Append(ps, c) \in Seq(ReadChunk)
    OBVIOUS
  <2> SUFFICES ASSUME Sober(Append(ps, c)), After(lines, Append(ps, c)).ok
               PROVE  \E cs \in Seq(Meaning), at \in Seq(Nat) :
                        Seated(lines, cs, at, Append(ps, c)) /\ After(lines, Append(ps, c)) = Reached(lines, cs, at)
    BY <2>1
  <2>2. Sober(ps) /\ (c.eof => ps = <<>> /\ c.ctx = Blank)
    BY SoberBefore
  <2>3. After(lines, Append(ps, c)) = ApplyChunk(After(lines, ps), c)
    BY AfterOneMore
  <2>4. After(lines, ps) \in ApplyStates
    BY AfterType
  <2>5. After(lines, ps).ok
    BY <2>3, <2>4, ChunkKeepsType
  <2>6. PICK cs \in Seq(Meaning), at \in Seq(Nat) : Seated(lines, cs, at, ps) /\ After(lines, ps) = Reached(lines, cs, at)
    BY <1>2, <2>2, <2>5
  <2> DEFINE n == Len(cs)
             p == Behind(cs, at, n + 1)
             a == Ahead(lines, cs, at)
  <2>7. Placed(lines, cs, at) /\ Len(cs) = Len(ps) /\ n \in Nat
    BY <2>6 DEF Seated
  <2>8. p \in 1..Len(lines) + 1
    <3>1. n + 1 \in 1..n + 1
      BY <2>7
    <3> QED
      BY <2>7, <3>1, BehindIsAPlace
  <2>9. a \in Seq(PatchLine)
    BY <2>7, AheadType
  <2>10. c.eof => a = <<>> /\ p = 1 /\ c.ctx = Blank
    <3>1. c.eof => cs = <<>> /\ n = 0
      <4>1. c.eof => Len(cs) = 0
        <5>1. c.eof => ps = <<>>
          BY <2>2
        <5>2. Len(cs) = Len(ps)
          BY <2>7
        <5> QED
          BY <5>1, <5>2
      <4>2. Len(cs) = 0 => cs = <<>>
        BY EmptySeq
      <4> QED
        BY <4>1, <4>2
    <3>2. n = 0 => p = 1
      BY DEF Behind
    <3>3. cs = <<>> => a = <<>>
      <4>1. [k \in 1..0 |-> Passed(lines, Behind(<<>>, at, k), at[k]) \o <<>>[k].new] = <<>> /\ Len(<<>>) = 0
        OBVIOUS
      <4> QED
        BY <4>1, FlattenOfNothing DEF Ahead
    <3> QED
      BY <2>2, <3>1, <3>2, <3>3
  <2>11. After(lines, Append(ps, c)) = ApplyChunk(StateAt(lines, a, p), c)
    BY <2>3, <2>6 DEF Reached
  <2> HIDE DEF a, p
  <2>12. ApplyChunk(StateAt(lines, a, p), c).ok
    BY <2>11
  <2>13. PICK m \in Meaning, i \in p..Len(lines) + 1 :
              /\ Means(m, c) /\ Sits(lines, m, i, p) /\ Beyond(i, Len(m.old)) \in 1..Len(lines) + 1
              /\ ApplyChunk(StateAt(lines, a, p), c) = StateAt(lines, a \o (Passed(lines, p, i) \o m.new), Beyond(i, Len(m.old)))
    BY <2>8, <2>9, <2>10, <2>12, ChunkLands
  <2>14. /\ Seated(lines, Append(cs, m), Append(at, i), Append(ps, c))
         /\ Append(cs, m) \in Seq(Meaning) /\ Append(at, i) \in Seq(Nat)
         /\ Reached(lines, Append(cs, m), Append(at, i)) = StateAt(lines, a \o (Passed(lines, p, i) \o m.new), Beyond(i, Len(m.old)))
    BY <2>6, <2>13, OneMoreSits DEF a, p
  <2> QED
    BY <2>11, <2>13, <2>14
<1> HIDE DEF S
<1>3. \A ps \in Seq(ReadChunk) : ps \in S
  BY <1>1, <1>2, Ac!SeqSteps
<1> QED
  BY <1>3 DEF S

\* Chunks that have one place each.
Secure(lines, m, i, from, c) ==
    /\ ~c.eof /\ Means(m, c) /\ Sits(lines, m, i, from) /\ HasOnePlace(lines, m)
    /\ m # FullOf(c) => \A j \in DOMAIN lines : j = i + Len(m.old) => ~IsBlank(lines[j])
AllSecure(lines, cs, at, ps) ==
    /\ cs \in Seq(Meaning) /\ at \in Seq(Nat) /\ Len(cs) = Len(ps) /\ Len(at) = Len(ps)
    /\ \A k \in 1..Len(ps) : Secure(lines, cs[k], at[k], Behind(cs, at, k), ps[k])

\* The last of them apart.
Parted(lines, ds, bs, ps, c, cs, m, at, i) ==
    /\ ds = Append(cs, m) /\ bs = Append(at, i)
    /\ AllSecure(lines, cs, at, ps) /\ Secure(lines, m, i, EndOf(cs, at), c)

LEMMA SecureBefore ==
    ASSUME NEW lines \in Seq(PatchLine), NEW ps \in Seq(ReadChunk), NEW c \in ReadChunk, NEW ds, NEW bs,
           NEW rs, rs = Append(ps, c), AllSecure(lines, ds, bs, rs)
    PROVE  \E cs \in Seq(Meaning), m \in Meaning, at \in Seq(Nat), i \in Nat : Parted(lines, ds, bs, ps, c, cs, m, at, i)
<1> DEFINE n == Len(ps)
           qs == Append(ps, c)
<1>1. n \in Nat /\ Len(qs) = n + 1 /\ qs[n + 1] = c /\ \A k \in 1..n : qs[k] = ps[k]
  OBVIOUS
<1> HIDE DEF qs
<1>2. ds \in Seq(Meaning) /\ bs \in Seq(Nat) /\ Len(ds) = n + 1 /\ Len(bs) = n + 1
      /\ \A k \in 1..n + 1 : Secure(lines, ds[k], bs[k], Behind(ds, bs, k), qs[k])
  BY <1>1 DEF AllSecure, qs
<1> HIDE DEF n
<1>3. PICK cs \in Seq(Meaning), m \in Meaning : ds = Append(cs, m) /\ Len(cs) = n
  BY <1>1, <1>2, Rt!LastIsApart
<1>4. PICK at \in Seq(Nat), i \in Nat : bs = Append(at, i) /\ Len(at) = n
  BY <1>1, <1>2, Rt!LastIsApart
<1>5. /\ \A k \in 1..n : ds[k] = cs[k] /\ bs[k] = at[k]
      /\ ds[n + 1] = m /\ bs[n + 1] = i
      /\ \A k \in 1..n + 1 : Behind(ds, bs, k) = Behind(cs, at, k)
  <2>1. Len(at) = Len(cs)
    BY <1>3, <1>4
  <2>2. /\ \A k \in 1..Len(cs) : Append(cs, m)[k] = cs[k] /\ Append(at, i)[k] = at[k]
        /\ Append(cs, m)[Len(cs) + 1] = m /\ Append(at, i)[Len(cs) + 1] = i
        /\ \A k \in 1..Len(cs) + 1 : Behind(Append(cs, m), Append(at, i), k) = Behind(cs, at, k)
    <3>1. cs \in Seq(Meaning) /\ at \in Seq(Nat) /\ m \in Meaning /\ i \in Nat /\ Len(at) = Len(cs)
      BY <2>1
    <3> QED
      BY ONLY <3>1, BehindOfOneMore
  <2> QED
    BY <1>3, <1>4, <2>2
<1>6. AllSecure(lines, cs, at, ps)
  <2> SUFFICES ASSUME NEW k \in 1..n PROVE Secure(lines, cs[k], at[k], Behind(cs, at, k), ps[k])
    BY <1>3, <1>4 DEF AllSecure, n
  <2>1. k \in 1..n + 1
    BY <1>1
  <2> QED
    BY <1>1, <1>2, <1>5, <2>1
<1>7. Secure(lines, m, i, EndOf(cs, at), c)
  <2>1. n + 1 \in 1..n + 1
    BY <1>1
  <2>2. EndOf(cs, at) = Behind(cs, at, n + 1)
    BY <1>3 DEF EndOf
  <2> QED
    BY <1>1, <1>2, <1>5, <2>1, <2>2
<1> QED
  BY <1>3, <1>4, <1>6, <1>7 DEF Parted

\* Chunks that have one place each are applied, where they sit.
LEMMA ChunksAreApplied ==
    ASSUME NEW lines \in Seq(PatchLine)
    PROVE  \A ps \in Seq(ReadChunk) : \A cs, at : AllSecure(lines, cs, at, ps) =>
             Placed(lines, cs, at) /\ After(lines, ps) = Reached(lines, cs, at)
<1> DEFINE S == {ps \in Seq(ReadChunk) : \A cs, at : AllSecure(lines, cs, at, ps) =>
             Placed(lines, cs, at) /\ After(lines, ps) = Reached(lines, cs, at)}
<1>1. <<>> \in S
  <2>1. <<>> \in Seq(ReadChunk)
    OBVIOUS
  <2>2. ASSUME NEW cs, NEW at, AllSecure(lines, cs, at, <<>>) PROVE cs = <<>> /\ at = <<>>
    <3>1. cs \in Seq(Meaning) /\ Len(cs) = 0 /\ at \in Seq(Nat) /\ Len(at) = 0
      BY <2>2 DEF AllSecure
    <3> QED
      BY <3>1, EmptySeq
  <2>3. Placed(lines, <<>>, <<>>) /\ After(lines, <<>>) = Reached(lines, <<>>, <<>>)
    BY NoChunksSit DEF Seated
  <2> QED
    BY <2>1, <2>2, <2>3
<1>2. ASSUME NEW ps \in Seq(ReadChunk), NEW c \in ReadChunk, ps \in S PROVE Append(ps, c) \in S
  <2>1. Append(ps, c) \in Seq(ReadChunk)
    OBVIOUS
  <2> SUFFICES ASSUME NEW ds, NEW bs, AllSecure(lines, ds, bs, Append(ps, c))
               PROVE  Placed(lines, ds, bs) /\ After(lines, Append(ps, c)) = Reached(lines, ds, bs)
    BY <2>1
  <2> DEFINE rs == Append(ps, c)
  <2>20. AllSecure(lines, ds, bs, rs) /\ rs = Append(ps, c)
    OBVIOUS
  <2> HIDE DEF rs
  <2>21. PICK cs \in Seq(Meaning), m \in Meaning, at \in Seq(Nat), i \in Nat : Parted(lines, ds, bs, ps, c, cs, m, at, i)
    BY <2>20, SecureBefore
  <2>2. ds = Append(cs, m) /\ bs = Append(at, i) /\ AllSecure(lines, cs, at, ps) /\ Secure(lines, m, i, EndOf(cs, at), c)
    BY <2>21 DEF Parted
  <2>3. Placed(lines, cs, at) /\ After(lines, ps) = Reached(lines, cs, at)
    BY <1>2, <2>2
  <2>4. After(lines, Append(ps, c)) = ApplyChunk(After(lines, ps), c)
    BY AfterOneMore
  <2> DEFINE p == EndOf(cs, at)
             a == Ahead(lines, cs, at)
             n == Len(cs)
  <2>5. p \in 1..Len(lines) + 1
    <3>1. n + 1 \in 1..n + 1
      OBVIOUS
    <3> QED
      BY <2>3, <3>1, BehindIsAPlace DEF EndOf
  <2>6. a \in Seq(PatchLine)
    BY <2>3, AheadType
  <2>7. After(lines, Append(ps, c)) = ApplyChunk(StateAt(lines, a, p), c)
    BY <2>3, <2>4 DEF Reached, EndOf
  <2>8. Secure(lines, m, i, p, c)
    BY <2>2
  <2> HIDE DEF a, p
  <2>9. /\ i \in p..Len(lines) + 1 /\ Beyond(i, Len(m.old)) \in 1..Len(lines) + 1
        /\ ApplyChunk(StateAt(lines, a, p), c) = StateAt(lines, a \o (Passed(lines, p, i) \o m.new), Beyond(i, Len(m.old)))
    <3>1. /\ ~c.eof /\ Means(m, c) /\ Sits(lines, m, i, p) /\ HasOnePlace(lines, m)
          /\ m # FullOf(c) => \A j \in DOMAIN lines : j = i + Len(m.old) => ~IsBlank(lines[j])
      BY <2>8 DEF Secure
    <3> QED
      BY <2>5, <2>6, <3>1, ChunkIsApplied
  <2>10. Placed(lines, ds, bs) /\ Ahead(lines, ds, bs) = Further(a, Passed(lines, p, i), m.new)
    BY <2>2, <2>3, <2>9, OneMoreChunk DEF a, p
  <2>11. Behind(ds, bs, Len(ds) + 1) = Beyond(i, Len(m.old))
    <3>1. cs \in Seq(Meaning) /\ at \in Seq(Nat) /\ Len(at) = Len(cs)
      BY <2>3 DEF Placed
    <3>2. Behind(Append(cs, m), Append(at, i), Len(cs) + 2) = Beyond(i, Len(m.old)) /\ Len(Append(cs, m)) = Len(cs) + 1
      BY <3>1, BehindOfOneMore
    <3>3. Len(ds) + 1 = Len(cs) + 2
      BY <2>2, <3>2
    <3> QED
      BY <2>2, <3>2, <3>3
  <2>12. Reached(lines, ds, bs) = StateAt(lines, a \o (Passed(lines, p, i) \o m.new), Beyond(i, Len(m.old)))
    BY <2>10, <2>11 DEF Reached, Further
  <2> QED
    BY <2>7, <2>9, <2>10, <2>12
<1> HIDE DEF S
<1>3. \A ps \in Seq(ReadChunk) : ps \in S
  BY <1>1, <1>2, Ac!SeqSteps
<1> QED
  BY <1>3 DEF S

-----------------------------------------------------------------------------
(* The pieces of the chunks that an agent wants, and an update of them.    *)

\* The marked lines of a chunk.
LineMarks == {"+", "-", " ", ""}
Marked == [mark : LineMarks, line : PatchLine]

LEMMA LinesOfMarked ==
    ASSUME NEW tokens \in Seq(Marked), NEW mark
    PROVE  /\ LinesBut(tokens, mark) \in Seq(PatchLine)
           /\ \A t \in Marked : LinesBut(Append(tokens, t), mark)
                = IF t.mark = mark THEN LinesBut(tokens, mark) ELSE Append(LinesBut(tokens, mark), t.line)
<1> DEFINE U == Seq(PatchLine)
           L(t) == IF t.mark = mark THEN <<>> ELSE <<t.line>>
           f == [j \in DOMAIN tokens |-> L(tokens[j])]
           n == Len(tokens)
<1>1. n \in Nat /\ DOMAIN tokens = 1..n /\ \A j \in 1..n : tokens[j] \in Marked
  OBVIOUS
<1>2. \A t \in Marked : L(t) \in U
  BY DEF Marked
<1>3. f \in Seq(U) /\ Len(f) = n /\ \A j \in 1..n : f[j] = L(tokens[j])
  <2>1. f \in [1..n -> U]
    BY <1>1, <1>2
  <2>2. \A j \in 1..n : f[j] = L(tokens[j])
    BY <1>1
  <2> HIDE DEF f, U, n, L
  <2> QED
    BY <1>1, <2>1, <2>2
<1>4. LinesBut(tokens, mark) = FlattenSeq(f)
  BY DEF LinesBut
<1>5. FlattenSeq(f) \in Seq(PatchLine)
  BY <1>3, FlattenType
<1>6. ASSUME NEW t \in Marked
      PROVE  LinesBut(Append(tokens, t), mark) = FlattenSeq(f) \o L(t)
  <2> DEFINE s == Append(tokens, t)
             g == [j \in DOMAIN s |-> L(s[j])]
  <2>1. Len(s) = n + 1 /\ DOMAIN s = 1..n + 1 /\ s[n + 1] = t /\ \A j \in 1..n : s[j] = tokens[j]
    BY <1>1
  <2>2. L(t) \in U
    BY <1>2
  <2>3. LinesBut(Append(tokens, t), mark) = FlattenSeq(g)
    BY DEF LinesBut
  <2> HIDE DEF s, f, n, U
  <2>4. \A j \in 1..n + 1 : g[j] = IF j = n + 1 THEN L(t) ELSE f[j]
    <3> SUFFICES ASSUME NEW j \in 1..n + 1 PROVE g[j] = IF j = n + 1 THEN L(t) ELSE f[j]
      OBVIOUS
    <3>1. g[j] = L(s[j])
      BY <2>1
    <3>2. j # n + 1 => j \in 1..n
      BY <1>1
    <3> HIDE DEF g, L
    <3> QED
      BY <1>3, <2>1, <3>1, <3>2
  <2>5. DOMAIN g = 1..n + 1
    BY <2>1
  <2>6. g = [j \in DOMAIN g |-> g[j]]
    OBVIOUS
  <2> HIDE DEF g, L
  <2>7. g \in [1..n + 1 -> U]
    <3>1. \A j \in 1..n + 1 : j = n + 1 \/ j \in 1..n
      BY <1>1
    <3>2. \A j \in 1..n : f[j] \in U
      BY <1>1, <1>3
    <3>3. \A j \in 1..n + 1 : g[j] \in U
      BY <2>2, <2>4, <3>1, <3>2
    <3> QED
      BY <2>5, <2>6, <3>3
  <2>8. g \in Seq(U) /\ Len(g) = n + 1
    BY <1>1, <2>7
  <2> DEFINE v == L(t)
  <2> HIDE DEF v
  <2>9. v \in U /\ \A j \in 1..n + 1 : g[j] = IF j = n + 1 THEN v ELSE f[j]
    BY <2>2, <2>4 DEF v
  <2>10. Append(f, v) \in Seq(U) /\ Len(Append(f, v)) = n + 1 /\ Append(f, v)[n + 1] = v /\ \A j \in 1..n : Append(f, v)[j] = f[j]
    BY <1>1, <1>3, <2>9
  <2>11. \A j \in 1..n + 1 : g[j] = Append(f, v)[j]
    <3>1. \A j \in 1..n + 1 : j = n + 1 \/ (j # n + 1 /\ j \in 1..n)
      BY <1>1
    <3> QED
      BY <2>9, <2>10, <3>1
  <2>12. g = Append(f, v)
    BY <2>8, <2>10, <2>11, SeqEqual
  <2>13. FlattenSeq(g) = FlattenSeq(f) \o v
    BY <1>3, <2>9, <2>12, FlattenOfOneMore DEF U
  <2> QED
    BY <2>3, <2>13 DEF v
<1> DEFINE all == FlattenSeq(f)
<1>7. all \in Seq(PatchLine) /\ LinesBut(tokens, mark) = all
  BY <1>4, <1>5
<1>8. \A t \in Marked : LinesBut(Append(tokens, t), mark) = all \o L(t)
  BY <1>6
<1> HIDE DEF all, f
<1>9. \A t \in Marked : t.mark = mark => all \o L(t) = all
  BY <1>7
<1>10. \A t \in Marked : t.mark # mark => all \o L(t) = Append(all, t.line)
  BY <1>7 DEF Marked
<1> QED
  BY <1>7, <1>8, <1>9, <1>10

LEMMA NoMarkedLines == ASSUME NEW mark PROVE LinesBut(<<>>, mark) = <<>>
BY FlattenOfNothing DEF LinesBut

\* What is read of the chunk that an agent wants.
PieceOf(c) == [ctx |-> c.ctx, old |-> OldOf(c), new |-> NewOf(c), eof |-> c.eof]
PiecesOf(chunks) == [k \in DOMAIN chunks |-> PieceOf(chunks[k])]
Gap(c) == [k \in 1..c.gap |-> Token("", Blank)]
Read(c) == IF c.eof THEN c.body ELSE Body(c)

LEMMA ChunkParts ==
    ASSUME NEW c \in Chunk
    PROVE  /\ c.body \in Seq(Marked) /\ Gap(c) \in Seq(Marked) /\ Read(c) \in Seq(Marked)
           /\ Len(Gap(c)) = c.gap /\ \A j \in 1..c.gap : Gap(c)[j] = Token("", Blank)
           /\ Body(c) = c.body \o Gap(c)
           /\ OldOf(c) = LinesBut(Read(c), "+") /\ NewOf(c) = LinesBut(Read(c), "-")
<1>1. c.body \in Seq([mark : {"+", "-", " "}, line : PatchLine]) /\ c.gap \in Nat
  BY DEF Chunk
<1> DEFINE M == {"+", "-", " "}
           R == [mark : M, line : PatchLine]
<1>0. M \subseteq LineMarks /\ "" \in LineMarks
  BY DEF LineMarks
<1>2. c.body \in Seq(Marked)
  <2>1. c.body \in Seq(R)
    BY <1>1
  <2> HIDE DEF M
  <2>2. R \subseteq Marked
    BY <1>0 DEF Marked
  <2> HIDE DEF R
  <2> QED
    BY <2>1, <2>2
<1>3. Token("", Blank) \in Marked
  <2> DEFINE e == ""
  <2>1. e \in LineMarks
    BY <1>0
  <2> HIDE DEF e
  <2>2. [mark |-> e, line |-> Blank] \in Marked
    BY <2>1, BlankIsALine DEF Marked
  <2> QED
    BY <2>2 DEF Token, e
<1> DEFINE x == Token("", Blank)
           g == [k \in 1..c.gap |-> x]
<1> HIDE DEF x
<1>4. g \in Seq(Marked) /\ Len(g) = c.gap /\ \A j \in 1..c.gap : g[j] = x
  <2>1. g \in [1..c.gap -> Marked] /\ \A j \in 1..c.gap : g[j] = x
    BY <1>3 DEF x
  <2> DEFINE n == c.gap
  <2> HIDE DEF g, n
  <2>2. n \in Nat /\ g \in [1..n -> Marked] /\ \A j \in 1..n : g[j] = x
    BY <1>1, <2>1 DEF n
  <2>3. g \in Seq(Marked) /\ Len(g) = n
    BY <2>2
  <2> QED
    BY <2>2, <2>3 DEF n
<1>5. Gap(c) = g
  BY DEF Gap, x
<1> HIDE DEF g
<1>6. Body(c) = c.body \o g
  BY DEF Body, g, x
<1>7. Read(c) \in Seq(Marked)
  <2>1. c.body \o g \in Seq(Marked)
    BY <1>2, <1>4, Rt!Beside
  <2> QED
    BY <1>2, <1>6, <2>1 DEF Read
<1> QED
  BY <1>2, <1>4, <1>5, <1>6, <1>7 DEF x, OldOf, NewOf, Read

LEMMA PieceIsRead == ASSUME NEW c \in Chunk PROVE PieceOf(c) \in ReadChunk /\ FullOf(PieceOf(c)) = Full(c)
<1> DEFINE plus == "+"
           minus == "-"
<1>0. Read(c) \in Seq(Marked) /\ OldOf(c) = LinesBut(Read(c), plus) /\ NewOf(c) = LinesBut(Read(c), minus)
  BY ChunkParts
<1> HIDE DEF plus, minus
<1>1. OldOf(c) \in Seq(PatchLine) /\ NewOf(c) \in Seq(PatchLine)
  BY <1>0, LinesOfMarked
<1>2. c.ctx \in PatchLine /\ c.eof \in BOOLEAN
  BY DEF Chunk
<1> QED
  BY <1>1, <1>2 DEF PieceOf, ReadChunk, FullOf, Full

LEMMA PiecesAreRead ==
    ASSUME NEW chunks \in Seq(Chunk)
    PROVE  /\ PiecesOf(chunks) \in Seq(ReadChunk) /\ Len(PiecesOf(chunks)) = Len(chunks)
           /\ \A k \in 1..Len(chunks) : PiecesOf(chunks)[k] = PieceOf(chunks[k]) /\ chunks[k] \in Chunk
<1> DEFINE n == Len(chunks)
           f == [k \in 1..n |-> PieceOf(chunks[k])]
<1>1. n \in Nat /\ DOMAIN chunks = 1..n /\ \A k \in 1..n : chunks[k] \in Chunk
  OBVIOUS
<1>2. f \in [1..n -> ReadChunk] /\ \A k \in 1..n : f[k] = PieceOf(chunks[k])
  BY <1>1, PieceIsRead
<1>3. PiecesOf(chunks) = f
  BY <1>1 DEF PiecesOf
<1> HIDE DEF f, n
<1>4. f \in Seq(ReadChunk) /\ Len(f) = n
  BY <1>1, <1>2
<1> QED
  BY <1>1, <1>2, <1>3, <1>4 DEF n

LEMMA DeriveIs ==
    ASSUME NEW text, NEW ps
    PROVE  /\ Derive(text, ps).ok = After(text.lines, ps).ok
           /\ Derive(text, ps).text = Joined(After(text.lines, ps).lines, text.nl)
<1> DEFINE s == FoldLeft(ApplyChunk, ChunkOutset(text.lines), ps)
<1>1. s = After(text.lines, ps)
  BY DEF After, Ac!Fold, FoldLeft, Ac!FoldLeft, MapThenFoldSet, Ac!MapThenFoldSet, Max, Ac!Max
<1>2. Derive(text, ps) = [ok |-> s.ok, text |-> Joined(s.lines, text.nl)]
  BY DEF Derive, ChunkOutset
<1> HIDE DEF s
<1> QED
  BY <1>1, <1>2

LEMMA JoinedType ==
    ASSUME NEW lines \in Seq(PatchLine), NEW nl \in BOOLEAN
    PROVE  /\ Joined(lines, nl) \in Texts
           /\ lines # <<>> /\ ~EndsBlank(lines) => Joined(lines, nl) = [lines |-> lines, nl |-> nl]
<1>1. CASE Len(lines) > 1 /\ EndsBlank(lines)
  <2>0. lines \notin {<<>>, <<Blank>>}
    <3>1. \A s \in {<<>>, <<Blank>>} : ~(Len(s) > 1)
      <4>1. ~(Len(<<>>) > 1) /\ ~(Len(<<Blank>>) > 1)
        OBVIOUS
      <4> QED
        BY <4>1, Zenon
    <3> QED
      BY <1>1, <3>1, Zenon
  <2>1. Joined(lines, nl) = [lines |-> Front(lines), nl |-> TRUE]
    BY <1>1, <2>0 DEF Joined
  <2> DEFINE n == Len(lines) - 1
  <2>2. n \in Nat /\ n >= 1 /\ n <= Len(lines)
    BY <1>1
  <2> HIDE DEF n
  <2>3. SubSeq(lines, 1, n) \in Seq(PatchLine) /\ SubSeq(lines, 1, n) # <<>>
    BY <2>2
  <2>4. Front(lines) = SubSeq(lines, 1, n)
    BY DEF Front, n
  <2> DEFINE f == Front(lines)
  <2>5. f \in Seq(PatchLine) /\ f # <<>> /\ TRUE \in BOOLEAN
    BY <2>3, <2>4
  <2> HIDE DEF f
  <2>6. [lines |-> f, nl |-> TRUE] \in Texts
    BY <2>5 DEF Texts
  <2> QED
    BY <1>1, <2>1, <2>6 DEF f
<1>2. CASE ~(Len(lines) > 1 /\ EndsBlank(lines)) /\ lines \in {<<>>, <<Blank>>}
  <2>1. Joined(lines, nl) = [lines |-> IF nl THEN <<Blank>> ELSE <<>>, nl |-> nl]
    BY <1>2 DEF Joined
  <2> DEFINE f == IF nl THEN <<Blank>> ELSE <<>>
  <2>2. f \in Seq(PatchLine) /\ (nl => f # <<>>)
    BY BlankIsALine
  <2> HIDE DEF f
  <2>3. [lines |-> f, nl |-> nl] \in Texts
    BY <2>2 DEF Texts
  <2>4. lines = <<>> \/ EndsBlank(lines)
    <3>1. <<Blank>> # <<>> /\ Last(<<Blank>>) = Blank
      BY DEF Last
    <3> QED
      BY <1>2, <3>1 DEF EndsBlank
  <2> QED
    BY <2>1, <2>3, <2>4 DEF f
<1>3. CASE ~(Len(lines) > 1 /\ EndsBlank(lines)) /\ lines \notin {<<>>, <<Blank>>}
  <2>1. Joined(lines, nl) = [lines |-> lines, nl |-> nl]
    BY <1>3 DEF Joined
  <2>2. [lines |-> lines, nl |-> nl] \in Texts
    BY <1>3 DEF Texts
  <2> QED
    BY <2>1, <2>2
<1> QED
  BY <1>1, <1>2, <1>3

\* The lines as chunks leave them, in the words of PatchLandsInOrder.
LEMMA PatchedIs ==
    ASSUME NEW lines, NEW cs \in Seq(Meaning), NEW at
    PROVE  Patched(lines, cs, at) = Reached(lines, cs, at).lines
<1>1. DOMAIN cs = 1..Len(cs)
  OBVIOUS
<1> QED
  BY <1>1 DEF Patched, Reached, StateAt, Ahead, Rest, Passed

LEMMA DeriveType ==
    ASSUME NEW text \in Texts, NEW chunks \in Seq(Chunk)
    PROVE  Derive(text, PiecesOf(chunks)).text \in Texts /\ Derive(text, PiecesOf(chunks)).ok \in BOOLEAN
<1>1. text.lines \in Seq(PatchLine) /\ text.nl \in BOOLEAN
  BY DEF Texts
<1>2. After(text.lines, PiecesOf(chunks)) \in ApplyStates
  BY <1>1, PiecesAreRead, AfterType
<1> DEFINE s == After(text.lines, PiecesOf(chunks))
<1>3. s.lines \in Seq(PatchLine) /\ s.ok \in BOOLEAN
  BY <1>2 DEF ApplyStates
<1> HIDE DEF s
<1>4. Joined(s.lines, text.nl) \in Texts
  BY <1>1, <1>3, JoinedType
<1> QED
  BY <1>3, <1>4, DeriveIs DEF s

\* What is read off the pieces, and what the agent may have meant.
LEMMA MeantIs ==
    ASSUME NEW chunks \in Seq(Chunk), NEW cs \in Seq(Meaning), Len(cs) = Len(chunks)
    PROVE  (\A k \in 1..Len(chunks) : Means(cs[k], PiecesOf(chunks)[k])) <=> cs \in Meanings(chunks)
<1> DEFINE n == Len(chunks)
           ps == PiecesOf(chunks)
           E == {k \in DOMAIN chunks : EndsBlank(OldOf(chunks[k]))}
           M(short) == [k \in DOMAIN chunks |-> IF k \in short THEN Brief(Full(chunks[k])) ELSE Full(chunks[k])]
<1>1. n \in Nat /\ DOMAIN chunks = 1..n /\ DOMAIN cs = 1..n
  OBVIOUS
<1>2. ASSUME NEW k \in 1..n
      PROVE  Means(cs[k], ps[k]) <=> cs[k] = Full(chunks[k]) \/ (k \in E /\ cs[k] = Brief(Full(chunks[k])))
  <2>1. ps[k] = PieceOf(chunks[k]) /\ chunks[k] \in Chunk
    BY PiecesAreRead
  <2>2. FullOf(ps[k]) = Full(chunks[k])
    BY <2>1, PieceIsRead
  <2>3. ps[k].old = OldOf(chunks[k])
    BY <2>1 DEF PieceOf
  <2>4. k \in E <=> EndsBlank(OldOf(chunks[k]))
    BY <1>1
  <2> HIDE DEF E, ps
  <2> QED
    BY <2>2, <2>3, <2>4 DEF Means
<1>3. cs = [k \in 1..n |-> cs[k]]
  BY <1>1
<1>4. Meanings(chunks) = {M(short) : short \in SUBSET E}
  BY DEF Meanings
<1> HIDE DEF ps, E
<1>5. ASSUME \A k \in 1..n : Means(cs[k], ps[k]) PROVE cs \in Meanings(chunks)
  <2> DEFINE short == {k \in E : cs[k] # Full(chunks[k])}
  <2>1. short \in SUBSET E
    OBVIOUS
  <2>2. ASSUME NEW k \in 1..n PROVE cs[k] = IF k \in short THEN Brief(Full(chunks[k])) ELSE Full(chunks[k])
    BY <1>2, <1>5
  <2> HIDE DEF short
  <2>3. M(short) = [k \in 1..n |-> cs[k]]
    BY <1>1, <2>2
  <2> QED
    BY <1>3, <1>4, <2>1, <2>3
<1>6. ASSUME cs \in Meanings(chunks) PROVE \A k \in 1..n : Means(cs[k], ps[k])
  <2>1. PICK short \in SUBSET E : cs = M(short)
    BY <1>4, <1>6
  <2> SUFFICES ASSUME NEW k \in 1..n PROVE Means(cs[k], ps[k])
    OBVIOUS
  <2>2. cs[k] = IF k \in short THEN Brief(Full(chunks[k])) ELSE Full(chunks[k])
    BY <1>1, <2>1
  <2> QED
    BY <1>2, <2>1, <2>2
<1> QED
  BY <1>5, <1>6 DEF ps

\* An update that is applied replaces spans of the file, in order.
LEMMA UpdateLands ==
    ASSUME NEW text \in Texts, NEW chunks \in Seq(Chunk),
           \A k \in DOMAIN chunks : chunks[k].eof => k = 1 /\ chunks[k].ctx = Blank,
           Derive(text, PiecesOf(chunks)).ok
    PROVE  \E cs \in Meanings(chunks) : \E at \in Seats(text.lines, cs) :
             /\ Patched(text.lines, cs, at) \in Seq(PatchLine)
             /\ Derive(text, PiecesOf(chunks)).text = Joined(Patched(text.lines, cs, at), text.nl)
<1> DEFINE n == Len(chunks)
           ps == PiecesOf(chunks)
           lines == text.lines
<1>1. lines \in Seq(PatchLine) /\ text.nl \in BOOLEAN /\ Len(lines) \in Nat
  BY DEF Texts
<1>2. n \in Nat /\ DOMAIN chunks = 1..n
  OBVIOUS
<1>3. ps \in Seq(ReadChunk) /\ Len(ps) = n /\ \A k \in 1..n : ps[k] = PieceOf(chunks[k])
  BY PiecesAreRead
<1>4. Sober(ps)
  <2> SUFFICES ASSUME NEW k \in 1..n, ps[k].eof PROVE k = 1 /\ ps[k].ctx = Blank
    BY <1>3 DEF Sober
  <2>1. ps[k].eof = chunks[k].eof /\ ps[k].ctx = chunks[k].ctx
    <3>1. ps[k] = PieceOf(chunks[k])
      BY <1>3
    <3>2. PieceOf(chunks[k]).eof = chunks[k].eof /\ PieceOf(chunks[k]).ctx = chunks[k].ctx
      BY DEF PieceOf
    <3> HIDE DEF ps
    <3> QED
      BY <3>1, <3>2
  <2> QED
    BY <1>2, <2>1
<1>5. After(lines, ps).ok
  BY DeriveIs
<1> HIDE DEF ps, lines
<1>6. PICK cs \in Seq(Meaning), at \in Seq(Nat) : Seated(lines, cs, at, ps) /\ After(lines, ps) = Reached(lines, cs, at)
  BY <1>1, <1>3, <1>4, <1>5, ChunksLand
<1>7. Placed(lines, cs, at) /\ Len(cs) = n /\ \A k \in 1..n : Means(cs[k], ps[k]) /\ Sits(lines, cs[k], at[k], Behind(cs, at, k))
  BY <1>3, <1>6 DEF Seated
<1>8. cs \in Meanings(chunks)
  BY <1>7, MeantIs DEF ps
<1>9. at \in Seats(lines, cs)
  <2>1. Len(at) = n /\ DOMAIN cs = 1..n
    BY <1>7 DEF Placed
  <2>2. ASSUME NEW k \in 1..n PROVE at[k] \in 1..Len(lines) + 1
    <3>1. k \in 1..Len(cs) /\ k \in 1..Len(cs) + 1
      BY <1>2, <1>7
    <3>2. at[k] \in Behind(cs, at, k)..Len(lines) + 1
      BY <1>7, <3>1 DEF Placed
    <3>3. Behind(cs, at, k) \in 1..Len(lines) + 1
      BY <1>1, <1>7, <3>1, BehindIsAPlace
    <3> DEFINE b == Behind(cs, at, k)
    <3> HIDE DEF b
    <3>4. at[k] \in b..Len(lines) + 1 /\ b \in 1..Len(lines) + 1
      BY <3>2, <3>3 DEF b
    <3> QED
      BY <1>1, <3>4
  <2>3. at = [k \in 1..n |-> at[k]]
    BY <2>1
  <2>4. at \in [1..n -> 1..Len(lines) + 1]
    BY <2>2, <2>3
  <2> QED
    BY <1>7, <2>1, <2>4 DEF Seats
<1>10. After(lines, ps).lines = Patched(lines, cs, at)
  BY <1>6, PatchedIs
<1>11. After(lines, ps) \in ApplyStates
  BY <1>1, <1>3, AfterType
<1>12. Patched(lines, cs, at) \in Seq(PatchLine)
  BY <1>10, <1>11 DEF ApplyStates
<1>13. Derive(text, ps).text = Joined(Patched(lines, cs, at), text.nl)
  BY <1>10, DeriveIs DEF lines
<1> QED
  BY <1>8, <1>9, <1>12, <1>13 DEF ps, lines

\* An update whose chunks have one place each is applied.
LEMMA UpdateIsApplied ==
    ASSUME NEW text \in Texts, NEW chunks \in Seq(Chunk), \A k \in DOMAIN chunks : ~chunks[k].eof,
           NEW cs \in Meanings(chunks), Plain(text.lines, cs), NEW at \in Seats(text.lines, cs),
           LeavesNone(text.lines, chunks, cs, at)
    PROVE  Derive(text, PiecesOf(chunks)).ok
<1> DEFINE n == Len(chunks)
           ps == PiecesOf(chunks)
           lines == text.lines
<1>1. lines \in Seq(PatchLine) /\ Len(lines) \in Nat
  BY DEF Texts
<1>2. n \in Nat /\ DOMAIN chunks = 1..n
  OBVIOUS
<1>3. ps \in Seq(ReadChunk) /\ Len(ps) = n /\ \A k \in 1..n : ps[k] = PieceOf(chunks[k]) /\ chunks[k] \in Chunk
  BY PiecesAreRead
<1>4. cs \in Seq(Meaning) /\ Len(cs) = n
  <2>1. PICK short : cs = [k \in DOMAIN chunks |-> IF k \in short THEN Brief(Full(chunks[k])) ELSE Full(chunks[k])]
    BY DEF Meanings
  <2>2. ASSUME NEW k \in 1..n PROVE cs[k] \in Meaning
    <3>1. Full(chunks[k]) \in Meaning
      <4>1. PieceOf(chunks[k]) \in ReadChunk /\ FullOf(PieceOf(chunks[k])) = Full(chunks[k])
        BY <1>3, PieceIsRead
      <4> QED
        BY <4>1 DEF FullOf, Meaning, ReadChunk
    <3>2. Brief(Full(chunks[k])) \in Meaning
      <4> DEFINE m == Full(chunks[k])
      <4> HIDE DEF m
      <4>1. m.ctx \in PatchLine /\ m.old \in Seq(PatchLine) /\ m.new \in Seq(PatchLine)
        BY <3>1 DEF Meaning, m
      <4>2. Shorter(m.old) \in Seq(PatchLine) /\ Shorter(m.new) \in Seq(PatchLine)
        BY <4>1, ShorterIs
      <4>3. Brief(m) \in Meaning
        BY <4>1, <4>2 DEF Brief, Meaning
      <4> QED
        BY <4>3 DEF m
    <3>3. cs[k] = IF k \in short THEN Brief(Full(chunks[k])) ELSE Full(chunks[k])
      BY <1>2, <2>1
    <3> QED
      BY <3>1, <3>2, <3>3
  <2>3. cs = [k \in 1..n |-> cs[k]]
    BY <1>2, <2>1
  <2>4. cs \in [1..n -> Meaning]
    BY <2>2, <2>3
  <2> HIDE DEF n
  <2> QED
    BY <1>2, <2>4
<1>5. \A k \in 1..n : Means(cs[k], ps[k])
  BY <1>4, MeantIs
<1>6. at \in Seq(Nat) /\ Len(at) = n /\ \A k \in 1..n : Sits(lines, cs[k], at[k], Behind(cs, at, k))
  <2>1. DOMAIN cs = 1..n
    BY <1>4
  <2>2. at \in [1..n -> 1..Len(lines) + 1] /\ \A k \in 1..n : Sits(lines, cs[k], at[k], Behind(cs, at, k))
    BY <2>1 DEF Seats
  <2>3. at \in [1..n -> Nat]
    <3>1. 1..Len(lines) + 1 \subseteq Nat
      BY <1>1
    <3> DEFINE R == 1..Len(lines) + 1
    <3> HIDE DEF R
    <3>2. at \in [1..n -> R] /\ R \subseteq Nat
      BY <2>2, <3>1 DEF R
    <3> QED
      BY <3>2
  <2> HIDE DEF n
  <2> QED
    BY <1>2, <2>2, <2>3
<1>7. AllSecure(lines, cs, at, ps)
  <2> SUFFICES ASSUME NEW k \in 1..n PROVE Secure(lines, cs[k], at[k], Behind(cs, at, k), ps[k])
    BY <1>3, <1>4, <1>6 DEF AllSecure
  <2>1. k \in DOMAIN chunks /\ k \in DOMAIN cs
    BY <1>2, <1>4
  <2>2. ~ps[k].eof
    <3>1. ps[k] = PieceOf(chunks[k])
      BY <1>3
    <3>2. PieceOf(chunks[k]).eof = chunks[k].eof
      BY DEF PieceOf
    <3> HIDE DEF ps
    <3> QED
      BY <2>1, <3>1, <3>2
  <2>3. HasOnePlace(lines, cs[k])
    BY <2>1 DEF Plain, HasOnePlace
  <2>4. FullOf(ps[k]) = Full(chunks[k])
    BY <1>3, PieceIsRead
  <2>5. cs[k] # Full(chunks[k]) => \A i \in DOMAIN lines : i = at[k] + Len(cs[k].old) => ~IsBlank(lines[i])
    BY <2>1 DEF LeavesNone
  <2> HIDE DEF ps, lines, n
  <2> QED
    BY <1>5, <1>6, <2>2, <2>3, <2>4, <2>5 DEF Secure
<1>8. After(lines, ps) = Reached(lines, cs, at)
  BY <1>1, <1>3, <1>7, ChunksAreApplied
<1>9. After(lines, ps).ok
  BY <1>8 DEF Reached, StateAt
<1> QED
  BY <1>9, DeriveIs

-----------------------------------------------------------------------------
(* The parser of apply_patch: it is taken line by line, and what a part of *)
(* the text makes of it is where the next part finds it.                   *)

\* What reading leaves: the malformed stays so.
Comes(p, q) == p.bad \/ p = q
ReadOff(p, tokens) == Rt!Fold(p, tokens)

LEMMA BadStays == ASSUME NEW p, NEW t, p.bad PROVE ReadToken(p, t).bad
<1>1. ReadToken(p, t) = [p EXCEPT !.bad = TRUE]
  BY DEF ReadToken
<1> QED
  BY <1>1

LEMMA ReadsNone == ASSUME NEW p PROVE ReadOff(p, <<>>) = p
BY Rt!FoldOfNothing DEF ReadOff

LEMMA ReadsOneMore ==
    ASSUME NEW T, NEW p, NEW s \in Seq(T), NEW t \in T
    PROVE  ReadOff(p, Append(s, t)) = ReadToken(ReadOff(p, s), t)
BY Rt!FoldOfOneMore DEF ReadOff

LEMMA ReadsOneToken == ASSUME NEW p, NEW t PROVE ReadOff(p, <<t>>) = ReadToken(p, t)
<1> DEFINE T == {t}
           none == <<>>
<1>0. none \in Seq(T) /\ t \in T
  OBVIOUS
<1>1. Append(none, t) = <<t>>
  OBVIOUS
<1>2. ReadOff(p, none) = p
  BY ReadsNone
<1> HIDE DEF T, none
<1>3. ReadOff(p, Append(none, t)) = ReadToken(ReadOff(p, none), t)
  BY <1>0, ReadsOneMore
<1> QED
  BY <1>1, <1>2, <1>3

LEMMA ReadsInARow ==
    ASSUME NEW T, NEW p, NEW a \in Seq(T)
    PROVE  \A b \in Seq(T) : ReadOff(p, a \o b) = ReadOff(ReadOff(p, a), b)
<1> DEFINE S == {b \in Seq(T) : ReadOff(p, a \o b) = ReadOff(ReadOff(p, a), b)}
<1>1. <<>> \in S
  <2>1. <<>> \in Seq(T) /\ a \o <<>> = a
    OBVIOUS
  <2> QED
    BY <2>1, ReadsNone
<1>2. ASSUME NEW b \in Seq(T), NEW t \in T, b \in S PROVE Append(b, t) \in S
  <2>1. a \o Append(b, t) = Append(a \o b, t) /\ a \o b \in Seq(T) /\ Append(b, t) \in Seq(T)
    OBVIOUS
  <2> DEFINE c == a \o b
             q == ReadOff(p, a)
  <2>2. ReadOff(p, c) = ReadOff(q, b) /\ c \in Seq(T)
    BY <1>2, <2>1
  <2>3. a \o Append(b, t) = Append(c, t)
    BY <2>1
  <2> HIDE DEF c, q, S
  <2>4. ReadOff(p, Append(c, t)) = ReadToken(ReadOff(p, c), t) /\ ReadOff(q, Append(b, t)) = ReadToken(ReadOff(q, b), t)
    BY <2>2, ReadsOneMore
  <2> QED
    BY <2>1, <2>2, <2>3, <2>4 DEF S, q
<1> HIDE DEF S
<1>3. \A b \in Seq(T) : b \in S
  BY <1>1, <1>2, Rt!SeqSteps
<1> QED
  BY <1>3 DEF S

LEMMA BadStaysBad ==
    ASSUME NEW T, NEW p, p.bad
    PROVE  \A s \in Seq(T) : ReadOff(p, s).bad
<1> DEFINE S == {s \in Seq(T) : ReadOff(p, s).bad}
<1>1. <<>> \in S
  BY ReadsNone
<1>2. ASSUME NEW s \in Seq(T), NEW t \in T, s \in S PROVE Append(s, t) \in S
  <2>1. ReadOff(p, Append(s, t)) = ReadToken(ReadOff(p, s), t) /\ Append(s, t) \in Seq(T)
    BY ReadsOneMore
  <2>2. ReadOff(p, s).bad
    BY <1>2
  <2> QED
    BY <2>1, <2>2, BadStays
<1> HIDE DEF S
<1>3. \A s \in Seq(T) : s \in S
  BY <1>1, <1>2, Rt!SeqSteps
<1> QED
  BY <1>3 DEF S

\* One part of the text behind another.
LEMMA ThenComes ==
    ASSUME NEW T, NEW p, NEW q, NEW r, NEW a \in Seq(T), NEW b \in Seq(T), Comes(ReadOff(p, a), q), Comes(ReadOff(q, b), r)
    PROVE  Comes(ReadOff(p, a \o b), r)
<1>1. ReadOff(p, a \o b) = ReadOff(ReadOff(p, a), b)
  BY ReadsInARow
<1>2. CASE ReadOff(p, a).bad
  BY <1>1, <1>2, BadStaysBad DEF Comes
<1>3. CASE ~ReadOff(p, a).bad
  BY <1>1, <1>3 DEF Comes
<1> QED
  BY <1>2, <1>3

LEMMA ThenReads ==
    ASSUME NEW p, NEW q, NEW r, NEW t, Comes(p, q), Comes(ReadToken(q, t), r)
    PROVE  Comes(ReadToken(p, t), r)
<1>1. CASE p.bad
  BY <1>1, BadStays DEF Comes
<1>2. CASE ~p.bad
  BY <1>2 DEF Comes
<1> QED
  BY <1>1, <1>2

\* Texts that begin alike for two readings are read alike.
LEMMA TokensAlike ==
    ASSUME NEW T, NEW p, NEW q
    PROVE  \A s \in Seq(T) : s # <<>> /\ ReadToken(p, s[1]) = ReadToken(q, s[1]) => ReadOff(p, s) = ReadOff(q, s)
<1> DEFINE S == {s \in Seq(T) : s # <<>> /\ ReadToken(p, s[1]) = ReadToken(q, s[1]) => ReadOff(p, s) = ReadOff(q, s)}
<1>1. <<>> \in S
  OBVIOUS
<1>2. ASSUME NEW s \in Seq(T), NEW t \in T, s \in S PROVE Append(s, t) \in S
  <2>1. Append(s, t) \in Seq(T) /\ Append(s, t)[1] = IF s = <<>> THEN t ELSE s[1]
    OBVIOUS
  <2> DEFINE u == Append(s, t)
  <2>2. ReadOff(p, u) = ReadToken(ReadOff(p, s), t) /\ ReadOff(q, u) = ReadToken(ReadOff(q, s), t)
    BY ReadsOneMore
  <2>3. u \in Seq(T) /\ u[1] = IF s = <<>> THEN t ELSE s[1]
    BY <2>1
  <2> HIDE DEF u, S
  <2>4. ASSUME ReadToken(p, u[1]) = ReadToken(q, u[1]) PROVE ReadOff(p, u) = ReadOff(q, u)
    <3>1. CASE s = <<>>
      <4>1. ReadOff(p, s) = p /\ ReadOff(q, s) = q
        BY <3>1, ReadsNone
      <4> QED
        BY <2>2, <2>3, <2>4, <3>1, <4>1
    <3>2. CASE s # <<>>
      <4>1. ReadOff(p, s) = ReadOff(q, s)
        BY <1>2, <2>3, <2>4, <3>2 DEF S
      <4> QED
        BY <2>2, <4>1
    <3> QED
      BY <3>1, <3>2
  <2> QED
    BY <2>3, <2>4 DEF S, u
<1> HIDE DEF S
<1>3. \A s \in Seq(T) : s \in S
  BY <1>1, <1>2, Rt!SeqSteps
<1> QED
  BY <1>3 DEF S

\* A hunk as the parser builds it up.
ReadHunk == [kind : Heads, path : Paths, to : Paths, body : Seq(PatchLine), chunks : Seq(ReadChunk)]
HunkSoFar(h, to, body, cs) == [kind |-> h.kind, path |-> h.path, to |-> to, body |-> body, chunks |-> cs]
ReadModes == {"between", "add", "head", "update", "chunk"}
Within(hs, x, mode) == Parsing(Append(hs, x), mode)

LEMMA LastOfMore ==
    ASSUME NEW T, NEW s \in Seq(T), NEW x \in T, NEW v \in T
    PROVE  Last(Append(s, x)) = x /\ SetLast(Append(s, x), v) = Append(s, v) /\ Append(s, x) # <<>>
<1> DEFINE n == Len(s)
           a == Append(s, x)
           b == Append(s, v)
<1>1. n \in Nat /\ Len(a) = n + 1 /\ a[n + 1] = x /\ (\A k \in 1..n : a[k] = s[k]) /\ a \in Seq(T)
  OBVIOUS
<1>2. Len(b) = n + 1 /\ b[n + 1] = v /\ (\A k \in 1..n : b[k] = s[k]) /\ b \in Seq(T)
  OBVIOUS
<1> HIDE DEF a, b, n
<1>3. a # <<>>
  BY <1>1
<1>4. Last(a) = x
  BY <1>1 DEF Last
<1>5. SetLast(a, v) = b
  <2> DEFINE c == SetLast(a, v)
  <2>1. c = [a EXCEPT ![n + 1] = v]
    BY <1>1 DEF SetLast
  <2>2. n + 1 \in 1..Len(a) /\ DOMAIN a = 1..n + 1
    BY <1>1
  <2>3. c \in Seq(T) /\ Len(c) = n + 1 /\ c[n + 1] = v /\ \A k \in 1..n + 1 : k # n + 1 => c[k] = a[k]
    BY <1>1, <2>1, <2>2
  <2> HIDE DEF c
  <2>4. \A k \in 1..n + 1 : c[k] = b[k]
    <3>1. \A k \in 1..n + 1 : k = n + 1 \/ (k # n + 1 /\ k \in 1..n)
      BY <1>1
    <3> QED
      BY <1>1, <1>2, <2>3, <3>1
  <2>5. c = b
    BY <1>2, <2>3, <2>4, SeqEqual
  <2> QED
    BY <2>5 DEF c
<1> QED
  BY <1>3, <1>4, <1>5 DEF a, b

\* One line of a patch, where it finds the parser.
LEMMA HeaderIsRead ==
    ASSUME NEW hs, NEW mode \in ReadModes, NEW what \in Heads, NEW path
    PROVE  Comes(ReadToken(Parsing(hs, mode), Token(what, path)), Parsing(Append(hs, NewHunk(Token(what, path))), FirstMode(what)))
<1> DEFINE p == Parsing(hs, mode)
           t == Token(what, path)
<1>1. p.hunks = hs /\ p.mode = mode /\ p.bad = FALSE
  BY DEF Parsing
<1>2. t.mark = what /\ t.line = path
  BY DEF Token
<1> HIDE DEF p, t
<1>3. Seat(p, t) = "between"
  BY <1>1, <1>2 DEF Seat, ReadModes, Heads, Starred
<1>4. CASE Unfinished(p) => Seat(p, t) = p.mode
  <2>1. ReadToken(p, t) = Parsing(Append(hs, NewHunk(t)), FirstMode(what))
    BY <1>1, <1>2, <1>3, <1>4 DEF ReadToken, Vacant, Heads
  <2> QED
    BY <2>1 DEF Comes, p, t
<1>5. CASE ~(Unfinished(p) => Seat(p, t) = p.mode)
  <2>1. ReadToken(p, t) = [p EXCEPT !.bad = TRUE]
    BY <1>5 DEF ReadToken
  <2>2. [p EXCEPT !.bad = TRUE].bad
    BY DEF p, Parsing
  <2> QED
    BY <2>1, <2>2 DEF Comes, p, t
<1> QED
  BY <1>4, <1>5

LEMMA MoveIsRead ==
    ASSUME NEW hs \in Seq(ReadHunk), NEW h, NEW to, NEW new, NEW body, NEW cs,
           HunkSoFar(h, to, body, cs) \in ReadHunk, HunkSoFar(h, new, body, cs) \in ReadHunk
    PROVE  ReadToken(Within(hs, HunkSoFar(h, to, body, cs), "head"), Token("move", new)) = Within(hs, HunkSoFar(h, new, body, cs), "update")
<1> DEFINE x == HunkSoFar(h, to, body, cs)
           y == HunkSoFar(h, new, body, cs)
           p == Within(hs, x, "head")
           t == Token("move", new)
<1>2a. x \in ReadHunk /\ y \in ReadHunk
  OBVIOUS
<1>1. p.hunks = Append(hs, x) /\ p.mode = "head" /\ p.bad = FALSE
  BY DEF Within, Parsing
<1>2. t.mark = "move" /\ t.line = new
  BY DEF Token
<1>3. [x EXCEPT !.to = new] = y
  BY DEF HunkSoFar
<1>4. Last(Append(hs, x)) = x /\ SetLast(Append(hs, x), y) = Append(hs, y)
  <2> HIDE DEF x, y
  <2> QED
    BY <1>2a, LastOfMore
<1> HIDE DEF p, t, x, y
<1>5. Seat(p, t) = "head"
  BY <1>1, <1>2 DEF Seat, Heads, Starred
<1>6. ReadToken(p, t) = Parsing(SetLast(p.hunks, [Last(p.hunks) EXCEPT !.to = t.line]), "update")
  BY <1>1, <1>2, <1>5 DEF ReadToken, Vacant
<1>7. ReadToken(p, t) = Parsing(Append(hs, y), "update")
  BY <1>1, <1>2, <1>3, <1>4, <1>6
<1> QED
  BY <1>7 DEF p, t, x, y, Within

LEMMA BodyIsRead ==
    ASSUME NEW hs \in Seq(ReadHunk), NEW h, NEW to, NEW body, NEW line, NEW cs,
           HunkSoFar(h, to, body, cs) \in ReadHunk, HunkSoFar(h, to, Append(body, line), cs) \in ReadHunk
    PROVE  ReadToken(Within(hs, HunkSoFar(h, to, body, cs), "add"), Token("+", line)) = Within(hs, HunkSoFar(h, to, Append(body, line), cs), "add")
<1> DEFINE x == HunkSoFar(h, to, body, cs)
           more == Append(body, line)
           y == HunkSoFar(h, to, more, cs)
           p == Within(hs, x, "add")
           t == Token("+", line)
<1>2a. x \in ReadHunk /\ y \in ReadHunk
  OBVIOUS
<1>1. p.hunks = Append(hs, x) /\ p.mode = "add" /\ p.bad = FALSE
  BY DEF Within, Parsing
<1>2. t.mark = "+" /\ t.line = line
  BY DEF Token
<1>0. more = Append(body, line)
  OBVIOUS
<1> HIDE DEF more
<1>3. [x EXCEPT !.body = more] = y /\ x.body = body
  BY DEF HunkSoFar
<1>4. Last(Append(hs, x)) = x /\ SetLast(Append(hs, x), y) = Append(hs, y)
  <2> HIDE DEF x, y
  <2> QED
    BY <1>2a, LastOfMore
<1> HIDE DEF p, t, x, y
<1>5. Seat(p, t) = "add"
  BY <1>1, <1>2 DEF Seat, Heads, Starred
<1>6. ReadToken(p, t) = Parsing(SetLast(p.hunks, [Last(p.hunks) EXCEPT !.body = Append(@, t.line)]), "add")
  BY <1>1, <1>2, <1>5 DEF ReadToken, Unfinished
<1>7. ReadToken(p, t) = Parsing(Append(hs, y), "add")
  BY <1>0, <1>1, <1>2, <1>3, <1>4, <1>6
<1> QED
  BY <1>7 DEF p, t, x, y, Within, more

LEMMA HeadIsRead ==
    ASSUME NEW hs \in Seq(ReadHunk), NEW h, NEW to, NEW body, NEW cs, NEW mode \in {"head", "update", "chunk"}, NEW ctx,
           HunkSoFar(h, to, body, cs) \in ReadHunk, HunkSoFar(h, to, body, Append(cs, ChunkAt(ctx))) \in ReadHunk
    PROVE  Comes(ReadToken(Within(hs, HunkSoFar(h, to, body, cs), mode), Token("@@", ctx)),
                 Within(hs, HunkSoFar(h, to, body, Append(cs, ChunkAt(ctx))), "chunk"))
<1> DEFINE x == HunkSoFar(h, to, body, cs)
           ds == Append(cs, ChunkAt(ctx))
           y == HunkSoFar(h, to, body, ds)
           p == Within(hs, x, mode)
           t == Token("@@", ctx)
<1>2a. x \in ReadHunk /\ y \in ReadHunk
  OBVIOUS
<1>1. p.hunks = Append(hs, x) /\ p.mode = mode /\ p.bad = FALSE
  BY DEF Within, Parsing
<1>2. t.mark = "@@" /\ t.line = ctx
  BY DEF Token
<1> HIDE DEF ds
<1>3. [x EXCEPT !.chunks = ds] = y /\ x.chunks = cs
  BY DEF HunkSoFar
<1>4. Last(Append(hs, x)) = x /\ SetLast(Append(hs, x), y) = Append(hs, y)
  <2> HIDE DEF x, y
  <2> QED
    BY <1>2a, LastOfMore
<1> HIDE DEF p, t, x, y, ds
<1>5. Seat(p, t) \in {"head", "update"}
  BY <1>1, <1>2 DEF Seat, Heads, Starred
<1>6. CASE Unfinished(p) => Seat(p, t) = p.mode
  <2>1. ReadToken(p, t) = Parsing(SetLast(p.hunks, [Last(p.hunks) EXCEPT !.chunks = Append(Last(p.hunks).chunks, ChunkAt(t.line))]), "chunk")
    BY <1>1, <1>2, <1>5, <1>6 DEF ReadToken, Vacant
  <2>2. ReadToken(p, t) = Parsing(Append(hs, y), "chunk")
    BY <1>1, <1>2, <1>3, <1>4, <2>1 DEF ds
  <2> QED
    BY <2>2 DEF Comes, p, t, x, y, ds, Within
<1>7. CASE ~(Unfinished(p) => Seat(p, t) = p.mode)
  <2>1. ReadToken(p, t) = [p EXCEPT !.bad = TRUE]
    BY <1>7 DEF ReadToken
  <2>2. [p EXCEPT !.bad = TRUE].bad
    BY DEF p, Within, Parsing
  <2> QED
    BY <2>1, <2>2 DEF Comes, p, t, x, y, ds
<1> QED
  BY <1>6, <1>7

\* A chunk before and behind a line, at the end of the chunks cs.
OneLineMore(cs, c, t, es, ds) == es = Append(cs, c) /\ ds = Append(cs, WithLine(c, t))

LEMMA LineIsRead ==
    ASSUME NEW hs \in Seq(ReadHunk), NEW h, NEW to, NEW body, NEW cs \in Seq(ReadChunk), NEW c \in ReadChunk, NEW t \in Marked,
           NEW es, NEW ds, OneLineMore(cs, c, t, es, ds), WithLine(c, t) \in ReadChunk,
           HunkSoFar(h, to, body, es) \in ReadHunk, HunkSoFar(h, to, body, ds) \in ReadHunk
    PROVE  ReadToken(Within(hs, HunkSoFar(h, to, body, es), "chunk"), t) = Within(hs, HunkSoFar(h, to, body, ds), "chunk")
<1> DEFINE x == HunkSoFar(h, to, body, es)
           y == HunkSoFar(h, to, body, ds)
           p == Within(hs, x, "chunk")
<1>2a. x \in ReadHunk /\ y \in ReadHunk
  OBVIOUS
<1>1. p.hunks = Append(hs, x) /\ p.mode = "chunk" /\ p.bad = FALSE
  BY DEF Within, Parsing
<1>2. t.mark \in LineMarks
  BY DEF Marked
<1>3. [x EXCEPT !.chunks = ds] = y /\ x.chunks = es
  BY DEF HunkSoFar
<1>4. Last(Append(hs, x)) = x /\ SetLast(Append(hs, x), y) = Append(hs, y)
  <2> HIDE DEF x, y
  <2> QED
    BY <1>2a, LastOfMore
<1>5. Last(es) = c /\ SetLast(es, WithLine(c, t)) = ds
  BY LastOfMore DEF OneLineMore
<1> HIDE DEF p, x, y
<1>6. Seat(p, t) = "chunk"
  BY <1>1, <1>2 DEF Seat, Heads, Starred, LineMarks
<1>7. t.mark # "eof"
  BY <1>2 DEF LineMarks
<1>8. ReadToken(p, t) = Parsing(SetLast(p.hunks, [Last(p.hunks) EXCEPT !.chunks =
                           SetLast(Last(p.hunks).chunks, WithLine(Last(Last(p.hunks).chunks), t))]), "chunk")
  BY <1>1, <1>6, <1>7 DEF ReadToken
<1>9. ReadToken(p, t) = Parsing(Append(hs, y), "chunk")
  BY <1>1, <1>3, <1>4, <1>5, <1>8
<1> QED
  BY <1>9 DEF p, x, y, Within

\* What a hunk is besides its chunks.
Well(h, to, body) == h.kind \in Heads /\ h.path \in Paths /\ to \in Paths /\ body \in Seq(PatchLine)

LEMMA SoFarType ==
    ASSUME NEW h, NEW to, NEW body, Well(h, to, body), NEW cs \in Seq(ReadChunk)
    PROVE  HunkSoFar(h, to, body, cs) \in ReadHunk
BY DEF Well, HunkSoFar, ReadHunk

Ended(c) == [ctx |-> c.ctx, old |-> c.old, new |-> c.new, eof |-> TRUE]

LEMMA EofIsRead ==
    ASSUME NEW hs \in Seq(ReadHunk), NEW h, NEW to, NEW body, Well(h, to, body), NEW cs \in Seq(ReadChunk), NEW c \in ReadChunk, NEW line
    PROVE  Comes(ReadToken(Within(hs, HunkSoFar(h, to, body, Append(cs, c)), "chunk"), Token("eof", line)),
                 Within(hs, HunkSoFar(h, to, body, Append(cs, Ended(c))), "update"))
<1> DEFINE es == Append(cs, c)
           ds == Append(cs, Ended(c))
           x == HunkSoFar(h, to, body, es)
           y == HunkSoFar(h, to, body, ds)
           p == Within(hs, x, "chunk")
           t == Token("eof", line)
<1>1. Ended(c) \in ReadChunk
  BY DEF Ended, ReadChunk
<1>2. es \in Seq(ReadChunk) /\ ds \in Seq(ReadChunk)
  BY <1>1
<1>3. Last(es) = c /\ SetLast(es, Ended(c)) = ds
  BY <1>1, LastOfMore
<1> HIDE DEF es, ds
<1>4. x \in ReadHunk /\ y \in ReadHunk
  BY <1>2, SoFarType
<1>5. [x EXCEPT !.chunks = ds] = y /\ x.chunks = es
  BY DEF HunkSoFar
<1>6. p.hunks = Append(hs, x) /\ p.mode = "chunk" /\ p.bad = FALSE
  BY DEF Within, Parsing
<1>7. t.mark = "eof"
  BY DEF Token
<1> HIDE DEF x, y
<1>8. Last(Append(hs, x)) = x /\ SetLast(Append(hs, x), y) = Append(hs, y)
  BY <1>4, LastOfMore
<1> HIDE DEF p, t
<1>9. Seat(p, t) = "chunk"
  BY <1>6, <1>7 DEF Seat, Heads, Starred
<1>10. CASE ~Unfinished(p)
  <2>1. ReadToken(p, t) = Parsing(SetLast(p.hunks, [Last(p.hunks) EXCEPT !.chunks =
                            SetLast(Last(p.hunks).chunks, [Last(Last(p.hunks).chunks) EXCEPT !.eof = TRUE])]), "update")
    BY <1>6, <1>7, <1>9, <1>10 DEF ReadToken
  <2>2. ReadToken(p, t) = Parsing(Append(hs, y), "update")
    <3>1. [c EXCEPT !.eof = TRUE] = Ended(c)
      <4> DEFINE e == TRUE
                 F == BOOLEAN
      <4>1. c \in [ctx : PatchLine, old : Seq(PatchLine), new : Seq(PatchLine), eof : F]
        BY DEF ReadChunk
      <4> HIDE DEF e, F
      <4>2. [c EXCEPT !.eof = e] = [ctx |-> c.ctx, old |-> c.old, new |-> c.new, eof |-> e]
        BY <4>1
      <4> QED
        BY <4>2 DEF e, Ended
    <3> QED
      BY <1>3, <1>5, <1>6, <1>8, <2>1, <3>1
  <2> QED
    BY <2>2 DEF Comes, p, t, x, y, es, ds, Within
<1>11. CASE Unfinished(p)
  <2>1. ReadToken(p, t) = [p EXCEPT !.bad = TRUE]
    BY <1>6, <1>7, <1>9, <1>11 DEF ReadToken
  <2>2. [p EXCEPT !.bad = TRUE].bad
    BY DEF p, Within, Parsing
  <2> QED
    BY <2>1, <2>2 DEF Comes, p, t, x, y, es, ds
<1> QED
  BY <1>10, <1>11

LEMMA GapIsRead == ASSUME NEW hs PROVE ReadToken(Parsing(hs, "update"), Token("", Blank)) = Parsing(hs, "update")
<1> DEFINE p == Parsing(hs, "update")
           t == Token("", Blank)
<1>1. p.hunks = hs /\ p.mode = "update" /\ p.bad = FALSE
  BY DEF Parsing
<1>2. t.mark = ""
  BY DEF Token
<1> HIDE DEF p, t
<1>3. Seat(p, t) = "update"
  BY <1>1, <1>2 DEF Seat, Heads, Starred
<1>4. ReadToken(p, t) = Parsing(p.hunks, "update")
  BY <1>1, <1>2, <1>3 DEF ReadToken, Vacant
<1> QED
  BY <1>1, <1>4 DEF p, t

LEMMA LineTypes ==
    ASSUME NEW c \in ReadChunk, NEW t \in Marked
    PROVE  WithLine(c, t) \in ReadChunk
<1>1. c.ctx \in PatchLine /\ c.old \in Seq(PatchLine) /\ c.new \in Seq(PatchLine) /\ c.eof \in BOOLEAN /\ t.line \in PatchLine
  BY DEF ReadChunk, Marked
<1> DEFINE old == IF t.mark = "+" THEN c.old ELSE Append(c.old, t.line)
           new == IF t.mark = "-" THEN c.new ELSE Append(c.new, t.line)
<1>2. old \in Seq(PatchLine) /\ new \in Seq(PatchLine)
  BY <1>1
<1>3. WithLine(c, t) = [ctx |-> c.ctx, old |-> old, new |-> new, eof |-> c.eof]
  BY DEF WithLine
<1> HIDE DEF old, new
<1> QED
  BY <1>1, <1>2, <1>3 DEF ReadChunk

LEMMA NewChunkType == ASSUME NEW ctx \in PatchLine PROVE ChunkAt(ctx) \in ReadChunk
BY DEF ChunkAt, ReadChunk

LEMMA OnlyOne == ASSUME NEW T, NEW v \in T PROVE <<v>> = Append(<<>>, v) /\ <<v>> \in Seq(T) /\ <<>> \in Seq(T)
OBVIOUS

LEMMA LineRead ==
    ASSUME NEW hs \in Seq(ReadHunk), NEW h, NEW to, NEW body, Well(h, to, body), NEW cs \in Seq(ReadChunk), NEW c \in ReadChunk, NEW t \in Marked,
           NEW es, NEW ds, OneLineMore(cs, c, t, es, ds)
    PROVE  ReadToken(Within(hs, HunkSoFar(h, to, body, es), "chunk"), t) = Within(hs, HunkSoFar(h, to, body, ds), "chunk")
<1>1. WithLine(c, t) \in ReadChunk
  BY LineTypes
<1>2. es \in Seq(ReadChunk) /\ ds \in Seq(ReadChunk)
  BY <1>1 DEF OneLineMore
<1>3. HunkSoFar(h, to, body, es) \in ReadHunk /\ HunkSoFar(h, to, body, ds) \in ReadHunk
  BY <1>2, SoFarType
<1> QED
  BY <1>1, <1>3, LineIsRead

LEMMA OtherChunks ==
    ASSUME NEW h, NEW to, NEW body, NEW cs, NEW ds
    PROVE  /\ [HunkSoFar(h, to, body, cs) EXCEPT !.chunks = ds] = HunkSoFar(h, to, body, ds)
           /\ HunkSoFar(h, to, body, cs).chunks = cs
BY DEF HunkSoFar

\* A chunk without a head begins where its first line is.
Begins(bs, us) == bs = <<>> /\ us = <<ChunkAt(Blank)>>
Begun(bs, c0, t, us, vs) ==
    /\ bs = <<>> /\ c0 = ChunkAt(Blank) /\ vs = <<WithLine(c0, t)>>
    /\ OneLineMore(bs, c0, t, us, vs)

LEMMA FirstLineIsRead ==
    ASSUME NEW hs \in Seq(ReadHunk), NEW h, NEW to, NEW body, Well(h, to, body), NEW mode \in {"head", "update"},
           NEW t \in Marked, ~Vacant(t), NEW bs \in Seq(ReadChunk), NEW us, NEW vs \in Seq(ReadChunk),
           NEW c0 \in ReadChunk, Begun(bs, c0, t, us, vs)
    PROVE  ReadToken(Within(hs, HunkSoFar(h, to, body, bs), mode), t)
             = ReadToken(Within(hs, HunkSoFar(h, to, body, us), "chunk"), t)
<1> DEFINE x == HunkSoFar(h, to, body, bs)
           y == HunkSoFar(h, to, body, vs)
           p == Within(hs, x, mode)
<1>3. x \in ReadHunk /\ y \in ReadHunk
  BY SoFarType
<1>4. [x EXCEPT !.chunks = vs] = y /\ x.chunks = bs
  BY DEF HunkSoFar
<1>5. p.hunks = Append(hs, x) /\ p.mode = mode /\ p.bad = FALSE
  BY DEF Within, Parsing
<1>6. t.mark \in {"+", "-", " "}
  BY DEF Marked, LineMarks, Vacant
<1> HIDE DEF x, y
<1>7. Last(Append(hs, x)) = x /\ SetLast(Append(hs, x), y) = Append(hs, y)
  BY <1>3, LastOfMore
<1> HIDE DEF p
<1>8. Seat(p, t) = mode
  BY <1>5, <1>6 DEF Seat, Heads, Starred
<1>9. ReadToken(p, t) = Parsing(SetLast(p.hunks, [Last(p.hunks) EXCEPT !.chunks = <<WithLine(ChunkAt(Blank), t)>>]), "chunk")
  <2>1. Last(p.hunks).chunks = <<>>
    BY <1>4, <1>5, <1>7 DEF Begun
  <2>2. ~p.bad /\ (Unfinished(p) => Seat(p, t) = p.mode) /\ Seat(p, t) \in {"head", "update"}
    BY <1>5, <1>8
  <2> QED
    BY <1>6, <2>1, <2>2 DEF ReadToken
<1>10. ReadToken(p, t) = Parsing(Append(hs, y), "chunk")
  <2>1. <<WithLine(ChunkAt(Blank), t)>> = vs
    BY DEF Begun
  <2> QED
    BY <1>4, <1>5, <1>7, <1>9, <2>1
<1>11. ReadToken(Within(hs, HunkSoFar(h, to, body, us), "chunk"), t) = Within(hs, y, "chunk")
  <2>1. OneLineMore(bs, c0, t, us, vs)
    BY DEF Begun
  <2>2. ReadToken(Within(hs, HunkSoFar(h, to, body, us), "chunk"), t) = Within(hs, HunkSoFar(h, to, body, vs), "chunk")
    BY <2>1, LineRead
  <2> QED
    BY <2>2 DEF y
<1> QED
  BY <1>10, <1>11 DEF p, x, Within

LEMMA HeadlessIsRead ==
    ASSUME NEW hs \in Seq(ReadHunk), NEW h, NEW to, NEW body, Well(h, to, body), NEW mode \in {"head", "update"},
           NEW t \in Marked, ~Vacant(t), NEW bs, NEW us, Begins(bs, us)
    PROVE  ReadToken(Within(hs, HunkSoFar(h, to, body, bs), mode), t)
             = ReadToken(Within(hs, HunkSoFar(h, to, body, us), "chunk"), t)
<1> DEFINE first == ChunkAt(Blank)
           d == WithLine(first, t)
           rest == <<d>>
<1>1. first \in ReadChunk /\ d \in ReadChunk
  BY BlankIsALine, NewChunkType, LineTypes
<1>2. rest = Append(bs, d) /\ rest \in Seq(ReadChunk) /\ bs \in Seq(ReadChunk)
  <2> HIDE DEF d
  <2> QED
    BY <1>1, OnlyOne DEF Begins
<1>3. us = Append(bs, first)
  <2> HIDE DEF first
  <2>1. us = <<first>>
    BY DEF first, Begins
  <2> QED
    BY <1>1, <2>1, OnlyOne DEF Begins
<1>4. Begun(bs, first, t, us, rest)
  <2>1. bs = <<>>
    BY DEF Begins
  <2>2. OneLineMore(bs, first, t, us, rest)
    BY <1>2, <1>3 DEF OneLineMore
  <2> QED
    BY <2>1, <2>2 DEF Begun
<1> HIDE DEF first, d, rest
<1>5. first \in ReadChunk /\ rest \in Seq(ReadChunk) /\ bs \in Seq(ReadChunk)
  BY <1>1, <1>2
<1> QED
  BY <1>4, <1>5, FirstLineIsRead

\* A chunk with its first lines read.
Filled(ctx, s) == [ctx |-> ctx, old |-> LinesBut(s, "+"), new |-> LinesBut(s, "-"), eof |-> FALSE]
Filling(cs, ctx, s) == Append(cs, Filled(ctx, s))

LEMMA FilledType == ASSUME NEW ctx \in PatchLine, NEW s \in Seq(Marked) PROVE Filled(ctx, s) \in ReadChunk
<1> DEFINE old == LinesBut(s, "+")
           new == LinesBut(s, "-")
<1>1. old \in Seq(PatchLine) /\ new \in Seq(PatchLine)
  <2> DEFINE plus == "+"
             minus == "-"
  <2> HIDE DEF plus, minus
  <2>1. LinesBut(s, plus) \in Seq(PatchLine) /\ LinesBut(s, minus) \in Seq(PatchLine)
    BY LinesOfMarked
  <2> QED
    BY <2>1 DEF plus, minus
<1>2. Filled(ctx, s) = [ctx |-> ctx, old |-> old, new |-> new, eof |-> FALSE]
  BY DEF Filled
<1> HIDE DEF old, new
<1> QED
  BY <1>1, <1>2 DEF ReadChunk

LEMMA FilledOneMore ==
    ASSUME NEW ctx \in PatchLine, NEW s \in Seq(Marked), NEW t \in Marked
    PROVE  WithLine(Filled(ctx, s), t) = Filled(ctx, Append(s, t))
<1> DEFINE old == LinesBut(s, "+")
           new == LinesBut(s, "-")
           more == Append(s, t)
<1>1. /\ LinesBut(more, "+") = IF t.mark = "+" THEN old ELSE Append(old, t.line)
      /\ LinesBut(more, "-") = IF t.mark = "-" THEN new ELSE Append(new, t.line)
  <2> DEFINE plus == "+"
             minus == "-"
  <2> HIDE DEF plus, minus
  <2>1. /\ LinesBut(more, plus) = IF t.mark = plus THEN LinesBut(s, plus) ELSE Append(LinesBut(s, plus), t.line)
        /\ LinesBut(more, minus) = IF t.mark = minus THEN LinesBut(s, minus) ELSE Append(LinesBut(s, minus), t.line)
    BY LinesOfMarked
  <2> QED
    BY <2>1 DEF plus, minus
<1>2. Filled(ctx, s) = [ctx |-> ctx, old |-> old, new |-> new, eof |-> FALSE]
  BY DEF Filled
<1>3. Filled(ctx, more) = [ctx |-> ctx, old |-> LinesBut(more, "+"), new |-> LinesBut(more, "-"), eof |-> FALSE]
  BY DEF Filled
<1> HIDE DEF old, new, more
<1>4. WithLine(Filled(ctx, s), t) = [ctx |-> ctx, old |-> IF t.mark = "+" THEN old ELSE Append(old, t.line),
                                     new |-> IF t.mark = "-" THEN new ELSE Append(new, t.line), eof |-> FALSE]
  BY <1>2 DEF WithLine
<1>5. WithLine(Filled(ctx, s), t) = Filled(ctx, more)
  BY <1>1, <1>3, <1>4
<1> QED
  BY <1>5 DEF more

LEMMA LinesAreRead ==
    ASSUME NEW hs \in Seq(ReadHunk), NEW h, NEW to, NEW body, Well(h, to, body), NEW cs \in Seq(ReadChunk), NEW ctx \in PatchLine
    PROVE  \A s \in Seq(Marked) : ReadOff(Within(hs, HunkSoFar(h, to, body, Append(cs, ChunkAt(ctx))), "chunk"), s)
                                    = Within(hs, HunkSoFar(h, to, body, Filling(cs, ctx, s)), "chunk")
<1> DEFINE W0(ds) == Within(hs, HunkSoFar(h, to, body, ds), "chunk")
           p == W0(Append(cs, ChunkAt(ctx)))
           S == {s \in Seq(Marked) : ReadOff(p, s) = W0(Filling(cs, ctx, s))}
<1>1. <<>> \in S
  <2>1. LinesBut(<<>>, "+") = <<>> /\ LinesBut(<<>>, "-") = <<>>
    <3> DEFINE plus == "+"
               minus == "-"
    <3> HIDE DEF plus, minus
    <3>1. LinesBut(<<>>, plus) = <<>> /\ LinesBut(<<>>, minus) = <<>>
      BY NoMarkedLines
    <3> QED
      BY <3>1 DEF plus, minus
  <2>2. Filled(ctx, <<>>) = ChunkAt(ctx)
    BY <2>1 DEF Filled, ChunkAt
  <2>3. W0(Filling(cs, ctx, <<>>)) = p
    BY <2>2 DEF Filling
  <2>4. ReadOff(p, <<>>) = p
    BY ReadsNone
  <2> QED
    BY <2>3, <2>4
<1>2. ASSUME NEW s \in Seq(Marked), NEW t \in Marked, s \in S PROVE Append(s, t) \in S
  <2> DEFINE more == Append(s, t)
             es == Filling(cs, ctx, s)
             ds == Filling(cs, ctx, more)
             c == Filled(ctx, s)
  <2>1. ReadOff(p, s) = W0(es)
    BY <1>2
  <2>2. more \in Seq(Marked) /\ ReadOff(p, more) = ReadToken(ReadOff(p, s), t)
    BY ReadsOneMore
  <2>3. c \in ReadChunk
    BY FilledType
  <2>4. OneLineMore(cs, c, t, es, ds)
    BY FilledOneMore DEF OneLineMore, Filling
  <2> HIDE DEF es, ds, c, more, p, S
  <2>5. ReadToken(W0(es), t) = W0(ds)
    BY <2>3, <2>4, LineRead
  <2>6. ReadOff(p, more) = W0(ds)
    BY <2>1, <2>2, <2>5
  <2> QED
    BY <2>2, <2>6 DEF S, ds, more
<1> HIDE DEF S
<1>3. \A s \in Seq(Marked) : s \in S
  BY <1>1, <1>2, Rt!SeqSteps
<1> QED
  BY <1>3 DEF S

LEMMA GapsAreRead ==
    ASSUME NEW hs
    PROVE  \A s \in Seq({Token("", Blank)}) : ReadOff(Parsing(hs, "update"), s) = Parsing(hs, "update")
<1> DEFINE g == Token("", Blank)
           p == Parsing(hs, "update")
           T == {g}
           S == {s \in Seq(T) : ReadOff(p, s) = p}
<1>1. <<>> \in S
  BY ReadsNone
<1>0. ReadToken(p, g) = p
  BY GapIsRead
<1>2. ASSUME NEW s \in Seq(T), NEW t \in T, s \in S PROVE Append(s, t) \in S
  <2>1. t = g /\ ReadOff(p, s) = p
    BY <1>2
  <2> HIDE DEF g, p, T
  <2>2. Append(s, t) \in Seq(T) /\ ReadOff(p, Append(s, t)) = ReadToken(ReadOff(p, s), t)
    BY ReadsOneMore
  <2> QED
    BY <1>0, <2>1, <2>2
<1> HIDE DEF S, T
<1>3. \A s \in Seq(T) : s \in S
  BY <1>1, <1>2, Rt!SeqSteps
<1> QED
  BY <1>3 DEF S, T

LEMMA GapOfBlanks == ASSUME NEW c \in Chunk PROVE Gap(c) \in Seq({Token("", Blank)})
<1> DEFINE g == Token("", Blank)
           T == {g}
           n == c.gap
<1>1. n \in Nat
  BY DEF Chunk
<1>2. Gap(c) = [k \in 1..n |-> g]
  BY DEF Gap
<1> HIDE DEF g, n
<1>3. [k \in 1..n |-> g] \in [1..n -> T]
  OBVIOUS
<1> HIDE DEF T
<1> DEFINE f == [k \in 1..n |-> g]
<1> HIDE DEF f
<1>4. f \in Seq(T)
  BY <1>1, <1>3 DEF f
<1> QED
  BY <1>2, <1>4 DEF f, T, g

\* The lines of a patch.
AllMarks == LineMarks \cup Starred \cup {"@@"}
Tokens == [mark : AllMarks, line : PatchLine \cup Paths]

LEMMA TokenTypes ==
    /\ \A mark \in AllMarks, line \in PatchLine \cup Paths : Token(mark, line) \in Tokens
    /\ Seq(Marked) \subseteq Seq(Tokens)
    /\ Blank \in PatchLine
<1>1. \A mark \in AllMarks, line \in PatchLine \cup Paths : Token(mark, line) \in Tokens
  BY DEF Token, Tokens
<1>2. Marked \subseteq Tokens
  BY DEF Marked, Tokens, AllMarks
<1>3. \A A : \A B : A \subseteq B => Seq(A) \subseteq Seq(B)
  OBVIOUS
<1> QED
  BY <1>1, <1>2, <1>3, BlankIsALine

LEMMA OneToken == ASSUME NEW t \in Tokens PROVE <<t>> \in Seq(Tokens) /\ <<>> \in Seq(Tokens)
OBVIOUS

Top(c) == IF c.head THEN <<Token("@@", c.ctx)>> ELSE <<>>
Foot(c) == IF c.eof THEN <<Token("eof", Blank)>> ELSE <<>>

LEMMA TextOfChunk ==
    ASSUME NEW c \in Chunk
    PROVE  /\ ChunkText(c) = ((Top(c) \o c.body) \o Foot(c)) \o Gap(c)
           /\ Top(c) \in Seq(Tokens) /\ c.body \in Seq(Tokens) /\ Foot(c) \in Seq(Tokens) /\ Gap(c) \in Seq(Tokens)
           /\ Top(c) \o c.body \in Seq(Tokens) /\ (Top(c) \o c.body) \o Foot(c) \in Seq(Tokens)
           /\ ChunkText(c) \in Seq(Tokens)
<1>1. ChunkText(c) = ((Top(c) \o c.body) \o Foot(c)) \o Gap(c)
  BY DEF ChunkText, Top, Foot, Gap
<1>2. c.body \in Seq(Tokens) /\ Gap(c) \in Seq(Tokens)
  BY ChunkParts, TokenTypes
<1>3. c.ctx \in PatchLine
  BY DEF Chunk
<1> DEFINE at == "@@"
           eof == "eof"
<1>4. at \in AllMarks /\ eof \in AllMarks
  BY DEF AllMarks, Starred
<1> HIDE DEF at, eof
<1>5. Token(at, c.ctx) \in Tokens /\ Token(eof, Blank) \in Tokens
  BY <1>3, <1>4, TokenTypes
<1>6. Top(c) \in Seq(Tokens) /\ Foot(c) \in Seq(Tokens)
  BY <1>5, OneToken DEF Top, Foot, at, eof
<1>7. Top(c) \o c.body \in Seq(Tokens)
  BY <1>2, <1>6, Rt!Beside
<1>8. (Top(c) \o c.body) \o Foot(c) \in Seq(Tokens)
  BY <1>6, <1>7, Rt!Beside
<1>9. ((Top(c) \o c.body) \o Foot(c)) \o Gap(c) \in Seq(Tokens)
  BY <1>2, <1>8, Rt!Beside
<1> QED
  BY <1>1, <1>2, <1>6, <1>7, <1>8, <1>9

\* Where a chunk may begin: with its head, or as the first of its hunk.
MayBegin(c, cs, mode) == c.head \/ (cs = <<>> /\ mode \in {"head", "update"} /\ MayOpen(c))

LEMMA BodyOfChunkIsRead ==
    ASSUME NEW hs \in Seq(ReadHunk), NEW h, NEW to, NEW body, Well(h, to, body), NEW cs \in Seq(ReadChunk),
           NEW mode \in {"head", "update", "chunk"}, NEW c \in Chunk, MayBegin(c, cs, mode)
    PROVE  Comes(ReadOff(Within(hs, HunkSoFar(h, to, body, cs), mode), Top(c) \o c.body),
                 Within(hs, HunkSoFar(h, to, body, Filling(cs, c.ctx, c.body)), "chunk"))
<1> DEFINE p == Within(hs, HunkSoFar(h, to, body, cs), mode)
           us == Append(cs, ChunkAt(c.ctx))
           q == Within(hs, HunkSoFar(h, to, body, us), "chunk")
           r == Within(hs, HunkSoFar(h, to, body, Filling(cs, c.ctx, c.body)), "chunk")
<1>1. c.ctx \in PatchLine /\ c.body \in Seq(Marked) /\ c.head \in BOOLEAN
  BY ChunkParts DEF Chunk
<1>2. ReadOff(q, c.body) = r
  BY <1>1, LinesAreRead
<1>3. us \in Seq(ReadChunk)
  BY <1>1, NewChunkType
<1>4. HunkSoFar(h, to, body, cs) \in ReadHunk /\ HunkSoFar(h, to, body, us) \in ReadHunk
  BY <1>3, SoFarType
<1>5. Top(c) \in Seq(Tokens) /\ c.body \in Seq(Tokens)
  BY TextOfChunk
<1>6. CASE c.head
  <2>1. Comes(ReadToken(p, Token("@@", c.ctx)), q)
    BY <1>4, HeadIsRead
  <2>2. Top(c) = <<Token("@@", c.ctx)>>
    BY <1>6 DEF Top
  <2> HIDE DEF p, q, r
  <2>3. ReadOff(p, Top(c)) = ReadToken(p, Token("@@", c.ctx))
    BY <2>2, ReadsOneToken
  <2>4. Comes(ReadOff(p, Top(c)), q)
    BY <2>1, <2>3
  <2>5. Comes(ReadOff(q, c.body), r)
    BY <1>2 DEF Comes
  <2>6. Comes(ReadOff(p, Top(c) \o c.body), r)
    BY <1>5, <2>4, <2>5, ThenComes
  <2> QED
    BY <2>6 DEF p, r
<1>7. CASE ~c.head
  <2>1. cs = <<>> /\ mode \in {"head", "update"} /\ c.ctx = Blank /\ c.body # <<>> /\ ~Vacant(c.body[1])
    BY <1>7 DEF MayBegin, MayOpen
  <2>2. c.body[1] \in Marked
    BY <1>1, <2>1
  <2>3. Begins(cs, us)
    <3> DEFINE v == ChunkAt(Blank)
    <3>1. us = Append(cs, v)
      BY <2>1
    <3>2. v \in ReadChunk
      BY NewChunkType, BlankIsALine
    <3> HIDE DEF v, us
    <3>3. us = <<v>>
      BY <2>1, <3>1, <3>2, OnlyOne
    <3> QED
      BY <2>1, <3>3 DEF Begins, v
  <2>4. ReadToken(p, c.body[1]) = ReadToken(q, c.body[1])
    <3> DEFINE t == c.body[1]
    <3>1. t \in Marked /\ ~Vacant(t) /\ mode \in {"head", "update"}
      BY <2>1, <2>2
    <3> HIDE DEF t, us
    <3>2. ReadToken(p, t) = ReadToken(q, t)
      BY <2>3, <3>1, HeadlessIsRead
    <3> QED
      BY <3>2 DEF t
  <2> HIDE DEF p, q, r
  <2>5. ReadOff(p, c.body) = ReadOff(q, c.body)
    BY <1>1, <2>1, <2>4, TokensAlike
  <2>6. Top(c) \o c.body = c.body
    <3>1. Top(c) = <<>>
      BY <1>7 DEF Top
    <3> QED
      BY <1>1, <3>1
  <2>7. Comes(ReadOff(p, Top(c) \o c.body), r)
    BY <1>2, <2>5, <2>6 DEF Comes
  <2> QED
    BY <2>7 DEF p, r
<1> QED
  BY <1>6, <1>7

LEMMA PieceIsFilled ==
    ASSUME NEW c \in Chunk
    PROVE  /\ c.eof => Ended(Filled(c.ctx, c.body)) = PieceOf(c)
           /\ ~c.eof => Filled(c.ctx, c.body \o Gap(c)) = PieceOf(c)
<1>1. c.eof \in BOOLEAN /\ Body(c) = c.body \o Gap(c)
  BY ChunkParts DEF Chunk
<1>2. ASSUME c.eof PROVE Ended(Filled(c.ctx, c.body)) = PieceOf(c)
  <2> DEFINE old == LinesBut(c.body, "+")
             new == LinesBut(c.body, "-")
             v == Filled(c.ctx, c.body)
  <2>1. OldOf(c) = old /\ NewOf(c) = new
    BY <1>2 DEF OldOf, NewOf
  <2>2. v = [ctx |-> c.ctx, old |-> old, new |-> new, eof |-> FALSE]
    BY DEF Filled
  <2>3. c.eof = TRUE
    BY <1>1, <1>2
  <2> HIDE DEF old, new, v
  <2>4. Ended(v) = [ctx |-> c.ctx, old |-> old, new |-> new, eof |-> TRUE]
    BY <2>2 DEF Ended
  <2>5. PieceOf(c) = [ctx |-> c.ctx, old |-> old, new |-> new, eof |-> TRUE]
    BY <2>1, <2>3 DEF PieceOf
  <2> QED
    BY <2>4, <2>5 DEF v
<1>3. ASSUME ~c.eof PROVE Filled(c.ctx, c.body \o Gap(c)) = PieceOf(c)
  <2> DEFINE all == c.body \o Gap(c)
             old == LinesBut(all, "+")
             new == LinesBut(all, "-")
  <2>1. OldOf(c) = old /\ NewOf(c) = new
    BY <1>1, <1>3 DEF OldOf, NewOf
  <2>2. Filled(c.ctx, all) = [ctx |-> c.ctx, old |-> old, new |-> new, eof |-> FALSE]
    BY DEF Filled
  <2>3. c.eof = FALSE
    BY <1>1, <1>3
  <2> HIDE DEF old, new, all
  <2>4. PieceOf(c) = [ctx |-> c.ctx, old |-> old, new |-> new, eof |-> FALSE]
    BY <2>1, <2>3 DEF PieceOf
  <2> QED
    BY <2>2, <2>4 DEF all
<1> QED
  BY <1>2, <1>3

LEMMA ChunkIsRead ==
    ASSUME NEW hs \in Seq(ReadHunk), NEW h, NEW to, NEW body, Well(h, to, body), NEW cs \in Seq(ReadChunk),
           NEW mode \in {"head", "update", "chunk"}, NEW c \in Chunk, MayBegin(c, cs, mode)
    PROVE  \E m \in {"update", "chunk"} :
             Comes(ReadOff(Within(hs, HunkSoFar(h, to, body, cs), mode), ChunkText(c)),
                   Within(hs, HunkSoFar(h, to, body, Append(cs, PieceOf(c))), m))
<1> DEFINE p == Within(hs, HunkSoFar(h, to, body, cs), mode)
           q == Within(hs, HunkSoFar(h, to, body, Filling(cs, c.ctx, c.body)), "chunk")
           ds == Append(cs, PieceOf(c))
           r(m) == Within(hs, HunkSoFar(h, to, body, ds), m)
           a == Top(c) \o c.body
           b == a \o Foot(c)
<1>1. Comes(ReadOff(p, a), q)
  BY BodyOfChunkIsRead
<1>2. c.ctx \in PatchLine /\ c.body \in Seq(Marked) /\ c.eof \in BOOLEAN
  BY ChunkParts DEF Chunk
<1>3. ChunkText(c) = b \o Gap(c) /\ a \in Seq(Tokens) /\ b \in Seq(Tokens) /\ Foot(c) \in Seq(Tokens) /\ Gap(c) \in Seq(Tokens)
  BY TextOfChunk
<1>4. CASE c.eof
  <2> DEFINE v == Filled(c.ctx, c.body)
  <2>1. v \in ReadChunk
    BY <1>2, FilledType
  <2>2. Ended(v) = PieceOf(c)
    BY <1>4, PieceIsFilled
  <2>3. q = Within(hs, HunkSoFar(h, to, body, Append(cs, v)), "chunk")
    BY DEF Filling
  <2> HIDE DEF v
  <2>4. Comes(ReadToken(q, Token("eof", Blank)), Within(hs, HunkSoFar(h, to, body, Append(cs, Ended(v))), "update"))
    BY <2>1, <2>3, EofIsRead
  <2>5. Comes(ReadToken(q, Token("eof", Blank)), r("update"))
    BY <2>2, <2>4
  <2> DEFINE last == r("update")
  <2>6. ReadOff(last, Gap(c)) = last
    <3> DEFINE gs == Append(hs, HunkSoFar(h, to, body, ds))
    <3>1. last = Parsing(gs, "update")
      BY DEF Within
    <3> HIDE DEF gs, last
    <3>2. ReadOff(Parsing(gs, "update"), Gap(c)) = Parsing(gs, "update")
      BY GapOfBlanks, GapsAreRead
    <3> QED
      BY <3>1, <3>2
  <2>7. Foot(c) = <<Token("eof", Blank)>>
    BY <1>4 DEF Foot
  <2>8. Comes(ReadToken(q, Token("eof", Blank)), last)
    BY <2>5
  <2> HIDE DEF p, q, a, b, last
  <2>9. Comes(ReadOff(q, Foot(c)), last)
    BY <2>7, <2>8, ReadsOneToken
  <2>10. Comes(ReadOff(p, a \o Foot(c)), last)
    BY <1>1, <1>3, <2>9, ThenComes
  <2>11. Comes(ReadOff(p, b), last)
    BY <2>10 DEF b
  <2>12. Comes(ReadOff(last, Gap(c)), last)
    BY <2>6 DEF Comes
  <2>13. Comes(ReadOff(p, b \o Gap(c)), last)
    BY <1>3, <2>11, <2>12, ThenComes
  <2> QED
    BY <1>3, <2>13 DEF p, last
<1>5. CASE ~c.eof
  <2> DEFINE us == Append(cs, ChunkAt(c.ctx))
             o == Within(hs, HunkSoFar(h, to, body, us), "chunk")
             last == r("chunk")
             all == c.body \o Gap(c)
  <2>1. Gap(c) \in Seq(Marked) /\ all \in Seq(Marked)
    <3>1. Gap(c) \in Seq(Marked)
      BY ChunkParts
    <3> QED
      BY <1>2, <3>1, Rt!Beside
  <2>2. Filled(c.ctx, all) = PieceOf(c)
    BY <1>5, PieceIsFilled
  <2>3. Filling(cs, c.ctx, all) = ds
    BY <2>2 DEF Filling
  <2> HIDE DEF all
  <2>4. ReadOff(o, all) = Within(hs, HunkSoFar(h, to, body, Filling(cs, c.ctx, all)), "chunk")
    BY <1>2, <2>1, LinesAreRead
  <2>5. ReadOff(o, all) = last
    BY <2>3, <2>4
  <2>6. ReadOff(o, c.body) = q
    BY <1>2, LinesAreRead
  <2> HIDE DEF o, last, q, p, a, b
  <2>7. ReadOff(o, c.body \o Gap(c)) = ReadOff(ReadOff(o, c.body), Gap(c))
    BY <1>2, <2>1, ReadsInARow
  <2>8. ReadOff(q, Gap(c)) = last
    BY <2>5, <2>6, <2>7 DEF all
  <2>9. b = a
    <3>1. Foot(c) = <<>>
      BY <1>5 DEF Foot
    <3>2. \A z \in Seq(Tokens) : z \o <<>> = z
      OBVIOUS
    <3>3. a \o <<>> = a
      BY <1>3, <3>2
    <3> QED
      BY <3>1, <3>3 DEF b
  <2>10. Comes(ReadOff(q, Gap(c)), last)
    BY <2>8 DEF Comes
  <2>11. Comes(ReadOff(p, a \o Gap(c)), last)
    BY <1>1, <1>3, <2>10, ThenComes
  <2> QED
    BY <1>3, <2>9, <2>11 DEF p, last
<1> QED
  BY <1>2, <1>4, <1>5

\* A sequence, element by element.
Mapped(F, s) == [k \in DOMAIN s |-> F[s[k]]]

Takes(F, A, U) == F \in [A -> U]
IsMapped(F, s, U, f) == f \in Seq(U) /\ Len(f) = Len(s) /\ \A k \in 1..Len(s) : f[k] = F[s[k]]

LEMMA MappedType ==
    ASSUME NEW A, NEW U, NEW F, Takes(F, A, U), NEW s \in Seq(A)
    PROVE  IsMapped(F, s, U, Mapped(F, s))
<1>a. F \in [A -> U]
  BY DEF Takes
<1> DEFINE n == Len(s)
           f == [k \in 1..n |-> F[s[k]]]
<1>1. n \in Nat /\ DOMAIN s = 1..n /\ \A k \in 1..n : s[k] \in A
  OBVIOUS
<1>2. f \in [1..n -> U] /\ \A k \in 1..n : f[k] = F[s[k]]
  BY <1>1, <1>a
<1>3. Mapped(F, s) = f
  BY <1>1 DEF Mapped
<1> HIDE DEF f, n
<1>4. f \in Seq(U) /\ Len(f) = n
  BY <1>1, <1>2
<1> QED
  BY <1>1, <1>2, <1>3, <1>4 DEF n, IsMapped

LEMMA MappedNothing == ASSUME NEW F PROVE Mapped(F, <<>>) = <<>>
BY DEF Mapped

LEMMA MappedOneMore ==
    ASSUME NEW A, NEW U, NEW F, Takes(F, A, U), NEW s \in Seq(A), NEW x \in A
    PROVE  Mapped(F, Append(s, x)) = Append(Mapped(F, s), F[x])
<1>a. F \in [A -> U]
  BY DEF Takes
<1>0. Mapped(F, s) \in Seq(U) /\ Len(Mapped(F, s)) = Len(s) /\ \A k \in 1..Len(s) : Mapped(F, s)[k] = F[s[k]]
  <2>1. IsMapped(F, s, U, Mapped(F, s))
    BY MappedType
  <2> QED
    BY <2>1 DEF IsMapped
<1> DEFINE t == Append(s, x)
           n == Len(s)
           f == Mapped(F, s)
           g == Mapped(F, t)
           v == F[x]
           h == Append(f, v)
<1>1. n \in Nat /\ t \in Seq(A) /\ Len(t) = n + 1 /\ t[n + 1] = x /\ \A k \in 1..n : t[k] = s[k]
  OBVIOUS
<1>2. f \in Seq(U) /\ Len(f) = n /\ \A k \in 1..n : f[k] = F[s[k]]
  BY <1>0
<1>4. v \in U
  BY <1>a
<1> HIDE DEF t, f, n, v
<1>3. g \in Seq(U) /\ Len(g) = n + 1 /\ \A k \in 1..n + 1 : g[k] = F[t[k]]
  <2>1. g \in Seq(U) /\ Len(g) = Len(t) /\ \A k \in 1..Len(t) : g[k] = F[t[k]]
    BY <1>1, MappedType DEF IsMapped
  <2> HIDE DEF g
  <2> QED
    BY <1>1, <2>1
<1>5. \A k \in 1..n + 1 : k = n + 1 \/ (k # n + 1 /\ k \in 1..n)
  BY <1>1
<1>6. n + 1 \in 1..n + 1 /\ 1..n \subseteq 1..n + 1
  BY <1>1
<1>7. g[n + 1] = v /\ \A k \in 1..n : g[k] = f[k]
  BY <1>1, <1>2, <1>3, <1>6 DEF v
<1> HIDE DEF g
<1>8. h \in Seq(U) /\ Len(h) = n + 1 /\ h[n + 1] = v /\ \A k \in 1..n : h[k] = f[k]
  BY <1>1, <1>2, <1>4
<1> HIDE DEF h
<1>9. \A k \in 1..n + 1 : g[k] = h[k]
  BY <1>5, <1>7, <1>8
<1>10. g = h
  BY <1>3, <1>8, <1>9, SeqEqual
<1> QED
  BY <1>10 DEF g, h, t, f, v

\* Texts in a row.
Row(F, s) == FlattenSeq(Mapped(F, s))

LEMMA RowOfOneMore ==
    ASSUME NEW A, NEW T, NEW F, Takes(F, A, Seq(T)), NEW s \in Seq(A), NEW x \in A
    PROVE  Row(F, Append(s, x)) = Row(F, s) \o F[x] /\ Row(F, s) \in Seq(T) /\ F[x] \in Seq(T)
<1>a. F \in [A -> Seq(T)]
  BY DEF Takes
<1> DEFINE U == Seq(T)
           f == Mapped(F, s)
           v == F[x]
<1>1. f \in Seq(U)
  BY MappedType DEF IsMapped
<1>2. v \in U
  BY <1>a
<1>3. Mapped(F, Append(s, x)) = Append(f, v)
  BY MappedOneMore
<1>4. Row(F, Append(s, x)) = FlattenSeq(Append(f, v)) /\ Row(F, s) = FlattenSeq(f)
  BY <1>3 DEF Row
<1> HIDE DEF f, v
<1>5. FlattenSeq(Append(f, v)) = FlattenSeq(f) \o v
  BY <1>1, <1>2, FlattenOfOneMore
<1>6. FlattenSeq(f) \in Seq(T)
  BY <1>1, FlattenType
<1> QED
  BY <1>2, <1>4, <1>5, <1>6 DEF v

LEMMA PiecesOfOneMore ==
    ASSUME NEW s \in Seq(Chunk), NEW c \in Chunk
    PROVE  PiecesOf(Append(s, c)) = Append(PiecesOf(s), PieceOf(c)) /\ PiecesOf(<<>>) = <<>>
<1> DEFINE F == [d \in Chunk |-> PieceOf(d)]
           t == Append(s, c)
<1>1. Takes(F, Chunk, ReadChunk)
  BY PieceIsRead DEF Takes
<1>2. \A u \in Seq(Chunk) : PiecesOf(u) = Mapped(F, u)
  <2>1. \A u \in Seq(Chunk) : \A k \in DOMAIN u : u[k] \in Chunk
    OBVIOUS
  <2> QED
    BY <2>1 DEF PiecesOf, Mapped
<1>3. t \in Seq(Chunk) /\ <<>> \in Seq(Chunk)
  OBVIOUS
<1>4. F[c] = PieceOf(c)
  OBVIOUS
<1> HIDE DEF F
<1>5. Mapped(F, Append(s, c)) = Append(Mapped(F, s), F[c])
  BY <1>1, MappedOneMore
<1>6. Mapped(F, <<>>) = <<>>
  BY MappedNothing
<1>7. PiecesOf(Append(s, c)) = Mapped(F, Append(s, c)) /\ PiecesOf(s) = Mapped(F, s) /\ PiecesOf(<<>>) = Mapped(F, <<>>)
  BY <1>2, <1>3
<1> QED
  BY <1>4, <1>5, <1>6, <1>7

ChunkTexts == [c \in Chunk |-> ChunkText(c)]
Fitting(s) == \A k \in DOMAIN s : s[k].head \/ (k = 1 /\ MayOpen(s[k]))

LEMMA ChunkTextsType == ChunkTexts \in [Chunk -> Seq(Tokens)] /\ \A c \in Chunk : ChunkTexts[c] = ChunkText(c)
BY TextOfChunk DEF ChunkTexts

LEMMA FittingOneMore ==
    ASSUME NEW s \in Seq(Chunk), NEW c \in Chunk, Fitting(Append(s, c))
    PROVE  Fitting(s) /\ (c.head \/ (s = <<>> /\ MayOpen(c)))
<1> DEFINE t == Append(s, c)
           n == Len(s)
<1>1. n \in Nat /\ DOMAIN t = 1..n + 1 /\ t[n + 1] = c /\ DOMAIN s = 1..n /\ \A k \in 1..n : t[k] = s[k]
  OBVIOUS
<1>2. n = 0 => s = <<>>
  OBVIOUS
<1>3. \A k \in DOMAIN t : t[k].head \/ (k = 1 /\ MayOpen(t[k]))
  BY DEF Fitting
<1> HIDE DEF t, n
<1>4. n + 1 \in DOMAIN t /\ \A k \in 1..n : k \in DOMAIN t
  BY <1>1
<1>5. Fitting(s)
  BY <1>1, <1>3, <1>4 DEF Fitting
<1>6. c.head \/ (n + 1 = 1 /\ MayOpen(c))
  BY <1>1, <1>3, <1>4
<1>7. n + 1 = 1 => n = 0
  BY <1>1
<1> QED
  BY <1>2, <1>5, <1>6, <1>7

\* Where the chunks of a hunk leave the parser.
Leads(hs, h, to, body, mode, s, m) ==
    /\ s = <<>> => m \in {"head", "update"}
    /\ Comes(ReadOff(Within(hs, HunkSoFar(h, to, body, <<>>), mode), Row(ChunkTexts, s)),
             Within(hs, HunkSoFar(h, to, body, PiecesOf(s)), m))

LEMMA ChunksAreRead ==
    ASSUME NEW hs \in Seq(ReadHunk), NEW h, NEW to, NEW body, Well(h, to, body), NEW mode \in {"head", "update"}
    PROVE  \A s \in Seq(Chunk) : Fitting(s) => \E m \in {"head", "update", "chunk"} : Leads(hs, h, to, body, mode, s, m)
<1> DEFINE M == {"head", "update", "chunk"}
           S == {s \in Seq(Chunk) : Fitting(s) => \E m \in M : Leads(hs, h, to, body, mode, s, m)}
           W(cs, m) == Within(hs, HunkSoFar(h, to, body, cs), m)
           p == W(<<>>, mode)
<1>0. \A s : \A m : Leads(hs, h, to, body, mode, s, m) <=>
                    (s = <<>> => m \in {"head", "update"}) /\ Comes(ReadOff(p, Row(ChunkTexts, s)), W(PiecesOf(s), m))
  BY DEF Leads
<1>1. <<>> \in S
  <2>1. Row(ChunkTexts, <<>>) = <<>>
    BY MappedNothing, FlattenOfNothing DEF Row
  <2>2. PiecesOf(<<>>) = <<>>
    BY DEF PiecesOf
  <2>3. ReadOff(p, <<>>) = p
    BY ReadsNone
  <2>4. Comes(ReadOff(p, Row(ChunkTexts, <<>>)), W(PiecesOf(<<>>), mode))
    BY <2>1, <2>2, <2>3 DEF Comes
  <2>5. Leads(hs, h, to, body, mode, <<>>, mode)
    BY <2>4 DEF Leads
  <2> QED
    BY <2>5
<1>2. ASSUME NEW s \in Seq(Chunk), NEW c \in Chunk, s \in S PROVE Append(s, c) \in S
  <2> DEFINE t == Append(s, c)
             cs == PiecesOf(s)
             row == Row(ChunkTexts, s)
             text == ChunkText(c)
  <2>1. t \in Seq(Chunk) /\ t # <<>>
    OBVIOUS
  <2>2. Row(ChunkTexts, t) = row \o text /\ row \in Seq(Tokens) /\ text \in Seq(Tokens)
    <3>1. Takes(ChunkTexts, Chunk, Seq(Tokens)) /\ ChunkTexts[c] = text
      BY ChunkTextsType DEF Takes
    <3> DEFINE F == ChunkTexts
    <3> HIDE DEF F, text
    <3>2. Takes(F, Chunk, Seq(Tokens)) /\ F[c] = text
      BY <3>1 DEF F
    <3>3. Row(F, t) = Row(F, s) \o F[c] /\ Row(F, s) \in Seq(Tokens) /\ F[c] \in Seq(Tokens)
      BY <3>2, RowOfOneMore
    <3> QED
      BY <3>2, <3>3 DEF F
  <2>3. PiecesOf(t) = Append(cs, PieceOf(c)) /\ cs \in Seq(ReadChunk)
    BY PiecesOfOneMore, PiecesAreRead
  <2>3a. s = <<>> => cs = <<>>
    BY PiecesOfOneMore
  <2> SUFFICES ASSUME Fitting(t) PROVE \E m \in M : Leads(hs, h, to, body, mode, t, m)
    BY <2>1
  <2>4. Fitting(s) /\ (c.head \/ (s = <<>> /\ MayOpen(c)))
    BY FittingOneMore
  <2>5. PICK m \in M : Leads(hs, h, to, body, mode, s, m)
    BY <1>2, <2>4
  <2>6. (s = <<>> => m \in {"head", "update"}) /\ Comes(ReadOff(p, row), W(cs, m))
    BY <1>0, <2>5
  <2>7. MayBegin(c, cs, m)
    BY <2>3a, <2>4, <2>6 DEF MayBegin
  <2> HIDE DEF row, text, t, cs
  <2>8. \E k \in {"update", "chunk"} : Comes(ReadOff(Within(hs, HunkSoFar(h, to, body, cs), m), ChunkText(c)),
                                             Within(hs, HunkSoFar(h, to, body, Append(cs, PieceOf(c))), k))
    BY <2>3, <2>7, ChunkIsRead
  <2>9. PICK k \in {"update", "chunk"} : Comes(ReadOff(W(cs, m), text), W(Append(cs, PieceOf(c)), k))
    BY <2>8 DEF text
  <2>10. Comes(ReadOff(W(cs, m), text), W(PiecesOf(t), k))
    BY <2>3, <2>9
  <2> HIDE DEF W, p
  <2>11. Comes(ReadOff(p, row \o text), W(PiecesOf(t), k))
    BY <2>2, <2>6, <2>10, ThenComes
  <2>12. Comes(ReadOff(p, Row(ChunkTexts, t)), W(PiecesOf(t), k))
    BY <2>2, <2>11
  <2>13. Leads(hs, h, to, body, mode, t, k)
    BY <1>0, <2>1, <2>12
  <2> QED
    BY <2>13
<1> HIDE DEF S
<1>3. \A s \in Seq(Chunk) : s \in S
  BY <1>1, <1>2, Rt!SeqSteps
<1> QED
  BY <1>3 DEF S

\* The body of a file that is added.
AddedLines == [l \in PatchLine |-> Token("+", l)]

LEMMA AddedLinesType == AddedLines \in [PatchLine -> Tokens] /\ \A l \in PatchLine : AddedLines[l] = Token("+", l)
<1> DEFINE plus == "+"
<1>1. plus \in AllMarks
  BY DEF AllMarks, LineMarks
<1> HIDE DEF plus
<1>2. \A l \in PatchLine : Token(plus, l) \in Tokens
  BY <1>1, TokenTypes
<1> QED
  BY <1>2 DEF AddedLines, plus

LEMMA LinesAreAdded ==
    ASSUME NEW hs \in Seq(ReadHunk), NEW h, NEW to, Well(h, to, <<>>)
    PROVE  \A s \in Seq(PatchLine) : ReadOff(Within(hs, HunkSoFar(h, to, <<>>, <<>>), "add"), Mapped(AddedLines, s))
                                       = Within(hs, HunkSoFar(h, to, s, <<>>), "add")
<1> DEFINE W(s) == Within(hs, HunkSoFar(h, to, s, <<>>), "add")
           p == W(<<>>)
           S == {s \in Seq(PatchLine) : ReadOff(p, Mapped(AddedLines, s)) = W(s)}
<1>1. <<>> \in S
  <2>1. Mapped(AddedLines, <<>>) = <<>>
    BY MappedNothing
  <2> QED
    BY <2>1, ReadsNone
<1>2. ASSUME NEW s \in Seq(PatchLine), NEW l \in PatchLine, s \in S PROVE Append(s, l) \in S
  <2> DEFINE t == Append(s, l)
             d == AddedLines[l]
             f == Mapped(AddedLines, s)
             none == <<>>
  <2>1. t \in Seq(PatchLine) /\ none \in Seq(ReadChunk)
    OBVIOUS
  <2>2. Mapped(AddedLines, t) = Append(f, d)
    <3>1. Takes(AddedLines, PatchLine, Tokens)
      BY AddedLinesType DEF Takes
    <3> HIDE DEF d, f
    <3>2. Mapped(AddedLines, Append(s, l)) = Append(Mapped(AddedLines, s), AddedLines[l])
      BY <3>1, MappedOneMore
    <3> QED
      BY <3>2 DEF d, f
  <2>3. d \in Tokens /\ d = Token("+", l)
    BY AddedLinesType
  <2>4. f \in Seq(Tokens)
    <3>1. IsMapped(AddedLines, s, Tokens, Mapped(AddedLines, s))
      BY AddedLinesType, MappedType DEF Takes
    <3> QED
      BY <3>1 DEF IsMapped
  <2>5. ReadOff(p, f) = W(s)
    BY <1>2
  <2>6. Well(h, to, s) /\ Well(h, to, t)
    BY <2>1 DEF Well
  <2> HIDE DEF f, d, none
  <2>7. ReadOff(p, Append(f, d)) = ReadToken(ReadOff(p, f), d)
    BY <2>3, <2>4, ReadsOneMore
  <2>8. HunkSoFar(h, to, s, none) \in ReadHunk /\ HunkSoFar(h, to, t, none) \in ReadHunk
    BY <2>1, <2>6, SoFarType
  <2>9. ReadToken(Within(hs, HunkSoFar(h, to, s, none), "add"), Token("+", l)) = Within(hs, HunkSoFar(h, to, t, none), "add")
    BY <2>8, BodyIsRead
  <2>10. ReadToken(W(s), d) = W(t)
    BY <2>3, <2>9 DEF none
  <2>11. ReadOff(p, Mapped(AddedLines, t)) = W(t)
    BY <2>2, <2>5, <2>7, <2>10
  <2> QED
    BY <2>1, <2>11
<1> HIDE DEF S
<1>3. \A s \in Seq(PatchLine) : s \in S
  BY <1>1, <1>2, Rt!SeqSteps
<1> QED
  BY <1>3 DEF S

Header(h) == <<Token(h.kind, h.path)>>
Moved(h) == IF h.to = h.path THEN <<>> ELSE <<Token("move", h.to)>>
HunkAs(h) == HunkSoFar(h, h.to, h.body, PiecesOf(h.chunks))

LEMMA TextOfHunk ==
    ASSUME NEW h \in Wanted
    PROVE  /\ HunkText(h) = ((Header(h) \o Moved(h)) \o Mapped(AddedLines, h.body)) \o Row(ChunkTexts, h.chunks)
           /\ Header(h) \in Seq(Tokens) /\ Moved(h) \in Seq(Tokens) /\ Mapped(AddedLines, h.body) \in Seq(Tokens)
           /\ Row(ChunkTexts, h.chunks) \in Seq(Tokens) /\ Header(h) \o Moved(h) \in Seq(Tokens)
           /\ (Header(h) \o Moved(h)) \o Mapped(AddedLines, h.body) \in Seq(Tokens) /\ HunkText(h) \in Seq(Tokens)
<1>1. h.kind \in Heads /\ h.path \in Paths /\ h.to \in Paths /\ h.body \in Seq(PatchLine) /\ h.chunks \in Seq(Chunk)
  BY DEF Wanted
<1> DEFINE move == "move"
<1>2. move \in AllMarks /\ h.kind \in AllMarks
  BY <1>1 DEF AllMarks, Starred
<1> HIDE DEF move
<1>3. Token(h.kind, h.path) \in Tokens /\ Token(move, h.to) \in Tokens
  BY <1>1, <1>2, TokenTypes
<1>4. Header(h) \in Seq(Tokens) /\ Moved(h) \in Seq(Tokens)
  BY <1>3, OneToken DEF Header, Moved, move
<1>5. Mapped(AddedLines, h.body) \in Seq(Tokens)
  <2> DEFINE body == h.body
  <2>1. body \in Seq(PatchLine) /\ Takes(AddedLines, PatchLine, Tokens)
    BY <1>1, AddedLinesType DEF Takes
  <2> HIDE DEF body
  <2>2. IsMapped(AddedLines, body, Tokens, Mapped(AddedLines, body))
    BY <2>1, MappedType
  <2> QED
    BY <2>2 DEF IsMapped, body
<1>6. Row(ChunkTexts, h.chunks) \in Seq(Tokens)
  <2> DEFINE s == h.chunks
             U == Seq(Tokens)
  <2>1. s \in Seq(Chunk) /\ Takes(ChunkTexts, Chunk, U)
    BY <1>1, ChunkTextsType DEF Takes
  <2> HIDE DEF s, U
  <2>2. IsMapped(ChunkTexts, s, U, Mapped(ChunkTexts, s))
    BY <2>1, MappedType
  <2>3. Mapped(ChunkTexts, s) \in Seq(U)
    BY <2>2 DEF IsMapped
  <2> QED
    BY <2>3, FlattenType DEF s, U, Row
<1>7. Header(h) \o Moved(h) \in Seq(Tokens)
  BY <1>4, Rt!Beside
<1>8. (Header(h) \o Moved(h)) \o Mapped(AddedLines, h.body) \in Seq(Tokens)
  BY <1>5, <1>7, Rt!Beside
<1>9. ((Header(h) \o Moved(h)) \o Mapped(AddedLines, h.body)) \o Row(ChunkTexts, h.chunks) \in Seq(Tokens)
  BY <1>6, <1>8, Rt!Beside
<1>10. Mapped(AddedLines, h.body) = [j \in DOMAIN h.body |-> Token("+", h.body[j])]
  <2>1. \A j \in DOMAIN h.body : AddedLines[h.body[j]] = Token("+", h.body[j])
    BY <1>1, AddedLinesType
  <2> QED
    BY <2>1 DEF Mapped
<1>11. Mapped(ChunkTexts, h.chunks) = [k \in DOMAIN h.chunks |-> ChunkText(h.chunks[k])]
  <2>1. \A k \in DOMAIN h.chunks : ChunkTexts[h.chunks[k]] = ChunkText(h.chunks[k])
    BY <1>1, ChunkTextsType
  <2> QED
    BY <2>1 DEF Mapped
<1>12. HunkText(h) = ((Header(h) \o Moved(h)) \o Mapped(AddedLines, h.body)) \o Row(ChunkTexts, h.chunks)
  BY <1>10, <1>11 DEF HunkText, Row, Header, Moved
<1> QED
  BY <1>4, <1>5, <1>6, <1>7, <1>8, <1>9, <1>12

\* The four parts of a hunk, one behind the other.
LEMMA FourParts ==
    ASSUME NEW T, NEW a \in Seq(T), NEW b \in Seq(T), NEW c \in Seq(T), NEW d \in Seq(T), a \o b \in Seq(T), (a \o b) \o c \in Seq(T),
           NEW p0, NEW p1, NEW p2, NEW p3, NEW p4,
           Comes(ReadOff(p0, a), p1), Comes(ReadOff(p1, b), p2), Comes(ReadOff(p2, c), p3), Comes(ReadOff(p3, d), p4)
    PROVE  Comes(ReadOff(p0, ((a \o b) \o c) \o d), p4)
<1>1. Comes(ReadOff(p0, a \o b), p2)
  BY ThenComes
<1> DEFINE ab == a \o b
<1>2. ab \in Seq(T) /\ ab \o c \in Seq(T) /\ Comes(ReadOff(p0, ab), p2)
  BY <1>1
<1> HIDE DEF ab
<1>3. Comes(ReadOff(p0, ab \o c), p3)
  BY <1>2, ThenComes
<1> DEFINE abc == ab \o c
<1>4. abc \in Seq(T) /\ Comes(ReadOff(p0, abc), p3)
  BY <1>2, <1>3
<1> HIDE DEF abc
<1>5. Comes(ReadOff(p0, abc \o d), p4)
  BY <1>4, ThenComes
<1> QED
  BY <1>5 DEF abc, ab

LEMMA NothingComes == ASSUME NEW p PROVE Comes(ReadOff(p, <<>>), p)
BY ReadsNone DEF Comes

LEMMA HunkIsRead ==
    ASSUME NEW hs \in Seq(ReadHunk), NEW mode \in ReadModes, NEW h \in Wanted, IsWanted(h)
    PROVE  \E m \in ReadModes : Comes(ReadOff(Parsing(hs, mode), HunkText(h)), Within(hs, HunkAs(h), m))
<1> DEFINE none == <<>>
           move == Moved(h)
           added == Mapped(AddedLines, h.body)
           row == Row(ChunkTexts, h.chunks)
           m1 == FirstMode(h.kind)
           W(to, body, cs, m) == Within(hs, HunkSoFar(h, to, body, cs), m)
           p0 == Parsing(hs, mode)
           p1 == W(h.path, none, none, m1)
           m2 == IF h.to = h.path THEN m1 ELSE "update"
           p2 == W(h.to, none, none, m2)
           p3 == W(h.to, h.body, none, m2)
           p4(m) == W(h.to, h.body, PiecesOf(h.chunks), m)
<1>1. h.kind \in Heads /\ h.path \in Paths /\ h.to \in Paths /\ h.body \in Seq(PatchLine) /\ h.chunks \in Seq(Chunk)
  BY DEF Wanted
<1>2. /\ h.kind # "add" => h.body = <<>>
      /\ h.kind # "update" => h.chunks = <<>> /\ h.to = h.path
      /\ Fitting(h.chunks)
  BY DEF IsWanted, Fitting
<1>3. none \in Seq(PatchLine) /\ none \in Seq(ReadChunk)
  OBVIOUS
<1>4. Well(h, h.path, none) /\ Well(h, h.to, none) /\ Well(h, h.to, h.body)
  BY <1>1, <1>3 DEF Well
<1>5. m1 \in ReadModes /\ (h.kind = "add" => m1 = "add") /\ (h.kind = "delete" => m1 = "between") /\ (h.kind = "update" => m1 = "head")
  BY <1>1 DEF FirstMode, ReadModes, Heads
<1>6. Comes(ReadOff(p0, Header(h)), p1)
  <2>1. NewHunk(Token(h.kind, h.path)) = HunkSoFar(h, h.path, none, none)
    BY DEF NewHunk, Token, HunkSoFar
  <2>2. Comes(ReadToken(p0, Token(h.kind, h.path)), Parsing(Append(hs, NewHunk(Token(h.kind, h.path))), m1))
    BY <1>1, HeaderIsRead
  <2>3. Comes(ReadToken(p0, Token(h.kind, h.path)), p1)
    BY <2>1, <2>2 DEF Within
  <2> HIDE DEF p0, p1
  <2> QED
    BY <2>3, ReadsOneToken DEF Header
<1>7. Comes(ReadOff(p1, move), p2)
  <2>1. CASE h.to = h.path
    <3>1. move = <<>> /\ p1 = p2
      BY <2>1 DEF Moved
    <3> HIDE DEF p1, p2, move
    <3> QED
      BY <3>1, NothingComes
  <2>2. CASE h.to # h.path
    <3>1. h.kind = "update" /\ m1 = "head" /\ m2 = "update"
      BY <1>2, <1>5, <2>2
    <3> HIDE DEF m1, m2, none
    <3>2. HunkSoFar(h, h.path, none, none) \in ReadHunk /\ HunkSoFar(h, h.to, none, none) \in ReadHunk
      BY <1>3, <1>4, SoFarType
    <3>3. ReadToken(W(h.path, none, none, "head"), Token("move", h.to)) = W(h.to, none, none, "update")
      BY <3>2, MoveIsRead
    <3>4. ReadToken(p1, Token("move", h.to)) = p2
      BY <3>1, <3>3
    <3>5. move = <<Token("move", h.to)>>
      BY <2>2 DEF Moved
    <3> HIDE DEF p1, p2, move
    <3>6. ReadOff(p1, move) = p2
      BY <3>4, <3>5, ReadsOneToken
    <3> QED
      BY <3>6 DEF Comes
  <2> QED
    BY <2>1, <2>2
<1>8. Comes(ReadOff(p2, added), p3)
  <2>1. CASE h.kind = "add"
    <3>1. m2 = "add"
      BY <1>2, <1>5, <2>1
    <3> HIDE DEF m1, m2
    <3>2. ReadOff(W(h.to, <<>>, <<>>, "add"), Mapped(AddedLines, h.body)) = W(h.to, h.body, <<>>, "add")
      BY <1>1, <1>4, LinesAreAdded
    <3>3. ReadOff(p2, added) = p3
      BY <3>1, <3>2
    <3> QED
      BY <3>3 DEF Comes
  <2>2. CASE h.kind # "add"
    <3>1. h.body = <<>>
      BY <1>2, <2>2
    <3>2. added = <<>>
      BY <3>1, MappedNothing
    <3>3. p3 = p2
      BY <3>1
    <3> HIDE DEF p3, p2, added
    <3> QED
      BY <3>2, <3>3, NothingComes
  <2> QED
    BY <2>1, <2>2
<1>9. \E m \in ReadModes : Comes(ReadOff(p3, row), p4(m))
  <2>1. CASE h.kind = "update"
    <3>1. m2 \in {"head", "update"}
      BY <1>5, <2>1
    <3> HIDE DEF m2, m1
    <3>2. \E m \in {"head", "update", "chunk"} : Leads(hs, h, h.to, h.body, m2, h.chunks, m)
      BY <1>1, <1>2, <1>4, <3>1, ChunksAreRead
    <3>3. PICK m \in {"head", "update", "chunk"} : Leads(hs, h, h.to, h.body, m2, h.chunks, m)
      BY <3>2
    <3>4. m \in ReadModes
      BY DEF ReadModes
    <3>5. Comes(ReadOff(p3, row), p4(m))
      BY <3>3 DEF Leads
    <3> QED
      BY <3>4, <3>5
  <2>2. CASE h.kind # "update"
    <3>1. h.chunks = <<>>
      BY <1>2, <2>2
    <3>2. row = <<>>
      BY <3>1, MappedNothing, FlattenOfNothing DEF Row
    <3>3. PiecesOf(h.chunks) = none
      BY <3>1 DEF PiecesOf
    <3>4. p4(m2) = p3
      BY <3>3
    <3>5. m2 \in ReadModes
      BY <1>5 DEF ReadModes
    <3> HIDE DEF p3, p4, row, m2
    <3>6. Comes(ReadOff(p3, row), p4(m2))
      BY <3>2, <3>4, NothingComes
    <3> QED
      BY <3>5, <3>6
  <2> QED
    BY <2>1, <2>2
<1>10. PICK m \in ReadModes : Comes(ReadOff(p3, row), p4(m))
  BY <1>9
<1>11. /\ HunkText(h) = ((Header(h) \o move) \o added) \o row
       /\ Header(h) \in Seq(Tokens) /\ move \in Seq(Tokens) /\ added \in Seq(Tokens) /\ row \in Seq(Tokens)
       /\ Header(h) \o move \in Seq(Tokens) /\ (Header(h) \o move) \o added \in Seq(Tokens)
  BY TextOfHunk
<1> DEFINE last == p4(m)
<1>12. Comes(ReadOff(p3, row), last)
  BY <1>10
<1>13. last = Within(hs, HunkAs(h), m)
  BY DEF HunkAs
<1> HIDE DEF p0, p1, p2, p3, last, move, added, row
<1>14. Comes(ReadOff(p0, ((Header(h) \o move) \o added) \o row), last)
  BY <1>6, <1>7, <1>8, <1>11, <1>12, FourParts
<1>15. Comes(ReadOff(p0, HunkText(h)), Within(hs, HunkAs(h), m))
  BY <1>11, <1>13, <1>14
<1> QED
  BY <1>15 DEF p0

HunksOf(list) == [k \in DOMAIN list |-> HunkAs(list[k])]
HunkTexts == [h \in Wanted |-> HunkText(h)]
AllWanted(list) == \A k \in DOMAIN list : IsWanted(list[k])

LEMMA HunkAsType == ASSUME NEW h \in Wanted PROVE HunkAs(h) \in ReadHunk
<1>1. h.kind \in Heads /\ h.path \in Paths /\ h.to \in Paths /\ h.body \in Seq(PatchLine) /\ h.chunks \in Seq(Chunk)
  BY DEF Wanted
<1>2. Well(h, h.to, h.body)
  BY <1>1 DEF Well
<1>3. PiecesOf(h.chunks) \in Seq(ReadChunk)
  BY <1>1, PiecesAreRead
<1>4. HunkSoFar(h, h.to, h.body, PiecesOf(h.chunks)) \in ReadHunk
  BY <1>2, <1>3, SoFarType
<1> QED
  BY <1>4 DEF HunkAs

LEMMA HunksOfOneMore ==
    ASSUME NEW s \in Seq(Wanted), NEW h \in Wanted
    PROVE  HunksOf(Append(s, h)) = Append(HunksOf(s), HunkAs(h)) /\ HunksOf(s) \in Seq(ReadHunk)
<1> DEFINE F == [w \in Wanted |-> HunkAs(w)]
<1>1. Takes(F, Wanted, ReadHunk)
  BY HunkAsType DEF Takes
<1>2. \A u \in Seq(Wanted) : HunksOf(u) = Mapped(F, u)
  <2>1. \A u \in Seq(Wanted) : \A k \in DOMAIN u : u[k] \in Wanted
    OBVIOUS
  <2> QED
    BY <2>1 DEF HunksOf, Mapped
<1>3. Append(s, h) \in Seq(Wanted)
  OBVIOUS
<1>4. F[h] = HunkAs(h)
  OBVIOUS
<1> HIDE DEF F
<1>5. Mapped(F, Append(s, h)) = Append(Mapped(F, s), F[h])
  BY <1>1, MappedOneMore
<1>6. IsMapped(F, s, ReadHunk, Mapped(F, s))
  BY <1>1, MappedType
<1>7. HunksOf(Append(s, h)) = Mapped(F, Append(s, h)) /\ HunksOf(s) = Mapped(F, s)
  BY <1>2, <1>3
<1> QED
  BY <1>4, <1>5, <1>6, <1>7 DEF IsMapped

LEMMA WantedOneMore ==
    ASSUME NEW s \in Seq(Wanted), NEW h \in Wanted, AllWanted(Append(s, h))
    PROVE  AllWanted(s) /\ IsWanted(h)
<1> DEFINE t == Append(s, h)
           n == Len(s)
<1>1. n \in Nat /\ DOMAIN t = 1..n + 1 /\ t[n + 1] = h /\ DOMAIN s = 1..n /\ \A k \in 1..n : t[k] = s[k]
  OBVIOUS
<1>2. \A k \in DOMAIN t : IsWanted(t[k])
  BY DEF AllWanted
<1> HIDE DEF t, n
<1>3. n + 1 \in DOMAIN t /\ \A k \in 1..n : k \in DOMAIN t
  BY <1>1
<1> QED
  BY <1>1, <1>2, <1>3 DEF AllWanted

LEMMA HunksAreRead ==
    \A s \in Seq(Wanted) : AllWanted(s) =>
       \E m \in ReadModes : Comes(ReadOff(Parsing(<<>>, "between"), Row(HunkTexts, s)), Parsing(HunksOf(s), m))
<1> DEFINE p == Parsing(<<>>, "between")
           Told(s, m) == Comes(ReadOff(p, Row(HunkTexts, s)), Parsing(HunksOf(s), m))
           S == {s \in Seq(Wanted) : AllWanted(s) => \E m \in ReadModes : Told(s, m)}
<1>1. <<>> \in S
  <2>1. Row(HunkTexts, <<>>) = <<>>
    BY MappedNothing, FlattenOfNothing DEF Row
  <2>2. HunksOf(<<>>) = <<>>
    BY DEF HunksOf
  <2> DEFINE between == "between"
  <2>3. between \in ReadModes
    BY DEF ReadModes
  <2>4. Told(<<>>, between)
    BY <2>1, <2>2, NothingComes
  <2> QED
    BY <2>3, <2>4
<1>2. ASSUME NEW s \in Seq(Wanted), NEW h \in Wanted, s \in S PROVE Append(s, h) \in S
  <2> DEFINE t == Append(s, h)
             hs == HunksOf(s)
             row == Row(HunkTexts, s)
             text == HunkText(h)
  <2>1. t \in Seq(Wanted)
    OBVIOUS
  <2>2. Row(HunkTexts, t) = row \o text /\ row \in Seq(Tokens) /\ text \in Seq(Tokens)
    <3> DEFINE F == HunkTexts
    <3>1. Takes(F, Wanted, Seq(Tokens)) /\ F[h] = text
      BY TextOfHunk DEF Takes, HunkTexts
    <3> HIDE DEF F, text
    <3>2. Row(F, t) = Row(F, s) \o F[h] /\ Row(F, s) \in Seq(Tokens) /\ F[h] \in Seq(Tokens)
      BY <3>1, RowOfOneMore
    <3> QED
      BY <3>1, <3>2 DEF F
  <2>3. HunksOf(t) = Append(hs, HunkAs(h)) /\ hs \in Seq(ReadHunk)
    BY HunksOfOneMore
  <2> SUFFICES ASSUME AllWanted(t) PROVE \E m \in ReadModes : Told(t, m)
    BY <2>1
  <2>4. AllWanted(s) /\ IsWanted(h)
    BY WantedOneMore
  <2>5. PICK m \in ReadModes : Told(s, m)
    BY <1>2, <2>4
  <2> HIDE DEF row, text, t, hs
  <2>6. Comes(ReadOff(p, row), Parsing(hs, m))
    BY <2>5 DEF row, hs
  <2>7. \E k \in ReadModes : Comes(ReadOff(Parsing(hs, m), HunkText(h)), Within(hs, HunkAs(h), k))
    BY <2>3, <2>4, HunkIsRead
  <2>8. PICK k \in ReadModes : Comes(ReadOff(Parsing(hs, m), text), Within(hs, HunkAs(h), k))
    BY <2>7 DEF text
  <2>9. Within(hs, HunkAs(h), k) = Parsing(HunksOf(t), k)
    BY <2>3 DEF Within
  <2> HIDE DEF p
  <2>10. Comes(ReadOff(p, row \o text), Parsing(HunksOf(t), k))
    BY <2>2, <2>6, <2>8, <2>9, ThenComes
  <2>11. Told(t, k)
    BY <2>2, <2>10
  <2> QED
    BY <2>11
<1> HIDE DEF S
<1>3. \A s \in Seq(Wanted) : s \in S
  BY <1>1, <1>2, Rt!SeqSteps
<1> QED
  BY <1>3 DEF S

\* A patch that is read is read as it was meant.
LEMMA PatchIsRead ==
    ASSUME NEW list \in Seq(Wanted), AllWanted(list)
    PROVE  ReadPatch(PatchText(list)) = <<>> \/ ReadPatch(PatchText(list)) = HunksOf(list)
<1> DEFINE p == ReadOff(Parsing(<<>>, "between"), PatchText(list))
<1>1. PatchText(list) = Row(HunkTexts, list)
  <2>1. \A k \in DOMAIN list : HunkTexts[list[k]] = HunkText(list[k])
    BY DEF HunkTexts
  <2> QED
    BY <2>1 DEF PatchText, Row, Mapped
<1>2. FoldLeft(ReadToken, Parsing(<<>>, "between"), PatchText(list)) = p
  BY DEF ReadOff, Rt!Fold, FoldLeft, Rt!FoldLeft, MapThenFoldSet, Rt!MapThenFoldSet, Max, Rt!Max
<1>3. ReadPatch(PatchText(list)) = IF p.bad \/ Unfinished(p) THEN <<>> ELSE p.hunks
  BY <1>2 DEF ReadPatch
<1>4. PICK m \in ReadModes : Comes(p, Parsing(HunksOf(list), m))
  BY <1>1, HunksAreRead
<1> HIDE DEF p
<1>5. CASE p.bad
  BY <1>3, <1>5
<1>6. CASE ~p.bad
  <2>1. p = Parsing(HunksOf(list), m)
    BY <1>4, <1>6 DEF Comes
  <2>2. p.hunks = HunksOf(list)
    BY <2>1 DEF Parsing
  <2> QED
    BY <1>3, <2>2
<1> QED
  BY <1>5, <1>6

-----------------------------------------------------------------------------
(* The tool: the invariant its steps keep, and what it says of a patch.    *)

Hows == {"applied", "refused", "failed"}
Holds == Texts \cup {NoText}

\* What the last hunk left, in the words of the applier (apply.go), of the
\* hunk that was wanted.
LastTold ==
    outcome # <<>> => LET h == demand[Len(outcome)]
                          how == outcome[Len(outcome)]
                          d == Derive(prior, PiecesOf(h.chunks))
                      IN  h.kind = "update" /\ prior # NoText =>
                            /\ how = "applied" => d.ok /\ shelf[h.to] = d.text
                            /\ how = "refused" => ~d.ok

\* The property speaks of the last hunk only, of its old text and its new one,
\* so it is not kept by a step on its own: the invariant holds what was read
\* against what was wanted (a patch that is read is read as it was meant),
\* and says of the last hunk how the applier came to what it left.  That what
\* the applier comes to is right needs no history: see UpdateLands.
PatchIInv ==
    /\ shelf \in [Paths -> Holds]
    /\ demand \in Demands \cup {<<>>}
    /\ pieces = <<>> \/ (demand \in Demands /\ pieces = HunksOf(demand))
    /\ outcome \in Seq(Hows) /\ Len(outcome) <= Len(pieces)
    /\ prior \in Holds
    /\ LastTold

LEMMA DemandType == ASSUME NEW list \in Demands PROVE list \in Seq(Wanted) /\ AllWanted(list)
BY PatchAssumption DEF AllWanted

LEMMA NoTextApart == NoText \notin Texts /\ Shelves \subseteq [Paths -> Holds]
BY PatchAssumption DEF Holds

LEMMA EmptyIsAText == [lines |-> <<>>, nl |-> FALSE] \in Texts
<1> DEFINE none == <<>>
<1>1. none \in Seq(PatchLine)
  OBVIOUS
<1> HIDE DEF none
<1>2. [lines |-> none, nl |-> FALSE] \in Texts
  BY <1>1 DEF Texts
<1> QED
  BY <1>2 DEF none

LEMMA BodyIsAText == ASSUME NEW body \in Seq(PatchLine) PROVE [lines |-> body, nl |-> body # <<>>] \in Texts
<1> DEFINE nl == body # <<>>
<1>1. nl \in BOOLEAN /\ (nl => body # <<>>)
  OBVIOUS
<1> HIDE DEF nl
<1>2. [lines |-> body, nl |-> nl] \in Texts
  BY <1>1 DEF Texts
<1> QED
  BY <1>2 DEF nl

LEMMA PatchStarts == PatchInit => PatchIInv
<1> SUFFICES ASSUME PatchInit PROVE PatchIInv
  OBVIOUS
<1>1. shelf \in [Paths -> Holds] /\ prior \in Holds
  BY NoTextApart DEF PatchInit, Holds
<1>2. demand = <<>> /\ pieces = <<>> /\ outcome = <<>>
  BY DEF PatchInit
<1>3. outcome \in Seq(Hows) /\ Len(outcome) <= Len(pieces)
  BY <1>2
<1> QED
  BY <1>1, <1>2, <1>3 DEF PatchIInv, LastTold

LEMMA PatchCallKeeps == ASSUME PatchIInv, demand = <<>>, NEW list \in Demands, CallPatch(list) PROVE PatchIInv'
<1>1. demand' = list /\ pieces' = ReadPatch(PatchText(list)) /\ shelf' = shelf /\ outcome' = outcome /\ prior' = prior
  BY DEF CallPatch
<1>2. pieces = <<>>
  <2>1. HunksOf(<<>>) = <<>>
    BY DEF HunksOf
  <2> QED
    BY <2>1 DEF PatchIInv
<1>3. outcome = <<>>
  <2>1. outcome \in Seq(Hows) /\ Len(outcome) <= 0
    BY <1>2 DEF PatchIInv
  <2> HIDE DEF Hows
  <2> QED
    BY <2>1
<1>4. pieces' = <<>> \/ pieces' = HunksOf(list)
  BY <1>1, DemandType, PatchIsRead
<1>5. outcome' \in Seq(Hows) /\ Len(outcome') <= Len(pieces')
  <2>1. outcome' = <<>> /\ Len(<<>>) = 0
    BY <1>1, <1>3
  <2>2. Len(pieces') \in Nat
    <3>1. HunksOf(list) \in [DOMAIN list -> ReadHunk] /\ DOMAIN list = 1..Len(list) /\ Len(list) \in Nat
      <4>1. list \in Seq(Wanted)
        BY DemandType
      <4>2. \A k \in DOMAIN list : list[k] \in Wanted
        BY <4>1
      <4> QED
        BY <4>1, <4>2, HunkAsType DEF HunksOf
    <3> DEFINE f == HunksOf(list)
    <3> HIDE DEF f
    <3>2. f \in [1..Len(list) -> ReadHunk]
      BY <3>1 DEF f
    <3>3. Len(f) \in Nat
      BY <3>1, <3>2
    <3>4. pieces' = <<>> \/ pieces' = f
      BY <1>4 DEF f
    <3> QED
      BY <3>3, <3>4
  <2>3. <<>> \in Seq(Hows)
    OBVIOUS
  <2> QED
    BY <2>1, <2>2, <2>3
<1>6. LastTold'
  BY <1>1, <1>3 DEF LastTold
<1> QED
  BY <1>1, <1>4, <1>5, <1>6 DEF PatchIInv

LEMMA ListType ==
    ASSUME NEW list \in Demands
    PROVE  /\ Len(HunksOf(list)) = Len(list) /\ Len(list) \in Nat
           /\ \A k \in 1..Len(list) : list[k] \in Wanted /\ IsWanted(list[k]) /\ HunksOf(list)[k] = HunkAs(list[k])
<1>1. list \in Seq(Wanted) /\ \A k \in DOMAIN list : IsWanted(list[k])
  BY DemandType DEF AllWanted
<1> DEFINE n == Len(list)
           f == HunksOf(list)
<1>2. n \in Nat /\ DOMAIN list = 1..n /\ \A k \in 1..n : list[k] \in Wanted
  BY <1>1
<1>3. f \in [1..n -> ReadHunk] /\ \A k \in 1..n : f[k] = HunkAs(list[k])
  BY <1>2, HunkAsType DEF HunksOf
<1> HIDE DEF n, f
<1>4. Len(f) = n
  BY <1>2, <1>3
<1> QED
  BY <1>1, <1>2, <1>3, <1>4 DEF n, f

\* The hunk a step is about.
LEMMA NextIs ==
    ASSUME PatchIInv, More
    PROVE  /\ Len(outcome) \in Nat /\ demand \in Demands /\ demand[Len(outcome) + 1] \in Wanted
           /\ NextHunk = HunkAs(demand[Len(outcome) + 1]) /\ Len(outcome) + 1 <= Len(pieces)
<1> DEFINE n == Len(outcome)
<1>1. n \in Nat
  BY DEF PatchIInv
<1>2. pieces # <<>>
  <2>1. n < Len(pieces)
    BY DEF More
  <2> HIDE DEF n
  <2> QED
    BY <1>1, <2>1
<1>3. demand \in Demands /\ pieces = HunksOf(demand)
  BY <1>2 DEF PatchIInv
<1>4. Len(pieces) = Len(demand) /\ Len(demand) \in Nat
  BY <1>3, ListType
<1>5. n + 1 \in 1..Len(demand) /\ n + 1 <= Len(pieces)
  <2>1. n < Len(pieces)
    BY DEF More
  <2> HIDE DEF n
  <2> QED
    BY <1>1, <1>4, <2>1
<1> HIDE DEF n
<1>6. demand[n + 1] \in Wanted /\ pieces[n + 1] = HunkAs(demand[n + 1])
  BY <1>3, <1>5, ListType
<1> QED
  BY <1>1, <1>3, <1>5, <1>6 DEF n, NextHunk

LEMMA HunkAsIs ==
    ASSUME NEW h
    PROVE  /\ HunkAs(h).kind = h.kind /\ HunkAs(h).path = h.path /\ HunkAs(h).to = h.to
           /\ HunkAs(h).body = h.body /\ HunkAs(h).chunks = PiecesOf(h.chunks)
BY DEF HunkAs, HunkSoFar

LEMMA NewTextType ==
    ASSUME PatchIInv, More, HunkFits(NextHunk)
    PROVE  NewText(NextHunk) \in Texts
<1> DEFINE h == demand[Len(outcome) + 1]
<1>1. h \in Wanted /\ NextHunk = HunkAs(h)
  BY NextIs
<1>2. h.body \in Seq(PatchLine) /\ h.chunks \in Seq(Chunk) /\ h.path \in Paths
  BY <1>1 DEF Wanted
<1> HIDE DEF h
<1>3. CASE NextHunk.kind = "add"
  <2>1. NewText(NextHunk) = [lines |-> h.body, nl |-> h.body # <<>>]
    BY <1>1, <1>3, HunkAsIs DEF NewText, NewBody
  <2> QED
    BY <1>2, <2>1, BodyIsAText
<1>4. CASE NextHunk.kind # "add"
  <2> DEFINE text == shelf[h.path]
  <2>1. text \in Texts
    BY <1>1, <1>2, <1>4, HunkAsIs DEF HunkFits, PatchIInv, Holds
  <2>2. NewText(NextHunk) = Derive(text, PiecesOf(h.chunks)).text
    BY <1>1, <1>4, HunkAsIs DEF NewText, Updated
  <2> HIDE DEF text
  <2> QED
    BY <1>2, <2>1, <2>2, DeriveType
<1> QED
  BY <1>3, <1>4

Due == demand[Len(outcome) + 1]
DueDone(how) ==
    LET d == Derive(shelf[Due.path], PiecesOf(Due.chunks))
    IN  Due.kind = "update" /\ shelf[Due.path] # NoText =>
          /\ how = "applied" => d.ok /\ shelf'[Due.to] = d.text
          /\ how = "refused" => ~d.ok

LEMMA EndKeeps ==
    ASSUME PatchIInv, More, NEW how \in Hows, Ends(how), shelf' \in [Paths -> Holds], DueDone(how)
    PROVE  PatchIInv'
<1> DEFINE n == Len(outcome)
           more == Append(outcome, how)
<1>1. outcome' = more /\ prior' = shelf[NextHunk.path] /\ demand' = demand /\ pieces' = pieces
  BY DEF Ends
<1>2. Due \in Wanted /\ NextHunk = HunkAs(Due) /\ n + 1 <= Len(pieces) /\ n \in Nat
  BY NextIs DEF Due
<1>3. NextHunk.path = Due.path
  BY <1>2, HunkAsIs
<1>4. more \in Seq(Hows) /\ Len(more) = n + 1 /\ more[n + 1] = how
  <2>1. outcome \in Seq(Hows)
    BY DEF PatchIInv
  <2> HIDE DEF Hows
  <2> QED
    BY <2>1
<1>5. prior' \in Holds
  BY <1>1, <1>2, <1>3 DEF PatchIInv, Wanted
<1>6. LastTold'
  <2>1. Len(outcome') = n + 1 /\ outcome'[Len(outcome')] = how
    BY <1>1, <1>4
  <2>2. demand'[Len(outcome')] = Due
    BY <1>1, <2>1 DEF Due
  <2>3. prior' = shelf[Due.path]
    BY <1>1, <1>3
  <2> QED
    BY <2>1, <2>2, <2>3 DEF LastTold, DueDone
<1>7. Len(outcome') <= Len(pieces')
  BY <1>1, <1>2, <1>4
<1>8. outcome' \in Seq(Hows)
  BY <1>1, <1>4
<1>9. demand \in Demands \cup {<<>>} /\ (pieces = <<>> \/ (demand \in Demands /\ pieces = HunksOf(demand)))
  BY DEF PatchIInv
<1> QED
  BY <1>1, <1>5, <1>6, <1>7, <1>8, <1>9 DEF PatchIInv

LEMMA HunkApplyKeeps == ASSUME PatchIInv, ApplyHunk PROVE PatchIInv'
<1> DEFINE applied == "applied"
<1>1. More /\ HunkFits(NextHunk) /\ Ends(applied)
  BY DEF ApplyHunk
<1>2. applied \in Hows
  BY DEF Hows
<1>3. Due \in Wanted /\ NextHunk = HunkAs(Due)
  BY <1>1, NextIs DEF Due
<1>4. Due.path \in Paths /\ Due.to \in Paths
  BY <1>3 DEF Wanted
<1>5. /\ NextHunk.kind = Due.kind /\ NextHunk.path = Due.path /\ NextHunk.to = Due.to
      /\ NextHunk.chunks = PiecesOf(Due.chunks)
  BY <1>3, HunkAsIs
<1>6. NewText(NextHunk) \in Holds /\ NoText \in Holds
  BY <1>1, NewTextType DEF Holds
<1>7. shelf \in [Paths -> Holds]
  BY DEF PatchIInv
<1>8. shelf' = IF Due.kind = "delete" THEN [shelf EXCEPT ![Due.path] = NoText]
               ELSE [[shelf EXCEPT ![Due.path] = NoText] EXCEPT ![Due.to] = NewText(NextHunk)]
  BY <1>5 DEF ApplyHunk
<1>9. shelf' \in [Paths -> Holds] /\ (Due.kind # "delete" => shelf'[Due.to] = NewText(NextHunk))
  <2> DEFINE v == NewText(NextHunk)
             path == Due.path
             to == Due.to
  <2>1. v \in Holds /\ path \in Paths /\ to \in Paths
    BY <1>4, <1>6
  <2>2. shelf' = IF Due.kind = "delete" THEN [shelf EXCEPT ![path] = NoText]
                 ELSE [[shelf EXCEPT ![path] = NoText] EXCEPT ![to] = v]
    BY <1>8
  <2> HIDE DEF v, path, to
  <2>3. shelf' \in [Paths -> Holds] /\ (Due.kind # "delete" => shelf'[to] = v)
    BY <1>6, <1>7, <2>1, <2>2
  <2> QED
    BY <2>3 DEF v, to
<1>10. DueDone(applied)
  <2> SUFFICES ASSUME Due.kind = "update", shelf[Due.path] # NoText
               PROVE  /\ Derive(shelf[Due.path], PiecesOf(Due.chunks)).ok
                      /\ shelf'[Due.to] = Derive(shelf[Due.path], PiecesOf(Due.chunks)).text
    BY DEF DueDone
  <2>1. Updated = Derive(shelf[Due.path], PiecesOf(Due.chunks))
    BY <1>5 DEF Updated
  <2>2. Updated.ok
    BY <1>1, <1>5 DEF HunkFits
  <2>3. NewText(NextHunk) = Updated.text
    BY <1>5 DEF NewText
  <2> QED
    BY <1>9, <2>1, <2>2, <2>3
<1> HIDE DEF applied
<1> QED
  BY <1>1, <1>2, <1>9, <1>10, EndKeeps

LEMMA HunkRefuseKeeps == ASSUME PatchIInv, RefuseHunk PROVE PatchIInv'
<1> DEFINE refused == "refused"
<1>1. More /\ ~HunkFits(NextHunk) /\ Ends(refused) /\ shelf' = shelf
  BY DEF RefuseHunk
<1>2. refused \in Hows
  BY DEF Hows
<1>3. NextHunk = HunkAs(Due)
  BY <1>1, NextIs DEF Due
<1>4. NextHunk.kind = Due.kind /\ NextHunk.path = Due.path /\ NextHunk.chunks = PiecesOf(Due.chunks)
  BY <1>3, HunkAsIs
<1>5. shelf' \in [Paths -> Holds]
  BY <1>1 DEF PatchIInv
<1>6. DueDone(refused)
  <2> SUFFICES ASSUME Due.kind = "update", shelf[Due.path] # NoText
               PROVE  ~Derive(shelf[Due.path], PiecesOf(Due.chunks)).ok
    BY DEF DueDone
  <2>1. Updated = Derive(shelf[Due.path], PiecesOf(Due.chunks))
    BY <1>4 DEF Updated
  <2> QED
    BY <1>1, <1>4, <2>1 DEF HunkFits
<1> HIDE DEF refused
<1> QED
  BY <1>1, <1>2, <1>5, <1>6, EndKeeps

LEMMA HunkFailKeeps == ASSUME PatchIInv, FailHunk PROVE PatchIInv'
<1> DEFINE failed == "failed"
           v == NewText(NextHunk)
           to == NextHunk.to
           empty == [lines |-> <<>>, nl |-> FALSE]
<1>1. More /\ HunkFits(NextHunk) /\ Ends(failed)
  BY DEF FailHunk
<1>2. failed \in Hows
  BY DEF Hows
<1>3. Due \in Wanted /\ NextHunk = HunkAs(Due)
  BY <1>1, NextIs DEF Due
<1>4. to \in Paths
  <2>1. to = Due.to
    BY <1>3, HunkAsIs
  <2> HIDE DEF to
  <2> QED
    BY <1>3, <2>1 DEF Wanted
<1>5. v \in Holds /\ empty \in Holds
  BY <1>1, NewTextType, EmptyIsAText DEF Holds
<1>6. shelf \in [Paths -> Holds]
  BY DEF PatchIInv
<1>7. shelf' = shelf \/ shelf' = [shelf EXCEPT ![to] = empty] \/ shelf' = [shelf EXCEPT ![to] = v]
  BY DEF FailHunk
<1> HIDE DEF v, to, empty
<1>8. shelf' \in [Paths -> Holds]
  BY <1>4, <1>5, <1>6, <1>7
<1>9. DueDone(failed)
  BY DEF DueDone, failed
<1> HIDE DEF failed
<1> QED
  BY <1>1, <1>2, <1>8, <1>9, EndKeeps

LEMMA PatchInductive == PatchIInv /\ [PatchNext]_patchVars => PatchIInv'
<1> SUFFICES ASSUME PatchIInv, [PatchNext]_patchVars PROVE PatchIInv'
  OBVIOUS
<1>1. CASE demand = <<>> /\ \E list \in Demands : CallPatch(list)
  BY <1>1, PatchCallKeeps
<1>2. CASE ApplyHunk
  BY <1>2, HunkApplyKeeps
<1>3. CASE RefuseHunk
  BY <1>3, HunkRefuseKeeps
<1>4. CASE FailHunk
  BY <1>4, HunkFailKeeps
<1>5. CASE UNCHANGED patchVars
  BY <1>5 DEF patchVars, PatchIInv, LastTold
<1> QED
  BY <1>1, <1>2, <1>3, <1>4, <1>5 DEF PatchNext

LEMMA PatchIsTyped == PatchIInv => PatchTypeOK
<1> SUFFICES ASSUME PatchIInv PROVE PatchTypeOK
  OBVIOUS
<1>1. \A f \in Paths : shelf[f] \in Texts \/ shelf[f] = NoText
  BY DEF PatchIInv, Holds
<1>2. \A t \in Texts : t.nl => t.lines # <<>>
  BY DEF Texts
<1>3. \A k \in DOMAIN outcome : outcome[k] \in Hows
  BY DEF PatchIInv
<1>4. Len(outcome) <= Len(pieces)
  BY DEF PatchIInv
<1> QED
  BY <1>1, <1>2, <1>3, <1>4 DEF PatchTypeOK, Hows

LEMMA PatchIsInOrder == PatchIInv => PatchLandsInOrder
<1> SUFFICES ASSUME PatchIInv, outcome # <<>>, Len(pieces) = Len(demand), demand[Len(outcome)].kind = "update", prior # NoText,
                    NEW h, h = demand[Len(outcome)], NEW lines, lines = prior.lines
             PROVE  /\ /\ Last(outcome) = "applied"
                       /\ ~\E k \in DOMAIN h.chunks : h.chunks[k].eof /\ (k > 1 \/ h.chunks[k].ctx # Blank)
                       /\ ~\E cs \in Meanings(h.chunks) : \E at \in Seats(lines, cs) :
                             LET new == Patched(lines, cs, at) IN new = <<>> \/ EndsBlank(new)
                       => \E cs \in Meanings(h.chunks) : \E at \in Seats(lines, cs) :
                            shelf[h.to] = [lines |-> Patched(lines, cs, at), nl |-> prior.nl]
                    /\ (\A k \in DOMAIN h.chunks : ~h.chunks[k].eof) =>
                         \A cs \in Meanings(h.chunks) :
                           Plain(lines, cs) /\ (\E at \in Seats(lines, cs) : LeavesNone(lines, h.chunks, cs, at))
                             => Last(outcome) # "refused"
  BY DEF PatchLandsInOrder
<1> DEFINE n == Len(outcome)
           d == Derive(prior, PiecesOf(h.chunks))
<1>1. n \in Nat \ {0} /\ Last(outcome) = outcome[n]
  <2>1. outcome \in Seq(Hows)
    BY DEF PatchIInv
  <2> HIDE DEF Hows
  <2> QED
    BY <2>1 DEF Last
<1>2. demand \in Demands /\ n \in 1..Len(demand)
  <2>1. n <= Len(pieces)
    BY DEF PatchIInv
  <2>2. pieces # <<>>
    <3> HIDE DEF n
    <3> QED
      BY <1>1, <2>1
  <2>3. demand \in Demands
    BY <2>2 DEF PatchIInv
  <2>4. Len(demand) \in Nat
    BY <2>3, ListType
  <2> HIDE DEF n
  <2> QED
    BY <1>1, <2>1, <2>3, <2>4
<1>3. h \in Wanted
  BY <1>2, ListType
<1>4. h.chunks \in Seq(Chunk)
  BY <1>3 DEF Wanted
<1>5. prior \in Texts
  BY DEF PatchIInv, Holds
<1>6. lines \in Seq(PatchLine) /\ prior.nl \in BOOLEAN
  BY <1>5 DEF Texts
<1>7. (outcome[n] = "applied" => d.ok /\ shelf[h.to] = d.text) /\ (outcome[n] = "refused" => ~d.ok)
  BY DEF PatchIInv, LastTold
<1> HIDE DEF n
<1>8. ASSUME Last(outcome) = "applied",
             ~\E k \in DOMAIN h.chunks : h.chunks[k].eof /\ (k > 1 \/ h.chunks[k].ctx # Blank),
             ~\E cs \in Meanings(h.chunks) : \E at \in Seats(lines, cs) :
                LET new == Patched(lines, cs, at) IN new = <<>> \/ EndsBlank(new)
      PROVE  \E cs \in Meanings(h.chunks) : \E at \in Seats(lines, cs) :
               shelf[h.to] = [lines |-> Patched(lines, cs, at), nl |-> prior.nl]
  <2>1. d.ok /\ shelf[h.to] = d.text
    BY <1>1, <1>7, <1>8
  <2>2. \A k \in DOMAIN h.chunks : h.chunks[k].eof => k = 1 /\ h.chunks[k].ctx = Blank
    <3>1. \A k \in DOMAIN h.chunks : k \in Nat \ {0}
      BY <1>4
    <3>2. \A k \in Nat \ {0} : ~(k > 1) => k = 1
      OBVIOUS
    <3> QED
      BY <1>8, <3>1, <3>2
  <2>3. \E cs \in Meanings(h.chunks) : \E at \in Seats(prior.lines, cs) :
          /\ Patched(prior.lines, cs, at) \in Seq(PatchLine)
          /\ Derive(prior, PiecesOf(h.chunks)).text = Joined(Patched(prior.lines, cs, at), prior.nl)
    <3> DEFINE chunks == h.chunks
    <3>1. chunks \in Seq(Chunk) /\ Derive(prior, PiecesOf(chunks)).ok
          /\ \A k \in DOMAIN chunks : chunks[k].eof => k = 1 /\ chunks[k].ctx = Blank
      BY <1>4, <2>1, <2>2
    <3> HIDE DEF chunks
    <3>2. \E cs \in Meanings(chunks) : \E at \in Seats(prior.lines, cs) :
            /\ Patched(prior.lines, cs, at) \in Seq(PatchLine)
            /\ Derive(prior, PiecesOf(chunks)).text = Joined(Patched(prior.lines, cs, at), prior.nl)
      BY <1>5, <3>1, UpdateLands
    <3> QED
      BY <3>2 DEF chunks
  <2>4. PICK cs \in Meanings(h.chunks) : \E at \in Seats(lines, cs) :
          Patched(lines, cs, at) \in Seq(PatchLine) /\ d.text = Joined(Patched(lines, cs, at), prior.nl)
    BY <2>3
  <2>5. PICK at \in Seats(lines, cs) : Patched(lines, cs, at) \in Seq(PatchLine) /\ d.text = Joined(Patched(lines, cs, at), prior.nl)
    BY <2>4
  <2> DEFINE new == Patched(lines, cs, at)
  <2>6. new # <<>> /\ ~EndsBlank(new)
    BY <1>8
  <2>7. new \in Seq(PatchLine) /\ d.text = Joined(new, prior.nl)
    BY <2>5
  <2> DEFINE nl == prior.nl
  <2>8. nl \in BOOLEAN
    BY <1>6
  <2> HIDE DEF new, nl
  <2>9. Joined(new, nl) = [lines |-> new, nl |-> nl]
    BY <2>6, <2>7, <2>8, JoinedType
  <2>10. shelf[h.to] = [lines |-> Patched(lines, cs, at), nl |-> prior.nl]
    BY <2>1, <2>7, <2>9 DEF new, nl
  <2> QED
    BY <2>10
<1>9. ASSUME \A k \in DOMAIN h.chunks : ~h.chunks[k].eof, NEW cs \in Meanings(h.chunks), Plain(lines, cs),
             NEW at \in Seats(lines, cs), LeavesNone(lines, h.chunks, cs, at)
      PROVE  Last(outcome) # "refused"
  <2> DEFINE chunks == h.chunks
  <2>1. chunks \in Seq(Chunk) /\ (\A k \in DOMAIN chunks : ~chunks[k].eof) /\ cs \in Meanings(chunks)
        /\ Plain(prior.lines, cs) /\ at \in Seats(prior.lines, cs) /\ LeavesNone(prior.lines, chunks, cs, at)
    BY <1>4, <1>9
  <2> HIDE DEF chunks
  <2>2. Derive(prior, PiecesOf(chunks)).ok
    BY <1>5, <2>1, UpdateIsApplied
  <2>3. d.ok
    BY <2>2 DEF chunks
  <2> QED
    BY <1>1, <1>7, <2>3
<1> QED
  BY <1>8, <1>9

\* A file is a text or not there, no file of no lines ends with a newline, and
\* every hunk that was worked off was read and has one end (apply.go).
THEOREM PatchTypeCorrect == PatchSpec => []PatchTypeOK
<1>1. PatchInit => PatchIInv
  BY PatchStarts
<1>2. PatchIInv /\ [PatchNext]_patchVars => PatchIInv'
  BY PatchInductive
<1>3. PatchIInv => PatchTypeOK
  BY PatchIsTyped
<1> QED
  BY <1>1, <1>2, <1>3, PTL DEF PatchSpec

\* An update that is applied replaces spans of its file, in order, that read as
\* the old lines of its chunks, and no others, and one whose chunks have one
\* place each is applied (parser.go, seek.go, apply.go): for every patch that
\* can be written, every file it may be for, and every number of hunks.
THEOREM PatchesLandInOrder == PatchSpec => []PatchLandsInOrder
<1>1. PatchInit => PatchIInv
  BY PatchStarts
<1>2. PatchIInv /\ [PatchNext]_patchVars => PatchIInv'
  BY PatchInductive
<1>3. PatchIInv => PatchLandsInOrder
  BY PatchIsInOrder
<1> QED
  BY <1>1, <1>2, <1>3, PTL DEF PatchSpec

=============================================================================
